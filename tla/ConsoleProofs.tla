---------------------------- MODULE ConsoleProofs ----------------------------
(***************************************************************************)
(* Proofs about module Console, for every set of readers and of letters,   *)
(* size of the ring and width of its indices: no reader sleeps with        *)
(* something to read, and console.c implements the line discipline.        *)
(***************************************************************************)
EXTENDS Console, RingLemmas

\* Most leaves are first-order and go to Zenon; the others name the SMT solver.
USE ZenonT(30)
-----------------------------------------------------------------------------
(* The ring.                                                               *)

\* cons.buf as a ring: ConsoleAssumption and the types give what the lemmas on
\* rings ask for.
LEMMA RingFacts ==
  TypeOK => /\ IsRing(INPUT_BUF, UMAX) /\ INPUT_BUF \in Nat \ {0} /\ UMAX \in Nat \ {0}
            /\ INPUT_BUF < UMAX /\ UMAX % INPUT_BUF = 0
            /\ r \in Index(UMAX) /\ w \in Index(UMAX) /\ e \in Index(UMAX)
            /\ buf \in Buffers(INPUT_BUF, Stored)
  BY ConsoleAssumption, SMTT(30) DEF TypeOK, IsRing, Index, Buffers

\* The two parts of the ring are sequences.
LEMMA PartsAre ==
  TypeOK => /\ Ready = RingSlice(buf, INPUT_BUF, UMAX, r, w)
            /\ Edit = RingSlice(buf, INPUT_BUF, UMAX, w, e)
            /\ Ready \in Seq(Stored) /\ Len(Ready) = Dist(UMAX, r, w) /\ Len(Ready) \in Nat
            /\ Edit \in Seq(Stored) /\ Len(Edit) = Dist(UMAX, w, e) /\ Len(Edit) \in Nat
            /\ Dist(UMAX, r, e) \in Nat
            /\ Ready = <<>> <=> r = w
            /\ Edit = <<>> <=> w = e
  <1> SUFFICES ASSUME TypeOK
               PROVE  /\ Ready = RingSlice(buf, INPUT_BUF, UMAX, r, w)
                      /\ Edit = RingSlice(buf, INPUT_BUF, UMAX, w, e)
                      /\ Ready \in Seq(Stored) /\ Len(Ready) = Dist(UMAX, r, w) /\ Len(Ready) \in Nat
                      /\ Edit \in Seq(Stored) /\ Len(Edit) = Dist(UMAX, w, e) /\ Len(Edit) \in Nat
                      /\ Dist(UMAX, r, e) \in Nat
                      /\ Ready = <<>> <=> r = w
                      /\ Edit = <<>> <=> w = e
    OBVIOUS
  <1>1. /\ IsRing(INPUT_BUF, UMAX) /\ buf \in Buffers(INPUT_BUF, Stored)
        /\ r \in Index(UMAX) /\ w \in Index(UMAX) /\ e \in Index(UMAX)
    BY RingFacts
  <1>2. Ready = RingSlice(buf, INPUT_BUF, UMAX, r, w) /\ Edit = RingSlice(buf, INPUT_BUF, UMAX, w, e)
    BY DEF Ready, Edit, Slice, RingSlice
  <1>3. Ready \in Seq(Stored) /\ Len(Ready) = Dist(UMAX, r, w) /\ (Ready = <<>> <=> r = w)
    <2>1. /\ RingSlice(buf, INPUT_BUF, UMAX, r, w) \in Seq(Stored)
          /\ Len(RingSlice(buf, INPUT_BUF, UMAX, r, w)) = Dist(UMAX, r, w)
      BY <1>1, SliceIs, SMTT(30)
    <2>2. RingSlice(buf, INPUT_BUF, UMAX, r, w) = <<>> <=> r = w
      BY <1>1, SliceEmpty, SMTT(30)
    <2> QED BY <1>2, <2>1, <2>2
  <1>4. Edit \in Seq(Stored) /\ Len(Edit) = Dist(UMAX, w, e) /\ (Edit = <<>> <=> w = e)
    <2>1. /\ RingSlice(buf, INPUT_BUF, UMAX, w, e) \in Seq(Stored)
          /\ Len(RingSlice(buf, INPUT_BUF, UMAX, w, e)) = Dist(UMAX, w, e)
      BY <1>1, SliceIs, SMTT(30)
    <2>2. RingSlice(buf, INPUT_BUF, UMAX, w, e) = <<>> <=> w = e
      BY <1>1, SliceEmpty, SMTT(30)
    <2> QED BY <1>2, <2>1, <2>2
  <1>5. Dist(UMAX, r, w) \in Nat /\ Dist(UMAX, w, e) \in Nat /\ Dist(UMAX, r, e) \in Nat
    BY RingFacts, DistRange DEF Index
  <1> QED BY <1>2, <1>3, <1>4, <1>5

\* The parts in the next state.
LEMMA PartsNext ==
  /\ Ready' = RingSlice(buf', INPUT_BUF, UMAX, r', w')
  /\ Edit' = RingSlice(buf', INPUT_BUF, UMAX, w', e')
  BY DEF Ready, Edit, Slice, RingSlice

\* IndexInv in the terms of the lemmas on rings.
LEMMA IndexIs ==
  /\ IndexInv <=> /\ Dist(UMAX, r, w) + Dist(UMAX, w, e) = Dist(UMAX, r, e)
                  /\ Dist(UMAX, r, e) <= INPUT_BUF
                  /\ \A k \in 1..Len(Edit) : Edit[k] # Newline
  /\ IndexInv' <=> /\ Dist(UMAX, r', w') + Dist(UMAX, w', e') = Dist(UMAX, r', e')
                   /\ Dist(UMAX, r', e') <= INPUT_BUF
                   /\ \A k \in 1..Len(Edit') : Edit'[k] # Newline
  BY DEF IndexInv, Dist

\* How much there is in the ring.
LEMMA Fill ==
  ASSUME TypeOK, IndexInv
  PROVE  /\ Len(Ready) + Len(Edit) = Dist(UMAX, r, e)
         /\ Dist(UMAX, r, e) <= INPUT_BUF
         /\ HasRoom <=> Len(Ready) + Len(Edit) < INPUT_BUF
         /\ Dist(UMAX, w, e) <= Dist(UMAX, r, e) /\ Dist(UMAX, r, w) <= Dist(UMAX, r, e)
  <1>1. Dist(UMAX, r, w) + Dist(UMAX, w, e) = Dist(UMAX, r, e) /\ Dist(UMAX, r, e) <= INPUT_BUF
    BY IndexIs
  <1>2. /\ Len(Ready) = Dist(UMAX, r, w) /\ Len(Ready) \in Nat
        /\ Len(Edit) = Dist(UMAX, w, e) /\ Len(Edit) \in Nat /\ Dist(UMAX, r, e) \in Nat
    BY PartsAre
  <1>3. HasRoom <=> Dist(UMAX, r, e) < INPUT_BUF
    BY DEF HasRoom, Dist
  <1> QED BY <1>1, <1>2, <1>3, SMTT(30)

\* The line being typed, entry by entry.
LEMMA EditIs ==
  ASSUME TypeOK
  PROVE  Edit = [m \in 1..Dist(UMAX, w, e) |-> buf[(w + m - 1) % INPUT_BUF]]
  BY DEF Edit, Slice, Dist

\* The two parts follow one another.
LEMMA PartsJoin ==
  ASSUME TypeOK, IndexInv
  PROVE  /\ RingSlice(buf, INPUT_BUF, UMAX, r, e) = Ready \o Edit
         /\ \A x \in Stored : Ready \o Append(Edit, x) = Append(Ready \o Edit, x)
  <1>1. /\ IsRing(INPUT_BUF, UMAX) /\ buf \in Buffers(INPUT_BUF, Stored)
        /\ r \in Index(UMAX) /\ w \in Index(UMAX) /\ e \in Index(UMAX)
    BY RingFacts
  <1>2. Dist(UMAX, r, w) + Dist(UMAX, w, e) = Dist(UMAX, r, e)
    BY IndexIs
  <1>3. RingSlice(buf, INPUT_BUF, UMAX, r, e)
           = RingSlice(buf, INPUT_BUF, UMAX, r, w) \o RingSlice(buf, INPUT_BUF, UMAX, w, e)
    BY <1>1, <1>2, SliceConcat, SMTT(30)
  <1>4. Ready \in Seq(Stored) /\ Edit \in Seq(Stored)
    BY PartsAre
  <1>5. ASSUME NEW x \in Stored PROVE Ready \o Append(Edit, x) = Append(Ready \o Edit, x)
    BY <1>4, ConcatAppend, SMTT(30)
  <1> QED BY <1>3, <1>5, PartsAre

\* A character is stored at e.
LEMMA StoreFacts ==
  ASSUME TypeOK, IndexInv, HasRoom, NEW x \in Stored,
         buf' = [buf EXCEPT ![e % INPUT_BUF] = x], e' = Incr(e), r' = r
  PROVE  /\ buf' \in [0..(INPUT_BUF - 1) -> Stored] /\ e' \in 0..(UMAX - 1) /\ e' \in Index(UMAX)
         /\ buf' = RingPut(buf, INPUT_BUF, e, x) /\ e' = RingNext(UMAX, e)
         /\ Dist(UMAX, r, e) < INPUT_BUF /\ Dist(UMAX, r, e) + 1 < UMAX
         /\ Dist(UMAX, r', e') = Dist(UMAX, r, e) + 1
         /\ Incr(e) = (r + INPUT_BUF) % UMAX <=> Dist(UMAX, r, e) + 1 = INPUT_BUF
  <1>1. /\ INPUT_BUF \in Nat \ {0} /\ UMAX \in Nat \ {0} /\ INPUT_BUF < UMAX
        /\ r \in 0..(UMAX - 1) /\ e \in 0..(UMAX - 1)
    BY RingFacts DEF Index
  <1>2. Dist(UMAX, r, e) < INPUT_BUF /\ Dist(UMAX, r, e) \in Nat
    BY PartsAre DEF HasRoom, Dist
  <1>3. Dist(UMAX, r, e) + 1 < UMAX
    BY <1>1, <1>2, SMTT(30)
  <1>4. e' \in 0..(UMAX - 1)
    BY <1>1, IncrIs DEF Incr
  <1>5. Dist(UMAX, r', e') = Dist(UMAX, r, e) + 1
    BY <1>1, <1>3, DistIncrTo DEF Incr
  <1>6. INPUT_BUF \in Nat /\ UMAX \in Nat
    BY <1>1
  <1>7. e' = (r + INPUT_BUF) % UMAX <=> Dist(UMAX, r, e') = INPUT_BUF
    BY <1>1, <1>4, <1>6, FullDist, SMTT(30)
  <1>8. Incr(e) = (r + INPUT_BUF) % UMAX <=> Dist(UMAX, r, e) + 1 = INPUT_BUF
    BY <1>5, <1>7
  <1>9. buf' \in [0..(INPUT_BUF - 1) -> Stored]
    BY DEF TypeOK
  <1>10. buf' = RingPut(buf, INPUT_BUF, e, x) /\ e' = RingNext(UMAX, e) /\ e' \in Index(UMAX)
    BY <1>4 DEF RingPut, RingNext, Incr, Index
  <1> QED BY <1>2, <1>3, <1>4, <1>5, <1>8, <1>9, <1>10

\* It joins the line being typed.
LEMMA StoreInLine ==
  ASSUME TypeOK, IndexInv, HasRoom, NEW x \in Stored, x # Newline,
         buf' = [buf EXCEPT ![e % INPUT_BUF] = x], e' = Incr(e), r' = r, w' = w
  PROVE  /\ Ready' = Ready /\ Edit' = Append(Edit, x) /\ IndexInv'
  <1>1. /\ e' \in Index(UMAX) /\ buf' = RingPut(buf, INPUT_BUF, e, x) /\ e' = RingNext(UMAX, e)
        /\ Dist(UMAX, r, e) < INPUT_BUF /\ Dist(UMAX, r, e) + 1 < UMAX
        /\ Dist(UMAX, r', e') = Dist(UMAX, r, e) + 1
    BY StoreFacts
  <1>2. /\ Dist(UMAX, w, e) <= Dist(UMAX, r, e) /\ Dist(UMAX, r, w) <= Dist(UMAX, r, e)
        /\ Dist(UMAX, r, w) + Dist(UMAX, w, e) = Dist(UMAX, r, e)
    BY Fill, IndexIs
  <1>3. /\ Dist(UMAX, w, e) \in Nat /\ Dist(UMAX, r, e) \in Nat /\ Dist(UMAX, r, w) \in Nat
        /\ INPUT_BUF \in Nat /\ UMAX \in Nat
    BY PartsAre, RingFacts
  <1>4. Dist(UMAX, w, e) < INPUT_BUF /\ Dist(UMAX, w, e) + 1 < UMAX
    BY <1>1, <1>2, <1>3, SMTT(30)
  <1>5. RingSlice(RingPut(buf, INPUT_BUF, e, x), INPUT_BUF, UMAX, w, RingNext(UMAX, e))
           = Append(RingSlice(buf, INPUT_BUF, UMAX, w, e), x)
    BY <1>4, RingFacts, SliceAppend, SMTT(30)
  <1>6. RingSlice(RingPut(buf, INPUT_BUF, e, x), INPUT_BUF, UMAX, r, w)
           = RingSlice(buf, INPUT_BUF, UMAX, r, w)
    BY <1>1, <1>2, RingFacts, SliceKeep, SMTT(30)
  <1>7. Edit' = Append(Edit, x) /\ Ready' = Ready
    BY <1>1, <1>5, <1>6, PartsAre, PartsNext
  <1>8. Dist(UMAX, w', e') = Dist(UMAX, w, e) + 1
    BY <1>4, RingFacts, DistIncrTo DEF Index, Incr
  <1>9. Dist(UMAX, r', w') + Dist(UMAX, w', e') = Dist(UMAX, r', e') /\ Dist(UMAX, r', e') <= INPUT_BUF
    BY <1>1, <1>2, <1>3, <1>8, SMTT(30)
  <1>10. \A k \in 1..Len(Edit') : Edit'[k] # Newline
    <2>1. /\ Len(Edit') = Len(Edit) + 1 /\ Edit'[Len(Edit) + 1] = x
          /\ \A k \in 1..Len(Edit) : Edit'[k] = Edit[k]
      BY <1>7, PartsAre, AppendIs, SMTT(30)
    <2>2. Len(Edit) \in Nat /\ \A k \in 1..Len(Edit) : Edit[k] # Newline
      BY PartsAre, IndexIs
    <2> SUFFICES ASSUME NEW k \in 1..(Len(Edit) + 1) PROVE Edit'[k] # Newline
      BY <2>1
    <2>3. k = Len(Edit) + 1 \/ k \in 1..Len(Edit)
      BY <2>2, SMTT(30)
    <2> QED BY <2>1, <2>2, <2>3
  <1> QED BY <1>7, <1>9, <1>10, IndexIs

\* It is committed, with the line being typed.
LEMMA StoreAndCommit ==
  ASSUME TypeOK, IndexInv, HasRoom, NEW x \in Stored,
         buf' = [buf EXCEPT ![e % INPUT_BUF] = x], e' = Incr(e), r' = r, w' = Incr(e)
  PROVE  Ready' = Ready \o Append(Edit, x) /\ Edit' = <<>> /\ IndexInv'
  <1>1. /\ e' \in Index(UMAX) /\ buf' = RingPut(buf, INPUT_BUF, e, x) /\ e' = RingNext(UMAX, e)
        /\ Dist(UMAX, r, e) < INPUT_BUF /\ Dist(UMAX, r, e) + 1 < UMAX
        /\ Dist(UMAX, r', e') = Dist(UMAX, r, e) + 1
        /\ buf' \in [0..(INPUT_BUF - 1) -> Stored]
    BY StoreFacts
  <1>2. RingSlice(RingPut(buf, INPUT_BUF, e, x), INPUT_BUF, UMAX, r, RingNext(UMAX, e))
           = Append(RingSlice(buf, INPUT_BUF, UMAX, r, e), x)
    BY <1>1, RingFacts, SliceAppend, SMTT(30)
  <1>3. RingSlice(buf, INPUT_BUF, UMAX, r, e) = Ready \o Edit
    BY PartsJoin
  <1>4. Ready' = Append(Ready \o Edit, x)
    BY <1>1, <1>2, <1>3, PartsNext
  <1>5. Ready' = Ready \o Append(Edit, x)
    BY <1>4, PartsJoin
  <1>6. Edit' = <<>>
    <2>1. buf' \in Buffers(INPUT_BUF, Stored) /\ w' = e' /\ IsRing(INPUT_BUF, UMAX)
      BY <1>1, RingFacts DEF Buffers
    <2>2. RingSlice(buf', INPUT_BUF, UMAX, w', e') = <<>>
      BY <1>1, <2>1, SliceEmpty, SMTT(30)
    <2> QED BY <2>2, PartsNext
  <1>7. Dist(UMAX, w', e') = 0
    BY <1>1, RingFacts, DistSelf DEF Index
  <1>8. Dist(UMAX, r', w') + Dist(UMAX, w', e') = Dist(UMAX, r', e') /\ Dist(UMAX, r', e') <= INPUT_BUF
    <2>1. Dist(UMAX, r, e) \in Nat /\ INPUT_BUF \in Nat /\ w' = e'
      BY PartsAre, RingFacts
    <2> QED BY <1>1, <1>7, <2>1, SMTT(30)
  <1>9. \A k \in 1..Len(Edit') : Edit'[k] # Newline
    BY <1>6, SMTT(30)
  <1> QED BY <1>5, <1>6, <1>8, <1>9, IndexIs

\* The last character of the line is erased.
LEMMA EraseLast ==
  ASSUME TypeOK, IndexInv, e # w, e' = Decr(e), UNCHANGED <<buf, r, w>>
  PROVE  /\ Edit # <<>> /\ Edit' = SubSeq(Edit, 1, Len(Edit) - 1) /\ Ready' = Ready /\ IndexInv'
         /\ e' \in 0..(UMAX - 1)
  <1>1. /\ UMAX \in Nat \ {0} /\ e \in 0..(UMAX - 1) /\ w \in 0..(UMAX - 1) /\ r \in 0..(UMAX - 1)
    BY RingFacts DEF Index
  <1>2. e' \in 0..(UMAX - 1)
    BY <1>1, DecrIs DEF Decr
  <1>3. RingSlice(buf, INPUT_BUF, UMAX, w, (e - 1) % UMAX)
           = SubSeq(RingSlice(buf, INPUT_BUF, UMAX, w, e), 1, Len(RingSlice(buf, INPUT_BUF, UMAX, w, e)) - 1)
    BY RingFacts, SliceFront, SMTT(30)
  <1>4. Edit' = SubSeq(Edit, 1, Len(Edit) - 1) /\ Ready' = Ready
    BY <1>3, PartsAre, PartsNext DEF Decr
  <1>5. Edit # <<>> /\ Len(Edit) \in Nat /\ Len(Edit) # 0 /\ Edit \in Seq(Stored)
    BY PartsAre, SMTT(30)
  <1>6. Dist(UMAX, w', e') = Dist(UMAX, w, e) - 1
    BY <1>1, DistDecrTo DEF Decr
  <1>7. /\ Dist(UMAX, r, w) + Dist(UMAX, w, e) = Dist(UMAX, r, e) /\ Dist(UMAX, r, e) <= INPUT_BUF
        /\ Dist(UMAX, r, w) \in Nat /\ Dist(UMAX, w, e) \in Nat /\ Dist(UMAX, r, e) \in Nat
        /\ Dist(UMAX, w, e) # 0 /\ INPUT_BUF \in Nat
    BY <1>5, IndexIs, PartsAre, RingFacts
  <1>8. Dist(UMAX, r', e') = Dist(UMAX, r, e) - 1
    <2>1. r # e
      BY <1>1, <1>7, DistSelf, SMTT(30)
    <2> QED BY <1>1, <2>1, DistDecrTo DEF Decr
  <1>9. Dist(UMAX, r', w') + Dist(UMAX, w', e') = Dist(UMAX, r', e') /\ Dist(UMAX, r', e') <= INPUT_BUF
    BY <1>6, <1>7, <1>8, SMTT(30)
  <1>10. \A k \in 1..Len(Edit') : Edit'[k] # Newline
    <2>1. Len(Edit') = Len(Edit) - 1 /\ \A k \in 1..(Len(Edit) - 1) : Edit'[k] = Edit[k]
      BY <1>4, <1>5, FrontIs
    <2>2. \A k \in 1..Len(Edit) : Edit[k] # Newline
      BY IndexIs
    <2> QED BY <1>5, <2>1, <2>2, SMTT(30)
  <1> QED BY <1>2, <1>4, <1>5, <1>9, <1>10, IndexIs

\* ^U goes back to w: there is no newline before it.
LEMMA LineStartIs ==
  ASSUME TypeOK, IndexInv
  PROVE  LineStart = w
  <1>1. /\ INPUT_BUF \in Nat \ {0} /\ UMAX \in Nat \ {0} /\ INPUT_BUF < UMAX /\ UMAX % INPUT_BUF = 0
        /\ w \in 0..(UMAX - 1) /\ e \in 0..(UMAX - 1) /\ UMAX \in Int
    BY RingFacts, SMTT(30) DEF Index
  <1> DEFINE d == Dist(UMAX, w, e)
             stop == {k \in 0..INPUT_BUF : \/ (e - k) % UMAX = w
                                           \/ buf[((e - k - 1) % UMAX) % INPUT_BUF] = Newline}
  <1>2. d \in 0..INPUT_BUF /\ d = Len(Edit) /\ d = (IF e >= w THEN e - w ELSE e - w + UMAX)
    <2>1. d \in Nat /\ d = Len(Edit) /\ d <= Dist(UMAX, r, e) /\ Dist(UMAX, r, e) <= INPUT_BUF
          /\ Dist(UMAX, r, e) \in Nat
      BY Fill, PartsAre
    <2>2. d = IF e >= w THEN e - w ELSE e - w + UMAX
      BY <1>1, DistIs
    <2> HIDE DEF d
    <2> QED BY <1>1, <2>1, <2>2, SMTT(30)
  <1> HIDE DEF d
  <1>3. \A k \in 0..INPUT_BUF : (e - k) % UMAX = (IF e >= k THEN e - k ELSE e - k + UMAX)
    <2> SUFFICES ASSUME NEW k \in 0..INPUT_BUF
                 PROVE  (e - k) % UMAX = (IF e >= k THEN e - k ELSE e - k + UMAX)
      OBVIOUS
    <2>1. k \in 0..(UMAX - 1)
      BY <1>1, SMTT(30)
    <2> QED BY <1>1, <2>1, DistIs DEF Dist
  <1>4. (e - d) % UMAX = w
    <2>1. (e - d) % UMAX = (IF e >= d THEN e - d ELSE e - d + UMAX)
      BY <1>2, <1>3
    <2>2. w = (IF e >= d THEN e - d ELSE e - d + UMAX)
      BY <1>1, <1>2, SMTT(30)
    <2> QED BY <2>1, <2>2
  <1>5. \A k \in 0..INPUT_BUF : k < d => /\ (e - k) % UMAX # w
                                         /\ buf[((e - k - 1) % UMAX) % INPUT_BUF] # Newline
    <2> SUFFICES ASSUME NEW k \in 0..INPUT_BUF, k < d
                 PROVE  /\ (e - k) % UMAX # w
                        /\ buf[((e - k - 1) % UMAX) % INPUT_BUF] # Newline
      OBVIOUS
    <2>1. (e - k) % UMAX # w
      <3>1. (e - k) % UMAX = (IF e >= k THEN e - k ELSE e - k + UMAX)
        BY <1>3
      <3>2. w # (IF e >= k THEN e - k ELSE e - k + UMAX)
        BY <1>1, <1>2, SMTT(30)
      <3> QED BY <3>1, <3>2
    <2> DEFINE j == (e - (k + 1)) % UMAX
               i == w + (d - k) - 1
    <2>2. j = (IF e >= k + 1 THEN e - (k + 1) ELSE e - (k + 1) + UMAX)
      <3>1. k + 1 \in 0..INPUT_BUF
        BY <1>1, <1>2, SMTT(30)
      <3> QED BY <1>3, <3>1
    <2> HIDE DEF j
    <2>3. i \in Int /\ j \in Int /\ (j = i \/ i = j + UMAX \/ j = i + UMAX)
      BY <1>1, <1>2, <2>2, SMTT(30)
    <2> HIDE DEF i
    <2>4. (i + UMAX) % INPUT_BUF = i % INPUT_BUF /\ (j + UMAX) % INPUT_BUF = j % INPUT_BUF
      BY <1>1, <2>3, ModAdd
    <2>5. j % INPUT_BUF = i % INPUT_BUF
      BY <2>3, <2>4
    <2>6. d - k \in 1..Len(Edit) /\ Edit[d - k] = buf[i % INPUT_BUF]
      <3>1. Edit = [m \in 1..Dist(UMAX, w, e) |-> buf[(w + m - 1) % INPUT_BUF]]
        BY EditIs
      <3>2. d - k \in 1..d
        BY <1>2, SMTT(30)
      <3>3. Edit[d - k] = buf[(w + (d - k) - 1) % INPUT_BUF]
        BY <3>1, <3>2 DEF d
      <3> QED BY <1>2, <3>2, <3>3 DEF i
    <2>7. buf[j % INPUT_BUF] # Newline
      BY <2>5, <2>6, IndexIs
    <2>8. e - k - 1 = e - (k + 1)
      BY <1>1, SMTT(30)
    <2> QED BY <2>1, <2>7, <2>8 DEF j
  <1>6. d \in stop /\ \A y \in stop : d <= y
    <2>1. d \in stop
      BY <1>2, <1>4
    <2>2. \A y \in stop : y \in 0..INPUT_BUF /\ ~(y < d)
      BY <1>5
    <2> QED BY <1>2, <2>1, <2>2, SMTT(30)
  <1>7. Min(stop) \in stop /\ \A y \in stop : Min(stop) <= y
    <2>1. \E x \in stop : \A y \in stop : x <= y
      BY <1>6
    <2> HIDE DEF stop
    <2> QED BY <2>1 DEF Min
  <1>8. Min(stop) = d
    <2>1. Min(stop) \in 0..INPUT_BUF
      BY <1>7
    <2> HIDE DEF stop
    <2>2. d <= Min(stop) /\ Min(stop) <= d
      BY <1>6, <1>7
    <2> QED BY <1>2, <2>1, <2>2, SMTT(30)
  <1> QED BY <1>4, <1>8 DEF LineStart

\* The line being typed is killed.
LEMMA KillEdit ==
  ASSUME TypeOK, IndexInv, e' = w, UNCHANGED <<buf, r, w>>
  PROVE  Edit' = <<>> /\ Ready' = Ready /\ IndexInv'
  <1>1. Edit' = <<>> /\ Ready' = Ready
    BY RingFacts, SliceEmpty, PartsAre, PartsNext, SMTT(30)
  <1>2. Dist(UMAX, w', e') = 0
    BY RingFacts, DistSelf DEF Index
  <1>3. /\ Dist(UMAX, r, w) <= Dist(UMAX, r, e) /\ Dist(UMAX, r, e) <= INPUT_BUF
        /\ Dist(UMAX, r, w) \in Nat /\ Dist(UMAX, r, e) \in Nat /\ INPUT_BUF \in Nat
    BY Fill, PartsAre, RingFacts
  <1>4. Dist(UMAX, r', w') + Dist(UMAX, w', e') = Dist(UMAX, r', e') /\ Dist(UMAX, r', e') <= INPUT_BUF
    BY <1>2, <1>3, SMTT(30)
  <1> QED BY <1>1, <1>4, IndexIs, SMTT(30)

\* consoleread() takes the character at r.
LEMMA TakeOne ==
  ASSUME TypeOK, IndexInv, r # w, r' = Incr(r), UNCHANGED <<buf, w, e>>
  PROVE  /\ Ready # <<>> /\ Head(Ready) = Next1 /\ Ready' = Tail(Ready) /\ Edit' = Edit /\ IndexInv'
         /\ r' \in 0..(UMAX - 1)
  <1>1. /\ UMAX \in Nat \ {0} /\ e \in 0..(UMAX - 1) /\ w \in 0..(UMAX - 1) /\ r \in 0..(UMAX - 1)
    BY RingFacts DEF Index
  <1>2. r' \in 0..(UMAX - 1)
    BY <1>1, IncrIs DEF Incr
  <1>3. /\ Head(RingSlice(buf, INPUT_BUF, UMAX, r, w)) = buf[r % INPUT_BUF]
        /\ RingSlice(buf, INPUT_BUF, UMAX, RingNext(UMAX, r), w)
              = Tail(RingSlice(buf, INPUT_BUF, UMAX, r, w))
    BY RingFacts, SliceTail
  <1>4. Ready # <<>> /\ Head(Ready) = Next1 /\ Ready' = Tail(Ready) /\ Edit' = Edit
    BY <1>3, PartsAre, PartsNext DEF Next1, RingNext, Incr
  <1>5. /\ Dist(UMAX, r, w) + Dist(UMAX, w, e) = Dist(UMAX, r, e) /\ Dist(UMAX, r, e) <= INPUT_BUF
        /\ Dist(UMAX, r, w) \in Nat /\ Dist(UMAX, w, e) \in Nat /\ Dist(UMAX, r, e) \in Nat
        /\ INPUT_BUF \in Nat
    BY IndexIs, PartsAre, RingFacts
  <1>6. Dist(UMAX, r, w) # 0
    BY <1>1, DistZero
  <1>7. Dist(UMAX, r', w') = Dist(UMAX, r, w) - 1
    BY <1>1, DistIncrFrom DEF Incr
  <1>8. Dist(UMAX, r', e') = Dist(UMAX, r, e) - 1
    <2>1. r # e
      BY <1>1, <1>5, <1>6, DistSelf, SMTT(30)
    <2> QED BY <1>1, <2>1, DistIncrFrom DEF Incr
  <1>9. Dist(UMAX, r', w') + Dist(UMAX, w', e') = Dist(UMAX, r', e') /\ Dist(UMAX, r', e') <= INPUT_BUF
    BY <1>5, <1>7, <1>8, SMTT(30)
  <1>10. \A k \in 1..Len(Edit') : Edit'[k] # Newline
    BY <1>4, IndexIs
  <1> QED BY <1>2, <1>4, <1>9, <1>10, IndexIs

\* Nothing happens to the ring.
LEMMA RingSame ==
  ASSUME UNCHANGED <<buf, r, w, e>>
  PROVE  Ready' = Ready /\ Edit' = Edit /\ (IndexInv' <=> IndexInv)
  BY DEF Ready, Edit, Slice, IndexInv
-----------------------------------------------------------------------------
(* The invariant.                                                          *)

\* It holds at the start.
LEMMA InitConsole == Init => ConsoleInv
  <1> SUFFICES ASSUME Init PROVE ConsoleInv
    OBVIOUS
  <1>1. TypeOK
    BY ConsoleAssumption, SMTT(30) DEF Init, TypeOK, Stored, Labels
  <1>2. Dist(UMAX, r, w) = 0 /\ Dist(UMAX, w, e) = 0 /\ Dist(UMAX, r, e) = 0
    BY <1>1, RingFacts, DistSelf DEF Init, Index
  <1>3. Edit = <<>>
    BY <1>1, PartsAre DEF Init
  <1>4. IndexInv
    BY <1>2, <1>3, IndexIs, ConsoleAssumption, SMTT(30)
  <1>5. ReaderInv
    BY ConsoleAssumption, SMTT(30) DEF Init, ReaderInv
  <1> QED BY <1>1, <1>4, <1>5 DEF ConsoleInv

\* ^U.
LEMMA KillLineInv ==
  ASSUME ConsoleInv, NEW x, KillLine(x)
  PROVE  ConsoleInv'
  <1>1. TypeOK /\ IndexInv /\ e' = w /\ UNCHANGED <<buf, r, w, lock, killed, pc, n, target>>
    BY LineStartIs DEF ConsoleInv, KillLine
  <1>2. TypeOK'
    BY <1>1 DEF TypeOK
  <1>3. IndexInv'
    BY <1>1, KillEdit
  <1>4. ReaderInv'
    BY <1>1 DEF ConsoleInv, ReaderInv
  <1> QED BY <1>2, <1>3, <1>4 DEF ConsoleInv

\* Backspace.
LEMMA BackspaceInv ==
  ASSUME ConsoleInv, NEW x, Backspace(x)
  PROVE  ConsoleInv'
  <1>1. TypeOK /\ IndexInv /\ UNCHANGED <<buf, r, w, lock, killed, pc, n, target>>
    BY DEF ConsoleInv, Backspace
  <1>2. IndexInv' /\ e' \in 0..(UMAX - 1)
    <2>1. CASE e = w
      BY <1>1, <2>1, RingSame DEF TypeOK, Backspace
    <2>2. CASE e # w
      BY <1>1, <2>2, EraseLast DEF Backspace
    <2> QED BY <2>1, <2>2
  <1>3. TypeOK'
    BY <1>1, <1>2 DEF TypeOK
  <1>4. ReaderInv'
    BY <1>1 DEF ConsoleInv, ReaderInv
  <1> QED BY <1>2, <1>3, <1>4 DEF ConsoleInv

\* What Default() stores, and when it commits.
LEMMA DefaultIs ==
  ASSUME ConsoleInv, NEW x \in Typed, Default(x)
  PROVE  \E ch \in Stored :
            /\ HasRoom /\ buf' = [buf EXCEPT ![e % INPUT_BUF] = ch] /\ e' = Incr(e)
            /\ UNCHANGED <<r, lock, killed, n, target>> /\ lock = Nobody
            /\ \/ /\ ch \in {Newline, CtrlD} \/ Incr(e) = (r + INPUT_BUF) % UMAX
                  /\ w' = Incr(e) /\ Wake
               \/ /\ ch \notin {Newline, CtrlD} /\ Incr(e) # (r + INPUT_BUF) % UMAX
                  /\ UNCHANGED <<w, pc>>
  <1> DEFINE ch == IF x = Return THEN Newline ELSE x
  <1>1. ch \in Stored
    BY DEF Default, Typed, Stored
  <1>2. /\ HasRoom /\ buf' = [buf EXCEPT ![e % INPUT_BUF] = ch] /\ e' = Incr(e)
        /\ UNCHANGED <<r, lock, killed, n, target>> /\ lock = Nobody
        /\ \/ /\ ch \in {Newline, CtrlD} \/ Incr(e) = (r + INPUT_BUF) % UMAX
              /\ w' = Incr(e) /\ Wake
           \/ /\ ch \notin {Newline, CtrlD} /\ Incr(e) # (r + INPUT_BUF) % UMAX
              /\ UNCHANGED <<w, pc>>
    BY DEF Default
  <1> HIDE DEF ch
  <1> QED BY <1>1, <1>2

\* A character is stored.
LEMMA DefaultInv ==
  ASSUME ConsoleInv, NEW x \in Typed, Default(x)
  PROVE  ConsoleInv'
  <1>1. TypeOK /\ IndexInv /\ ReaderInv
    BY DEF ConsoleInv
  <1>2. PICK ch \in Stored :
            /\ HasRoom /\ buf' = [buf EXCEPT ![e % INPUT_BUF] = ch] /\ e' = Incr(e)
            /\ UNCHANGED <<r, lock, killed, n, target>> /\ lock = Nobody
            /\ \/ /\ ch \in {Newline, CtrlD} \/ Incr(e) = (r + INPUT_BUF) % UMAX
                  /\ w' = Incr(e) /\ Wake
               \/ /\ ch \notin {Newline, CtrlD} /\ Incr(e) # (r + INPUT_BUF) % UMAX
                  /\ UNCHANGED <<w, pc>>
    BY DefaultIs
  <1>3. buf' \in [0..(INPUT_BUF - 1) -> Stored] /\ e' \in 0..(UMAX - 1)
    BY <1>1, <1>2, StoreFacts
  <1>4. CASE w' = Incr(e) /\ Wake
    <2>1. IndexInv'
      BY <1>1, <1>2, <1>4, StoreAndCommit
    <2>2. \A t \in Reader : pc'[t] = IF pc[t] = "asleep" THEN "acquire" ELSE pc[t]
      BY <1>4 DEF Wake, Woken
    <2>3. TypeOK'
      <3>1. pc' \in [Reader -> Labels]
        BY <1>1, <1>4 DEF TypeOK, Wake, Labels
      <3> QED BY <1>1, <1>2, <1>3, <1>4, <3>1 DEF TypeOK
    <2>4. \A t \in Reader : pc[t] \notin {"read", "sleep"}
      BY <1>1, <1>2, ConsoleAssumption DEF ReaderInv
    <2>5. ReaderInv'
      BY <1>1, <1>2, <2>2, <2>4, ConsoleAssumption DEF ReaderInv
    <2> QED BY <2>1, <2>3, <2>5 DEF ConsoleInv
  <1>5. CASE ch \notin {Newline, CtrlD} /\ UNCHANGED <<w, pc>>
    <2>1. IndexInv'
      BY <1>1, <1>2, <1>5, StoreInLine
    <2>2. TypeOK'
      BY <1>1, <1>2, <1>3, <1>5 DEF TypeOK
    <2>3. ReaderInv'
      BY <1>1, <1>2, <1>5 DEF ReaderInv
    <2> QED BY <2>1, <2>2, <2>3 DEF ConsoleInv
  <1> QED BY <1>2, <1>4, <1>5

\* A read starts.
LEMMA CallInv ==
  ASSUME ConsoleInv, NEW t \in Reader, NEW k \in 0..MaxN, Call(t, k)
  PROVE  ConsoleInv'
  <1>1. TypeOK'
    BY DEF ConsoleInv, TypeOK, Call, Labels
  <1>2. IndexInv'
    BY RingSame DEF ConsoleInv, Call
  <1>3. /\ pc'[t] = "acquire" /\ n'[t] = k /\ target'[t] = k /\ pc[t] = "idle" /\ k <= k
        /\ UNCHANGED <<r, w, lock>>
        /\ \A u \in Reader : u # t => pc'[u] = pc[u] /\ n'[u] = n[u] /\ target'[u] = target[u]
    BY SMTT(30) DEF ConsoleInv, TypeOK, Call
  <1>4. ReaderInv'
    BY <1>3 DEF ConsoleInv, ReaderInv
  <1> QED BY <1>1, <1>2, <1>4 DEF ConsoleInv

\* acquire(&cons.lock), on entry or on the way out of sleep().
LEMMA AcquireLockInv ==
  ASSUME ConsoleInv, NEW t \in Reader, AcquireLock(t)
  PROVE  ConsoleInv'
  <1>1. TypeOK'
    BY DEF ConsoleInv, TypeOK, AcquireLock, Labels
  <1>2. IndexInv'
    BY RingSame DEF ConsoleInv, AcquireLock
  <1>3. /\ pc'[t] = "read" /\ lock = Nobody /\ lock' = t /\ UNCHANGED <<r, w, n, target>>
        /\ \A u \in Reader : u # t => pc'[u] = pc[u]
    BY DEF ConsoleInv, TypeOK, AcquireLock
  <1>4. \A u \in Reader : u # t => pc[u] \notin {"read", "sleep"}
    BY <1>3, ConsoleAssumption DEF ConsoleInv, ReaderInv
  <1>5. ReaderInv'
    BY <1>3, <1>4 DEF ConsoleInv, ReaderInv
  <1> QED BY <1>1, <1>2, <1>5 DEF ConsoleInv

\* A read ends: nobody sleeps if it took a character.
LEMMA FinishInv ==
  ASSUME ConsoleInv, NEW t \in Reader, pc[t] = "read", Finish(t),
         IndexInv', r' \in 0..(UMAX - 1), r # w \/ r' = r
  PROVE  ConsoleInv'
  <1>1. TypeOK'
    BY ConsoleAssumption, SMTT(30) DEF ConsoleInv, TypeOK, Finish, Labels
  <1>2. /\ pc'[t] = "idle" /\ lock' = Nobody /\ w' = w /\ n'[t] = 0 /\ target'[t] = 0 /\ 0 <= 0
        /\ \A u \in Reader : u # t => pc'[u] = pc[u] /\ n'[u] = n[u] /\ target'[u] = target[u]
    BY SMTT(30) DEF ConsoleInv, TypeOK, Finish
  <1>3. \A u \in Reader : u # t => pc[u] \notin {"read", "sleep"}
    BY DEF ConsoleInv, ReaderInv
  <1>4. ReaderInv'
    BY <1>2, <1>3, ConsoleAssumption DEF ConsoleInv, ReaderInv
  <1> QED BY <1>1, <1>4 DEF ConsoleInv

\* consoleread() returns with what it has.
LEMMA ReadReturnInv ==
  ASSUME ConsoleInv, NEW t \in Reader, ReadReturn(t)
  PROVE  ConsoleInv'
  <1>1. IndexInv' /\ r' \in 0..(UMAX - 1)
    BY RingSame DEF ConsoleInv, TypeOK, ReadReturn, Finish
  <1> QED BY <1>1, FinishInv DEF ReadReturn

\* consoleread() finds nothing to read.
LEMMA ReadWaitInv ==
  ASSUME ConsoleInv, NEW t \in Reader, ReadWait(t)
  PROVE  ConsoleInv'
  <1>1. TypeOK'
    BY DEF ConsoleInv, TypeOK, ReadWait, Labels
  <1>2. IndexInv'
    BY RingSame DEF ConsoleInv, ReadWait
  <1>3. /\ pc'[t] = "sleep" /\ pc[t] = "read" /\ r = w /\ UNCHANGED <<r, w, lock, n, target>>
        /\ \A u \in Reader : u # t => pc'[u] = pc[u]
    BY DEF ConsoleInv, TypeOK, ReadWait
  <1>4. ReaderInv'
    BY <1>3 DEF ConsoleInv, ReaderInv
  <1> QED BY <1>1, <1>2, <1>4 DEF ConsoleInv

\* sleep(&cons.r, &cons.lock).
LEMMA SleepInv ==
  ASSUME ConsoleInv, NEW t \in Reader, Sleep(t)
  PROVE  ConsoleInv'
  <1>1. TypeOK'
    BY DEF ConsoleInv, TypeOK, Sleep, Labels
  <1>2. IndexInv'
    BY RingSame DEF ConsoleInv, Sleep
  <1>3. /\ pc'[t] = "asleep" /\ pc[t] = "sleep" /\ lock' = Nobody /\ UNCHANGED <<r, w, n, target>>
        /\ \A u \in Reader : u # t => pc'[u] = pc[u]
    BY DEF ConsoleInv, TypeOK, Sleep
  <1>4. \A u \in Reader : u # t => pc[u] \notin {"read", "sleep"}
    BY <1>3 DEF ConsoleInv, ReaderInv
  <1>5. ReaderInv'
    BY <1>3, <1>4, ConsoleAssumption DEF ConsoleInv, ReaderInv
  <1> QED BY <1>1, <1>2, <1>5 DEF ConsoleInv

\* consoleread() meets a ^D.
LEMMA ReadEofInv ==
  ASSUME ConsoleInv, NEW t \in Reader, ReadEof(t)
  PROVE  ConsoleInv'
  <1>1. TypeOK /\ IndexInv /\ UNCHANGED <<buf, w, e>> /\ r # w
    BY DEF ConsoleInv, ReadEof, Finish
  <1>2. CASE r' = r
    <2>1. IndexInv' /\ r' \in 0..(UMAX - 1)
      BY <1>1, <1>2, RingSame DEF TypeOK
    <2> QED BY <1>1, <2>1, FinishInv DEF ReadEof
  <1>3. CASE r' = Incr(r)
    <2>1. IndexInv' /\ r' \in 0..(UMAX - 1)
      BY <1>1, <1>3, TakeOne
    <2> QED BY <1>1, <2>1, FinishInv DEF ReadEof
  <1> QED BY <1>2, <1>3 DEF ReadEof

\* consoleread() takes a character.
LEMMA ReadCharInv ==
  ASSUME ConsoleInv, NEW t \in Reader, ReadChar(t)
  PROVE  ConsoleInv'
  <1>1. TypeOK /\ IndexInv /\ UNCHANGED <<buf, w, e>> /\ r # w /\ r' = Incr(r) /\ pc[t] = "read"
    BY DEF ConsoleInv, ReadChar, Finish
  <1>2. IndexInv' /\ r' \in 0..(UMAX - 1)
    BY <1>1, TakeOne
  <1>3. CASE Next1 = Newline
    BY <1>1, <1>2, <1>3, FinishInv DEF ReadChar
  <1>4. CASE Next1 # Newline
    <2>1. /\ n' = [n EXCEPT ![t] = n[t] - 1] /\ n[t] > 0
          /\ UNCHANGED <<buf, w, e, lock, killed, pc, target>>
      BY <1>4 DEF ReadChar
    <2>2. n[t] \in 0..MaxN /\ n[t] - 1 \in 0..MaxN /\ target[t] \in Nat /\ n[t] - 1 <= target[t]
      BY <1>1, <2>1, ConsoleAssumption, SMTT(30) DEF ConsoleInv, TypeOK, ReaderInv
    <2>3. n' \in [Reader -> 0..MaxN]
      BY <1>1, <2>1, <2>2 DEF TypeOK
    <2>4. TypeOK'
      BY <1>1, <1>2, <2>1, <2>3 DEF TypeOK
    <2>5. \A u \in Reader : n'[u] = IF u = t THEN n[t] - 1 ELSE n[u]
      BY <1>1, <2>1 DEF TypeOK
    <2>6. \A u \in Reader : pc[u] \notin {"sleep", "asleep"}
      BY <1>1 DEF ConsoleInv, ReaderInv
    <2>7. ReaderInv'
      BY <2>1, <2>2, <2>5, <2>6 DEF ConsoleInv, ReaderInv
    <2> QED BY <1>2, <2>4, <2>7 DEF ConsoleInv
  <1> QED BY <1>3, <1>4

\* consoleread() takes a character and cannot copy it out.
LEMMA ReadFaultInv ==
  ASSUME ConsoleInv, NEW t \in Reader, ReadFault(t)
  PROVE  ConsoleInv'
  <1>1. TypeOK /\ IndexInv /\ UNCHANGED <<buf, w, e>> /\ r # w /\ r' = Incr(r)
    BY DEF ConsoleInv, ReadFault, Finish
  <1>2. IndexInv' /\ r' \in 0..(UMAX - 1)
    BY <1>1, TakeOne
  <1> QED BY <1>1, <1>2, FinishInv DEF ReadFault

\* kill() wakes a sleeping reader.
LEMMA KillInv ==
  ASSUME ConsoleInv, NEW t \in Reader, Kill(t)
  PROVE  ConsoleInv'
  <1>1. TypeOK'
    BY DEF ConsoleInv, TypeOK, Kill, Labels
  <1>2. IndexInv'
    BY RingSame DEF ConsoleInv, Kill
  <1>3. /\ pc'[t] = (IF pc[t] = "asleep" THEN "acquire" ELSE pc[t]) /\ UNCHANGED <<r, w, lock, n, target>>
        /\ \A u \in Reader : u # t => pc'[u] = pc[u]
    BY DEF ConsoleInv, TypeOK, Kill
  <1>4. ReaderInv'
    BY <1>3 DEF ConsoleInv, ReaderInv
  <1> QED BY <1>1, <1>2, <1>4 DEF ConsoleInv

\* Every step preserves the invariant.
LEMMA NextConsole == ConsoleInv /\ [Next]_vars => ConsoleInv'
  <1> SUFFICES ASSUME ConsoleInv, [Next]_vars PROVE ConsoleInv'
    OBVIOUS
  <1>1. CASE UNCHANGED vars
    <2>1. IndexInv'
      BY <1>1, RingSame DEF ConsoleInv, vars
    <2>2. TypeOK' /\ ReaderInv'
      BY <1>1 DEF ConsoleInv, vars, TypeOK, ReaderInv
    <2> QED BY <2>1, <2>2 DEF ConsoleInv
  <1>2. ASSUME NEW x \in Typed, ConsoleIntr(x) PROVE ConsoleInv'
    BY <1>1, <1>2, KillLineInv, BackspaceInv, DefaultInv DEF ConsoleIntr, Ignore
  <1>3. ASSUME NEW t \in Reader, ConsoleRead(t) PROVE ConsoleInv'
    BY <1>3, ReadReturnInv, ReadWaitInv, SleepInv, ReadEofInv, ReadCharInv, ReadFaultInv DEF ConsoleRead
  <1>4. ASSUME NEW t \in Reader, (\E k \in 0..MaxN : Call(t, k)) \/ AcquireLock(t) PROVE ConsoleInv'
    BY <1>4, CallInv, AcquireLockInv
  <1>5. ASSUME NEW t \in Killable, Kill(t) PROVE ConsoleInv'
    BY <1>5, KillInv, ConsoleAssumption
  <1> QED BY <1>1, <1>2, <1>3, <1>4, <1>5 DEF Next

\* The indices of cons stay in order however they wrap, and whoever sleeps in
\* consoleread() has nothing to read.
THEOREM ConsoleInvariant == Spec => []ConsoleInv
  <1>1. Init => ConsoleInv
    BY InitConsole
  <1>2. ConsoleInv /\ [Next]_vars => ConsoleInv'
    BY NextConsole
  <1> QED BY <1>1, <1>2, PTL DEF Spec

\* consoleintr() wakes every reader that sleeps when it commits a line, so no
\* reader is left asleep with something to read.
THEOREM NoReaderStranded == Spec => []ReaderNotStranded
  <1>1. ConsoleInv => ReaderNotStranded
    BY DEF ConsoleInv, ReaderInv, ReaderNotStranded
  <1> QED BY <1>1, ConsoleInvariant, PTL
-----------------------------------------------------------------------------
(* The line discipline.                                                    *)

\* What each reader has received, in the next state.
LEMMA GotNext ==
  ASSUME TypeOK, TypeOK', NEW t \in Reader,
         \A u \in Reader : u # t => n'[u] = n[u] /\ target'[u] = target[u]
  PROVE  /\ Got' = [Got EXCEPT ![t] = target'[t] - n'[t]]
         /\ Got[t] = target[t] - n[t]
  BY DEF Got

\* consoleintr() and the line discipline.
LEMMA IntrRefines ==
  ASSUME ConsoleInv, NEW x \in Typed, ConsoleIntr(x)
  PROVE  Discipline!Next \/ UNCHANGED <<Ready, Edit, Got>>
  <1>1. TypeOK /\ IndexInv
    BY DEF ConsoleInv
  <1>2. Got' = Got
    BY DEF ConsoleIntr, KillLine, Backspace, Default, Ignore, vars, Got
  <1>3. CASE KillLine(x)
    <2>1. Edit' = <<>> /\ Ready' = Ready
      BY <1>1, <1>3, LineStartIs, KillEdit DEF KillLine
    <2> QED BY <1>2, <2>1 DEF Discipline!Next, Discipline!KillLine
  <1>4. CASE Backspace(x)
    <2>1. CASE e = w
      BY <1>2, <1>4, <2>1, RingSame DEF Backspace
    <2>2. CASE e # w
      <3>1. Edit # <<>> /\ Edit' = SubSeq(Edit, 1, Len(Edit) - 1) /\ Ready' = Ready
        BY <1>1, <1>4, <2>2, EraseLast DEF Backspace
      <3> QED BY <1>2, <3>1 DEF Discipline!Next, Discipline!Erase
    <2> QED BY <2>1, <2>2
  <1>5. CASE Default(x)
    <2>1. PICK ch \in Stored :
            /\ HasRoom /\ buf' = [buf EXCEPT ![e % INPUT_BUF] = ch] /\ e' = Incr(e)
            /\ UNCHANGED <<r, lock, killed, n, target>> /\ lock = Nobody
            /\ \/ /\ ch \in {Newline, CtrlD} \/ Incr(e) = (r + INPUT_BUF) % UMAX
                  /\ w' = Incr(e) /\ Wake
               \/ /\ ch \notin {Newline, CtrlD} /\ Incr(e) # (r + INPUT_BUF) % UMAX
                  /\ UNCHANGED <<w, pc>>
      BY <1>5, DefaultIs
    <2>2. Len(Ready) + Len(Edit) < INPUT_BUF /\ Len(Ready) + Len(Edit) = Dist(UMAX, r, e)
      BY <1>1, <2>1, Fill
    <2>3. Incr(e) = (r + INPUT_BUF) % UMAX <=> Len(Ready) + Len(Append(Edit, ch)) = INPUT_BUF
      <3>1. Incr(e) = (r + INPUT_BUF) % UMAX <=> Dist(UMAX, r, e) + 1 = INPUT_BUF
        BY <1>1, <2>1, StoreFacts
      <3>2. Len(Append(Edit, ch)) = Len(Edit) + 1 /\ Len(Edit) \in Nat /\ Len(Ready) \in Nat
        BY <1>1, PartsAre, AppendIs
      <3> QED BY <2>2, <3>1, <3>2, SMTT(30)
    <2>4. CASE w' = Incr(e) /\ (ch \in {Newline, CtrlD} \/ Incr(e) = (r + INPUT_BUF) % UMAX)
      <3>1. Ready' = Ready \o Append(Edit, ch) /\ Edit' = <<>>
        BY <1>1, <2>1, <2>4, StoreAndCommit
      <3>2. Discipline!Type(ch)
        BY <1>2, <2>2, <2>3, <2>4, <3>1 DEF Discipline!Type
      <3> QED BY <3>2 DEF Discipline!Next
    <2>5. CASE w' = w /\ ch \notin {Newline, CtrlD} /\ Incr(e) # (r + INPUT_BUF) % UMAX
      <3>1. Ready' = Ready /\ Edit' = Append(Edit, ch)
        BY <1>1, <2>1, <2>5, StoreInLine
      <3>2. Discipline!Type(ch)
        BY <1>2, <2>2, <2>3, <2>5, <3>1 DEF Discipline!Type
      <3> QED BY <3>2 DEF Discipline!Next
    <2> QED BY <2>1, <2>4, <2>5
  <1>6. CASE Ignore(x)
    BY <1>2, <1>6, RingSame DEF Ignore, vars
  <1> QED BY <1>3, <1>4, <1>5, <1>6 DEF ConsoleIntr

\* A read ends, with the ring as it is or a character taken out.
LEMMA FinishRefines ==
  ASSUME ConsoleInv, ConsoleInv', NEW t \in Reader, Finish(t), Edit' = Edit,
         \/ Ready' = Ready
         \/ Ready # <<>> /\ Head(Ready) # CtrlD /\ Ready' = Tail(Ready)
  PROVE  Discipline!Next
  <1>1. /\ n'[t] = 0 /\ target'[t] = 0 /\ TypeOK /\ TypeOK' /\ 0 - 0 = 0
        /\ \A u \in Reader : u # t => n'[u] = n[u] /\ target'[u] = target[u]
    BY SMTT(30) DEF ConsoleInv, TypeOK, Finish
  <1>2. Got' = [Got EXCEPT ![t] = 0]
    BY <1>1, GotNext
  <1>3. Discipline!End(t)
    BY <1>2 DEF Discipline!End
  <1> QED BY <1>3 DEF Discipline!Next

\* A ^D that came first is consumed by a read that has received nothing.
LEMMA EofRefines ==
  ASSUME ConsoleInv, ConsoleInv', NEW t \in Reader, ReadEof(t)
  PROVE  Discipline!Next
  <1>1. /\ TypeOK /\ TypeOK' /\ IndexInv /\ r # w /\ Next1 = CtrlD /\ Finish(t)
        /\ UNCHANGED <<buf, w, e>>
    BY DEF ConsoleInv, ReadEof, Finish
  <1>2. CASE n[t] < target[t]
    <2>1. Ready' = Ready /\ Edit' = Edit
      BY <1>1, <1>2, RingSame DEF ReadEof
    <2> QED BY <1>1, <2>1, FinishRefines
  <1>3. CASE ~(n[t] < target[t])
    <2>1. Ready # <<>> /\ Head(Ready) = CtrlD /\ Ready' = Tail(Ready) /\ Edit' = Edit
      BY <1>1, <1>3, TakeOne DEF ReadEof
    <2>2. target[t] - n[t] = 0
      BY <1>3, ConsoleAssumption, SMTT(30) DEF ConsoleInv, TypeOK, ReaderInv
    <2>3. /\ n'[t] = 0 /\ target'[t] = 0 /\ 0 - 0 = 0
          /\ \A u \in Reader : u # t => n'[u] = n[u] /\ target'[u] = target[u]
      BY <1>1, SMTT(30) DEF TypeOK, Finish
    <2>4. Got[t] = 0 /\ Got' = Got
      <3>1. Got[t] = 0 /\ Got' = [Got EXCEPT ![t] = 0]
        BY <1>1, <2>2, <2>3, GotNext
      <3> QED BY <3>1 DEF Got
    <2>5. Discipline!DeliverEof(t)
      BY <2>1, <2>4 DEF Discipline!DeliverEof
    <2> QED BY <2>5 DEF Discipline!Next
  <1> QED BY <1>2, <1>3

\* A reader receives the oldest character.
LEMMA CharRefines ==
  ASSUME ConsoleInv, ConsoleInv', NEW t \in Reader, ReadChar(t)
  PROVE  Discipline!Next
  <1>1. /\ TypeOK /\ TypeOK' /\ IndexInv /\ r # w /\ Next1 # CtrlD /\ r' = Incr(r)
        /\ UNCHANGED <<buf, w, e>>
    BY DEF ConsoleInv, ReadChar, Finish
  <1>2. Ready # <<>> /\ Head(Ready) # CtrlD /\ Ready' = Tail(Ready) /\ Edit' = Edit
    BY <1>1, TakeOne
  <1>3. CASE Next1 = Newline
    BY <1>2, <1>3, FinishRefines DEF ReadChar
  <1>4. CASE Next1 # Newline
    <2>1. n' = [n EXCEPT ![t] = n[t] - 1] /\ target' = target
      BY <1>4 DEF ReadChar
    <2>2. /\ n'[t] = n[t] - 1 /\ target'[t] = target[t]
          /\ \A u \in Reader : u # t => n'[u] = n[u] /\ target'[u] = target[u]
      BY <1>1, <2>1 DEF TypeOK
    <2>3. target[t] - (n[t] - 1) = (target[t] - n[t]) + 1
      BY <1>1, ConsoleAssumption, SMTT(30) DEF TypeOK
    <2>4. Got' = [Got EXCEPT ![t] = Got[t] + 1]
      BY <1>1, <2>2, <2>3, GotNext, SMTT(30)
    <2>5. Discipline!Deliver(t)
      BY <1>2, <2>4 DEF Discipline!Deliver
    <2> QED BY <2>5 DEF Discipline!Next
  <1> QED BY <1>3, <1>4

\* Every step is a step of the line discipline, or changes none of it.
LEMMA NextRefines ==
  ConsoleInv /\ ConsoleInv' /\ [Next]_vars => [Discipline!Next]_<<Ready, Edit, Got>>
  <1> SUFFICES ASSUME ConsoleInv, ConsoleInv', [Next]_vars
               PROVE  Discipline!Next \/ UNCHANGED <<Ready, Edit, Got>>
    OBVIOUS
  <1>1. ASSUME UNCHANGED <<buf, r, w, e, n, target>> PROVE UNCHANGED <<Ready, Edit, Got>>
    BY <1>1, RingSame DEF Got
  <1>2. CASE UNCHANGED vars
    BY <1>1, <1>2 DEF vars
  <1>3. ASSUME NEW t \in Reader, NEW k \in 0..MaxN, Call(t, k) PROVE UNCHANGED <<Ready, Edit, Got>>
    <2>1. /\ TypeOK /\ TypeOK' /\ n'[t] = k /\ target'[t] = k /\ k - k = 0
          /\ \A u \in Reader : u # t => n'[u] = n[u] /\ target'[u] = target[u]
      BY <1>3, SMTT(30) DEF ConsoleInv, TypeOK, Call
    <2>2. target[t] - n[t] = 0
      <3>1. target[t] = 0 /\ n[t] <= 0 /\ n[t] \in 0..MaxN
        BY <1>3, SMTT(30) DEF ConsoleInv, TypeOK, ReaderInv, Call
      <3> QED BY <3>1, ConsoleAssumption, SMTT(30)
    <2>3. Got' = Got
      <3>1. Got[t] = 0 /\ Got' = [Got EXCEPT ![t] = 0]
        BY <2>1, <2>2, GotNext
      <3> QED BY <3>1 DEF Got
    <2> QED BY <1>3, <2>3, RingSame DEF Call
  <1>4. ASSUME NEW t \in Reader, AcquireLock(t) \/ ReadWait(t) \/ Sleep(t) \/ Kill(t)
        PROVE  UNCHANGED <<Ready, Edit, Got>>
    BY <1>1, <1>4 DEF AcquireLock, ReadWait, Sleep, Kill
  <1>5. ASSUME NEW t \in Reader, ReadReturn(t) PROVE Discipline!Next
    <2>1. Ready' = Ready /\ Edit' = Edit /\ Finish(t)
      BY <1>5, RingSame DEF ReadReturn, Finish
    <2> QED BY <2>1, FinishRefines
  <1>6. ASSUME NEW t \in Reader, ReadFault(t) PROVE Discipline!Next
    <2>1. TypeOK /\ IndexInv /\ r # w /\ Next1 # CtrlD /\ r' = Incr(r) /\ UNCHANGED <<buf, w, e>> /\ Finish(t)
      BY <1>6 DEF ConsoleInv, ReadFault, Finish
    <2>2. Ready # <<>> /\ Head(Ready) # CtrlD /\ Ready' = Tail(Ready) /\ Edit' = Edit
      BY <2>1, TakeOne
    <2> QED BY <2>1, <2>2, FinishRefines
  <1>7. ASSUME NEW t \in Reader, ConsoleRead(t) PROVE Discipline!Next \/ UNCHANGED <<Ready, Edit, Got>>
    BY <1>4, <1>5, <1>6, <1>7, EofRefines, CharRefines DEF ConsoleRead
  <1>8. ASSUME NEW t \in Killable, Kill(t) PROVE UNCHANGED <<Ready, Edit, Got>>
    BY <1>4, <1>8, ConsoleAssumption
  <1> QED BY <1>2, <1>3, <1>4, <1>7, <1>8, IntrRefines DEF Next

\* Typed characters reach readers in order, edited only within their line and
\* never overwritten, and a ^D gives a read that returns nothing, for any
\* number of readers and wherever the indices wrap: console.c implements the
\* line discipline.
THEOREM InputInOrder == Spec => IsLineDiscipline
  <1>1. Init => Discipline!Init
    <2> SUFFICES ASSUME Init PROVE Discipline!Init
      OBVIOUS
    <2>1. Ready = <<>> /\ Edit = <<>>
      BY InitConsole, PartsAre DEF ConsoleInv, Init
    <2>2. Got = [t \in Reader |-> 0]
      BY SMTT(30) DEF Got, Init
    <2> QED BY <2>1, <2>2 DEF Discipline!Init
  <1>2. ConsoleInv /\ ConsoleInv' /\ [Next]_vars => [Discipline!Next]_<<Ready, Edit, Got>>
    BY NextRefines
  <1> QED BY <1>1, <1>2, ConsoleInvariant, PTL DEF Spec, IsLineDiscipline, Discipline!Spec
=============================================================================
