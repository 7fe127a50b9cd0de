----------------------------- MODULE RingLemmas -----------------------------
(***************************************************************************)
(* Rings of P entries with free-running indices that wrap at M, a multiple *)
(* of P: what pipe.c, uart.c, console.c and virtio_disk.c each do with     *)
(* unsigned counters that are reduced modulo the size of the ring only to  *)
(* index it.  The lemmas say that the entries between two indices are a    *)
(* queue, also when the indices wrap.                                      *)
(***************************************************************************)
EXTENDS Integers, Sequences, TLAPS

\* Most leaves are first-order and go to Zenon; the others name the SMT solver.
USE ZenonT(30)

\* A ring of P entries whose indices are counted modulo M.
IsRing(P, M) == P \in Nat \ {0} /\ M \in Nat /\ M >= P /\ M % P = 0

\* What a ring of P entries from S can hold.
Buffers(P, S) == [0..(P - 1) -> S]

\* The values of an index.
Index(M) == 0..(M - 1)

\* The number of entries from index x up to, and without, index y.
Dist(M, x, y) == (y - x) % M

\* x++ on an index.
RingNext(M, x) == (x + 1) % M

\* Writing the entry that index z stands for.
RingPut(buf, P, z, v) == [buf EXCEPT ![z % P] = v]

\* The entries from index x up to, and without, index y.
RingSlice(buf, P, M, x, y) == [k \in 1..((y - x) % M) |-> buf[(x + k - 1) % P]]
-----------------------------------------------------------------------------
(* Remainders.                                                             *)

\* Quotient and remainder.
LEMMA DivMod ==
  ASSUME NEW P \in Nat \ {0}, NEW a \in Int
  PROVE  a \div P \in Int /\ a % P \in 0..(P - 1) /\ a = P * (a \div P) + (a % P)
  <1>1. a \div P \in Int
    BY SMTT(30)
  <1>2. a % P \in 0..(P - 1)
    BY SMTT(30)
  <1>3. a = P * (a \div P) + (a % P)
    BY SMTT(30)
  <1> QED BY <1>1, <1>2, <1>3

\* They are unique.
LEMMA ModUnique ==
  ASSUME NEW P \in Nat \ {0}, NEW a \in Int, NEW q \in Int, NEW c \in 0..(P - 1), a = P * q + c
  PROVE  a % P = c
  BY SMTT(30)

\* No multiple of P lies strictly between two others.
LEMMA NoMultiple ==
  ASSUME NEW P \in Nat \ {0}, NEW q \in Int, 0 < P * q, P * q < P
  PROVE  FALSE
  BY SMTT(30)

\* Adding a multiple of P does not change the remainder.
LEMMA ModAdd ==
  ASSUME NEW P \in Nat \ {0}, NEW a \in Int, NEW m \in Int, m % P = 0
  PROVE  (a + m) % P = a % P
  <1> DEFINE qa == a \div P
             qm == m \div P
             c == a % P
  <1>1. qa \in Int /\ qm \in Int /\ c \in 0..(P - 1) /\ a = P * qa + c /\ m = P * qm
    BY DivMod, SMTT(30)
  <1> HIDE DEF qa, qm, c
  <1>2. a + m = P * (qa + qm) + c
    BY <1>1, SMTT(30)
  <1>3. a + m \in Int /\ qa + qm \in Int
    BY <1>1, SMTT(30)
  <1>4. (a + m) % P = c
    BY <1>1, <1>2, <1>3, ModUnique, SMTT(30)
  <1> QED BY <1>4 DEF c

\* Fewer than P indices in a row have different remainders.
LEMMA ModDistinct ==
  ASSUME NEW P \in Nat \ {0}, NEW a \in Int, NEW z \in Int, a < z, z < a + P
  PROVE  a % P # z % P
  <1> SUFFICES ASSUME a % P = z % P PROVE FALSE
    OBVIOUS
  <1> DEFINE qa == a \div P
             qz == z \div P
             c == a % P
  <1>1. qa \in Int /\ qz \in Int /\ c \in Int /\ a = P * qa + c /\ z = P * qz + c
    BY DivMod, SMTT(30)
  <1> HIDE DEF qa, qz, c
  <1>2. z - a = P * (qz - qa) /\ qz - qa \in Int
    BY <1>1, SMTT(30)
  <1>3. 0 < P * (qz - qa) /\ P * (qz - qa) < P
    BY <1>2, SMTT(30)
  <1> QED BY <1>2, <1>3, NoMultiple
-----------------------------------------------------------------------------
(* Distances.                                                              *)

\* The difference of two unsigned counters.
LEMMA DistIs ==
  ASSUME NEW M \in Nat \ {0}, NEW x \in 0..(M - 1), NEW y \in 0..(M - 1)
  PROVE  Dist(M, x, y) = IF y >= x THEN y - x ELSE y - x + M
  BY SMTT(30) DEF Dist

\* It is a counter too.
LEMMA DistRange ==
  ASSUME NEW M \in Nat \ {0}, NEW x \in 0..(M - 1), NEW y \in 0..(M - 1)
  PROVE  Dist(M, x, y) \in 0..(M - 1) /\ Dist(M, x, y) \in Nat
  BY DistIs, SMTT(30)

\* It is 0 only for equal counters.
LEMMA DistZero ==
  ASSUME NEW M \in Nat \ {0}, NEW x \in 0..(M - 1), NEW y \in 0..(M - 1), Dist(M, x, y) = 0
  PROVE  x = y
  BY DistIs, SMTT(30)

\* No entries from an index to itself.
LEMMA DistSelf ==
  ASSUME NEW M \in Nat \ {0}, NEW x \in 0..(M - 1)
  PROVE  Dist(M, x, x) = 0
  BY DistIs, SMTT(30)

\* x++ on an unsigned counter.
LEMMA IncrIs ==
  ASSUME NEW M \in Nat \ {0}, NEW x \in 0..(M - 1)
  PROVE  /\ (x + 1) % M = IF x + 1 = M THEN 0 ELSE x + 1
         /\ (x + 1) % M \in 0..(M - 1)
  BY SMTT(30)

\* x-- on an unsigned counter.
LEMMA DecrIs ==
  ASSUME NEW M \in Nat \ {0}, NEW x \in 0..(M - 1)
  PROVE  /\ (x - 1) % M = IF x = 0 THEN M - 1 ELSE x - 1
         /\ (x - 1) % M \in 0..(M - 1)
  BY SMTT(30)

\* Adding an entry: the distance grows unless it would wrap.
LEMMA DistIncrTo ==
  ASSUME NEW M \in Nat \ {0}, NEW x \in 0..(M - 1), NEW y \in 0..(M - 1), Dist(M, x, y) + 1 < M
  PROVE  Dist(M, x, (y + 1) % M) = Dist(M, x, y) + 1
  <1> DEFINE z == (y + 1) % M
  <1>1. z \in 0..(M - 1) /\ z = IF y + 1 = M THEN 0 ELSE y + 1
    BY IncrIs
  <1> HIDE DEF z
  <1>2. Dist(M, x, z) = IF z >= x THEN z - x ELSE z - x + M
    BY <1>1, DistIs
  <1>3. Dist(M, x, y) = IF y >= x THEN y - x ELSE y - x + M
    BY DistIs
  <1>4. Dist(M, x, z) = Dist(M, x, y) + 1
    BY <1>1, <1>2, <1>3, SMTT(30)
  <1> QED BY <1>4 DEF z

\* Taking an entry: the distance shrinks.
LEMMA DistIncrFrom ==
  ASSUME NEW M \in Nat \ {0}, NEW x \in 0..(M - 1), NEW y \in 0..(M - 1), x # y
  PROVE  Dist(M, (x + 1) % M, y) = Dist(M, x, y) - 1
  <1> DEFINE z == (x + 1) % M
  <1>1. z \in 0..(M - 1) /\ z = IF x + 1 = M THEN 0 ELSE x + 1
    BY IncrIs
  <1> HIDE DEF z
  <1>2. Dist(M, z, y) = IF y >= z THEN y - z ELSE y - z + M
    <2>1. z \in 0..(M - 1)
      BY <1>1
    <2> QED BY <2>1, DistIs
  <1>3. Dist(M, x, y) = IF y >= x THEN y - x ELSE y - x + M
    BY DistIs
  <1>4. Dist(M, z, y) = Dist(M, x, y) - 1
    BY <1>1, <1>2, <1>3, SMTT(30)
  <1> QED BY <1>4 DEF z

\* Erasing the last entry: the distance shrinks.
LEMMA DistDecrTo ==
  ASSUME NEW M \in Nat \ {0}, NEW x \in 0..(M - 1), NEW y \in 0..(M - 1), x # y
  PROVE  Dist(M, x, (y - 1) % M) = Dist(M, x, y) - 1
  <1> DEFINE z == (y - 1) % M
  <1>1. z \in 0..(M - 1) /\ z = IF y = 0 THEN M - 1 ELSE y - 1
    BY DecrIs
  <1> HIDE DEF z
  <1>2. Dist(M, x, z) = IF z >= x THEN z - x ELSE z - x + M
    BY <1>1, DistIs
  <1>3. Dist(M, x, y) = IF y >= x THEN y - x ELSE y - x + M
    BY DistIs
  <1>4. Dist(M, x, z) = Dist(M, x, y) - 1
    BY <1>1, <1>2, <1>3, SMTT(30)
  <1> QED BY <1>4 DEF z

\* "w == r + P" in unsigned arithmetic: the ring is full.
LEMMA FullDist ==
  ASSUME NEW P \in Nat, NEW M \in Nat, P < M, NEW x \in 0..(M - 1), NEW y \in 0..(M - 1)
  PROVE  y = (x + P) % M <=> Dist(M, x, y) = P
  <1>1. (x + P) % M = IF x + P < M THEN x + P ELSE x + P - M
    BY SMTT(30)
  <1>2. Dist(M, x, y) = IF y >= x THEN y - x ELSE y - x + M
    BY DistIs, SMTT(30)
  <1> QED BY <1>1, <1>2, SMTT(30)

\* Counting on from the lower index leads, in the ring, to the upper one.
LEMMA DistReaches ==
  ASSUME NEW P, NEW M, IsRing(P, M), NEW x \in 0..(M - 1), NEW y \in 0..(M - 1)
  PROVE  (x + Dist(M, x, y)) % P = y % P
  <1>1. P \in Nat \ {0} /\ M \in Nat \ {0} /\ M \in Int /\ M % P = 0 /\ y \in Int
    BY SMTT(30) DEF IsRing
  <1>2. Dist(M, x, y) = IF y >= x THEN y - x ELSE y - x + M
    BY <1>1, DistIs
  <1>3. (y + M) % P = y % P
    BY <1>1, ModAdd
  <1>4. x + Dist(M, x, y) = y \/ x + Dist(M, x, y) = y + M
    BY <1>1, <1>2, SMTT(30)
  <1> QED BY <1>3, <1>4

\* Counting from the next index.
LEMMA NextIndex ==
  ASSUME NEW P, NEW M, IsRing(P, M), NEW x \in 0..(M - 1), NEW k \in Nat
  PROVE  (((x + 1) % M) + k) % P = (x + 1 + k) % P
  <1>1. P \in Nat \ {0} /\ M \in Nat \ {0} /\ M \in Int /\ M % P = 0 /\ k \in Int
    BY SMTT(30) DEF IsRing
  <1> DEFINE z == (x + 1) % M
  <1>2. z = IF x + 1 = M THEN 0 ELSE x + 1
    BY <1>1, IncrIs, SMTT(30)
  <1> HIDE DEF z
  <1>3. (k + M) % P = k % P
    BY <1>1, ModAdd
  <1>4. CASE x + 1 = M
    <2>1. z + k = k /\ x + 1 + k = k + M
      BY <1>1, <1>2, <1>4, SMTT(30)
    <2> QED BY <1>3, <2>1 DEF z
  <1>5. CASE x + 1 # M
    <2>1. z + k = x + 1 + k
      BY <1>2, <1>5
    <2> QED BY <2>1 DEF z
  <1> QED BY <1>4, <1>5
-----------------------------------------------------------------------------
(* Sequences.                                                              *)

\* Sequences are equal when their elements are.
LEMMA SeqEqual ==
  ASSUME NEW S, NEW s \in Seq(S), NEW t \in Seq(S),
         Len(s) = Len(t), \A k \in 1..Len(s) : s[k] = t[k]
  PROVE  s = t
  BY SMTT(30)

\* What Append() does.
LEMMA AppendIs ==
  ASSUME NEW S, NEW s \in Seq(S), NEW v \in S
  PROVE  /\ Append(s, v) \in Seq(S) /\ Len(Append(s, v)) = Len(s) + 1
         /\ \A k \in 1..Len(s) : Append(s, v)[k] = s[k]
         /\ Append(s, v)[Len(s) + 1] = v
  BY SMTT(30)

\* What Head() and Tail() do.
LEMMA TailIs ==
  ASSUME NEW S, NEW s \in Seq(S), s # <<>>
  PROVE  /\ Tail(s) \in Seq(S) /\ Len(Tail(s)) = Len(s) - 1
         /\ \A k \in 1..(Len(s) - 1) : Tail(s)[k] = s[k + 1]
         /\ Head(s) = s[1]
  BY SMTT(30)

\* What \o does.
LEMMA ConcatIs ==
  ASSUME NEW S, NEW s \in Seq(S), NEW t \in Seq(S)
  PROVE  /\ s \o t \in Seq(S) /\ Len(s \o t) = Len(s) + Len(t)
         /\ \A k \in 1..(Len(s) + Len(t)) :
               (s \o t)[k] = IF k <= Len(s) THEN s[k] ELSE t[k - Len(s)]
  BY SMTT(30)

\* All but the last element.
LEMMA FrontIs ==
  ASSUME NEW S, NEW s \in Seq(S), Len(s) # 0
  PROVE  LET f == SubSeq(s, 1, Len(s) - 1) IN
         /\ f \in Seq(S) /\ Len(f) = Len(s) - 1
         /\ \A k \in 1..(Len(s) - 1) : f[k] = s[k]
  <1> DEFINE m == Len(s) - 1
  <1>1. m \in Nat /\ m <= Len(s) /\ s \in [1..Len(s) -> S]
    BY SMTT(30)
  <1>2. SubSeq(s, 1, m) = [k \in 1..m |-> s[k]]
    BY <1>1, SMTT(30)
  <1> HIDE DEF m
  <1>3. [k \in 1..m |-> s[k]] \in Seq(S) /\ Len([k \in 1..m |-> s[k]]) = m
    BY <1>1, SMTT(30)
  <1> QED BY <1>2, <1>3 DEF m

\* Appending to the second of two sequences appends to both.
LEMMA ConcatAppend ==
  ASSUME NEW S, NEW s \in Seq(S), NEW t \in Seq(S), NEW x \in S
  PROVE  s \o Append(t, x) = Append(s \o t, x) /\ Len(s \o t) = Len(s) + Len(t)
  BY SMTT(30)
-----------------------------------------------------------------------------
(* Slices.                                                                 *)

\* A slice is a sequence of entries.
LEMMA SliceIs ==
  ASSUME NEW P, NEW M, IsRing(P, M), NEW S, NEW buf \in Buffers(P, S),
         NEW x \in Index(M), NEW y \in Index(M)
  PROVE  /\ RingSlice(buf, P, M, x, y) \in Seq(S)
         /\ Len(RingSlice(buf, P, M, x, y)) = Dist(M, x, y)
         /\ RingSlice(buf, P, M, x, y) = [k \in 1..Dist(M, x, y) |-> buf[(x + k - 1) % P]]
  <1>1. P \in Nat \ {0} /\ M \in Nat \ {0} /\ x \in 0..(M - 1) /\ y \in 0..(M - 1)
    BY SMTT(30) DEF IsRing, Index
  <1>2. buf \in [0..(P - 1) -> S]
    BY DEF Buffers
  <1>3. Dist(M, x, y) \in Nat
    BY <1>1, DistRange
  <1>4. RingSlice(buf, P, M, x, y) = [k \in 1..Dist(M, x, y) |-> buf[(x + k - 1) % P]]
    BY DEF RingSlice, Dist
  <1>5. \A k \in 1..Dist(M, x, y) : buf[(x + k - 1) % P] \in S
    <2> SUFFICES ASSUME NEW k \in 1..Dist(M, x, y) PROVE buf[(x + k - 1) % P] \in S
      OBVIOUS
    <2>1. x + k - 1 \in Int
      BY <1>1, <1>3, SMTT(30)
    <2>2. (x + k - 1) % P \in 0..(P - 1)
      BY <1>1, <2>1, DivMod
    <2> QED BY <1>2, <2>2
  <1>6. RingSlice(buf, P, M, x, y) \in Seq(S) /\ Len(RingSlice(buf, P, M, x, y)) = Dist(M, x, y)
    BY <1>3, <1>4, <1>5, SMTT(30)
  <1> QED BY <1>4, <1>6

\* It is empty when the indices are equal, and only then.
LEMMA SliceEmpty ==
  ASSUME NEW P, NEW M, IsRing(P, M), NEW S, NEW buf \in Buffers(P, S),
         NEW x \in Index(M), NEW y \in Index(M)
  PROVE  RingSlice(buf, P, M, x, y) = <<>> <=> x = y
  <1>1. P \in Nat \ {0} /\ M \in Nat \ {0} /\ x \in 0..(M - 1) /\ y \in 0..(M - 1)
    BY SMTT(30) DEF IsRing, Index
  <1>2. buf \in [0..(P - 1) -> S]
    BY DEF Buffers
  <1> DEFINE old == RingSlice(buf, P, M, x, y)
  <1>3. old \in Seq(S) /\ Len(old) = Dist(M, x, y)
    BY SliceIs, SMTT(30)
  <1> HIDE DEF old
  <1>4. old = <<>> <=> Dist(M, x, y) = 0
    BY <1>3, SMTT(30)
  <1>5. Dist(M, x, y) = 0 <=> x = y
    BY <1>1, DistZero, DistSelf
  <1> QED BY <1>4, <1>5 DEF old

\* Writing the entry at index z leaves the slices before it alone, as long as
\* z is less than P entries on.
LEMMA SliceKeep ==
  ASSUME NEW P, NEW M, IsRing(P, M), NEW S, NEW buf \in Buffers(P, S), NEW v,
         NEW x \in Index(M), NEW y \in Index(M), NEW z \in Index(M),
         Dist(M, x, y) <= Dist(M, x, z), Dist(M, x, z) < P
  PROVE  RingSlice(RingPut(buf, P, z, v), P, M, x, y) = RingSlice(buf, P, M, x, y)
  <1>1. P \in Nat \ {0} /\ M \in Nat \ {0} /\ x \in 0..(M - 1) /\ y \in 0..(M - 1) /\ z \in 0..(M - 1)
    BY SMTT(30) DEF IsRing, Index
  <1>2. buf \in [0..(P - 1) -> S]
    BY DEF Buffers
  <1> DEFINE new == RingPut(buf, P, z, v)
             d == Dist(M, x, y)
             dz == Dist(M, x, z)
  <1>3. d \in Nat /\ dz \in Nat
    BY <1>1, DistRange
  <1>4. (x + dz) % P = z % P
    BY <1>1, DistReaches
  <1> HIDE DEF d, dz
  <1>5. \A k \in 1..d : new[(x + k - 1) % P] = buf[(x + k - 1) % P]
    <2> SUFFICES ASSUME NEW k \in 1..d
                 PROVE  new[(x + k - 1) % P] = buf[(x + k - 1) % P]
      OBVIOUS
    <2>1. x + k - 1 \in Int /\ x + dz \in Int /\ x + k - 1 < x + dz /\ x + dz < x + k - 1 + P
      BY <1>1, <1>3, SMTT(30) DEF d, dz
    <2>2. (x + k - 1) % P # (x + dz) % P
      BY <1>1, <2>1, ModDistinct
    <2>3. (x + k - 1) % P \in 0..(P - 1)
      BY <1>1, <2>1, DivMod
    <2> QED BY <1>2, <1>4, <2>2, <2>3 DEF RingPut
  <1> QED BY <1>5 DEF RingSlice, d, Dist

\* Writing at the upper index and advancing it appends.
LEMMA SliceAppend ==
  ASSUME NEW P, NEW M, IsRing(P, M), NEW S, NEW buf \in Buffers(P, S), NEW v \in S,
         NEW x \in Index(M), NEW y \in Index(M),
         Dist(M, x, y) < P, Dist(M, x, y) + 1 < M
  PROVE  RingSlice(RingPut(buf, P, y, v), P, M, x, RingNext(M, y)) = Append(RingSlice(buf, P, M, x, y), v)
  <1>1. P \in Nat \ {0} /\ M \in Nat \ {0} /\ x \in 0..(M - 1) /\ y \in 0..(M - 1)
    BY SMTT(30) DEF IsRing, Index
  <1>2. buf \in [0..(P - 1) -> S]
    BY DEF Buffers
  <1> DEFINE new == RingPut(buf, P, y, v)
             d == Dist(M, x, y)
             z == (y + 1) % M
             old == RingSlice(buf, P, M, x, y)
  <1>3. d \in Nat /\ z \in 0..(M - 1)
    BY <1>1, DistRange, IncrIs
  <1>4. Dist(M, x, z) = d + 1
    BY <1>1, DistIncrTo
  <1>5. (x + d) % P = y % P /\ y % P \in 0..(P - 1)
    <2>1. y \in Int
      BY <1>1, SMTT(30)
    <2>2. y % P \in 0..(P - 1)
      BY <1>1, <2>1, DivMod
    <2> QED BY <1>1, <2>2, DistReaches
  <1>6. old \in Seq(S) /\ Len(old) = d
    BY SliceIs, SMTT(30)
  <1>7. RingSlice(new, P, M, x, y) = old
    <2>1. Dist(M, x, y) <= Dist(M, x, y)
      BY <1>3, SMTT(30)
    <2> QED BY <2>1, SliceKeep, SMTT(30)
  <1>8. \A k \in 1..d : new[(x + k - 1) % P] = old[k]
    <2>1. RingSlice(new, P, M, x, y) = [k \in 1..d |-> new[(x + k - 1) % P]]
      BY DEF RingSlice, Dist
    <2> HIDE DEF new, old, d
    <2> QED BY <1>7, <2>1
  <1>9. new[(x + (d + 1) - 1) % P] = v
    <2>1. x + (d + 1) - 1 = x + d
      BY <1>3, SMTT(30)
    <2> QED BY <1>2, <1>5, <2>1 DEF RingPut
  <1> DEFINE grown == RingSlice(new, P, M, x, z)
  <1>10. grown \in Seq(S) /\ Len(grown) = d + 1 /\ grown = [k \in 1..(d + 1) |-> new[(x + k - 1) % P]]
    <2>1. new \in Buffers(P, S) /\ z \in Index(M)
      BY <1>2, <1>3 DEF Buffers, Index, RingPut
    <2>2. Dist(M, x, z) = d + 1
      BY <1>4
    <2> HIDE DEF new, z, d
    <2>3. grown \in Seq(S) /\ Len(grown) = Dist(M, x, z)
      BY <2>1, SliceIs, SMTT(30)
    <2>4. grown = [k \in 1..Dist(M, x, z) |-> new[(x + k - 1) % P]]
      BY DEF RingSlice, Dist
    <2> HIDE DEF grown
    <2> QED BY <2>2, <2>3, <2>4
  <1> HIDE DEF new, d, z, old, grown
  <1>11. \A k \in 1..d : grown[k] = old[k]
    BY <1>3, <1>8, <1>10, SMTT(30)
  <1>12. grown[d + 1] = v
    BY <1>3, <1>9, <1>10, SMTT(30)
  <1>13. /\ Append(old, v) \in Seq(S) /\ Len(Append(old, v)) = d + 1
         /\ \A k \in 1..d : Append(old, v)[k] = old[k]
         /\ Append(old, v)[d + 1] = v
    BY <1>6, AppendIs, SMTT(30)
  <1>14. \A k \in 1..(d + 1) : grown[k] = Append(old, v)[k]
    BY <1>3, <1>11, <1>12, <1>13, SMTT(30)
  <1>15. grown = Append(old, v)
    BY <1>10, <1>13, <1>14, SeqEqual
  <1> QED BY <1>15 DEF new, z, old, grown, RingNext

\* The entry at the lower index is the first, and advancing that index takes it.
LEMMA SliceTail ==
  ASSUME NEW P, NEW M, IsRing(P, M), NEW S, NEW buf \in Buffers(P, S),
         NEW x \in Index(M), NEW y \in Index(M), x # y
  PROVE  /\ Head(RingSlice(buf, P, M, x, y)) = buf[x % P]
         /\ RingSlice(buf, P, M, RingNext(M, x), y) = Tail(RingSlice(buf, P, M, x, y))
  <1>1. P \in Nat \ {0} /\ M \in Nat \ {0} /\ x \in 0..(M - 1) /\ y \in 0..(M - 1)
    BY SMTT(30) DEF IsRing, Index
  <1>2. buf \in [0..(P - 1) -> S]
    BY DEF Buffers
  <1> DEFINE d == Dist(M, x, y)
             z == (x + 1) % M
             old == RingSlice(buf, P, M, x, y)
  <1>3. d \in Nat \ {0} /\ z \in 0..(M - 1)
    <2>1. d \in Nat /\ d # 0
      BY <1>1, DistRange, DistZero
    <2>2. z \in 0..(M - 1)
      BY <1>1, IncrIs
    <2> QED BY <1>1, <2>1, <2>2
  <1>4. Dist(M, z, y) = d - 1
    BY <1>1, DistIncrFrom
  <1>5. old \in Seq(S) /\ Len(old) = d /\ old = [k \in 1..d |-> buf[(x + k - 1) % P]]
    BY SliceIs, SMTT(30)
  <1> DEFINE rest == RingSlice(buf, P, M, z, y)
  <1>6. rest \in Seq(S) /\ Len(rest) = d - 1 /\ rest = [k \in 1..(d - 1) |-> buf[(z + k - 1) % P]]
    <2>1. z \in Index(M)
      BY <1>3 DEF Index
    <2> HIDE DEF z
    <2> QED BY <1>4, <2>1, SliceIs, SMTT(30)
  <1>7. \A k \in 1..(d - 1) : (z + k - 1) % P = (x + (k + 1) - 1) % P
    <2> SUFFICES ASSUME NEW k \in 1..(d - 1) PROVE (z + k - 1) % P = (x + (k + 1) - 1) % P
      OBVIOUS
    <2>1. k - 1 \in Nat
      BY <1>3, SMTT(30)
    <2>2. (z + (k - 1)) % P = (x + 1 + (k - 1)) % P
      BY <1>1, <2>1, NextIndex
    <2>3. z + k - 1 = z + (k - 1) /\ x + (k + 1) - 1 = x + 1 + (k - 1)
      BY <1>1, <1>3, SMTT(30)
    <2> QED BY <2>2, <2>3
  <1> HIDE DEF d, z, old, rest
  <1>8. old[1] = buf[x % P]
    <2>1. x + 1 - 1 = x
      BY <1>1, SMTT(30)
    <2> QED BY <1>3, <1>5, <2>1, SMTT(30)
  <1>9. \A k \in 1..(d - 1) : rest[k] = old[k + 1]
    BY <1>3, <1>5, <1>6, <1>7, SMTT(30)
  <1>10. /\ Tail(old) \in Seq(S) /\ Len(Tail(old)) = d - 1 /\ Head(old) = old[1]
        /\ \A k \in 1..(d - 1) : Tail(old)[k] = old[k + 1]
    <2>1. old # <<>>
      BY <1>3, <1>5
    <2> QED BY <1>5, <2>1, TailIs
  <1>11. rest = Tail(old)
    <2>1. \A k \in 1..Len(rest) : rest[k] = Tail(old)[k]
      BY <1>6, <1>9, <1>10
    <2> QED BY <1>6, <1>10, <2>1, SeqEqual
  <1> QED BY <1>8, <1>10, <1>11 DEF z, old, rest, RingNext

\* Overwriting the entry just taken leaves the others alone.
LEMMA SliceTaken ==
  ASSUME NEW P, NEW M, IsRing(P, M), NEW S, NEW buf \in Buffers(P, S), NEW v,
         NEW x \in Index(M), NEW y \in Index(M), x # y, Dist(M, x, y) <= P
  PROVE  RingSlice(RingPut(buf, P, x, v), P, M, RingNext(M, x), y)
            = RingSlice(buf, P, M, RingNext(M, x), y)
  <1>1. P \in Nat \ {0} /\ M \in Nat \ {0} /\ x \in 0..(M - 1) /\ y \in 0..(M - 1)
    BY SMTT(30) DEF IsRing, Index
  <1>2. buf \in [0..(P - 1) -> S]
    BY DEF Buffers
  <1> DEFINE new == RingPut(buf, P, x, v)
             d == Dist(M, x, y)
             z == RingNext(M, x)
  <1>3. d \in Nat
    BY <1>1, DistRange
  <1>4. Dist(M, z, y) = d - 1
    BY <1>1, DistIncrFrom DEF RingNext
  <1>5. \A k \in 1..(d - 1) : new[(z + k - 1) % P] = buf[(z + k - 1) % P]
    <2> SUFFICES ASSUME NEW k \in 1..(d - 1)
                 PROVE  new[(z + k - 1) % P] = buf[(z + k - 1) % P]
      OBVIOUS
    <2>1. k - 1 \in Nat /\ z \in Nat
      BY <1>1, <1>3, IncrIs, SMTT(30) DEF RingNext
    <2>2. (z + (k - 1)) % P = (x + 1 + (k - 1)) % P
      BY <1>1, <2>1, NextIndex DEF RingNext
    <2> HIDE DEF z, new
    <2>3. z + k - 1 = z + (k - 1) /\ x + 1 + (k - 1) = x + k
      BY <1>1, <1>3, <2>1, SMTT(30)
    <2>4. x + k \in Int /\ x \in Int /\ x < x + k /\ x + k < x + P
      BY <1>1, <1>3, SMTT(30)
    <2>5. x % P # (x + k) % P
      BY <1>1, <2>4, ModDistinct
    <2>6. (x + k) % P \in 0..(P - 1)
      BY <1>1, <2>4, DivMod
    <2>7. new[(x + k) % P] = buf[(x + k) % P]
      BY <1>2, <2>5, <2>6 DEF new, RingPut
    <2> QED BY <2>2, <2>3, <2>7
  <1> HIDE DEF new, z
  <1>6. RingSlice(new, P, M, z, y) = [k \in 1..(d - 1) |-> new[(z + k - 1) % P]]
    BY <1>4 DEF RingSlice, Dist
  <1>7. RingSlice(buf, P, M, z, y) = [k \in 1..(d - 1) |-> buf[(z + k - 1) % P]]
    BY <1>4 DEF RingSlice, Dist
  <1>8. RingSlice(new, P, M, z, y) = RingSlice(buf, P, M, z, y)
    BY <1>5, <1>6, <1>7
  <1> QED BY <1>8 DEF new, z

\* A slice that ends where another starts.
LEMMA SliceConcat ==
  ASSUME NEW P, NEW M, IsRing(P, M), NEW S, NEW buf \in Buffers(P, S),
         NEW x \in Index(M), NEW y \in Index(M), NEW z \in Index(M),
         Dist(M, x, y) + Dist(M, y, z) = Dist(M, x, z)
  PROVE  RingSlice(buf, P, M, x, z) = RingSlice(buf, P, M, x, y) \o RingSlice(buf, P, M, y, z)
  <1>1. /\ P \in Nat \ {0} /\ M \in Nat \ {0} /\ M \in Int /\ M % P = 0
        /\ x \in 0..(M - 1) /\ y \in 0..(M - 1) /\ z \in 0..(M - 1)
    BY SMTT(30) DEF IsRing, Index
  <1> DEFINE d == Dist(M, x, y)
             f == Dist(M, y, z)
             front == RingSlice(buf, P, M, x, y)
             back == RingSlice(buf, P, M, y, z)
             whole == RingSlice(buf, P, M, x, z)
  <1>2. d \in Nat /\ f \in Nat /\ Dist(M, x, z) = d + f
    BY <1>1, DistRange
  <1>3. front \in Seq(S) /\ Len(front) = d /\ front = [k \in 1..d |-> buf[(x + k - 1) % P]]
    BY SliceIs, SMTT(30)
  <1>4. back \in Seq(S) /\ Len(back) = f /\ back = [k \in 1..f |-> buf[(y + k - 1) % P]]
    BY SliceIs, SMTT(30)
  <1>5. whole \in Seq(S) /\ Len(whole) = d + f /\ whole = [k \in 1..(d + f) |-> buf[(x + k - 1) % P]]
    <2>1. whole \in Seq(S) /\ Len(whole) = Dist(M, x, z)
          /\ whole = [k \in 1..Dist(M, x, z) |-> buf[(x + k - 1) % P]]
      BY SliceIs, SMTT(30)
    <2> HIDE DEF whole, d, f
    <2> QED BY <1>2, <2>1
  <1>6. x + d = y \/ x + d = y + M
    <2>1. d = IF y >= x THEN y - x ELSE y - x + M
      BY <1>1, DistIs
    <2> HIDE DEF d
    <2> QED BY <1>1, <2>1, SMTT(30)
  <1> HIDE DEF d, f, front, back, whole
  <1>7. \A k \in 1..f : (x + (d + k) - 1) % P = (y + k - 1) % P
    <2> SUFFICES ASSUME NEW k \in 1..f PROVE (x + (d + k) - 1) % P = (y + k - 1) % P
      OBVIOUS
    <2>1. y + k - 1 \in Int
      BY <1>1, <1>2, SMTT(30)
    <2>2. ((y + k - 1) + M) % P = (y + k - 1) % P
      BY <1>1, <2>1, ModAdd
    <2>3. x + (d + k) - 1 = y + k - 1 \/ x + (d + k) - 1 = (y + k - 1) + M
      BY <1>1, <1>2, <1>6, SMTT(30)
    <2> QED BY <2>2, <2>3
  <1>8. \A k \in 1..d : whole[k] = front[k]
    <2> SUFFICES ASSUME NEW k \in 1..d PROVE whole[k] = front[k]
      OBVIOUS
    <2>1. k \in 1..(d + f)
      BY <1>2, SMTT(30)
    <2> QED BY <1>3, <1>5, <2>1
  <1>9. \A k \in 1..f : whole[d + k] = back[k]
    <2> SUFFICES ASSUME NEW k \in 1..f PROVE whole[d + k] = back[k]
      OBVIOUS
    <2>1. d + k \in 1..(d + f)
      BY <1>2, SMTT(30)
    <2> QED BY <1>4, <1>5, <1>7, <2>1
  <1>10. /\ front \o back \in Seq(S) /\ Len(front \o back) = d + f
         /\ \A k \in 1..(d + f) : (front \o back)[k] = IF k <= d THEN front[k] ELSE back[k - d]
    BY <1>2, <1>3, <1>4, ConcatIs, SMTT(30)
  <1>11. \A k \in 1..(d + f) : whole[k] = (front \o back)[k]
    <2> SUFFICES ASSUME NEW k \in 1..(d + f) PROVE whole[k] = (front \o back)[k]
      OBVIOUS
    <2>1. CASE k <= d
      <3>1. k \in 1..d
        BY <1>2, <2>1, SMTT(30)
      <3> QED BY <1>8, <1>10, <2>1, <3>1
    <2>2. CASE ~(k <= d)
      <3>1. k - d \in 1..f /\ d + (k - d) = k
        BY <1>2, <2>2, SMTT(30)
      <3>2. whole[d + (k - d)] = back[k - d]
        BY <1>9, <3>1
      <3> QED BY <1>10, <2>2, <3>1, <3>2
    <2> QED BY <2>1, <2>2
  <1>12. whole = front \o back
    BY <1>5, <1>10, <1>11, SeqEqual
  <1> QED BY <1>12 DEF front, back, whole

\* Moving the upper index back takes the last entry.
LEMMA SliceFront ==
  ASSUME NEW P, NEW M, IsRing(P, M), NEW S, NEW buf \in Buffers(P, S),
         NEW x \in Index(M), NEW y \in Index(M), x # y
  PROVE  LET s == RingSlice(buf, P, M, x, y) IN
         RingSlice(buf, P, M, x, (y - 1) % M) = SubSeq(s, 1, Len(s) - 1)
  <1>1. P \in Nat \ {0} /\ M \in Nat \ {0} /\ x \in 0..(M - 1) /\ y \in 0..(M - 1)
    BY SMTT(30) DEF IsRing, Index
  <1> DEFINE d == Dist(M, x, y)
             z == (y - 1) % M
             old == RingSlice(buf, P, M, x, y)
             front == RingSlice(buf, P, M, x, z)
  <1>2. d \in Nat /\ d # 0 /\ z \in 0..(M - 1) /\ Dist(M, x, z) = d - 1
    BY <1>1, DistRange, DistZero, DecrIs, DistDecrTo, SMTT(30)
  <1>3. old \in Seq(S) /\ Len(old) = d /\ old = [k \in 1..d |-> buf[(x + k - 1) % P]]
    BY SliceIs, SMTT(30)
  <1>4. front \in Seq(S) /\ Len(front) = d - 1 /\ front = [k \in 1..(d - 1) |-> buf[(x + k - 1) % P]]
    <2>1. z \in Index(M)
      BY <1>2 DEF Index
    <2> HIDE DEF z
    <2>2. front \in Seq(S) /\ Len(front) = Dist(M, x, z)
          /\ front = [k \in 1..Dist(M, x, z) |-> buf[(x + k - 1) % P]]
      BY <2>1, SliceIs, SMTT(30)
    <2> HIDE DEF front, d
    <2> QED BY <1>2, <2>2
  <1> HIDE DEF d, z, old, front
  <1>5. \A k \in 1..(d - 1) : front[k] = old[k]
    BY <1>2, <1>3, <1>4, SMTT(30)
  <1>6. /\ SubSeq(old, 1, d - 1) \in Seq(S) /\ Len(SubSeq(old, 1, d - 1)) = d - 1
        /\ \A k \in 1..(d - 1) : SubSeq(old, 1, d - 1)[k] = old[k]
    BY <1>2, <1>3, FrontIs
  <1>7. front = SubSeq(old, 1, d - 1)
    BY <1>4, <1>5, <1>6, SeqEqual
  <1> QED BY <1>3, <1>7 DEF old, front, z
=============================================================================
