---------------------------- MODULE VirtioProofs ----------------------------
(***************************************************************************)
(* Proofs about module VirtioDisk, for every number of descriptors,        *)
(* threads and blocks and every width of the ring indices: VirtioInv is an *)
(* invariant, so each caller gets its own block, descriptors are neither   *)
(* shared nor leaked, and no completion or wakeup is lost.                 *)
(***************************************************************************)
EXTENDS VirtioDisk, RingLemmas, FiniteSetTheorems

\* Most leaves are first-order and go to Zenon; the others name the SMT solver.
USE ZenonT(30)

\* VirtioInv without what follows from the rest.
CoreInv == TypeOK /\ ChainInv /\ RequestInv /\ BlockInv /\ WakeInv

\* What counting comes to: a ring has room for another chain while two
\* descriptors are not at the start of one, and fewer descriptors are free
\* when some are taken.  Room and Fewer prove it from the theorems about finite
\* sets; the lemmas about single actions take it as a hypothesis.
RingHasRoom ==
  \A s \in Seq(Desc) : \A x, y \in Desc :
     Distinct(s) /\ x # y /\ x \notin Elems(s) /\ y \notin Elems(s) => Len(s) + 2 <= NUM
FewerDescs ==
  \A S \in SUBSET Desc : \A T \in SUBSET S :
     Cardinality(T) <= Cardinality(S) /\ Cardinality(T) \in Nat /\ Cardinality(S) \in Nat
-----------------------------------------------------------------------------
(* Sequences of chains.                                                    *)

\* A chain added at the end.
LEMMA ElemsAppend ==
  ASSUME NEW S, NEW s \in Seq(S), NEW v \in S, Distinct(s), v \notin Elems(s)
  PROVE  Elems(Append(s, v)) = Elems(s) \cup {v} /\ Distinct(Append(s, v))
  <1>1. /\ Append(s, v) \in Seq(S) /\ Len(Append(s, v)) = Len(s) + 1 /\ Len(s) \in Nat
        /\ \A k \in 1..Len(s) : Append(s, v)[k] = s[k]
        /\ Append(s, v)[Len(s) + 1] = v
    BY AppendIs, SMTT(30)
  <1> DEFINE a == Append(s, v)
  <1> HIDE DEF a
  <1>2. \A k \in 1..Len(a) : k \in 1..Len(s) \/ k = Len(s) + 1
    BY <1>1, SMTT(30) DEF a
  <1>3. \A k \in 1..Len(s) : k \in 1..Len(a) /\ a[k] = s[k]
    BY <1>1, SMTT(30) DEF a
  <1>4. Len(s) + 1 \in 1..Len(a) /\ a[Len(s) + 1] = v
    BY <1>1, SMTT(30) DEF a
  <1>5. Elems(a) = Elems(s) \cup {v}
    BY <1>2, <1>3, <1>4 DEF Elems
  <1>6. Distinct(a)
    BY <1>2, <1>3, <1>4 DEF Distinct, Elems
  <1> QED BY <1>5, <1>6 DEF a

\* A chain taken from the front.
LEMMA ElemsTail ==
  ASSUME NEW S, NEW s \in Seq(S), s # <<>>, Distinct(s)
  PROVE  /\ Head(s) \in Elems(s) /\ Head(s) \in S
         /\ Elems(Tail(s)) = Elems(s) \ {Head(s)} /\ Distinct(Tail(s))
  <1>1. /\ Tail(s) \in Seq(S) /\ Len(Tail(s)) = Len(s) - 1 /\ Len(s) \in Nat \ {0}
        /\ \A k \in 1..(Len(s) - 1) : Tail(s)[k] = s[k + 1]
        /\ Head(s) = s[1] /\ s[1] \in S
    BY TailIs, SMTT(30)
  <1> DEFINE a == Tail(s)
  <1> HIDE DEF a
  <1>2. \A k \in 1..Len(a) : k + 1 \in 1..Len(s) /\ k + 1 # 1 /\ a[k] = s[k + 1]
    BY <1>1, SMTT(30) DEF a
  <1>3. \A k \in 1..Len(s) : k = 1 \/ (k - 1 \in 1..Len(a) /\ a[k - 1] = s[k])
    BY <1>1, SMTT(30) DEF a
  <1>4. 1 \in 1..Len(s)
    BY <1>1, SMTT(30)
  <1>5. Elems(a) = Elems(s) \ {Head(s)}
    <2>1. ASSUME NEW e \in Elems(a) PROVE e \in Elems(s) \ {Head(s)}
      BY <1>1, <1>2, <1>4, SMTT(30) DEF Elems, Distinct
    <2>2. ASSUME NEW e \in Elems(s), e # Head(s) PROVE e \in Elems(a)
      BY <1>1, <1>3, <2>2, SMTT(30) DEF Elems
    <2> QED BY <2>1, <2>2
  <1>6. Distinct(a)
    <2> SUFFICES ASSUME NEW j \in 1..Len(a), NEW k \in 1..Len(a), a[j] = a[k] PROVE j = k
      BY DEF Distinct
    <2>1. j + 1 = k + 1
      BY <1>2 DEF Distinct
    <2> QED BY <1>1, <2>1, SMTT(30)
  <1> QED BY <1>1, <1>4, <1>5, <1>6 DEF a, Elems
-----------------------------------------------------------------------------
(* The two rings.                                                          *)

\* Both rings are rings in the sense of module RingLemmas.
LEMMA RingFacts ==
  TypeOK => /\ IsRing(NUM, UMAX) /\ NUM \in Nat \ {0} /\ UMAX \in Nat \ {0} /\ NUM <= UMAX
            /\ devIdx \in Index(UMAX) /\ availIdx \in Index(UMAX)
            /\ used_idx \in Index(UMAX) /\ usedIdx \in Index(UMAX)
            /\ avail \in Buffers(NUM, Desc) /\ used \in Buffers(NUM, Desc)
            /\ Posted = RingSlice(avail, NUM, UMAX, devIdx, availIdx)
            /\ Finished = RingSlice(used, NUM, UMAX, used_idx, usedIdx)
  <1>1. IsRing(NUM, UMAX) /\ NUM \in Nat \ {0} /\ UMAX \in Nat \ {0} /\ NUM <= UMAX
    BY VirtioAssumption, SMTT(30) DEF IsRing
  <1>2. /\ Posted = RingSlice(avail, NUM, UMAX, devIdx, availIdx)
        /\ Finished = RingSlice(used, NUM, UMAX, used_idx, usedIdx)
    BY DEF Posted, Finished, RingSlice
  <1> QED BY <1>1, <1>2 DEF TypeOK, Index, Buffers, Desc

\* Their unread parts are sequences of descriptors.
LEMMA QueueTypes ==
  TypeOK => /\ Posted \in Seq(Desc) /\ Finished \in Seq(Desc)
            /\ Elems(Posted) \subseteq Desc /\ Elems(Finished) \subseteq Desc
            /\ Len(Posted) = Dist(UMAX, devIdx, availIdx)
            /\ Len(Finished) = Dist(UMAX, used_idx, usedIdx)
            /\ (Posted = <<>> <=> devIdx = availIdx)
            /\ (Finished = <<>> <=> used_idx = usedIdx)
  <1> SUFFICES ASSUME TypeOK
               PROVE  /\ Posted \in Seq(Desc) /\ Finished \in Seq(Desc)
                      /\ Elems(Posted) \subseteq Desc /\ Elems(Finished) \subseteq Desc
                      /\ Len(Posted) = Dist(UMAX, devIdx, availIdx)
                      /\ Len(Finished) = Dist(UMAX, used_idx, usedIdx)
                      /\ (Posted = <<>> <=> devIdx = availIdx)
                      /\ (Finished = <<>> <=> used_idx = usedIdx)
    OBVIOUS
  <1>1. /\ IsRing(NUM, UMAX)
        /\ devIdx \in Index(UMAX) /\ availIdx \in Index(UMAX)
        /\ used_idx \in Index(UMAX) /\ usedIdx \in Index(UMAX)
        /\ avail \in Buffers(NUM, Desc) /\ used \in Buffers(NUM, Desc)
        /\ Posted = RingSlice(avail, NUM, UMAX, devIdx, availIdx)
        /\ Finished = RingSlice(used, NUM, UMAX, used_idx, usedIdx)
    BY RingFacts
  <1>2. Posted \in Seq(Desc) /\ Len(Posted) = Dist(UMAX, devIdx, availIdx)
    BY <1>1, SliceIs, SMTT(30)
  <1>3. Finished \in Seq(Desc) /\ Len(Finished) = Dist(UMAX, used_idx, usedIdx)
    BY <1>1, SliceIs, SMTT(30)
  <1>4. Posted = <<>> <=> devIdx = availIdx
    BY <1>1, SliceEmpty, SMTT(30)
  <1>5. Finished = <<>> <=> used_idx = usedIdx
    BY <1>1, SliceEmpty, SMTT(30)
  <1>6. Elems(Posted) \subseteq Desc /\ Elems(Finished) \subseteq Desc
    BY <1>2, <1>3, SMTT(30) DEF Elems
  <1> QED BY <1>2, <1>3, <1>4, <1>5, <1>6

\* virtio_disk_rw() posts a chain.
LEMMA PostedPut ==
  ASSUME TypeOK, NEW h \in Desc, Len(Posted) + 2 <= NUM,
         avail' = [avail EXCEPT ![availIdx % NUM] = h], availIdx' = Incr(availIdx), devIdx' = devIdx
  PROVE  Posted' = Append(Posted, h)
  <1>1. avail' = RingPut(avail, NUM, availIdx, h) /\ availIdx' = RingNext(UMAX, availIdx)
    BY DEF RingPut, RingNext, Incr
  <1>2. /\ IsRing(NUM, UMAX) /\ NUM \in Nat /\ UMAX \in Nat /\ NUM <= UMAX
        /\ devIdx \in Index(UMAX) /\ availIdx \in Index(UMAX) /\ avail \in Buffers(NUM, Desc)
        /\ Posted = RingSlice(avail, NUM, UMAX, devIdx, availIdx)
        /\ Len(Posted) = Dist(UMAX, devIdx, availIdx) /\ Len(Posted) \in Nat
    BY RingFacts, QueueTypes, SMTT(30)
  <1>3. Dist(UMAX, devIdx, availIdx) < NUM /\ Dist(UMAX, devIdx, availIdx) + 1 < UMAX
    BY <1>2, SMTT(30)
  <1>4. RingSlice(RingPut(avail, NUM, availIdx, h), NUM, UMAX, devIdx, RingNext(UMAX, availIdx))
           = Append(RingSlice(avail, NUM, UMAX, devIdx, availIdx), h)
    BY <1>2, <1>3, SliceAppend, SMTT(30)
  <1>5. Posted' = RingSlice(avail', NUM, UMAX, devIdx', availIdx')
    BY DEF Posted, RingSlice
  <1> QED BY <1>1, <1>2, <1>4, <1>5

\* The device finishes a chain.
LEMMA FinishedPut ==
  ASSUME TypeOK, NEW h \in Desc, Len(Finished) + 2 <= NUM,
         used' = [used EXCEPT ![usedIdx % NUM] = h], usedIdx' = Incr(usedIdx), used_idx' = used_idx
  PROVE  Finished' = Append(Finished, h)
  <1>1. used' = RingPut(used, NUM, usedIdx, h) /\ usedIdx' = RingNext(UMAX, usedIdx)
    BY DEF RingPut, RingNext, Incr
  <1>2. /\ IsRing(NUM, UMAX) /\ NUM \in Nat /\ UMAX \in Nat /\ NUM <= UMAX
        /\ used_idx \in Index(UMAX) /\ usedIdx \in Index(UMAX) /\ used \in Buffers(NUM, Desc)
        /\ Finished = RingSlice(used, NUM, UMAX, used_idx, usedIdx)
        /\ Len(Finished) = Dist(UMAX, used_idx, usedIdx) /\ Len(Finished) \in Nat
    BY RingFacts, QueueTypes, SMTT(30)
  <1>3. Dist(UMAX, used_idx, usedIdx) < NUM /\ Dist(UMAX, used_idx, usedIdx) + 1 < UMAX
    BY <1>2, SMTT(30)
  <1>4. RingSlice(RingPut(used, NUM, usedIdx, h), NUM, UMAX, used_idx, RingNext(UMAX, usedIdx))
           = Append(RingSlice(used, NUM, UMAX, used_idx, usedIdx), h)
    BY <1>2, <1>3, SliceAppend, SMTT(30)
  <1>5. Finished' = RingSlice(used', NUM, UMAX, used_idx', usedIdx')
    BY DEF Finished, RingSlice
  <1> QED BY <1>1, <1>2, <1>4, <1>5

\* The device takes a chain.
LEMMA PostedTake ==
  ASSUME TypeOK, Len(Posted) <= NUM, devIdx # availIdx,
         avail' = [avail EXCEPT ![devIdx % NUM] = 0], devIdx' = Incr(devIdx), availIdx' = availIdx
  PROVE  Posted # <<>> /\ Posted' = Tail(Posted) /\ Head(Posted) = avail[devIdx % NUM]
  <1>1. avail' = RingPut(avail, NUM, devIdx, 0) /\ devIdx' = RingNext(UMAX, devIdx)
    BY DEF RingPut, RingNext, Incr
  <1>2. /\ IsRing(NUM, UMAX)
        /\ devIdx \in Index(UMAX) /\ availIdx \in Index(UMAX) /\ avail \in Buffers(NUM, Desc)
        /\ Posted = RingSlice(avail, NUM, UMAX, devIdx, availIdx)
        /\ Dist(UMAX, devIdx, availIdx) <= NUM
    BY RingFacts, QueueTypes
  <1>3. RingSlice(RingPut(avail, NUM, devIdx, 0), NUM, UMAX, RingNext(UMAX, devIdx), availIdx)
           = RingSlice(avail, NUM, UMAX, RingNext(UMAX, devIdx), availIdx)
    BY <1>2, SliceTaken, SMTT(30)
  <1>4. /\ Head(RingSlice(avail, NUM, UMAX, devIdx, availIdx)) = avail[devIdx % NUM]
        /\ RingSlice(avail, NUM, UMAX, RingNext(UMAX, devIdx), availIdx)
              = Tail(RingSlice(avail, NUM, UMAX, devIdx, availIdx))
    BY <1>2, SliceTail, SMTT(30)
  <1>5. Posted' = RingSlice(avail', NUM, UMAX, devIdx', availIdx')
    BY DEF Posted, RingSlice
  <1>6. Posted # <<>>
    BY QueueTypes
  <1> QED BY <1>1, <1>2, <1>3, <1>4, <1>5, <1>6

\* virtio_disk_intr() takes a chain.
LEMMA FinishedTake ==
  ASSUME TypeOK, Len(Finished) <= NUM, used_idx # usedIdx,
         used' = [used EXCEPT ![used_idx % NUM] = 0], used_idx' = Incr(used_idx), usedIdx' = usedIdx
  PROVE  Finished # <<>> /\ Finished' = Tail(Finished) /\ Head(Finished) = used[used_idx % NUM]
  <1>1. used' = RingPut(used, NUM, used_idx, 0) /\ used_idx' = RingNext(UMAX, used_idx)
    BY DEF RingPut, RingNext, Incr
  <1>2. /\ IsRing(NUM, UMAX)
        /\ used_idx \in Index(UMAX) /\ usedIdx \in Index(UMAX) /\ used \in Buffers(NUM, Desc)
        /\ Finished = RingSlice(used, NUM, UMAX, used_idx, usedIdx)
        /\ Dist(UMAX, used_idx, usedIdx) <= NUM
    BY RingFacts, QueueTypes
  <1>3. RingSlice(RingPut(used, NUM, used_idx, 0), NUM, UMAX, RingNext(UMAX, used_idx), usedIdx)
           = RingSlice(used, NUM, UMAX, RingNext(UMAX, used_idx), usedIdx)
    BY <1>2, SliceTaken, SMTT(30)
  <1>4. /\ Head(RingSlice(used, NUM, UMAX, used_idx, usedIdx)) = used[used_idx % NUM]
        /\ RingSlice(used, NUM, UMAX, RingNext(UMAX, used_idx), usedIdx)
              = Tail(RingSlice(used, NUM, UMAX, used_idx, usedIdx))
    BY <1>2, SliceTail, SMTT(30)
  <1>5. Finished' = RingSlice(used', NUM, UMAX, used_idx', usedIdx')
    BY DEF Finished, RingSlice
  <1>6. Finished # <<>>
    BY QueueTypes
  <1> QED BY <1>1, <1>2, <1>3, <1>4, <1>5, <1>6
-----------------------------------------------------------------------------
(* Steps that move no request.                                             *)

\* What only changes who is asleep, or the state of the handler, preserves
\* the invariant.
LEMMA QuietStep ==
  ASSUME CoreInv, UNCHANGED <<descVars, driverRings, deviceVars, head, busy, data, blk, wr>>,
         pc' \in [Thread -> Labels], intr' \in BOOLEAN, irq' \in BOOLEAN,
         \A t \in Thread : InFlight(t)' <=> InFlight(t),
         \A t \in Thread : pc'[t] = "idle" <=> pc[t] = "idle",
         Elems(Finished) = {} \/ irq' \/ intr',
         WakeInv'
  PROVE  CoreInv'
  <1> USE DEF descVars, driverRings, deviceVars
  <1>1. TypeOK'
    BY DEF CoreInv, TypeOK
  <1>2. \A t \in Thread : (Formatted(t)' <=> Formatted(t)) /\ Own(t)' = Own(t)
    BY SMTT(30) DEF Formatted, Own, Second, Third
  <1>3. ChainInv'
    BY <1>2, SMTT(30) DEF CoreInv, ChainInv
  <1>4. Posted' = Posted /\ Finished' = Finished
    BY DEF Posted, Finished
  <1>5. RequestInv'
    BY <1>4 DEF CoreInv, RequestInv
  <1>6. BlockInv'
    BY <1>4 DEF CoreInv, BlockInv
  <1> QED BY <1>1, <1>3, <1>5, <1>6 DEF CoreInv

\* alloc3_desc() fails.
LEMMA AllocFailInv ==
  ASSUME CoreInv, NEW t \in Thread, AllocFail(t)
  PROVE  CoreInv'
  <1>1. pc \in [Thread -> Labels] /\ intr \in BOOLEAN /\ irq \in BOOLEAN
    BY DEF CoreInv, TypeOK
  <1>2. /\ pc' \in [Thread -> Labels] /\ pc'[t] = "asleep_free"
        /\ \A u \in Thread \ {t} : pc'[u] = pc[u] \/ (pc[u] = "asleep_free" /\ pc'[u] = "alloc")
    BY <1>1 DEF AllocFail, WakeFree, Labels
  <1>3. \A u \in Thread : (InFlight(u)' <=> InFlight(u)) /\ (pc'[u] = "idle" <=> pc[u] = "idle")
    BY <1>2 DEF InFlight, AllocFail
  <1>4. WakeInv'
    BY <1>2 DEF CoreInv, WakeInv, FreeDescs, AllocFail, descVars
  <1>5. Elems(Finished) = {} \/ irq' \/ intr'
    BY DEF CoreInv, RequestInv, AllocFail
  <1> QED BY <1>1, <1>2, <1>3, <1>4, <1>5, QuietStep DEF AllocFail

\* The request is not over: virtio_disk_rw() sleeps on.
LEMMA SleepAgainInv ==
  ASSUME CoreInv, NEW t \in Thread, SleepAgain(t)
  PROVE  CoreInv'
  <1>1. pc \in [Thread -> Labels] /\ intr \in BOOLEAN /\ irq \in BOOLEAN
    BY DEF CoreInv, TypeOK
  <1>2. pc' \in [Thread -> Labels] /\ pc'[t] = "asleep_b" /\ \A u \in Thread \ {t} : pc'[u] = pc[u]
    BY <1>1 DEF SleepAgain, Labels
  <1>3. \A u \in Thread : (InFlight(u)' <=> InFlight(u)) /\ (pc'[u] = "idle" <=> pc[u] = "idle")
    BY <1>2 DEF InFlight, SleepAgain
  <1>4. WakeInv'
    BY <1>2 DEF CoreInv, WakeInv, FreeDescs, SleepAgain, Done, descVars
  <1>5. Elems(Finished) = {} \/ irq' \/ intr'
    BY DEF CoreInv, RequestInv, SleepAgain
  <1> QED BY <1>1, <1>2, <1>3, <1>4, <1>5, QuietStep DEF SleepAgain

\* kill() wakes a sleeper.
LEMMA KillInv ==
  ASSUME CoreInv, NEW t \in Thread, Kill(t)
  PROVE  CoreInv'
  <1>1. pc \in [Thread -> Labels] /\ intr \in BOOLEAN /\ irq \in BOOLEAN
    BY DEF CoreInv, TypeOK
  <1>2. /\ pc' \in [Thread -> Labels] /\ \A u \in Thread \ {t} : pc'[u] = pc[u]
        /\ pc[t] = "asleep_b" => pc'[t] = "wait"
        /\ pc[t] # "asleep_b" => pc[t] = "asleep_free" /\ pc'[t] = "alloc"
    BY <1>1 DEF Kill, Labels
  <1>3. \A u \in Thread : (InFlight(u)' <=> InFlight(u)) /\ (pc'[u] = "idle" <=> pc[u] = "idle")
    BY <1>2 DEF InFlight, Kill
  <1>4. WakeInv'
    BY <1>2 DEF CoreInv, WakeInv, FreeDescs, Kill, descVars
  <1>5. Elems(Finished) = {} \/ irq' \/ intr'
    BY DEF CoreInv, RequestInv, Kill
  <1> QED BY <1>1, <1>2, <1>3, <1>4, <1>5, QuietStep DEF Kill

\* The handler starts: until it is done, it takes the place of the interrupt.
LEMMA IntrAckInv ==
  ASSUME CoreInv, IntrAck
  PROVE  CoreInv'
  <1>1. pc' = pc /\ pc \in [Thread -> Labels]
    BY DEF CoreInv, TypeOK, IntrAck
  <1>2. \A u \in Thread : (InFlight(u)' <=> InFlight(u)) /\ (pc'[u] = "idle" <=> pc[u] = "idle")
    BY <1>1 DEF InFlight
  <1>3. WakeInv'
    BY <1>1 DEF CoreInv, WakeInv, FreeDescs, IntrAck, descVars
  <1> QED BY <1>1, <1>2, <1>3, QuietStep DEF IntrAck

\* The handler returns, having seen all there is.
LEMMA IntrEndInv ==
  ASSUME CoreInv, IntrEnd
  PROVE  CoreInv'
  <1>1. pc' = pc /\ pc \in [Thread -> Labels] /\ irq \in BOOLEAN
    BY DEF CoreInv, TypeOK, IntrEnd
  <1>2. \A u \in Thread : (InFlight(u)' <=> InFlight(u)) /\ (pc'[u] = "idle" <=> pc[u] = "idle")
    BY <1>1 DEF InFlight
  <1>3. WakeInv'
    BY <1>1 DEF CoreInv, WakeInv, FreeDescs, IntrEnd, descVars
  <1>4. Finished = <<>>
    BY QueueTypes DEF CoreInv, IntrEnd
  <1>5. Elems(Finished) = {}
    BY <1>4, SMTT(30) DEF Elems
  <1> QED BY <1>1, <1>2, <1>3, <1>5, QuietStep DEF IntrEnd

\* A thread enters virtio_disk_rw().
LEMMA CallInv ==
  ASSUME CoreInv, NEW t \in Thread, NEW k \in Block, NEW w \in BOOLEAN,
         NEW v \in Contents(w), Call(t, k, w, v)
  PROVE  CoreInv'
  <1> USE DEF descVars, driverRings, deviceVars
  <1>1. pc \in [Thread -> Labels] /\ blk \in [Thread -> Block \cup {NoBlock}] /\ wr \in [Thread -> BOOLEAN]
        /\ data \in [Thread -> Val \cup {NoVal}]
    BY DEF CoreInv, TypeOK
  <1>2. TypeOK'
    BY <1>1 DEF CoreInv, TypeOK, Call, Labels, Contents
  <1>3. /\ pc'[t] = "alloc" /\ blk'[t] = k /\ data'[t] = v /\ wr'[t] = w /\ pc[t] = "idle"
        /\ \A u \in Thread \ {t} : pc'[u] = pc[u] /\ blk'[u] = blk[u] /\ data'[u] = data[u] /\ wr'[u] = wr[u]
    BY <1>1 DEF Call
  <1>4. \A u \in Thread : InFlight(u)' <=> (InFlight(u) /\ u # t)
    BY <1>3 DEF InFlight
  <1>5. \A u \in Thread : InFlight(u) <=> (InFlight(u) /\ u # t)
    BY <1>3 DEF InFlight
  <1>6. \A u \in Thread : u # t => (Formatted(u)' <=> Formatted(u))
    BY <1>3, SMTT(30) DEF Formatted, Second, Third, Call
  <1>7. \A u \in Thread : Own(u)' = Own(u)
    BY DEF Own, Second, Third, Call
  <1>8. ChainInv'
    BY <1>4, <1>5, <1>6, <1>7, SMTT(30) DEF CoreInv, ChainInv, Call
  <1>9. Posted' = Posted /\ Finished' = Finished
    BY DEF Posted, Finished, Call
  <1>10. RequestInv'
    BY <1>4, <1>5, <1>9, SMTT(30) DEF CoreInv, RequestInv, Call
  <1>11. BlockInv'
    BY <1>3, <1>4, <1>5, <1>9, SMTT(30) DEF CoreInv, BlockInv, Call, Contents
  <1>12. WakeInv'
    BY <1>3, SMTT(30) DEF CoreInv, WakeInv, FreeDescs, Call
  <1> QED BY <1>2, <1>8, <1>10, <1>11, <1>12 DEF CoreInv
-----------------------------------------------------------------------------
(* Steps that move a request.                                              *)

\* Whatever is posted, in the hands of the device or finished is the start
\* of the chain of one request.
LEMMA Owner ==
  ASSUME CoreInv, NEW h \in Elems(Posted) \cup working \cup Elems(Finished)
  PROVE  \E t \in Thread : /\ InFlight(t) /\ busy[t] /\ head[t] = h /\ Formatted(t) /\ info[h] = t
                           /\ \A u \in Thread : InFlight(u) /\ u # t => head[u] # h
  <1>1. PICK t \in Thread : InFlight(t) /\ busy[t] /\ head[t] = h
    BY DEF CoreInv, RequestInv
  <1>2. Formatted(t)
    BY <1>1 DEF CoreInv, ChainInv
  <1>3. \A u \in Thread : InFlight(u) /\ u # t => head[u] # h
    <2> SUFFICES ASSUME NEW u \in Thread, InFlight(u), u # t, head[u] = h PROVE FALSE
      OBVIOUS
    <2>1. Own(t) \cap Own(u) = {}
      BY <1>1 DEF CoreInv, ChainInv
    <2>2. h \in Own(t) /\ h \in Own(u)
      BY <1>1 DEF Own
    <2> QED BY <2>1, <2>2
  <1> QED BY <1>1, <1>2, <1>3 DEF Formatted

\* virtio_disk_rw() has its three descriptors.
LEMMA SubmitInv ==
  ASSUME CoreInv, NEW t \in Thread, Submit(t), RingHasRoom, FewerDescs
  PROVE  CoreInv'
  <1>1. PICK i0 \in Desc, i1 \in Desc, i2 \in Desc :
           /\ AllocDesc(i0, FreeDescs) /\ AllocDesc(i1, FreeDescs \ {i0})
           /\ AllocDesc(i2, FreeDescs \ {i0, i1}) /\ SubmitChain(t, i0, i1, i2)
    BY DEF Submit
  <1>2. /\ free' = [d \in Desc |-> free[d] /\ d \notin {i0, i1, i2}]
         /\ op' = [op EXCEPT ![i0] = [write |-> wr[t], sector |-> blk[t]]]
         /\ next' = [next EXCEPT ![i0] = i1, ![i1] = i2, ![i2] = NoDesc]
         /\ addr' = [addr EXCEPT ![i1] = t] /\ info' = [info EXCEPT ![i0] = t]
    BY <1>1 DEF SubmitChain
  <1>3. /\ status' = [status EXCEPT ![i0] = 255]
         /\ avail' = [avail EXCEPT ![availIdx % NUM] = i0] /\ availIdx' = Incr(availIdx)
    BY <1>1 DEF SubmitChain
  <1>4. /\ busy' = [busy EXCEPT ![t] = TRUE] /\ head' = [head EXCEPT ![t] = i0]
         /\ pc' = [pc EXCEPT ![t] = "asleep_b"]
    BY <1>1 DEF SubmitChain
  <1>5. UNCHANGED <<used_idx, data, blk, wr, intr, used, usedIdx, sectors, devIdx, working, irq>>
    BY <1>1 DEF SubmitChain
  <1>6. i0 # i1 /\ i0 # i2 /\ i1 # i2 /\ free[i0] /\ free[i1] /\ free[i2]
    BY <1>1 DEF AllocDesc, FreeDescs
  <1>7. TypeOK /\ pc[t] = "alloc"
    BY DEF CoreInv, Submit
  <1>8. \A h \in Elems(Posted) \cup working \cup Elems(Finished) : h \notin {i0, i1, i2}
    <2> SUFFICES ASSUME NEW h \in Elems(Posted) \cup working \cup Elems(Finished)
                 PROVE  h \notin {i0, i1, i2}
      OBVIOUS
    <2>1. PICK u \in Thread : head[u] = h /\ Formatted(u)
      BY Owner
    <2> QED BY <1>6, <2>1 DEF Formatted
  <1>9. Posted \in Seq(Desc) /\ Distinct(Posted) /\ Len(Posted) + 2 <= NUM
    <2>1. Posted \in Seq(Desc) /\ Distinct(Posted)
      BY <1>7, QueueTypes DEF CoreInv, RequestInv
    <2>2. i0 \notin Elems(Posted) /\ i1 \notin Elems(Posted)
      BY <1>8
    <2> QED BY <1>6, <2>1, <2>2 DEF RingHasRoom
  <1>10. Posted' = Append(Posted, i0) /\ Finished' = Finished /\ working' = working
    <2>1. Posted' = Append(Posted, i0)
      BY <1>3, <1>5, <1>7, <1>9, PostedPut
    <2> QED BY <1>5, <2>1 DEF Finished
  <1>11. /\ Elems(Posted') = Elems(Posted) \cup {i0} /\ Distinct(Posted') /\ Len(Posted') <= NUM
        /\ Elems(Finished') = Elems(Finished)
    <2>1. Elems(Append(Posted, i0)) = Elems(Posted) \cup {i0} /\ Distinct(Append(Posted, i0))
      BY <1>8, <1>9, ElemsAppend
    <2>2. Len(Append(Posted, i0)) <= NUM
      BY <1>9, AppendIs, VirtioAssumption, SMTT(30)
    <2> QED BY <1>10, <2>1, <2>2
  <1>12. TypeOK'
    <2>1. availIdx' \in 0..(UMAX - 1)
      <3>1. availIdx \in 0..(UMAX - 1) /\ availIdx' = Incr(availIdx)
        BY <1>3, <1>7 DEF TypeOK
      <3> QED BY <3>1, IncrIs, VirtioAssumption, SMTT(30) DEF Incr
    <2>2. /\ next' \in [Desc -> Desc \cup {NoDesc}]
          /\ addr' \in [Desc -> Thread \cup {NoThread}] /\ info' \in [Desc -> Thread \cup {NoThread}]
      BY <1>2, <1>7 DEF TypeOK
    <2>3. free' \in [Desc -> BOOLEAN] /\ busy' \in [Thread -> BOOLEAN]
      BY <1>2, <1>4, <1>7 DEF TypeOK
    <2>4. status' \in [Desc -> {0, 255}] /\ avail' \in [Desc -> Desc]
      BY <1>3, <1>7 DEF TypeOK
    <2>5. head' \in [Thread -> Desc \cup {NoDesc}]
      BY <1>4, <1>7 DEF TypeOK
    <2>6. op' \in [Desc -> [write : BOOLEAN, sector : Block \cup {NoBlock}]]
      BY <1>2, <1>7 DEF TypeOK
    <2>7. pc' \in [Thread -> Labels]
      BY <1>4, <1>7 DEF TypeOK, Labels
    <2>8. /\ used' \in [Desc -> Desc] /\ {availIdx', usedIdx', used_idx', devIdx'} \subseteq 0..(UMAX - 1)
          /\ data' \in [Thread -> Val \cup {NoVal}] /\ blk' \in [Thread -> Block \cup {NoBlock}]
          /\ wr' \in [Thread -> BOOLEAN] /\ intr' \in BOOLEAN /\ irq' \in BOOLEAN
          /\ sectors' \in [Block -> Val] /\ working' \subseteq Desc
      BY <1>5, <1>7, <2>1, SMTT(30) DEF TypeOK
    <2> QED BY <2>2, <2>6, <2>7, <2>8, <2>3, <2>4, <2>5 DEF TypeOK
  <1>13. /\ pc'[t] = "asleep_b" /\ busy'[t] /\ head'[t] = i0
        /\ \A u \in Thread \ {t} : pc'[u] = pc[u] /\ busy'[u] = busy[u] /\ head'[u] = head[u]
    BY <1>4, <1>7, SMTT(30) DEF TypeOK
  <1>14. ~InFlight(t) /\ \A u \in Thread : InFlight(u)' <=> InFlight(u) \/ u = t
    BY <1>7, <1>13 DEF InFlight
  <1>15. Formatted(t)' /\ Own(t)' = {i0, i1, i2}
    <2>1. next'[i0] = i1 /\ next'[i1] = i2 /\ next'[i2] = NoDesc
      BY <1>2, <1>6, <1>7 DEF TypeOK
    <2>2. Second(t)' = i1 /\ Third(t)' = i2
      BY <1>13, <2>1 DEF Second, Third
    <2>3. op'[i0] = [write |-> wr[t], sector |-> blk[t]] /\ wr' = wr /\ blk' = blk
      BY <1>2, <1>5, <1>7 DEF TypeOK
    <2>4. addr'[i1] = t /\ info'[i0] = t
      BY <1>2, <1>7, SMTT(30) DEF TypeOK
    <2>5. ~free'[i0] /\ ~free'[i1] /\ ~free'[i2]
      BY <1>2
    <2>6. head'[t] = i0
      BY <1>13
    <2>7. Own(t)' = {i0, i1, i2}
      BY <2>2, <2>6 DEF Own
    <2>8. op'[head'[t]] = [write |-> wr'[t], sector |-> blk'[t]]
      BY <2>3, <2>6
    <2> QED BY <1>6, <2>1, <2>2, <2>4, <2>5, <2>6, <2>7, <2>8 DEF Formatted
  <1>16. \A u \in Thread : InFlight(u) => Formatted(u)' /\ Own(u)' = Own(u) /\ Own(u) \cap {i0, i1, i2} = {}
    <2> SUFFICES ASSUME NEW u \in Thread, InFlight(u)
                 PROVE  Formatted(u)' /\ Own(u)' = Own(u) /\ Own(u) \cap {i0, i1, i2} = {}
      OBVIOUS
    <2>1. Formatted(u) /\ u # t /\ head'[u] = head[u]
      BY <1>13, <1>14 DEF CoreInv, ChainInv
    <2>2. Own(u) \cap {i0, i1, i2} = {} /\ Own(u) \subseteq Desc
      BY <1>6, <2>1 DEF Formatted, Own
    <2>3. \A d \in Own(u) : /\ next'[d] = next[d] /\ op'[d] = op[d] /\ addr'[d] = addr[d]
                            /\ info'[d] = info[d] /\ (free'[d] <=> free[d])
      BY <1>2, <1>7, <2>2 DEF TypeOK
    <2>4. Second(u)' = Second(u) /\ Third(u)' = Third(u)
      BY <2>1, <2>3 DEF Second, Third, Own
    <2> QED BY <1>5, <2>1, <2>2, <2>3, <2>4 DEF Formatted, Own
  <1>17. ChainInv'
    <2>1. \A u \in Thread : InFlight(u)' => Formatted(u)'
      BY <1>14, <1>15, <1>16
    <2>2. \A u, v \in Thread : InFlight(u)' /\ InFlight(v)' /\ u # v => Own(u)' \cap Own(v)' = {}
      BY <1>14, <1>15, <1>16, SMTT(30) DEF CoreInv, ChainInv
    <2>3. \A d \in Desc : ~free'[d] => ~free[d] \/ d \in {i0, i1, i2}
      BY <1>2
    <2>4. \A d \in Desc : ~free'[d] => \E u \in Thread : InFlight(u)' /\ d \in Own(u)'
      BY <1>14, <1>15, <1>16, <2>3, SMTT(30) DEF CoreInv, ChainInv
    <2> QED BY <2>1, <2>2, <2>4 DEF ChainInv
  <1>18. RequestInv'
    <2> DEFINE Q == Elems(Posted) \cup working \cup Elems(Finished)
    <2>1. /\ \A h \in Q : \E u \in Thread : InFlight(u) /\ busy[u] /\ head[u] = h
          /\ \A u \in Thread : busy[u] => InFlight(u) /\ head[u] \in Q
      BY DEF CoreInv, RequestInv
    <2>2. Elems(Posted') \cup working' \cup Elems(Finished') = Q \cup {i0}
      BY <1>10, <1>11
    <2> HIDE DEF Q
    <2>3. \A h \in Q \cup {i0} : \E u \in Thread : InFlight(u)' /\ busy'[u] /\ head'[u] = h
      BY <1>13, <1>14, <2>1, SMTT(30)
    <2>4. \A u \in Thread : busy'[u] => InFlight(u)' /\ head'[u] \in Q \cup {i0}
      BY <1>13, <1>14, <2>1
    <2>5. \A h \in Elems(Finished') : status'[h] = 0 /\ (irq' \/ intr')
      <3>1. \A h \in Elems(Finished) : h \in Desc /\ h # i0 /\ status[h] = 0 /\ (irq \/ intr)
        BY <1>7, <1>8, QueueTypes DEF CoreInv, RequestInv
      <3> QED BY <1>3, <1>5, <1>7, <1>11, <3>1 DEF TypeOK
    <2>6. /\ Elems(Posted') \cap working' = {} /\ Elems(Posted') \cap Elems(Finished') = {}
          /\ working' \cap Elems(Finished') = {} /\ Distinct(Finished') /\ Len(Finished') <= NUM
      BY <1>8, <1>10, <1>11, SMTT(30) DEF CoreInv, RequestInv
    <2> QED BY <1>11, <2>3, <2>4, <2>5, <2>2, <2>6 DEF RequestInv
  <1>19. BlockInv'
    <2>1. blk' = blk /\ data' = data /\ wr' = wr /\ sectors' = sectors
      BY <1>5
    <2>2. \A u \in Thread : pc'[u] # "idle" <=> pc[u] # "idle"
      BY <1>7, <1>13
    <2>3. i0 \notin Elems(Finished)
      BY <1>8
    <2> QED BY <1>10, <1>13, <1>14, <2>1, <2>2, <2>3 DEF CoreInv, BlockInv
  <1>20. WakeInv'
    <2>1. FreeDescs' \subseteq FreeDescs /\ FreeDescs \subseteq Desc
      BY <1>2 DEF FreeDescs
    <2>2. Cardinality(FreeDescs') <= Cardinality(FreeDescs)
          /\ Cardinality(FreeDescs') \in Nat /\ Cardinality(FreeDescs) \in Nat
      BY <2>1 DEF FewerDescs
    <2> QED BY <1>13, <2>2, SMTT(30) DEF CoreInv, WakeInv
  <1> QED BY <1>12, <1>17, <1>18, <1>19, <1>20 DEF CoreInv

\* free_chain() follows the links to the three descriptors of the request.
LEMMA ChainIs ==
  ASSUME NEW t \in Thread, Formatted(t)
  PROVE  Chain(head[t]) = Own(t)
  <1>1. NoDesc \notin Desc
    BY VirtioAssumption, SMTT(30) DEF NoDesc, Desc
  <1> QED BY <1>1 DEF Formatted, Chain, Links, Own, Second, Third

\* virtio_disk_rw() returns.
LEMMA CompleteInv ==
  ASSUME CoreInv, NEW t \in Thread, Complete(t)
  PROVE  CoreInv'
  <1>1. TypeOK /\ InFlight(t) /\ ~busy[t] /\ pc[t] = "wait"
    BY DEF CoreInv, InFlight, Complete, Done
  <1>2. Formatted(t) /\ Chain(head[t]) = Own(t) /\ Own(t) \subseteq Desc /\ head[t] \in Own(t)
    <2>1. Formatted(t)
      BY <1>1 DEF CoreInv, ChainInv
    <2> QED BY <2>1, ChainIs DEF Formatted, Own
  <1>3. \A d \in Desc : d \notin Own(t) =>
           /\ next'[d] = next[d] /\ op'[d] = op[d] /\ addr'[d] = addr[d]
           /\ info'[d] = info[d] /\ (free'[d] <=> free[d])
    <2>1. /\ free' = [d \in Desc |-> free[d] \/ d \in Own(t)]
          /\ next' = [d \in Desc |-> IF d \in Own(t) THEN NoDesc ELSE next[d]]
          /\ addr' = [d \in Desc |-> IF d \in Own(t) THEN NoThread ELSE addr[d]]
          /\ op' = [op EXCEPT ![head[t]] = NoOp] /\ info' = [info EXCEPT ![head[t]] = NoThread]
      BY <1>2 DEF Complete, FreeChain
    <2>2. op \in [Desc -> [write : BOOLEAN, sector : Block \cup {NoBlock}]]
          /\ info \in [Desc -> Thread \cup {NoThread}]
      BY <1>1 DEF TypeOK
    <2> QED BY <1>2, <2>1, <2>2
  <1>4. \A d \in Own(t) : free'[d]
    BY <1>2 DEF Complete, FreeChain
  <1>5. /\ pc' \in [Thread -> Labels] /\ pc'[t] = "idle"
        /\ \A u \in Thread \ {t} : pc'[u] = IF pc[u] = "asleep_free" THEN "alloc" ELSE pc[u]
    BY <1>1 DEF TypeOK, Complete, WakeFree, Labels
  <1>6. /\ busy' = busy
        /\ \A u \in Thread \ {t} : head'[u] = head[u] /\ blk'[u] = blk[u] /\ data'[u] = data[u] /\ wr'[u] = wr[u]
    BY <1>1, SMTT(30) DEF TypeOK, Complete
  <1>7. \A u \in Thread : InFlight(u)' <=> InFlight(u) /\ u # t
    BY <1>5 DEF InFlight
  <1>8. Posted' = Posted /\ Finished' = Finished /\ working' = working
    BY DEF Posted, Finished, Complete, driverRings, deviceVars
  <1>9. TypeOK'
    <2>1. /\ free' \in [Desc -> BOOLEAN] /\ next' \in [Desc -> Desc \cup {NoDesc}]
          /\ addr' \in [Desc -> Thread \cup {NoThread}] /\ info' \in [Desc -> Thread \cup {NoThread}]
      <3>1. free' \in [Desc -> BOOLEAN]
        BY <1>1 DEF TypeOK, Complete, FreeChain
      <3>2. next' \in [Desc -> Desc \cup {NoDesc}]
        BY <1>1 DEF TypeOK, Complete, FreeChain
      <3>3. addr' \in [Desc -> Thread \cup {NoThread}]
        BY <1>1 DEF TypeOK, Complete, FreeChain
      <3>4. info' \in [Desc -> Thread \cup {NoThread}]
        BY <1>1 DEF TypeOK, Complete
      <3> QED BY <3>1, <3>2, <3>3, <3>4
    <2>2. op' \in [Desc -> [write : BOOLEAN, sector : Block \cup {NoBlock}]]
      BY <1>1 DEF TypeOK, Complete, FreeChain, NoOp
    <2>3. /\ data' \in [Thread -> Val \cup {NoVal}] /\ blk' \in [Thread -> Block \cup {NoBlock}]
          /\ wr' \in [Thread -> BOOLEAN] /\ head' \in [Thread -> Desc \cup {NoDesc}]
      BY <1>1 DEF TypeOK, Complete
    <2>4. UNCHANGED <<status, avail, used, availIdx, usedIdx, used_idx, devIdx, busy, intr, irq, sectors, working>>
      BY DEF Complete, driverRings, deviceVars
    <2> QED BY <1>1, <1>5, <2>1, <2>2, <2>3, <2>4 DEF TypeOK
  <1>10. \A u \in Thread : InFlight(u) /\ u # t => Formatted(u)' /\ Own(u)' = Own(u) /\ Own(u) \cap Own(t) = {}
    <2> SUFFICES ASSUME NEW u \in Thread, InFlight(u), u # t
                 PROVE  Formatted(u)' /\ Own(u)' = Own(u) /\ Own(u) \cap Own(t) = {}
      OBVIOUS
    <2>1. Formatted(u) /\ Own(u) \cap Own(t) = {} /\ Own(u) \subseteq Desc
      <3>1. Formatted(u) /\ Own(u) \cap Own(t) = {}
        BY <1>1 DEF CoreInv, ChainInv
      <3> QED BY <3>1 DEF Formatted, Own
    <2>2. \A d \in Own(u) : /\ next'[d] = next[d] /\ op'[d] = op[d] /\ addr'[d] = addr[d]
                            /\ info'[d] = info[d] /\ (free'[d] <=> free[d])
      BY <1>3, <2>1
    <2>3. Second(u)' = Second(u) /\ Third(u)' = Third(u) /\ head'[u] = head[u]
      <3>1. head'[u] = head[u]
        BY <1>6
      <3>2. next'[head[u]] = next[head[u]] /\ next'[Second(u)] = next[Second(u)]
        BY <2>2 DEF Own
      <3>3. Second(u)' = Second(u)
        BY <3>1, <3>2 DEF Second
      <3> QED BY <3>1, <3>2, <3>3 DEF Third
    <2> QED BY <1>6, <2>1, <2>2, <2>3 DEF Formatted, Own
  <1>11. ChainInv'
    <2>1. \A u \in Thread : InFlight(u)' => Formatted(u)'
      BY <1>7, <1>10
    <2>2. \A u, v \in Thread : InFlight(u)' /\ InFlight(v)' /\ u # v => Own(u)' \cap Own(v)' = {}
      BY <1>7, <1>10 DEF CoreInv, ChainInv
    <2>3. \A d \in Desc : ~free'[d] => ~free[d] /\ d \notin Own(t)
      BY <1>3, <1>4
    <2>4. \A d \in Desc : ~free'[d] => \E u \in Thread : InFlight(u)' /\ d \in Own(u)'
      BY <1>7, <1>10, <2>3, SMTT(30) DEF CoreInv, ChainInv
    <2> QED BY <2>1, <2>2, <2>4 DEF ChainInv
  <1>12. RequestInv'
    <2> DEFINE Q == Elems(Posted) \cup working \cup Elems(Finished)
    <2>1. /\ \A h \in Q : \E u \in Thread : InFlight(u) /\ busy[u] /\ head[u] = h
          /\ \A u \in Thread : busy[u] => InFlight(u) /\ head[u] \in Q
      BY DEF CoreInv, RequestInv
    <2> HIDE DEF Q
    <2>2. \A h \in Q : \E u \in Thread : InFlight(u)' /\ busy'[u] /\ head'[u] = h
      BY <1>1, <1>6, <1>7, <2>1, SMTT(30)
    <2>3. \A u \in Thread : busy'[u] => InFlight(u)' /\ head'[u] \in Q
      BY <1>1, <1>6, <1>7, <2>1
    <2>4. status' = status /\ irq' = irq /\ intr' = intr
      BY DEF Complete, deviceVars
    <2> QED BY <1>8, <2>2, <2>3, <2>4 DEF CoreInv, RequestInv, Q
  <1>13. BlockInv'
    <2>1. sectors' = sectors /\ Elems(Finished') = Elems(Finished)
      BY <1>8 DEF Complete, deviceVars
    <2>2. \A u \in Thread : pc'[u] # "idle" => pc[u] # "idle" /\ u # t
      BY <1>5
    <2>3. \A u \in Thread : pc'[u] # "idle" => blk'[u] \in Block /\ (wr'[u] => data'[u] \in Val)
      BY <1>6, <2>2 DEF CoreInv, BlockInv
    <2>4. \A u, v \in Thread : pc'[u] # "idle" /\ pc'[v] # "idle" /\ u # v => blk'[u] # blk'[v]
      BY <1>6, <2>2, SMTT(30) DEF CoreInv, BlockInv
    <2>5. \A u \in Thread : InFlight(u)' /\ (~busy'[u] \/ head'[u] \in Elems(Finished')) =>
             sectors'[blk'[u]] = data'[u]
      BY <1>6, <1>7, <2>1 DEF CoreInv, BlockInv
    <2> QED BY <2>3, <2>4, <2>5 DEF BlockInv
  <1>14. WakeInv'
    BY <1>5, <1>6 DEF CoreInv, WakeInv
  <1> QED BY <1>9, <1>11, <1>12, <1>13, <1>14 DEF CoreInv
-----------------------------------------------------------------------------
\* The device looks at a chain.
LEMMA DevTakeInv ==
  ASSUME CoreInv, DevTake
  PROVE  CoreInv'
  <1> DEFINE h == avail[devIdx % NUM]
  <1>1. TypeOK
    BY DEF CoreInv
  <1>2. Posted # <<>> /\ Posted' = Tail(Posted) /\ Head(Posted) = h
    BY <1>1, PostedTake DEF CoreInv, RequestInv, DevTake
  <1>3. Posted \in Seq(Desc) /\ Distinct(Posted) /\ Len(Posted) <= NUM
    BY <1>1, QueueTypes DEF CoreInv, RequestInv
  <1> HIDE DEF h
  <1>4. h \in Elems(Posted) /\ h \in Desc /\ Elems(Tail(Posted)) = Elems(Posted) \ {h} /\ Distinct(Tail(Posted))
    BY <1>2, <1>3, ElemsTail
  <1>5. Len(Tail(Posted)) <= NUM
    BY <1>2, <1>3, TailIs, VirtioAssumption, SMTT(30)
  <1>6. working' = working \cup {h} /\ Finished' = Finished
    BY DEF DevTake, Finished, h
  <1>7. TypeOK'
    <2>1. devIdx' \in 0..(UMAX - 1)
      BY <1>1, IncrIs, VirtioAssumption, SMTT(30) DEF TypeOK, DevTake, Incr
    <2>2. avail' \in [Desc -> Desc] /\ working' \subseteq Desc
      <3>1. 0 \in Desc
        BY VirtioAssumption, SMTT(30) DEF Desc
      <3> QED BY <1>1, <1>4, <1>6, <3>1 DEF TypeOK, DevTake
    <2>3. UNCHANGED <<free, next, addr, op, info, status, used, availIdx, usedIdx, used_idx, busy, data,
                      blk, wr, pc, head, intr, irq, sectors>>
      BY DEF DevTake, descVars
    <2> QED BY <1>1, <2>1, <2>2, <2>3, SMTT(30) DEF TypeOK
  <1>8. ChainInv'
    <2>1. \A t \in Thread : (Formatted(t)' <=> Formatted(t)) /\ Own(t)' = Own(t) /\ (InFlight(t)' <=> InFlight(t))
      BY DEF Formatted, Own, Second, Third, InFlight, DevTake, descVars
    <2>2. free' = free
      BY DEF DevTake, descVars
    <2> QED BY <2>1, <2>2, SMTT(30) DEF CoreInv, ChainInv
  <1>9. RequestInv'
    <2>1. \A t \in Thread : InFlight(t)' <=> InFlight(t)
      BY DEF InFlight, DevTake
    <2>2. busy' = busy /\ head' = head /\ status' = status /\ irq' = irq /\ intr' = intr
      BY DEF DevTake
    <2>3. Elems(Posted') = Elems(Posted) \ {h} /\ Distinct(Posted') /\ Len(Posted') <= NUM
      BY <1>2, <1>4, <1>5
    <2>4. Elems(Posted') \cup working' \cup Elems(Finished') = Elems(Posted) \cup working \cup Elems(Finished)
      BY <1>4, <1>6, <2>3
    <2>5. /\ Elems(Posted') \cap working' = {} /\ Elems(Posted') \cap Elems(Finished') = {}
          /\ working' \cap Elems(Finished') = {}
      BY <1>4, <1>6, <2>3, SMTT(30) DEF CoreInv, RequestInv
    <2> QED BY <1>6, <2>1, <2>2, <2>3, <2>4, <2>5 DEF CoreInv, RequestInv
  <1>10. BlockInv' /\ WakeInv'
    BY <1>6 DEF CoreInv, BlockInv, WakeInv, InFlight, FreeDescs, DevTake, descVars
  <1> QED BY <1>7, <1>8, <1>9, <1>10 DEF CoreInv

\* The handler takes an entry of the used ring and wakes its thread.
LEMMA IntrOneInv ==
  ASSUME CoreInv, IntrOne
  PROVE  CoreInv'
  <1> DEFINE h == used[used_idx % NUM]
  <1>1. TypeOK
    BY DEF CoreInv
  <1>2. Finished # <<>> /\ Finished' = Tail(Finished) /\ Head(Finished) = h
    BY <1>1, FinishedTake DEF CoreInv, RequestInv, IntrOne
  <1>3. Finished \in Seq(Desc) /\ Distinct(Finished) /\ Len(Finished) <= NUM
    BY <1>1, QueueTypes DEF CoreInv, RequestInv
  <1>4. /\ busy' = [t \in Thread |-> busy[t] /\ t # info[h]]
        /\ pc' = [t \in Thread |-> IF t = info[h] /\ pc[t] = "asleep_b" THEN "wait" ELSE pc[t]]
    BY DEF IntrOne
  <1> HIDE DEF h
  <1>5. h \in Elems(Finished) /\ h \in Desc /\ Elems(Finished') = Elems(Finished) \ {h} /\ Distinct(Finished')
    BY <1>2, <1>3, ElemsTail
  <1>6. Len(Finished') <= NUM
    BY <1>2, <1>3, TailIs, VirtioAssumption, SMTT(30)
  <1>7. PICK u \in Thread : /\ InFlight(u) /\ busy[u] /\ head[u] = h /\ info[h] = u
                            /\ \A v \in Thread : InFlight(v) /\ v # u => head[v] # h
    BY <1>5, Owner
  <1>8. Posted' = Posted /\ working' = working /\ status' = status /\ irq' = irq /\ intr' = intr
        /\ head' = head /\ blk' = blk /\ data' = data /\ wr' = wr /\ sectors' = sectors
    BY DEF IntrOne, Posted
  <1>9. \A t \in Thread : /\ (InFlight(t)' <=> InFlight(t)) /\ (pc'[t] = "idle" <=> pc[t] = "idle")
                          /\ pc'[t] = pc[t] \/ (t = u /\ pc'[t] = "wait")
                          /\ (busy'[t] <=> busy[t] /\ t # u)
    BY <1>4, <1>7 DEF InFlight
  <1>10. TypeOK'
    <2>1. used_idx' \in 0..(UMAX - 1)
      <3>1. used_idx \in 0..(UMAX - 1) /\ used_idx' = Incr(used_idx)
        BY <1>1 DEF TypeOK, IntrOne
      <3> QED BY <3>1, IncrIs, VirtioAssumption, SMTT(30) DEF Incr
    <2>2. used' \in [Desc -> Desc] /\ pc' \in [Thread -> Labels] /\ busy' \in [Thread -> BOOLEAN]
      <3>1. 0 \in Desc
        BY VirtioAssumption, SMTT(30) DEF Desc
      <3>2. used' \in [Desc -> Desc]
        BY <1>1, <3>1 DEF TypeOK, IntrOne
      <3>3. busy \in [Thread -> BOOLEAN] /\ pc \in [Thread -> Labels]
        BY <1>1 DEF TypeOK
      <3>4. busy' \in [Thread -> BOOLEAN]
        BY <1>4, <3>3
      <3>5. pc' \in [Thread -> Labels]
        BY <1>4, <3>3 DEF Labels
      <3> QED BY <3>2, <3>4, <3>5
    <2>3. UNCHANGED <<free, next, addr, op, info, status, avail, availIdx, usedIdx, devIdx, data, blk, wr,
                      head, intr, irq, sectors, working>>
      BY DEF IntrOne, descVars
    <2>4. {availIdx', usedIdx', used_idx', devIdx'} \subseteq 0..(UMAX - 1)
      <3>1. availIdx \in 0..(UMAX - 1) /\ usedIdx \in 0..(UMAX - 1) /\ devIdx \in 0..(UMAX - 1)
        BY <1>1 DEF TypeOK
      <3>2. availIdx' = availIdx /\ usedIdx' = usedIdx /\ devIdx' = devIdx
        BY <2>3
      <3> QED BY <2>1, <3>1, <3>2
    <2> QED BY <1>1, <2>2, <2>3, <2>4 DEF TypeOK
  <1>11. ChainInv'
    <2>1. \A t \in Thread : (Formatted(t)' <=> Formatted(t)) /\ Own(t)' = Own(t)
      BY DEF Formatted, Own, Second, Third, IntrOne, descVars
    <2>2. free' = free
      BY DEF IntrOne, descVars
    <2> QED BY <1>9, <2>1, <2>2, SMTT(30) DEF CoreInv, ChainInv
  <1>12. RequestInv'
    <2>1. /\ Elems(Posted') \cap working' = {} /\ Elems(Posted') \cap Elems(Finished') = {}
          /\ working' \cap Elems(Finished') = {}
          /\ h \notin Elems(Posted') \cup working' \cup Elems(Finished')
      BY <1>5, <1>8 DEF CoreInv, RequestInv
    <2> DEFINE Q == Elems(Posted) \cup working \cup Elems(Finished)
    <2>2. /\ \A g \in Q : \E t \in Thread : InFlight(t) /\ busy[t] /\ head[t] = g
          /\ \A t \in Thread : busy[t] => InFlight(t) /\ head[t] \in Q
      BY DEF CoreInv, RequestInv
    <2>3. Elems(Posted') \cup working' \cup Elems(Finished') = Q \ {h}
      BY <1>5, <1>8, <2>1
    <2> HIDE DEF Q
    <2>4. \A g \in Q \ {h} : \E t \in Thread : InFlight(t)' /\ busy'[t] /\ head'[t] = g
      BY <1>7, <1>8, <1>9, <2>2
    <2>5. \A t \in Thread : busy'[t] => InFlight(t)' /\ head'[t] \in Q \ {h}
      BY <1>7, <1>8, <1>9, <2>2
    <2>6. \A g \in Elems(Finished') : status'[g] = 0 /\ (irq' \/ intr')
      BY <1>5, <1>8 DEF CoreInv, RequestInv
    <2>7. Distinct(Posted') /\ Len(Posted') <= NUM
      BY <1>8 DEF CoreInv, RequestInv
    <2> QED BY <1>5, <1>6, <2>1, <2>4, <2>5, <2>6, <2>3, <2>7 DEF RequestInv
  <1>13. BlockInv'
    <2>1. \A t \in Thread : InFlight(t)' /\ (~busy'[t] \/ head'[t] \in Elems(Finished')) =>
             sectors'[blk'[t]] = data'[t]
      BY <1>5, <1>7, <1>8, <1>9 DEF CoreInv, BlockInv
    <2>2. \A t \in Thread : pc'[t] # "idle" => pc[t] # "idle"
      BY <1>9
    <2> QED BY <1>8, <2>1, <2>2 DEF CoreInv, BlockInv
  <1>14. WakeInv'
    BY <1>9 DEF CoreInv, WakeInv, FreeDescs, IntrOne, descVars
  <1> QED BY <1>10, <1>11, <1>12, <1>13, <1>14 DEF CoreInv

\* The device finishes a chain.
LEMMA DevDoneInv ==
  ASSUME CoreInv, NEW h \in Desc, DevDone(h), RingHasRoom
  PROVE  CoreInv'
  <1>1. TypeOK /\ h \in working
    BY DEF CoreInv, DevDone
  <1>2. PICK u \in Thread : /\ InFlight(u) /\ busy[u] /\ head[u] = h /\ Formatted(u)
                            /\ \A v \in Thread : InFlight(v) /\ v # u => head[v] # h
    BY <1>1, Owner
  <1>3. next[h] = Second(u) /\ Second(u) \in Desc /\ next[h] # NoDesc /\ addr[next[h]] = u /\ u # NoThread
        /\ op[h].write = wr[u] /\ op[h].sector = blk[u]
    <2>1. NoDesc \notin Desc /\ u # NoThread
      BY VirtioAssumption, SMTT(30) DEF NoDesc, Desc
    <2>2. next[h] = Second(u) /\ Second(u) \in Desc /\ addr[next[h]] = u
          /\ op[h] = [write |-> wr[u], sector |-> blk[u]]
      BY <1>2 DEF Formatted, Second
    <2> QED BY <2>1, <2>2, SMTT(30)
  <1>4. h \notin Elems(Finished) /\ h \notin Elems(Posted)
    BY <1>1 DEF CoreInv, RequestInv
  <1>5. Second(u) \notin Elems(Finished) /\ Second(u) # h
    <2>1. Second(u) # head[u]
      BY <1>2 DEF Formatted
    <2>2. ASSUME Second(u) \in Elems(Finished) PROVE FALSE
      <3>1. PICK v \in Thread : InFlight(v) /\ head[v] = Second(u)
        BY <2>2, Owner
      <3>2. v # u
        BY <2>1, <3>1
      <3> QED BY <1>2, <3>1, <3>2 DEF CoreInv, ChainInv, Own
    <2> QED BY <1>2, <2>1, <2>2
  <1>6. Finished \in Seq(Desc) /\ Distinct(Finished)
    BY <1>1, QueueTypes DEF CoreInv, RequestInv
  <1>7. Len(Finished) + 2 <= NUM
    BY <1>3, <1>4, <1>5, <1>6 DEF RingHasRoom
  <1>8. Finished' = Append(Finished, h)
    BY <1>1, <1>7, FinishedPut DEF DevDone, driverRings
  <1>9. Elems(Finished') = Elems(Finished) \cup {h} /\ Distinct(Finished') /\ Len(Finished') <= NUM
    <2>1. Len(Append(Finished, h)) <= NUM
      BY <1>6, <1>7, AppendIs, VirtioAssumption, SMTT(30)
    <2> QED BY <1>4, <1>6, <1>8, <2>1, ElemsAppend, SMTT(30)
  <1>10. /\ Posted' = Posted /\ working' = working \ {h} /\ irq' = TRUE /\ intr' = intr
         /\ busy' = busy /\ head' = head /\ blk' = blk /\ wr' = wr /\ pc' = pc /\ UNCHANGED descVars
    BY DEF DevDone, driverRings, Posted
  <1>11. \A t \in Thread : InFlight(t)' <=> InFlight(t)
    BY <1>10 DEF InFlight
  <1>12. blk[u] \in Block /\ (wr[u] => data[u] \in Val)
    BY <1>2 DEF CoreInv, BlockInv, InFlight
  <1>13. /\ sectors' = (IF wr[u] THEN [sectors EXCEPT ![blk[u]] = data[u]] ELSE sectors)
         /\ data' = (IF wr[u] THEN data ELSE [data EXCEPT ![u] = sectors[blk[u]]])
    BY <1>1, <1>3, <1>12, SMTT(30) DEF DevDone, TypeOK
  <1>14. /\ sectors'[blk[u]] = data'[u]
         /\ \A t \in Thread \ {u} : data'[t] = data[t]
         /\ \A k \in Block \ {blk[u]} : sectors'[k] = sectors[k]
    BY <1>1, <1>12, <1>13, SMTT(30) DEF TypeOK
  <1>15. sectors' \in [Block -> Val] /\ data' \in [Thread -> Val \cup {NoVal}] /\ data'[u] \in Val
    BY <1>1, <1>12, <1>13, SMTT(30) DEF TypeOK
  <1>16. TypeOK'
    <2>1. usedIdx' \in 0..(UMAX - 1)
      <3>1. usedIdx \in 0..(UMAX - 1) /\ usedIdx' = Incr(usedIdx)
        BY <1>1 DEF TypeOK, DevDone
      <3> QED BY <3>1, IncrIs, VirtioAssumption, SMTT(30) DEF Incr
    <2>2. used' \in [Desc -> Desc] /\ status' \in [Desc -> {0, 255}] /\ working' \subseteq Desc
      BY <1>1 DEF TypeOK, DevDone
    <2>3. UNCHANGED <<free, next, addr, op, info, avail, availIdx, used_idx, devIdx, busy, blk, wr, pc, head, intr>>
          /\ irq' \in BOOLEAN
      BY DEF DevDone, descVars, driverRings
    <2>4. {availIdx', usedIdx', used_idx', devIdx'} \subseteq 0..(UMAX - 1)
      <3>1. availIdx \in 0..(UMAX - 1) /\ used_idx \in 0..(UMAX - 1) /\ devIdx \in 0..(UMAX - 1)
        BY <1>1 DEF TypeOK
      <3>2. availIdx' = availIdx /\ used_idx' = used_idx /\ devIdx' = devIdx
        BY <2>3
      <3> QED BY <2>1, <3>1, <3>2
    <2> QED BY <1>1, <1>15, <2>2, <2>3, <2>4 DEF TypeOK
  <1>17. ChainInv'
    <2>1. \A t \in Thread : (Formatted(t)' <=> Formatted(t)) /\ Own(t)' = Own(t)
      BY <1>10 DEF Formatted, Own, Second, Third, descVars
    <2> QED BY <1>10, <1>11, <2>1, SMTT(30) DEF CoreInv, ChainInv, descVars
  <1>18. RequestInv'
    <2>1. Elems(Posted') \cup working' \cup Elems(Finished') = Elems(Posted) \cup working \cup Elems(Finished)
      BY <1>1, <1>9, <1>10
    <2>2. /\ Elems(Posted') \cap working' = {} /\ Elems(Posted') \cap Elems(Finished') = {}
          /\ working' \cap Elems(Finished') = {}
      BY <1>4, <1>9, <1>10, SMTT(30) DEF CoreInv, RequestInv
    <2>3. \A g \in Elems(Finished') : status'[g] = 0 /\ (irq' \/ intr')
      <3>1. \A g \in Elems(Finished) : g \in Desc /\ status[g] = 0
        BY <1>1, QueueTypes DEF CoreInv, RequestInv
      <3>2. status' = [status EXCEPT ![h] = 0]
        BY DEF DevDone
      <3>3. status \in [Desc -> {0, 255}] /\ h \in Desc
        BY <1>1 DEF TypeOK
      <3>4. \A g \in Desc : g = h \/ status[g] = 0 => status'[g] = 0
        BY <3>2, <3>3
      <3> QED BY <1>1, <1>9, <1>10, <3>1, <3>4
    <2>4. Distinct(Posted') /\ Len(Posted') <= NUM
      BY <1>10 DEF CoreInv, RequestInv
    <2>5. /\ \A g \in Elems(Posted) \cup working \cup Elems(Finished) :
                \E t \in Thread : InFlight(t)' /\ busy'[t] /\ head'[t] = g
          /\ \A t \in Thread : busy'[t] =>
                InFlight(t)' /\ head'[t] \in Elems(Posted) \cup working \cup Elems(Finished)
      BY <1>10, <1>11 DEF CoreInv, RequestInv
    <2> QED BY <1>9, <2>1, <2>2, <2>3, <2>4, <2>5 DEF RequestInv
  <1>19. BlockInv'
    <2>1. ASSUME NEW t \in Thread, InFlight(t), ~busy[t] \/ head[t] \in Elems(Finished')
          PROVE  sectors'[blk[t]] = data'[t]
      <3>1. CASE t = u
        BY <1>14, <3>1
      <3>2. CASE t # u
        <4>1. ~busy[t] \/ head[t] \in Elems(Finished)
          BY <1>2, <1>9, <2>1, <3>2
        <4>2. sectors[blk[t]] = data[t] /\ blk[t] \in Block /\ blk[t] # blk[u]
          BY <1>2, <2>1, <3>2, <4>1 DEF CoreInv, BlockInv, InFlight
        <4> QED BY <1>14, <3>2, <4>2
      <3> QED BY <3>1, <3>2
    <2>2. \A t \in Thread : pc[t] # "idle" => blk[t] \in Block /\ (wr[t] => data'[t] \in Val)
      BY <1>14, <1>15 DEF CoreInv, BlockInv
    <2> QED BY <1>10, <1>11, <2>1, <2>2 DEF CoreInv, BlockInv
  <1>20. WakeInv'
    BY <1>10 DEF CoreInv, WakeInv, FreeDescs, descVars
  <1> QED BY <1>16, <1>17, <1>18, <1>19, <1>20 DEF CoreInv
-----------------------------------------------------------------------------
\* virtio_disk_init() establishes the invariant.
LEMMA InitCore == Init => CoreInv
  <1> SUFFICES ASSUME Init PROVE CoreInv
    OBVIOUS
  <1>1. TypeOK
    <2>1. 0 \in Desc /\ 0 \in 0..(UMAX - 1)
      BY VirtioAssumption, SMTT(30) DEF Desc
    <2> QED BY <2>1 DEF Init, TypeOK, NoOp, Labels
  <1>2. Posted = <<>> /\ Finished = <<>>
    BY <1>1, QueueTypes DEF Init
  <1>3. Elems(Posted) = {} /\ Elems(Finished) = {} /\ Distinct(Posted) /\ Distinct(Finished)
        /\ Len(Posted) = 0 /\ Len(Finished) = 0
    BY <1>2, SMTT(30) DEF Elems, Distinct
  <1>4. ChainInv /\ BlockInv /\ WakeInv
    BY DEF Init, ChainInv, BlockInv, WakeInv, InFlight
  <1>5. RequestInv
    BY <1>3, VirtioAssumption, SMTT(30) DEF Init, RequestInv
  <1> QED BY <1>1, <1>4, <1>5 DEF CoreInv

\* Every step of a thread, of the handler and of the device preserves it.
LEMMA NextCore == RingHasRoom /\ FewerDescs /\ CoreInv /\ [Next]_vars => CoreInv'
  <1> SUFFICES ASSUME RingHasRoom, FewerDescs, CoreInv, [Next]_vars PROVE CoreInv'
    OBVIOUS
  <1>1. CASE UNCHANGED vars
    <2>1. pc' = pc /\ pc \in [Thread -> Labels] /\ intr \in BOOLEAN /\ irq \in BOOLEAN
      BY <1>1 DEF vars, CoreInv, TypeOK
    <2>2. \A t \in Thread : InFlight(t)' <=> InFlight(t)
      BY <2>1 DEF InFlight
    <2>3. Elems(Finished) = {} \/ irq' \/ intr'
      BY <1>1 DEF vars, CoreInv, RequestInv
    <2>4. WakeInv'
      BY <1>1 DEF vars, descVars, CoreInv, WakeInv, FreeDescs
    <2> QED BY <1>1, <2>1, <2>2, <2>3, <2>4, QuietStep DEF vars
  <1>2. ASSUME NEW t \in Thread, NEW k \in Block, NEW w \in BOOLEAN,
               NEW v \in Contents(w), Call(t, k, w, v)
        PROVE  CoreInv'
    BY <1>2, CallInv
  <1>3. ASSUME NEW t \in Thread, ReadWrite(t) PROVE CoreInv'
    BY <1>3, AllocFailInv, SubmitInv, SleepAgainInv, CompleteInv DEF ReadWrite
  <1>4. ASSUME NEW t \in Thread, Kill(t) PROVE CoreInv'
    BY <1>4, KillInv
  <1>5. CASE Interrupt
    BY <1>5, IntrAckInv, IntrOneInv, IntrEndInv DEF Interrupt
  <1>6. CASE Device
    BY <1>6, DevTakeInv, DevDoneInv DEF Device
  <1> QED BY <1>1, <1>2, <1>3, <1>4, <1>5, <1>6 DEF Next
-----------------------------------------------------------------------------
(* Counting descriptors.                                                   *)

\* Chains take up more than one descriptor each: while two descriptors are
\* not at the start of one, the ring has room for another chain.
LEMMA Room ==
  ASSUME NEW s \in Seq(Desc), Distinct(s), NEW a \in Desc, NEW z \in Desc, a # z,
         a \notin Elems(s), z \notin Elems(s)
  PROVE  Len(s) + 2 <= NUM
  <1> DEFINE T == Desc \ {a, z}
  <1>1. NUM \in Nat /\ NUM - 1 \in Int
    BY VirtioAssumption, SMTT(30)
  <1>2. IsFiniteSet(Desc) /\ Cardinality(Desc) = NUM
    BY <1>1, FS_Interval, VirtioAssumption, SMTT(30) DEF Desc
  <1>3. IsFiniteSet(Desc \ {a}) /\ Cardinality(Desc \ {a}) = NUM - 1
    BY <1>2, FS_RemoveElement
  <1>4. T = (Desc \ {a}) \ {z} /\ z \in Desc \ {a}
    OBVIOUS
  <1>5. IsFiniteSet(T) /\ Cardinality(T) = NUM - 1 - 1
    BY <1>3, <1>4, FS_RemoveElement
  <1>6. Len(s) \in Nat /\ IsFiniteSet(1..Len(s)) /\ Cardinality(1..Len(s)) = Len(s)
    <2>1. Len(s) \in Nat /\ Len(s) \in Int /\ 1 \in Int
      BY SMTT(30)
    <2>2. IsFiniteSet(1..Len(s)) /\ Cardinality(1..Len(s)) = IF 1 > Len(s) THEN 0 ELSE Len(s) - 1 + 1
      BY <2>1, FS_Interval
    <2> QED BY <2>1, <2>2, SMTT(30)
  <1>7. s \in [1..Len(s) -> T]
    BY SMTT(30) DEF Elems
  <1>8. s \in Injection(1..Len(s), T)
    BY <1>7 DEF Injection, IsInjective, Distinct
  <1>9. Cardinality(1..Len(s)) <= Cardinality(T)
    BY <1>5, <1>6, <1>8, FS_Injection DEF ExistsInjection
  <1> QED BY <1>1, <1>5, <1>6, <1>9, SMTT(30)

\* Taking descriptors leaves fewer.
LEMMA Fewer == FewerDescs
  <1> SUFFICES ASSUME NEW S \in SUBSET Desc, NEW T \in SUBSET S
               PROVE  Cardinality(T) <= Cardinality(S) /\ Cardinality(T) \in Nat /\ Cardinality(S) \in Nat
    BY DEF FewerDescs
  <1>1. IsFiniteSet(Desc)
    BY FS_Interval, VirtioAssumption, SMTT(30) DEF Desc
  <1>2. IsFiniteSet(S)
    BY <1>1, FS_Subset
  <1>3. IsFiniteSet(T) /\ Cardinality(T) <= Cardinality(S)
    BY <1>2, FS_Subset
  <1> QED BY <1>2, <1>3, FS_CardinalityType

\* Hence it holds in every reachable state.
LEMMA CoreInvariant == Spec => []CoreInv
  <1>1. RingHasRoom /\ FewerDescs
    BY Room, Fewer DEF RingHasRoom
  <1>2. CoreInv /\ [Next]_vars => CoreInv'
    BY <1>1, NextCore
  <1> QED BY <1>2, InitCore, PTL DEF Spec

\* A set of three elements.
LEMMA CardThree ==
  ASSUME NEW a, NEW d, NEW e, a # d, d # e, a # e
  PROVE  Cardinality({a, d, e}) = 3
  <1>1. IsFiniteSet({a}) /\ Cardinality({a}) = 1
    BY FS_Singleton
  <1>2. IsFiniteSet({a} \cup {d}) /\ Cardinality({a} \cup {d}) = 2
    BY <1>1, FS_AddElement, SMTT(30)
  <1>3. Cardinality(({a} \cup {d}) \cup {e}) = 3
    BY <1>2, FS_AddElement, SMTT(30)
  <1>4. {a, d, e} = ({a} \cup {d}) \cup {e}
    OBVIOUS
  <1> QED BY <1>3, <1>4

\* What free_chain() walks is what the request owns.
LEMMA Partition == CoreInv => DescriptorsPartitioned
  <1> SUFFICES ASSUME CoreInv PROVE DescriptorsPartitioned
    OBVIOUS
  <1>1. \A t \in Thread : InFlight(t) => Formatted(t) /\ Chain(head[t]) = Own(t)
    BY ChainIs DEF CoreInv, ChainInv
  <1>2. \A t \in Thread : InFlight(t) => Cardinality(Chain(head[t])) = 3
    <2> SUFFICES ASSUME NEW t \in Thread, InFlight(t) PROVE Cardinality(Own(t)) = 3
      BY <1>1
    <2>1. head[t] # Second(t) /\ Second(t) # Third(t) /\ head[t] # Third(t)
      BY <1>1 DEF Formatted
    <2> QED BY <2>1, CardThree DEF Own
  <1>3. \A t, u \in Thread :
           InFlight(t) /\ InFlight(u) /\ t # u => Chain(head[t]) \cap Chain(head[u]) = {}
    BY <1>1 DEF CoreInv, ChainInv
  <1>4. FreeDescs = Desc \ UNION {Chain(head[t]) : t \in {u \in Thread : InFlight(u)}}
    <2>1. ASSUME NEW d \in Desc, free[d], NEW t \in Thread, InFlight(t) PROVE d \notin Chain(head[t])
      <3>1. ~free[head[t]] /\ ~free[Second(t)] /\ ~free[Third(t)]
        BY <1>1, <2>1 DEF Formatted
      <3>2. d \notin Own(t)
        BY <2>1, <3>1 DEF Own
      <3> QED BY <1>1, <2>1, <3>2
    <2>2. ASSUME NEW d \in Desc, ~free[d] PROVE \E t \in Thread : InFlight(t) /\ d \in Chain(head[t])
      BY <1>1, <2>2, SMTT(30) DEF CoreInv, ChainInv
    <2> QED BY <2>1, <2>2 DEF FreeDescs
  <1> QED BY <1>2, <1>3, <1>4 DEF CoreInv, DescriptorsPartitioned

\* A request that is not over is in exactly one of the available ring, the
\* device and the used ring, its three descriptors are its own and all others
\* are free, so free_desc() never panics and neither ring is overrun.
THEOREM VirtioInvariant == Spec => []VirtioInv
  <1>1. CoreInv => VirtioInv
    BY Partition DEF CoreInv, VirtioInv
  <1> QED BY <1>1, CoreInvariant, PTL

\* When virtio_disk_rw() returns, the disk and the buffer agree on the block
\* of its caller, whatever the order in which the device finished.
THEOREM TransferIsDone == Spec => []TransferDone
  <1>1. CoreInv => TransferDone
    BY DEF CoreInv, BlockInv, TransferDone, Done, InFlight
  <1> QED BY <1>1, CoreInvariant, PTL

\* A finished request that the handler has not seen has an interrupt coming
\* or the handler at work, a good status, and its thread waits; and nobody is
\* asleep who could go on.
THEOREM NothingIsLost == Spec => []NothingLost
  <1>1. CoreInv => NothingLost
    <2> SUFFICES ASSUME CoreInv PROVE CompletionsPending /\ NoLostWakeup
      BY DEF NothingLost
    <2>1. CompletionsPending
      <3>1. \A h \in Elems(Finished) : \E t \in Thread : info[h] = t /\ head[t] = h /\ busy[t]
        BY Owner
      <3> QED BY <3>1 DEF CoreInv, RequestInv, CompletionsPending
    <2>2. NoLostWakeup
      BY DEF CoreInv, WakeInv, NoLostWakeup, Done
    <2> QED BY <2>1, <2>2
  <1> QED BY <1>1, CoreInvariant, PTL
=============================================================================
