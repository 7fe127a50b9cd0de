---------------------------- MODULE BcacheProofs ----------------------------
(***************************************************************************)
(* Proofs about module Bcache, for any number of buffers, blocks and       *)
(* processes: BcacheInv is inductive, and with it every step of bio.c is a *)
(* step of BlockStore or is not visible to its clients.                    *)
(***************************************************************************)
EXTENDS Bcache, FiniteSetTheorems, TLAPS

\* Most leaves are first-order and go to Zenon; the others name the SMT solver.
USE ZenonT(30)

\* The processes that a buffer's refcnt counts.
Holders(x) == {t \in Thread : pc[t] # "idle" /\ b[t] = x}

\* A set of processes has a size, which is 0 for the empty set only.
LEMMA HolderCount ==
  ASSUME NEW S \in SUBSET Thread
  PROVE  /\ Cardinality(S) \in Nat
         /\ Cardinality(S) = 0 <=> S = {}
         /\ \A t \in Thread : t \notin S => Cardinality(S \cup {t}) = Cardinality(S) + 1
         /\ \A t \in S : Cardinality(S \ {t}) = Cardinality(S) - 1
  <1>1. IsFiniteSet(S)
    BY BcacheAssumption, FS_Subset
  <1> QED BY <1>1, FS_CardinalityType, FS_EmptySet, FS_AddElement, FS_RemoveElement

\* An unused buffer, refcnt 0, is held by no process and by no pin of the log.
LEMMA UnusedIsFree ==
  ASSUME BcacheInv, NEW x \in Unused
  PROVE  x \in Buf /\ Holders(x) = {} /\ blockno[x] \notin logged
  <1>1. x \in Buf /\ refcnt[x] = 0
    BY DEF Unused
  <1>2. refcnt[x] = Cardinality(Holders(x)) + (IF blockno[x] \in logged THEN 1 ELSE 0)
    BY <1>1 DEF BcacheInv, RefcntExact, Holders
  <1>3. Cardinality(Holders(x)) \in Nat /\ (Cardinality(Holders(x)) = 0 <=> Holders(x) = {})
    BY HolderCount DEF Holders
  <1> QED BY <1>1, <1>2, <1>3, SMTT(30)

\* A step that moves no reference keeps the counts exact.
LEMMA SameCounts ==
  ASSUME BcacheInv, UNCHANGED <<refcnt, blockno, logged>>,
         \A t \in Thread : /\ pc'[t] = "idle" <=> pc[t] = "idle"
                           /\ b'[t] = b[t]
  PROVE  RefcntExact'
  <1> SUFFICES ASSUME NEW x \in Buf PROVE RefcntExact!(x)'
    BY DEF RefcntExact
  <1>1. Holders(x)' = Holders(x)
    BY DEF Holders
  <1> QED BY <1>1 DEF BcacheInv, RefcntExact, Holders

\* binit() leaves all buffers unused.
LEMMA InitBcache == Init => BcacheInv
  <1> SUFFICES ASSUME Init PROVE BcacheInv
    OBVIOUS
  <1> USE BcacheAssumption DEF Init
  <1>1. TypeOK
    <2>1. lru \in [Buf -> Buf] /\ 1 \in Buf
      BY SMTT(30) DEF Buf
    <2>2. \A x \in Buf : \E j \in Buf : lru[j] = x
      <3> TAKE x \in Buf
      <3>1. NBUF + 1 - x \in Buf /\ lru[NBUF + 1 - x] = x
        BY SMTT(30) DEF Buf
      <3> QED BY <3>1
    <2> QED BY <2>1, <2>2 DEF TypeOK, Labels
  <1>2. RefcntExact
    <2> SUFFICES ASSUME NEW x \in Buf PROVE RefcntExact!(x)
      BY DEF RefcntExact
    <2>1. {t \in Thread : pc[t] # "idle" /\ b[t] = x} = {}
      OBVIOUS
    <2>2. Cardinality({t \in Thread : pc[t] # "idle" /\ b[t] = x}) = 0
      BY <2>1, FS_EmptySet
    <2> QED BY <2>2, SMTT(30)
  <1>3. SleeperHasHolder /\ BufferInv /\ DataInv
    BY DEF SleeperHasHolder, BufferInv, DataInv
  <1> QED BY <1>1, <1>2, <1>3 DEF BcacheInv
-----------------------------------------------------------------------------
\* bget() finds the block: one more process holds its buffer.
LEMMA BGetCachedInv ==
  ASSUME NEW t \in Thread, NEW k \in Block, BcacheInv, BGetCached(t, k)
  PROVE  BcacheInv'
  <1> USE DEF BGetCached, Goto
  <1>1. PICK x \in Buf : /\ blockno[x] = k
                         /\ refcnt' = [refcnt EXCEPT ![x] = @ + 1]
                         /\ b' = [b EXCEPT ![t] = x]
    BY DEF Cached
  <1>2. TypeOK'
    BY <1>1, SMTT(30) DEF BcacheInv, TypeOK, Labels
  <1>3. RefcntExact'
    <2> SUFFICES ASSUME NEW y \in Buf PROVE RefcntExact!(y)'
      BY DEF RefcntExact
    <2>1. CASE y = x
      <3>1. Holders(y)' = Holders(y) \cup {t} /\ t \notin Holders(y) /\ Holders(y) \in SUBSET Thread
        BY <1>1, <2>1, SMTT(30) DEF BcacheInv, TypeOK, Holders
      <3>2. Cardinality(Holders(y)') = Cardinality(Holders(y)) + 1
        BY <3>1, HolderCount
      <3>3. Cardinality(Holders(y)) \in Nat
        BY <3>1, HolderCount
      <3> QED BY <1>1, <2>1, <3>2, <3>3, SMTT(30) DEF BcacheInv, TypeOK, RefcntExact, Holders
    <2>2. CASE y # x
      <3>1. Holders(y)' = Holders(y)
        BY <1>1, <2>2 DEF BcacheInv, TypeOK, Holders
      <3> QED BY <1>1, <2>2, <3>1 DEF BcacheInv, TypeOK, RefcntExact, Holders
    <2> QED BY <2>1, <2>2
  <1>4. SleeperHasHolder'
    BY <1>1, SMTT(30) DEF BcacheInv, TypeOK, SleeperHasHolder
  <1>5. BufferInv'
    BY <1>1, SMTT(30) DEF BcacheInv, TypeOK, BufferInv
  <1>6. DataInv'
    BY <1>1, SMTT(30) DEF BcacheInv, TypeOK, DataInv
  <1> QED BY <1>2, <1>3, <1>4, <1>5, <1>6 DEF BcacheInv

\* bget() recycles a buffer that nobody holds and the log does not pin.
LEMMA BGetRecycleInv ==
  ASSUME NEW t \in Thread, NEW k \in Block, BcacheInv, BGetRecycle(t, k)
  PROVE  BcacheInv'
  <1> USE DEF BGetRecycle, Goto
  <1>1. PICK x \in Unused : /\ blockno' = [blockno EXCEPT ![x] = k]
                            /\ valid' = [valid EXCEPT ![x] = FALSE]
                            /\ refcnt' = [refcnt EXCEPT ![x] = 1]
                            /\ b' = [b EXCEPT ![t] = x]
    OBVIOUS
  <1>2. x \in Buf /\ Holders(x) = {} /\ blockno[x] \notin logged
    BY UnusedIsFree
  <1>3. k \notin logged /\ \A y \in Buf : blockno[y] # k
    BY DEF BcacheInv, DataInv, Cached
  <1>4. TypeOK'
    BY <1>1, <1>2 DEF BcacheInv, TypeOK, Labels
  <1>5. RefcntExact'
    <2> SUFFICES ASSUME NEW y \in Buf PROVE RefcntExact!(y)'
      BY DEF RefcntExact
    <2>1. CASE y = x
      <3>1. Holders(y)' = {t}
        BY <1>1, <1>2, <2>1, SMTT(30) DEF BcacheInv, TypeOK, Holders
      <3>2. Cardinality(Holders(y)') = 1
        BY <3>1, FS_Singleton
      <3> QED BY <1>1, <1>2, <1>3, <2>1, <3>2, SMTT(30) DEF BcacheInv, TypeOK, RefcntExact, Holders
    <2>2. CASE y # x
      <3>1. Holders(y)' = Holders(y)
        BY <1>1, <2>2 DEF BcacheInv, TypeOK, Holders
      <3> QED BY <1>1, <1>2, <2>2, <3>1, SMTT(30) DEF BcacheInv, TypeOK, RefcntExact, Holders
    <2> QED BY <2>1, <2>2
  <1>6. SleeperHasHolder'
    BY <1>1, SMTT(30) DEF BcacheInv, TypeOK, SleeperHasHolder
  <1>7. BufferInv'
    BY <1>1, <1>2, <1>3, BcacheAssumption, SMTT(30) DEF BcacheInv, TypeOK, BufferInv, Holders
  <1>8. DataInv'
    BY <1>1, <1>2, <1>3, SMTT(30) DEF BcacheInv, TypeOK, DataInv, Holders
  <1> QED BY <1>4, <1>5, <1>6, <1>7, <1>8 DEF BcacheInv
-----------------------------------------------------------------------------
\* acquiresleep() takes a free sleep-lock.
LEMMA AcquireSleepInv ==
  ASSUME NEW t \in Thread, BcacheInv, AcquireSleep(t)
  PROVE  BcacheInv'
  <1> USE BcacheAssumption DEF AcquireSleep, Goto, bufVars
  <1>1. TypeOK'
    BY DEF BcacheInv, TypeOK, Labels
  <1>2. RefcntExact'
    BY SameCounts DEF BcacheInv, TypeOK
  <1>3. SleeperHasHolder'
    BY DEF BcacheInv, TypeOK, SleeperHasHolder
  <1>4. BufferInv'
    BY SMTT(30) DEF BcacheInv, TypeOK, BufferInv
  <1>5. DataInv'
    BY DEF BcacheInv, TypeOK, DataInv
  <1> QED BY <1>1, <1>2, <1>3, <1>4, <1>5 DEF BcacheInv

\* acquiresleep() sleeps: the lock has another owner.
LEMMA SleepOnLockInv ==
  ASSUME NEW t \in Thread, BcacheInv, SleepOnLock(t)
  PROVE  BcacheInv'
  <1> USE BcacheAssumption DEF SleepOnLock, Goto, bufVars
  <1>1. TypeOK'
    BY DEF BcacheInv, TypeOK, Labels
  <1>2. RefcntExact'
    BY SameCounts DEF BcacheInv, TypeOK
  <1>3. SleeperHasHolder'
    BY SMTT(30) DEF BcacheInv, TypeOK, SleeperHasHolder, BufferInv
  <1>4. BufferInv'
    BY SMTT(30) DEF BcacheInv, TypeOK, BufferInv
  <1>5. DataInv'
    BY DEF BcacheInv, TypeOK, DataInv
  <1> QED BY <1>1, <1>2, <1>3, <1>4, <1>5 DEF BcacheInv

\* releasesleep() wakes everyone who waits for this lock.
LEMMA ReleaseSleepInv ==
  ASSUME NEW t \in Thread, BcacheInv, ReleaseSleep(t)
  PROVE  BcacheInv'
  <1> USE BcacheAssumption DEF ReleaseSleep, Woken, bufVars
  <1>1. TypeOK'
    BY DEF BcacheInv, TypeOK, Labels
  <1>2. RefcntExact'
    BY SameCounts DEF BcacheInv, TypeOK
  <1>3. SleeperHasHolder'
    BY DEF BcacheInv, TypeOK, SleeperHasHolder
  <1>4. BufferInv'
    BY SMTT(30) DEF BcacheInv, TypeOK, BufferInv
  <1>5. DataInv'
    BY DEF BcacheInv, TypeOK, DataInv
  <1> QED BY <1>1, <1>2, <1>3, <1>4, <1>5 DEF BcacheInv

\* Moving a buffer to the head of the list leaves every buffer in it.
LEMMA MoveToHeadPermutes ==
  ASSUME NEW j \in Buf, TypeOK
  PROVE  /\ MoveToHead(j) \in [Buf -> Buf]
         /\ \A x \in Buf : \E i \in Buf : MoveToHead(j)[i] = x
  <1>1. \A i \in Buf : i = 1 \/ i - 1 \in Buf
    BY BcacheAssumption, SMTT(30) DEF Buf
  <1>2. MoveToHead(j) \in [Buf -> Buf]
    BY <1>1 DEF MoveToHead, TypeOK
  <1>3. ASSUME NEW x \in Buf PROVE \E i \in Buf : MoveToHead(j)[i] = x
    <2>1. PICK p \in Buf : lru[p] = x
      BY DEF TypeOK
    <2>2. CASE p = j
      <3>1. 1 \in Buf /\ MoveToHead(j)[1] = x
        BY <2>1, <2>2, BcacheAssumption, SMTT(30) DEF MoveToHead, Buf
      <3> QED BY <3>1
    <2>3. CASE p < j
      <3>1. p + 1 \in Buf /\ MoveToHead(j)[p + 1] = x
        BY <2>1, <2>3, BcacheAssumption, SMTT(30) DEF MoveToHead, Buf
      <3> QED BY <3>1
    <2>4. CASE p > j
      <3>1. MoveToHead(j)[p] = x
        BY <2>1, <2>4, BcacheAssumption, SMTT(30) DEF MoveToHead, Buf
      <3> QED BY <3>1
    <2> QED BY <2>2, <2>3, <2>4, SMTT(30) DEF Buf
  <1> QED BY <1>2, <1>3

\* brelse() drops one reference.
LEMMA BRelseInv ==
  ASSUME NEW t \in Thread, BcacheInv, BRelse(t)
  PROVE  BcacheInv'
  <1> USE BcacheAssumption DEF BRelse, Goto
  <1> DEFINE x == b[t]
  <1>1. x \in Buf /\ t \in Holders(x)
    BY DEF BcacheInv, TypeOK, Holders
  <1>2. /\ Cardinality(Holders(x)) \in Nat /\ Cardinality(Holders(x)) >= 1
        /\ Cardinality(Holders(x) \ {t}) = Cardinality(Holders(x)) - 1
    <2>1. Holders(x) \in SUBSET Thread
      BY DEF Holders
    <2> QED BY <1>1, <2>1, HolderCount, SMTT(30)
  <1>3. refcnt[x] = Cardinality(Holders(x)) + (IF blockno[x] \in logged THEN 1 ELSE 0)
    BY <1>1 DEF BcacheInv, RefcntExact, Holders
  <1>4. TypeOK'
    <2>1. refcnt' \in [Buf -> Nat]
      <3>1. refcnt[x] - 1 \in Nat
        BY <1>2, <1>3, SMTT(30)
      <3> QED BY <1>1, <3>1 DEF BcacheInv, TypeOK
    <2>2. lru' \in [Buf -> Buf] /\ \A y \in Buf : \E j \in Buf : lru'[j] = y
      <3>1. CASE refcnt[x] = 1
        <4>1. PICK j \in Buf : lru' = MoveToHead(j)
          BY <3>1
        <4> QED BY <4>1, MoveToHeadPermutes DEF BcacheInv
      <3>2. CASE refcnt[x] # 1
        BY <3>2 DEF BcacheInv, TypeOK
      <3> QED BY <3>1, <3>2
    <2>3. 1 \in Buf
      BY SMTT(30) DEF Buf
    <2> QED BY <2>1, <2>2, <2>3 DEF BcacheInv, TypeOK, Labels
  <1>5. RefcntExact'
    <2> SUFFICES ASSUME NEW y \in Buf PROVE RefcntExact!(y)'
      BY DEF RefcntExact
    <2>1. CASE y = x
      <3>1. Holders(y)' = Holders(y) \ {t}
        BY <2>1 DEF BcacheInv, TypeOK, Holders
      <3>2. Cardinality(Holders(y)') = Cardinality(Holders(x)) - 1
        BY <1>2, <2>1, <3>1
      <3>3. refcnt'[x] = refcnt[x] - 1
        BY <1>1 DEF BcacheInv, TypeOK
      <3> QED BY <1>2, <1>3, <2>1, <3>2, <3>3, SMTT(30) DEF Holders
    <2>2. CASE y # x
      <3>1. Holders(y)' = Holders(y)
        BY <2>2 DEF BcacheInv, TypeOK, Holders
      <3> QED BY <1>1, <2>2, <3>1 DEF BcacheInv, TypeOK, RefcntExact, Holders
    <2> QED BY <2>1, <2>2
  <1>6. SleeperHasHolder'
    BY DEF BcacheInv, TypeOK, SleeperHasHolder
  <1>7. BufferInv'
    BY SMTT(30) DEF BcacheInv, TypeOK, BufferInv
  <1>8. DataInv'
    BY DEF BcacheInv, TypeOK, DataInv
  <1> QED BY <1>4, <1>5, <1>6, <1>7, <1>8 DEF BcacheInv
-----------------------------------------------------------------------------
\* A process between acquiresleep() and releasesleep() has the block it asked
\* for, alone.
LEMMA OwnerFacts ==
  ASSUME NEW t \in Thread, BcacheInv, pc[t] \in {"locked", "use"}
  PROVE  /\ b[t] \in Buf /\ want[t] \in Block /\ blockno[b[t]] = want[t]
         /\ \A y \in Buf : blockno[y] = want[t] => y = b[t]
         /\ \A u \in Thread : pc[u] \in {"locked", "use"} /\ b[u] = b[t] => u = t
         /\ pc[t] = "use" => valid[b[t]]
  <1>1. b[t] \in Buf /\ want[t] \in Block /\ blockno[b[t]] = want[t]
    BY DEF BcacheInv, TypeOK, BufferInv
  <1>2. \A y \in Buf : blockno[y] = want[t] => y = b[t]
    BY <1>1, BcacheAssumption, SMTT(30) DEF BcacheInv, BufferInv
  <1>3. \A u \in Thread : pc[u] \in {"locked", "use"} /\ b[u] = b[t] => u = t
    BY <1>1, SMTT(30) DEF BcacheInv, BufferInv
  <1> QED BY <1>1, <1>2, <1>3 DEF BcacheInv, DataInv

\* bread() fills a buffer that is not valid from the disk.
LEMMA BReadInv ==
  ASSUME NEW t \in Thread, BcacheInv, BRead(t)
  PROVE  BcacheInv'
  <1> USE OwnerFacts DEF BRead, Goto
  <1>1. TypeOK'
    <2>1. disk[blockno[b[t]]] \in Val
      BY DEF BcacheInv, TypeOK
    <2> QED BY <2>1 DEF BcacheInv, TypeOK, Labels
  <1>2. RefcntExact'
    BY SameCounts, SMTT(30) DEF BcacheInv, TypeOK
  <1>3. SleeperHasHolder'
    BY DEF BcacheInv, TypeOK, SleeperHasHolder
  <1>4. BufferInv'
    BY SMTT(30) DEF BcacheInv, TypeOK, BufferInv
  <1>5. DataInv'
    BY SMTT(30) DEF BcacheInv, TypeOK, DataInv
  <1> QED BY <1>1, <1>2, <1>3, <1>4, <1>5 DEF BcacheInv

\* bwrite() writes a block through.
LEMMA BWriteInv ==
  ASSUME NEW t \in Thread, NEW v \in Val, BcacheInv, BWrite(t, v)
  PROVE  BcacheInv'
  <1> USE OwnerFacts DEF BWrite
  <1>1. TypeOK'
    BY DEF BcacheInv, TypeOK
  <1>2. RefcntExact'
    BY SameCounts
  <1>3. SleeperHasHolder'
    BY DEF BcacheInv, SleeperHasHolder
  <1>4. BufferInv'
    BY SMTT(30) DEF BcacheInv, BufferInv
  <1>5. DataInv'
    BY SMTT(30) DEF BcacheInv, TypeOK, DataInv
  <1> QED BY <1>1, <1>2, <1>3, <1>4, <1>5 DEF BcacheInv

\* log_write(): the block becomes logged as its buffer gets a reference.
LEMMA BPinInv ==
  ASSUME NEW t \in Thread, NEW v \in Val, BcacheInv, BPin(t, v)
  PROVE  BcacheInv'
  <1> USE OwnerFacts DEF BPin
  <1>1. TypeOK'
    BY SMTT(30) DEF BcacheInv, TypeOK
  <1>2. RefcntExact'
    <2> SUFFICES ASSUME NEW y \in Buf PROVE RefcntExact!(y)'
      BY DEF RefcntExact
    <2>1. Holders(y)' = Holders(y) /\ Cardinality(Holders(y)) \in Nat
      BY HolderCount DEF Holders
    <2>2. refcnt[y] = Cardinality(Holders(y)) + (IF blockno[y] \in logged THEN 1 ELSE 0)
      BY DEF BcacheInv, RefcntExact, Holders
    <2>3. refcnt'[y] = Cardinality(Holders(y)) + (IF blockno[y] \in logged' THEN 1 ELSE 0)
      BY <2>1, <2>2, SMTT(30) DEF BcacheInv, TypeOK
    <2> QED BY <2>1, <2>3 DEF Holders
  <1>3. SleeperHasHolder'
    BY DEF BcacheInv, SleeperHasHolder
  <1>4. BufferInv'
    BY SMTT(30) DEF BcacheInv, BufferInv
  <1>5. DataInv'
    BY SMTT(30) DEF BcacheInv, TypeOK, DataInv
  <1> QED BY <1>1, <1>2, <1>3, <1>4, <1>5 DEF BcacheInv

\* install_trans(): the block goes to the disk as its buffer loses a reference.
LEMMA BUnpinInv ==
  ASSUME NEW t \in Thread, BcacheInv, BUnpin(t)
  PROVE  BcacheInv'
  <1> USE OwnerFacts DEF BUnpin
  <1>1. \A y \in Buf : /\ Cardinality(Holders(y)) \in Nat
                       /\ refcnt[y] = Cardinality(Holders(y)) + (IF blockno[y] \in logged THEN 1 ELSE 0)
    BY HolderCount DEF BcacheInv, RefcntExact, Holders
  <1>2. TypeOK'
    <2>1. b[t] \in Buf /\ refcnt \in [Buf -> Nat] /\ blockno[b[t]] \in logged
      BY DEF BcacheInv, TypeOK
    <2>2. refcnt[b[t]] - 1 \in Nat
      <3>1. refcnt[b[t]] = Cardinality(Holders(b[t])) + 1 /\ Cardinality(Holders(b[t])) \in Nat
        BY <1>1, <2>1
      <3> QED BY <3>1, SMTT(30)
    <2>3. refcnt' = [refcnt EXCEPT ![b[t]] = refcnt[b[t]] - 1]
      OBVIOUS
    <2>4. refcnt' \in [Buf -> Nat]
      BY <2>1, <2>2, <2>3, SMTT(30)
    <2> QED BY <2>4 DEF BcacheInv, TypeOK
  <1>3. RefcntExact'
    <2> SUFFICES ASSUME NEW y \in Buf PROVE RefcntExact!(y)'
      BY DEF RefcntExact
    <2>1. Holders(y)' = Holders(y)
      BY DEF Holders
    <2>2. refcnt'[y] = Cardinality(Holders(y)) + (IF blockno[y] \in logged' THEN 1 ELSE 0)
      <3>1. b[t] \in Buf /\ refcnt \in [Buf -> Nat] /\ blockno[b[t]] \in logged
            /\ logged' = logged \ {blockno[b[t]]} /\ refcnt' = [refcnt EXCEPT ![b[t]] = refcnt[b[t]] - 1]
        BY DEF BcacheInv, TypeOK
      <3>2. CASE y = b[t]
        <4>1. /\ refcnt'[y] = refcnt[y] - 1 /\ blockno[y] \notin logged'
              /\ refcnt[y] = Cardinality(Holders(y)) + 1 /\ Cardinality(Holders(y)) \in Nat
          BY <1>1, <3>1, <3>2
        <4> QED BY <4>1, SMTT(30)
      <3>3. CASE y # b[t]
        <4>1. refcnt'[y] = refcnt[y] /\ (blockno[y] \in logged' <=> blockno[y] \in logged)
          <5>1. blockno[b[t]] # NoBlock
            BY BcacheAssumption, SMTT(30) DEF BcacheInv, BufferInv
          <5>2. blockno[y] # blockno[b[t]]
            BY <3>1, <3>3, <5>1, SMTT(30) DEF BcacheInv, BufferInv
          <5> QED BY <3>1, <3>3, <5>2
        <4> QED BY <1>1, <4>1
      <3> QED BY <3>2, <3>3
    <2> QED BY <2>1, <2>2 DEF Holders
  <1>4. SleeperHasHolder'
    BY DEF BcacheInv, SleeperHasHolder
  <1>5. BufferInv'
    BY SMTT(30) DEF BcacheInv, BufferInv
  <1>6. DataInv'
    BY SMTT(30) DEF BcacheInv, TypeOK, DataInv
  <1> QED BY <1>2, <1>3, <1>4, <1>5, <1>6 DEF BcacheInv

\* Every step of bio.c and of the sleep-locks keeps BcacheInv.
LEMMA NextBcache == BcacheInv /\ [Next]_vars => BcacheInv'
  <1> SUFFICES ASSUME BcacheInv, [Next]_vars PROVE BcacheInv'
    OBVIOUS
  <1>1. ASSUME NEW t \in Thread, NEW k \in Block, BGetCached(t, k) \/ BGetRecycle(t, k) PROVE BcacheInv'
    BY <1>1, BGetCachedInv, BGetRecycleInv
  <1>2. ASSUME NEW t \in Thread, AcquireSleep(t) \/ SleepOnLock(t) PROVE BcacheInv'
    BY <1>2, AcquireSleepInv, SleepOnLockInv
  <1>3. ASSUME NEW t \in Thread, NEW v \in Val, BWrite(t, v) \/ BPin(t, v) PROVE BcacheInv'
    BY <1>3, BWriteInv, BPinInv
  <1>4. ASSUME NEW t \in Thread, BRead(t) \/ BUnpin(t) \/ ReleaseSleep(t) \/ BRelse(t) PROVE BcacheInv'
    BY <1>4, BReadInv, BUnpinInv, ReleaseSleepInv, BRelseInv
  <1>5. CASE UNCHANGED vars
    BY <1>5, SMTT(30) DEF vars, bufVars, BcacheInv, TypeOK, RefcntExact, SleeperHasHolder, BufferInv, DataInv
  <1> QED BY <1>1, <1>2, <1>3, <1>4, <1>5 DEF Next

\* A buffer's refcnt is at all times the number of processes that hold or wait
\* for it plus the log's pin, no block is in two buffers, whoever sleeps for a
\* buffer waits for an owner, and only logged blocks differ from the disk; for
\* any number of buffers, blocks and processes.
THEOREM BcacheInvariant == Spec => []BcacheInv
  BY InitBcache, NextBcache, PTL DEF Spec
-----------------------------------------------------------------------------
(* The refinement.                                                         *)

\* What Content and User are, without CHOOSE.
MappingIs ==
    /\ \A x \in Buf : valid[x] => Content[blockno[x]] = data[x]
    /\ \A k \in Block : (\A x \in Buf : blockno[x] = k => ~valid[x]) => Content[k] = disk[k]
    /\ \A t \in Thread : pc[t] = "use" => User[want[t]] = t
    /\ \A k \in Block : (\A t \in Thread : pc[t] = "use" => want[t] # k) => User[k] = NoThread

\* Content and User are functions of the blocks, before and after a step.
LEMMA MappingDomain ==
    /\ Content = [k \in Block |-> Content[k]] /\ User = [k \in Block |-> User[k]]
    /\ Content' = [k \in Block |-> Content'[k]] /\ User' = [k \in Block |-> User'[k]]
  BY DEF Content, User

\* A block has one valid buffer and one user at most.
LEMMA MappingFacts == BcacheInv => MappingIs
  <1> SUFFICES ASSUME BcacheInv PROVE MappingIs
    OBVIOUS
  <1>1. ASSUME NEW x \in Buf, valid[x] PROVE Content[blockno[x]] = data[x]
    <2>1. blockno[x] \in Block /\ x \in Cached(blockno[x])
      BY <1>1 DEF BcacheInv, DataInv, Cached
    <2>2. PICK y \in Cached(blockno[x]) : valid[y] /\ Content[blockno[x]] = data[y]
      BY <1>1, <2>1 DEF Content
    <2>3. y = x
      BY <2>1, <2>2, BcacheAssumption DEF BcacheInv, BufferInv, Cached
    <2> QED BY <2>2, <2>3
  <1>2. ASSUME NEW k \in Block, \A x \in Buf : blockno[x] = k => ~valid[x] PROVE Content[k] = disk[k]
    BY <1>2 DEF Content, Cached
  <1>3. ASSUME NEW t \in Thread, pc[t] = "use" PROVE User[want[t]] = t
    <2>1. want[t] \in Block
      BY <1>3 DEF BcacheInv, BufferInv
    <2>2. PICK u \in Thread : pc[u] = "use" /\ want[u] = want[t] /\ User[want[t]] = u
      BY <1>3, <2>1 DEF User
    <2> QED BY <1>3, <2>2, OwnerFacts, SMTT(30)
  <1>4. ASSUME NEW k \in Block, \A t \in Thread : pc[t] = "use" => want[t] # k PROVE User[k] = NoThread
    BY <1>4 DEF User
  <1> QED BY <1>1, <1>2, <1>3, <1>4 DEF MappingIs

\* The same after a step.
LEMMA MappingStep == BcacheInv /\ [Next]_vars => BcacheInv' /\ MappingIs /\ MappingIs'
  BY NextBcache, MappingFacts, PTL

\* Steps after which the same processes use the same blocks.
LEMMA SameUsers ==
  ASSUME MappingIs, MappingIs',
         \A u \in Thread : /\ pc'[u] = "use" <=> pc[u] = "use"
                           /\ pc[u] = "use" => want'[u] = want[u]
  PROVE  User' = User
  <1> SUFFICES ASSUME NEW k \in Block PROVE User'[k] = User[k]
    BY MappingDomain
  <1>1. CASE \E u \in Thread : pc[u] = "use" /\ want[u] = k
    <2>1. PICK u \in Thread : pc[u] = "use" /\ want[u] = k
      BY <1>1
    <2>2. User[k] = u
      BY <2>1 DEF MappingIs
    <2>3. User'[k] = u
      BY <2>1 DEF MappingIs
    <2> QED BY <2>2, <2>3
  <1>2. CASE \A u \in Thread : pc[u] = "use" => want[u] # k
    <2>1. User[k] = NoThread
      BY <1>2 DEF MappingIs
    <2>2. User'[k] = NoThread
      BY <1>2, SMTT(30) DEF MappingIs
    <2> QED BY <2>1, <2>2
  <1> QED BY <1>1, <1>2

\* The empty cache over the disk of mkfs is the initial store.
LEMMA InitRefines == Init => Store!Init
  BY DEF Init, Store!Init, Content, User, Seen, Cached

\* Steps of bget() and of acquiresleep() show no client anything.
LEMMA GetRefines ==
  ASSUME NEW t \in Thread, BcacheInv, MappingIs, MappingIs', BcacheInv',
         \/ \E k \in Block : BGetCached(t, k)
         \/ AcquireSleep(t) \/ SleepOnLock(t)
  PROVE  UNCHANGED <<Content, User, Seen>>
  <1>1. UNCHANGED <<blockno, valid, data, disk>>
    BY DEF BGetCached, AcquireSleep, SleepOnLock, bufVars
  <1>2. /\ pc[t] # "use" /\ pc'[t] # "use"
        /\ \A u \in Thread \ {t} : pc'[u] = pc[u] /\ want'[u] = want[u] /\ b'[u] = b[u]
    BY SMTT(30) DEF BGetCached, AcquireSleep, SleepOnLock, Goto, BcacheInv, TypeOK
  <1>3. Content' = Content
    BY <1>1 DEF Content, Cached
  <1>4. User' = User
    BY <1>2, SameUsers
  <1>5. Seen' = Seen
    BY <1>1, <1>2 DEF Seen
  <1> QED BY <1>3, <1>4, <1>5

\* Recycling a buffer loses nothing: the disk has what was in it.
LEMMA RecycleRefines ==
  ASSUME NEW t \in Thread, NEW k \in Block, BcacheInv, MappingIs, MappingIs', BcacheInv', BGetRecycle(t, k)
  PROVE  UNCHANGED <<Content, User, Seen>>
  <1> USE DEF BGetRecycle, Goto
  <1>1. PICK x \in Unused : /\ blockno' = [blockno EXCEPT ![x] = k]
                            /\ valid' = [valid EXCEPT ![x] = FALSE]
                            /\ b' = [b EXCEPT ![t] = x]
    OBVIOUS
  <1>2. x \in Buf /\ Holders(x) = {} /\ blockno[x] \notin logged
    BY UnusedIsFree
  <1>3. \A u \in Thread \ {t} : pc'[u] = pc[u] /\ want'[u] = want[u] /\ b'[u] = b[u]
    BY <1>1, SMTT(30) DEF BcacheInv, TypeOK
  <1>4. Content' = Content
    <2> SUFFICES ASSUME NEW j \in Block PROVE Content'[j] = Content[j]
      BY MappingDomain
    <2>1. CASE \E y \in Buf \ {x} : blockno[y] = j /\ valid[y]
      <3>1. PICK y \in Buf \ {x} : blockno[y] = j /\ valid[y]
        BY <2>1
      <3>2. blockno'[y] = j /\ valid'[y] /\ data'[y] = data[y]
        BY <1>1, <3>1, SMTT(30) DEF BcacheInv, TypeOK
      <3>3. Content'[j] = data'[y]
        BY <3>2 DEF MappingIs
      <3>4. Content[j] = data[y]
        BY <3>1 DEF MappingIs
      <3> QED BY <3>2, <3>3, <3>4
    <2>2. CASE \A y \in Buf \ {x} : blockno[y] = j => ~valid[y]
      <3>1. Content'[j] = disk[j]
        BY <1>1, <1>2, <2>2 DEF BcacheInv, TypeOK, MappingIs
      <3>2. Content[j] = disk[j]
        <4>1. CASE valid[x] /\ blockno[x] = j
          <5>1. Content[j] = data[x]
            BY <1>2, <4>1 DEF MappingIs
          <5> QED BY <1>2, <4>1, <5>1 DEF BcacheInv, DataInv
        <4>2. CASE ~(valid[x] /\ blockno[x] = j)
          BY <2>2, <4>2 DEF MappingIs
        <4> QED BY <4>1, <4>2
      <3> QED BY <3>1, <3>2
    <2> QED BY <2>1, <2>2
  <1>5. User' = User
    <2>1. pc[t] # "use" /\ pc'[t] # "use"
      BY SMTT(30) DEF BcacheInv, TypeOK
    <2> QED BY <1>3, <2>1, SameUsers
  <1>6. Seen' = Seen
    BY <1>3 DEF BcacheInv, TypeOK, Seen
  <1> QED BY <1>4, <1>5, <1>6

\* bread() gives a process that had no buffer the block's current contents,
\* from the cache or from the disk, when nobody else has it.
LEMMA BReadRefines ==
  ASSUME NEW t \in Thread, BcacheInv, MappingIs, MappingIs', BcacheInv', BRead(t)
  PROVE  Store!Get(t, want[t])
  <1> USE DEF BRead, Goto
  <1> DEFINE k == want[t]
  <1>1. /\ b[t] \in Buf /\ k \in Block /\ blockno[b[t]] = k
        /\ \A y \in Buf : blockno[y] = k => y = b[t]
        /\ \A u \in Thread : pc[u] = "use" => want[u] # k
    BY OwnerFacts, SMTT(30)
  <1>2. /\ pc'[t] = "use" /\ want' = want /\ b' = b
        /\ \A u \in Thread \ {t} : pc'[u] = pc[u]
    BY SMTT(30) DEF BcacheInv, TypeOK
  <1>3. valid'[b[t]] /\ \A y \in Buf \ {b[t]} : valid'[y] = valid[y] /\ data'[y] = data[y]
    BY <1>1, SMTT(30) DEF BcacheInv, TypeOK
  <1>4. data'[b[t]] = Content[k]
    <2>1. CASE valid[b[t]]
      <3>1. data' = data
        BY <2>1
      <3>2. Content[k] = data[b[t]]
        BY <1>1, <2>1, SMTT(30) DEF MappingIs
      <3> QED BY <3>1, <3>2
    <2>2. CASE ~valid[b[t]]
      BY <1>1, <2>2, SMTT(30) DEF BcacheInv, TypeOK, MappingIs
    <2> QED BY <2>1, <2>2
  <1>5. Content' = Content
    <2> SUFFICES ASSUME NEW j \in Block PROVE Content'[j] = Content[j]
      BY MappingDomain
    <2>1. CASE j = k
      BY <1>1, <1>3, <1>4, <2>1, SMTT(30) DEF MappingIs
    <2>2. CASE j # k /\ \E y \in Buf : blockno[y] = j /\ valid[y]
      <3>1. PICK y \in Buf \ {b[t]} : blockno[y] = j /\ valid[y]
        BY <1>1, <2>2
      <3>2. Content[j] = data[y]
        BY <3>1 DEF MappingIs
      <3>3. Content'[j] = data'[y]
        BY <1>3, <3>1 DEF MappingIs
      <3> QED BY <1>3, <3>1, <3>2, <3>3
    <2>3. CASE j # k /\ \A y \in Buf : blockno[y] = j => ~valid[y]
      <3>1. Content[j] = disk[j]
        BY <2>3 DEF MappingIs
      <3>2. Content'[j] = disk[j]
        BY <1>1, <1>3, <2>3, SMTT(30) DEF MappingIs
      <3> QED BY <3>1, <3>2
    <2> QED BY <2>1, <2>2, <2>3
  <1>6. User[k] = NoThread /\ User' = [User EXCEPT ![k] = t]
    <2>1. User[k] = NoThread
      BY <1>1 DEF MappingIs
    <2>2. User'[k] = t
      BY <1>2 DEF MappingIs
    <2>3. ASSUME NEW j \in Block \ {k} PROVE User'[j] = User[j]
      <3>1. CASE \E u \in Thread : pc[u] = "use" /\ want[u] = j
        <4>1. PICK u \in Thread : pc[u] = "use" /\ want[u] = j
          BY <3>1
        <4>2. User[j] = u
          BY <4>1 DEF MappingIs
        <4>3. User'[j] = u
          BY <1>2, <4>1 DEF MappingIs
        <4> QED BY <4>2, <4>3
      <3>2. CASE \A u \in Thread : pc[u] = "use" => want[u] # j
        BY <1>2, <3>2, SMTT(30) DEF MappingIs
      <3> QED BY <3>1, <3>2
    <2> QED BY <1>1, <2>1, <2>2, <2>3, MappingDomain, SMTT(30)
  <1>7. Seen[t] = NoVal /\ Seen' = [Seen EXCEPT ![t] = Content[k]]
    <2>1. \A u \in Thread \ {t} : pc[u] = "use" => data'[b[u]] = data[b[u]]
      BY <1>1, <1>3, OwnerFacts DEF BcacheInv, TypeOK
    <2> QED BY <1>2, <1>4, <2>1 DEF Seen
  <1> QED BY <1>5, <1>6, <1>7 DEF Store!Get

\* A change of the buffer, written through or logged, is the change of the
\* block; a write of unchanged data is no change.
LEMMA ChangeRefines ==
  ASSUME NEW t \in Thread, NEW v \in Val, BcacheInv, MappingIs, MappingIs', BcacheInv',
         BWrite(t, v) \/ BPin(t, v)
  PROVE  Store!Write(t, want[t], v)
  <1> DEFINE k == want[t]
  <1>1. /\ pc[t] = "use" /\ data' = [data EXCEPT ![b[t]] = v]
        /\ UNCHANGED <<blockno, valid, pc, want, b>>
        /\ \A j \in Block \ {blockno[b[t]]} : disk'[j] = disk[j]
    BY DEF BWrite, BPin, BcacheInv, TypeOK
  <1>2. /\ b[t] \in Buf /\ k \in Block /\ blockno[b[t]] = k /\ valid[b[t]]
        /\ \A y \in Buf : blockno[y] = k => y = b[t]
        /\ \A u \in Thread : pc[u] = "use" /\ b[u] = b[t] => u = t
    BY <1>1, OwnerFacts
  <1>3. data'[b[t]] = v /\ \A y \in Buf \ {b[t]} : data'[y] = data[y]
    BY <1>1, <1>2 DEF BcacheInv, TypeOK
  <1>4. Content' = [Content EXCEPT ![k] = v]
    <2>1. Content'[k] = v
      BY <1>1, <1>2, <1>3, SMTT(30) DEF MappingIs
    <2>2. ASSUME NEW j \in Block \ {k} PROVE Content'[j] = Content[j]
      <3>1. CASE \E y \in Buf : blockno[y] = j /\ valid[y]
        <4>1. PICK y \in Buf \ {b[t]} : blockno[y] = j /\ valid[y]
          BY <1>2, <3>1
        <4>2. Content[j] = data[y]
          BY <4>1 DEF MappingIs
        <4>3. Content'[j] = data'[y]
          BY <1>1, <4>1 DEF MappingIs
        <4> QED BY <1>3, <4>1, <4>2, <4>3
      <3>2. CASE \A y \in Buf : blockno[y] = j => ~valid[y]
        <4>1. Content[j] = disk[j]
          BY <3>2 DEF MappingIs
        <4>2. Content'[j] = disk'[j]
          BY <1>1, <3>2 DEF MappingIs
        <4> QED BY <1>1, <1>2, <4>1, <4>2
      <3> QED BY <3>1, <3>2
    <2> QED BY <1>2, <2>1, <2>2, MappingDomain
  <1>5. User' = User /\ User[k] = t
    BY <1>1, SameUsers DEF MappingIs
  <1>6. Seen' = [Seen EXCEPT ![t] = v]
    <2>1. \A u \in Thread \ {t} : pc[u] = "use" => data'[b[u]] = data[b[u]]
      BY <1>2, <1>3 DEF BcacheInv, TypeOK
    <2> QED BY <1>1, <1>3, <2>1 DEF Seen
  <1> QED BY <1>4, <1>5, <1>6 DEF Store!Write

\* install_trans() writes to the disk what is in the cache.
LEMMA BUnpinRefines ==
  ASSUME NEW t \in Thread, BcacheInv, MappingIs, MappingIs', BcacheInv', BUnpin(t)
  PROVE  UNCHANGED <<Content, User, Seen>>
  <1> USE DEF BUnpin
  <1>1. b[t] \in Buf /\ valid[b[t]]
    BY OwnerFacts
  <1>2. Content' = Content
    <2> SUFFICES ASSUME NEW j \in Block PROVE Content'[j] = Content[j]
      BY MappingDomain
    <2>1. CASE \E y \in Buf : blockno[y] = j /\ valid[y]
      <3>1. PICK y \in Buf : blockno[y] = j /\ valid[y]
        BY <2>1
      <3> QED BY <3>1 DEF MappingIs
    <2>2. CASE \A y \in Buf : blockno[y] = j => ~valid[y]
      <3>1. Content[j] = disk[j]
        BY <2>2 DEF MappingIs
      <3>2. Content'[j] = disk'[j]
        BY <2>2 DEF MappingIs
      <3>3. j # blockno[b[t]]
        BY <1>1, <2>2
      <3> QED BY <3>1, <3>2, <3>3 DEF BcacheInv, TypeOK
    <2> QED BY <2>1, <2>2
  <1>3. User' = User
    BY SameUsers
  <1>4. Seen' = Seen
    BY DEF Seen
  <1> QED BY <1>2, <1>3, <1>4

\* brelse() is over for the client when it has given up the sleep-lock.
LEMMA ReleaseSleepRefines ==
  ASSUME NEW t \in Thread, BcacheInv, MappingIs, MappingIs', BcacheInv', ReleaseSleep(t)
  PROVE  Store!Put(t, want[t])
  <1> USE DEF ReleaseSleep, bufVars
  <1> DEFINE k == want[t]
  <1>1. k \in Block /\ \A u \in Thread \ {t} : pc[u] = "use" => want[u] # k
    BY OwnerFacts, SMTT(30)
  <1>2. pc'[t] # "use" /\ \A u \in Thread \ {t} : pc'[u] = "use" <=> pc[u] = "use"
    BY DEF Woken
  <1>3. Content' = Content
    BY DEF Content, Cached
  <1>4. User[k] = t /\ User' = [User EXCEPT ![k] = NoThread]
    <2>1. User[k] = t
      BY DEF MappingIs
    <2>2. User'[k] = NoThread
      BY <1>1, <1>2 DEF MappingIs
    <2>3. ASSUME NEW j \in Block \ {k} PROVE User'[j] = User[j]
      <3>1. CASE \E u \in Thread : pc[u] = "use" /\ want[u] = j
        <4>1. PICK u \in Thread \ {t} : pc[u] = "use" /\ want[u] = j
          BY <3>1
        <4> QED BY <1>2, <4>1 DEF MappingIs
      <3>2. CASE \A u \in Thread : pc[u] = "use" => want[u] # j
        BY <1>2, <3>2 DEF MappingIs
      <3> QED BY <3>1, <3>2
    <2> QED BY <1>1, <2>1, <2>2, <2>3, MappingDomain
  <1>5. Seen' = [Seen EXCEPT ![t] = NoVal]
    BY <1>2 DEF Seen
  <1> QED BY <1>3, <1>4, <1>5 DEF Store!Put

\* Dropping the reference is not visible.
LEMMA BRelseRefines ==
  ASSUME NEW t \in Thread, BcacheInv, MappingIs, MappingIs', BcacheInv', BRelse(t)
  PROVE  UNCHANGED <<Content, User, Seen>>
  <1> USE DEF BRelse, Goto
  <1>1. /\ pc[t] # "use" /\ pc'[t] # "use"
        /\ \A u \in Thread \ {t} : pc'[u] = pc[u] /\ want'[u] = want[u] /\ b'[u] = b[u]
    BY SMTT(30) DEF BcacheInv, TypeOK
  <1>2. Content' = Content
    BY DEF Content, Cached
  <1>3. User' = User
    BY <1>1, SameUsers
  <1>4. Seen' = Seen
    BY <1>1, SMTT(30) DEF Seen
  <1> QED BY <1>2, <1>3, <1>4

\* Every step is a step of BlockStore or leaves its state alone.
LEMMA NextRefines == BcacheInv /\ [Next]_vars => [Store!Next]_<<Content, User, Seen>>
  <1> SUFFICES ASSUME BcacheInv, [Next]_vars PROVE [Store!Next]_<<Content, User, Seen>>
    OBVIOUS
  <1>1. BcacheInv' /\ MappingIs /\ MappingIs'
    BY MappingStep
  <1>2. ASSUME NEW t \in Thread, NEW k \in Block, BGetCached(t, k) \/ BGetRecycle(t, k)
        PROVE  [Store!Next]_<<Content, User, Seen>>
    BY <1>1, <1>2, GetRefines, RecycleRefines
  <1>3. ASSUME NEW t \in Thread, AcquireSleep(t) \/ SleepOnLock(t)
        PROVE  [Store!Next]_<<Content, User, Seen>>
    BY <1>1, <1>3, GetRefines
  <1>4. ASSUME NEW t \in Thread, NEW v \in Val, BWrite(t, v) \/ BPin(t, v)
        PROVE  [Store!Next]_<<Content, User, Seen>>
    <2>1. want[t] \in Block
      BY <1>4, OwnerFacts DEF BWrite, BPin
    <2> QED BY <1>1, <1>4, <2>1, ChangeRefines DEF Store!Next
  <1>5. ASSUME NEW t \in Thread, BRead(t) PROVE [Store!Next]_<<Content, User, Seen>>
    <2>1. want[t] \in Block
      BY <1>5, OwnerFacts DEF BRead
    <2> QED BY <1>1, <1>5, <2>1, BReadRefines DEF Store!Next
  <1>6. ASSUME NEW t \in Thread, ReleaseSleep(t) PROVE [Store!Next]_<<Content, User, Seen>>
    <2>1. want[t] \in Block
      BY <1>6, OwnerFacts DEF ReleaseSleep
    <2> QED BY <1>1, <1>6, <2>1, ReleaseSleepRefines DEF Store!Next
  <1>7. ASSUME NEW t \in Thread, BUnpin(t) \/ BRelse(t) PROVE [Store!Next]_<<Content, User, Seen>>
    BY <1>1, <1>7, BUnpinRefines, BRelseRefines
  <1>8. CASE UNCHANGED vars
    BY <1>8 DEF vars, bufVars, Content, Cached, User, Seen
  <1> QED BY <1>2, <1>3, <1>4, <1>5, <1>6, <1>7, <1>8 DEF Next

\* The buffer cache implements BlockStore: through all recycling, pinning and
\* waiting, a process between bread() and brelse() has the one current copy of
\* the block it asked for, alone, and no change of a block is lost.
THEOREM BlockStoreRefinement == Spec => IsBlockStore
  BY InitRefines, BcacheInvariant, NextRefines, PTL DEF Spec, IsBlockStore, Store!Spec
=============================================================================
