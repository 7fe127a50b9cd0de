------------------------------- MODULE Bcache -------------------------------
(***************************************************************************)
(* kernel/bio.c: the buffer cache, with the sleep-lock of each buffer      *)
(* (kernel/sleeplock.c) and the clients' discipline: a block that is       *)
(* changed is either written at once (log.c's own blocks) or pinned by     *)
(* log_write() until install_trans() has written it.                       *)
(*                                                                         *)
(* What runs under bcache.lock or under a sleep-lock's spinlock is a step. *)
(* virtio_disk_rw() is one step here: the buffer's sleep-lock is held for  *)
(* as long as it takes, and module VirtioDisk is about what happens inside.*)
(***************************************************************************)
EXTENDS Integers, FiniteSets

CONSTANTS
    NBUF,
    Block, NoBlock,
    Val, InitVal, NoVal,
    Thread, NoThread,
    LogMax            \* blocks the log may have pinned at a time

ASSUME BcacheAssumption ==
    /\ NBUF \in Nat \ {0} /\ LogMax \in Nat
    /\ NoBlock \notin Block /\ NoThread \notin Thread
    /\ InitVal \in Val /\ NoVal \notin Val
    /\ IsFiniteSet(Thread)

Buf == 1..NBUF

VARIABLES
    lru,                              \* the list from bcache.head.next on
    blockno, valid, refcnt, data,     \* struct buf
    owner,                            \* its sleep-lock: locked and pid
    disk,
    logged,                           \* blocks in log.lh
    pc, want, b                       \* each process: the block it asked for, its buffer

bufVars == <<blockno, valid, refcnt, data>>
vars == <<lru, bufVars, owner, disk, logged, pc, want, b>>

Labels == {"idle", "acquire", "asleep", "locked", "use", "drop"}

Init ==
    /\ lru = [j \in Buf |-> NBUF + 1 - j]
    /\ blockno = [x \in Buf |-> NoBlock]
    /\ valid = [x \in Buf |-> FALSE]
    /\ refcnt = [x \in Buf |-> 0]
    /\ data = [x \in Buf |-> InitVal]
    /\ owner = [x \in Buf |-> NoThread]
    /\ disk = [k \in Block |-> InitVal]
    /\ logged = {}
    /\ pc = [t \in Thread |-> "idle"]
    /\ want = [t \in Thread |-> NoBlock]
    /\ b = [t \in Thread |-> 1]

Goto(t, l) == pc' = [pc EXCEPT ![t] = l]
-----------------------------------------------------------------------------
(* bget()                                                                  *)

Cached(k) == {x \in Buf : blockno[x] = k}

BGetCached(t, k) ==
    /\ pc[t] = "idle"
    /\ \E x \in Cached(k) :
          /\ refcnt' = [refcnt EXCEPT ![x] = @ + 1]
          /\ b' = [b EXCEPT ![t] = x]
    /\ want' = [want EXCEPT ![t] = k]
    /\ Goto(t, "acquire")
    /\ UNCHANGED <<lru, blockno, valid, data, owner, disk, logged>>

Unused == {x \in Buf : refcnt[x] = 0}

\* The list is searched from its least recently used end.
BGetRecycle(t, k) ==
    /\ pc[t] = "idle" /\ Cached(k) = {}
    /\ \E j \in Buf :
          /\ lru[j] \in Unused /\ \A i \in (j + 1)..NBUF : lru[i] \notin Unused
          /\ blockno' = [blockno EXCEPT ![lru[j]] = k]
          /\ valid' = [valid EXCEPT ![lru[j]] = FALSE]
          /\ refcnt' = [refcnt EXCEPT ![lru[j]] = 1]
          /\ b' = [b EXCEPT ![t] = lru[j]]
    /\ want' = [want EXCEPT ![t] = k]
    /\ Goto(t, "acquire")
    /\ UNCHANGED <<lru, data, owner, disk, logged>>
-----------------------------------------------------------------------------
(* acquiresleep() and releasesleep()                                       *)

AcquireSleep(t) ==
    /\ pc[t] = "acquire" /\ owner[b[t]] = NoThread
    /\ owner' = [owner EXCEPT ![b[t]] = t]
    /\ Goto(t, "locked")
    /\ UNCHANGED <<lru, bufVars, disk, logged, want, b>>

SleepOnLock(t) ==
    /\ pc[t] = "acquire" /\ owner[b[t]] # NoThread
    /\ Goto(t, "asleep")
    /\ UNCHANGED <<lru, bufVars, owner, disk, logged, want, b>>

\* wakeup(lk)
Woken(x) == {t \in Thread : pc[t] = "asleep" /\ b[t] = x}

\* brelse(), first half.
ReleaseSleep(t) ==
    /\ pc[t] = "use"
    /\ owner' = [owner EXCEPT ![b[t]] = NoThread]
    /\ pc' = [u \in Thread |-> IF u = t THEN "drop"
                               ELSE IF u \in Woken(b[t]) THEN "acquire" ELSE pc[u]]
    /\ UNCHANGED <<lru, bufVars, disk, logged, want, b>>

\* Unlink the buffer in place j of the list and insert it behind the head.
MoveToHead(j) ==
    [i \in Buf |-> IF i = 1 THEN lru[j] ELSE IF i <= j THEN lru[i - 1] ELSE lru[i]]

\* mutant: the reference is kept
BRelseKeep(t) ==
    /\ pc[t] = "drop"
    /\ Goto(t, "idle")
    /\ want' = [want EXCEPT ![t] = NoBlock]
    /\ b' = [b EXCEPT ![t] = 1]
    /\ UNCHANGED <<lru, bufVars, owner, disk, logged>>

\* brelse(), second half, under bcache.lock.
BRelse(t) ==
    /\ pc[t] = "drop"
    /\ refcnt' = [refcnt EXCEPT ![b[t]] = @ - 1]
    /\ IF refcnt[b[t]] = 1
       THEN \E j \in Buf : lru[j] = b[t] /\ lru' = MoveToHead(j)
       ELSE UNCHANGED lru
    /\ Goto(t, "idle")
    /\ want' = [want EXCEPT ![t] = NoBlock]
    /\ b' = [b EXCEPT ![t] = 1]
    /\ UNCHANGED <<blockno, valid, data, owner, disk, logged>>
-----------------------------------------------------------------------------
(* bread(), and what is done with the buffer until brelse().               *)

\* mutant: the disk is read although the cached copy is valid
BReadAlways(t) ==
    /\ pc[t] = "locked"
    /\ data' = [data EXCEPT ![b[t]] = disk[blockno[b[t]]]]
    /\ valid' = [valid EXCEPT ![b[t]] = TRUE]
    /\ Goto(t, "use")
    /\ UNCHANGED <<lru, blockno, refcnt, owner, disk, logged, want, b>>

BRead(t) ==
    /\ pc[t] = "locked"
    /\ data' = IF valid[b[t]] THEN data
               ELSE [data EXCEPT ![b[t]] = disk[blockno[b[t]]]]
    /\ valid' = [valid EXCEPT ![b[t]] = TRUE]
    /\ Goto(t, "use")
    /\ UNCHANGED <<lru, blockno, refcnt, owner, disk, logged, want, b>>

\* log.c's own blocks: change the data and bwrite() it.
BWrite(t, v) ==
    /\ pc[t] = "use" /\ blockno[b[t]] \notin logged
    /\ data' = [data EXCEPT ![b[t]] = v]
    /\ disk' = [disk EXCEPT ![blockno[b[t]]] = v]
    /\ UNCHANGED <<lru, blockno, valid, refcnt, owner, logged, pc, want, b>>

\* Change the data and log_write() it: bpin() unless already logged.
BPin(t, v) ==
    LET k == blockno[b[t]] IN
    /\ pc[t] = "use"
    /\ k \in logged \/ Cardinality(logged) < LogMax
    /\ data' = [data EXCEPT ![b[t]] = v]
    /\ refcnt' = [refcnt EXCEPT ![b[t]] = IF k \in logged THEN @ ELSE @ + 1]
    /\ logged' = logged \cup {k}
    /\ UNCHANGED <<lru, blockno, valid, owner, disk, pc, want, b>>

\* install_trans(): bwrite() and bunpin().
BUnpin(t) ==
    LET k == blockno[b[t]] IN
    /\ pc[t] = "use" /\ k \in logged
    /\ disk' = [disk EXCEPT ![k] = data[b[t]]]
    /\ refcnt' = [refcnt EXCEPT ![b[t]] = @ - 1]
    /\ logged' = logged \ {k}
    /\ UNCHANGED <<lru, blockno, valid, data, owner, pc, want, b>>
-----------------------------------------------------------------------------
Next ==
    \E t \in Thread :
        \/ \E k \in Block : BGetCached(t, k) \/ BGetRecycle(t, k)
        \/ AcquireSleep(t) \/ SleepOnLock(t)
        \/ \E v \in Val : BWrite(t, v) \/ BPin(t, v)
        \/ BRead(t) \/ BUnpin(t) \/ ReleaseSleep(t) \/ BRelse(t)

Spec == Init /\ [][Next]_vars
-----------------------------------------------------------------------------
TypeOK ==
    /\ lru \in [Buf -> Buf] /\ \A x \in Buf : \E j \in Buf : lru[j] = x
    /\ blockno \in [Buf -> Block \cup {NoBlock}]
    /\ valid \in [Buf -> BOOLEAN]
    /\ refcnt \in [Buf -> Nat]
    /\ data \in [Buf -> Val]
    /\ owner \in [Buf -> Thread \cup {NoThread}]
    /\ disk \in [Block -> Val]
    /\ logged \subseteq Block
    /\ pc \in [Thread -> Labels]
    /\ want \in [Thread -> Block \cup {NoBlock}]
    /\ b \in [Thread -> Buf]

\* The contents of each block: the cached copy's if there is a valid one.
Content ==
    [k \in Block |->
        IF \E x \in Cached(k) : valid[x]
        THEN data[CHOOSE x \in Cached(k) : valid[x]] ELSE disk[k]]

\* Who is between bread() and brelse() of each block, and with what data.
User ==
    [k \in Block |->
        IF \E t \in Thread : pc[t] = "use" /\ want[t] = k
        THEN CHOOSE t \in Thread : pc[t] = "use" /\ want[t] = k ELSE NoThread]

Seen == [t \in Thread |-> IF pc[t] = "use" THEN data[b[t]] ELSE NoVal]

Store == INSTANCE BlockStore WITH content <- Content, user <- User, seen <- Seen

\* "The buffer cache ... provides a synchronization point for disk blocks
\* used by multiple processes": through all recycling, a process between
\* bread() and brelse() has the one current copy of the block it asked for,
\* alone, and no change of a block is ever lost.
IsBlockStore == Store!Spec

\* A buffer's refcnt counts the processes that hold or wait for it and the
\* log's pin, so it is 0 exactly when the buffer may be recycled, and bget()
\* panics with "no buffers" only when every buffer is really in use.
RefcntExact ==
    \A x \in Buf :
        refcnt[x] = Cardinality({t \in Thread : pc[t] # "idle" /\ b[t] = x})
                    + (IF blockno[x] \in logged THEN 1 ELSE 0)

\* A process asleep in acquiresleep() waits for a holder of that lock.
SleeperHasHolder ==
    \A t \in Thread : pc[t] = "asleep" => owner[b[t]] \in Thread \ {t}

\* What makes these hold (BcacheProofs).  No block is in two buffers, and a
\* process's buffer keeps the block it asked for until brelse(); the sleep-lock
\* belongs to the process that is between acquiresleep() and releasesleep().
BufferInv ==
    /\ \A x, y \in Buf : blockno[x] = blockno[y] /\ blockno[x] # NoBlock => x = y
    /\ \A t \in Thread : pc[t] # "idle" => want[t] \in Block /\ blockno[b[t]] = want[t]
    /\ \A t \in Thread, x \in Buf :
          owner[x] = t <=> pc[t] \in {"locked", "use"} /\ b[t] = x

\* A buffer in use is valid, a logged block has a valid buffer, and a valid
\* buffer that is not logged has what is on disk.
DataInv ==
    /\ \A t \in Thread : pc[t] = "use" => valid[b[t]]
    /\ \A k \in logged : \E x \in Buf : blockno[x] = k /\ valid[x]
    /\ \A x \in Buf :
          valid[x] => /\ blockno[x] \in Block
                      /\ blockno[x] \notin logged => data[x] = disk[blockno[x]]

\* The cache's invariant: the list of buffers is a permutation of them and
\* the other variables have their types, counts are exact, no sleeper of
\* acquiresleep() is forgotten, and buffers, owners and data are right.
BcacheInv == TypeOK /\ RefcntExact /\ SleeperHasHolder /\ BufferInv /\ DataInv
=============================================================================
