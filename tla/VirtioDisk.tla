----------------------------- MODULE VirtioDisk -----------------------------
(***************************************************************************)
(* kernel/virtio_disk.c: the threads inside virtio_disk_rw(), the          *)
(* interrupt handler, and the device (external), which share descriptors   *)
(* and two rings.                                                          *)
(*                                                                         *)
(* Each thread transfers a buffer of its own, whose sleep-lock it holds    *)
(* (module Bcache), so a thread stands for its struct buf and no two       *)
(* requests are about the same block.  A stretch under disk.vdisk_lock is  *)
(* a step, except that the device works alongside the handler's loop.      *)
(*                                                                         *)
(* Ring entries that their reader has passed, and ops[] entries of free    *)
(* descriptors, are dead: nobody reads them before they are written again. *)
(* The model resets them, so that states that differ only there are equal. *)
(***************************************************************************)
EXTENDS Integers, Sequences, FiniteSets

CONSTANTS
    NUM,                \* descriptors, and entries of each ring
    UMAX,               \* modulus of the uint16 ring indices
    Thread, NoThread,
    Block, NoBlock, Val, NoVal

ASSUME VirtioAssumption ==
    /\ NUM \in Nat \ {0} /\ UMAX \in Nat /\ UMAX >= NUM /\ UMAX % NUM = 0
    /\ NoThread \notin Thread /\ NoBlock \notin Block /\ NoVal \notin Val

Desc == 0..(NUM - 1)
NoDesc == NUM
NoOp == [write |-> FALSE, sector |-> NoBlock]

VARIABLES
    free, next, addr,              \* free[]; desc[].next (NoDesc: no NEXT flag); data address
    op, info, status,              \* ops[], info[].b, info[].status
    avail, availIdx,               \* avail->ring, avail->idx
    used, usedIdx, used_idx,       \* used->ring, used->idx, disk.used_idx
    busy, data, blk, wr,           \* each thread's b->disk, b->data, b->blockno, write
    pc, head,                      \* each thread, and its idx[0]
    intr,                          \* the handler holds vdisk_lock
    sectors, devIdx, working, irq  \* the device

descVars == <<free, next, addr, op, info>>
driverRings == <<avail, availIdx, used_idx>>
deviceVars == <<used, usedIdx, status, sectors, devIdx, working>>
vars == <<descVars, driverRings, busy, data, blk, wr, pc, head, intr, deviceVars, irq>>

Labels == {"idle", "alloc", "asleep_free", "asleep_b", "wait"}

Init ==
    /\ free = [d \in Desc |-> TRUE]
    /\ next = [d \in Desc |-> NoDesc]
    /\ addr = [d \in Desc |-> NoThread]
    /\ op = [d \in Desc |-> NoOp]
    /\ info = [d \in Desc |-> NoThread]
    /\ status = [d \in Desc |-> 0]
    /\ avail = [d \in Desc |-> 0] /\ availIdx = 0
    /\ used = [d \in Desc |-> 0] /\ usedIdx = 0 /\ used_idx = 0
    /\ busy = [t \in Thread |-> FALSE]
    /\ data = [t \in Thread |-> NoVal]
    /\ blk = [t \in Thread |-> NoBlock]
    /\ wr = [t \in Thread |-> FALSE]
    /\ pc = [t \in Thread |-> "idle"]
    /\ head = [t \in Thread |-> NoDesc]
    /\ intr = FALSE
    /\ sectors \in [Block -> Val]
    /\ devIdx = 0 /\ working = {} /\ irq = FALSE

\* x += 1 on a uint16
Incr(x) == (x + 1) % UMAX
-----------------------------------------------------------------------------
(* virtio_disk_rw()                                                        *)

FreeDescs == {d \in Desc : free[d]}

\* wakeup(&disk.free[0])
WakeFree(p) == [t \in Thread |-> IF p[t] = "asleep_free" THEN "alloc" ELSE p[t]]

\* b->data before the transfer: what is to be written; or whatever a recycled
\* buffer had, told apart from every block's contents.
Contents(w) == IF w THEN Val ELSE {NoVal}

\* bread() or bwrite() of a block nobody else is transferring.
Call(t, k, w, v) ==
    /\ pc[t] = "idle"
    /\ \A u \in Thread : pc[u] # "idle" => blk[u] # k
    /\ blk' = [blk EXCEPT ![t] = k]
    /\ wr' = [wr EXCEPT ![t] = w]
    /\ data' = [data EXCEPT ![t] = v]
    /\ pc' = [pc EXCEPT ![t] = "alloc"]
    /\ UNCHANGED <<descVars, driverRings, busy, head, intr, deviceVars, irq>>

\* alloc3_desc() fails: give back what was taken, waking the others; sleep.
AllocFail(t) ==
    /\ pc[t] = "alloc" /\ ~intr
    /\ Cardinality(FreeDescs) < 3
    /\ pc' = [IF FreeDescs = {} THEN pc ELSE WakeFree(pc) EXCEPT ![t] = "asleep_free"]
    /\ UNCHANGED <<descVars, driverRings, busy, data, blk, wr, head, intr, deviceVars, irq>>

\* alloc_desc() finds i when the descriptors in S are free.
AllocDesc(i, S) == i \in S /\ \A d \in S : i <= d

\* alloc3_desc() takes i0, i1 and i2: format them, make the chain available,
\* notify the device, and sleep on b.
SubmitChain(t, i0, i1, i2) ==
    /\ free' = [d \in Desc |-> free[d] /\ d \notin {i0, i1, i2}]
    /\ op' = [op EXCEPT ![i0] = [write |-> wr[t], sector |-> blk[t]]]
    /\ next' = [next EXCEPT ![i0] = i1, ![i1] = i2, ![i2] = NoDesc]
    /\ addr' = [addr EXCEPT ![i1] = t]
    /\ status' = [status EXCEPT ![i0] = 255]
    /\ busy' = [busy EXCEPT ![t] = TRUE]
    /\ info' = [info EXCEPT ![i0] = t]
    /\ avail' = [avail EXCEPT ![availIdx % NUM] = i0]
    /\ availIdx' = Incr(availIdx)
    /\ head' = [head EXCEPT ![t] = i0]
    /\ pc' = [pc EXCEPT ![t] = "asleep_b"]
    /\ UNCHANGED <<used_idx, data, blk, wr, intr, used, usedIdx, sectors,
                   devIdx, working, irq>>

Submit(t) ==
    /\ pc[t] = "alloc" /\ ~intr
    /\ \E i0 \in Desc : AllocDesc(i0, FreeDescs) /\
       \E i1 \in Desc : AllocDesc(i1, FreeDescs \ {i0}) /\
       \E i2 \in Desc : AllocDesc(i2, FreeDescs \ {i0, i1}) /\
          SubmitChain(t, i0, i1, i2)

\* mutant: a wakeup is taken for the completion
DoneAlways(t) == TRUE

Done(t) == ~busy[t]

SleepAgain(t) ==
    /\ pc[t] = "wait" /\ ~intr /\ ~Done(t)
    /\ pc' = [pc EXCEPT ![t] = "asleep_b"]
    /\ UNCHANGED <<descVars, driverRings, busy, data, blk, wr, head, intr, deviceVars, irq>>

\* The chain that starts at h.
Links(d) == IF d = NoDesc THEN {} ELSE {d}
Chain(h) ==
    LET n1 == next[h]
        n2 == IF n1 = NoDesc THEN NoDesc ELSE next[n1] IN {h} \cup Links(n1) \cup Links(n2)

\* mutant: only the first descriptor is freed
FreeChainHead(h) ==
    /\ free' = [free EXCEPT ![h] = TRUE]
    /\ next' = [next EXCEPT ![h] = NoDesc]
    /\ addr' = [addr EXCEPT ![h] = NoThread]
    /\ op' = [op EXCEPT ![h] = NoOp]

FreeChain(h) ==
    /\ free' = [d \in Desc |-> free[d] \/ d \in Chain(h)]
    /\ next' = [d \in Desc |-> IF d \in Chain(h) THEN NoDesc ELSE next[d]]
    /\ addr' = [d \in Desc |-> IF d \in Chain(h) THEN NoThread ELSE addr[d]]
    /\ op' = [op EXCEPT ![h] = NoOp]

\* virtio_disk_intr() has said that the request is finished; the buffer
\* goes back to the caller.
Complete(t) ==
    /\ pc[t] = "wait" /\ ~intr /\ Done(t)
    /\ data' = [data EXCEPT ![t] = NoVal]
    /\ blk' = [blk EXCEPT ![t] = NoBlock]
    /\ wr' = [wr EXCEPT ![t] = FALSE]
    /\ info' = [info EXCEPT ![head[t]] = NoThread]
    /\ FreeChain(head[t])
    /\ pc' = [WakeFree(pc) EXCEPT ![t] = "idle"]
    /\ head' = [head EXCEPT ![t] = NoDesc]
    /\ UNCHANGED <<driverRings, busy, intr, deviceVars, irq>>

\* kill() makes a sleeping process runnable; both loops test again.
Kill(t) ==
    /\ pc[t] \in {"asleep_free", "asleep_b"}
    /\ pc' = [pc EXCEPT ![t] = IF @ = "asleep_b" THEN "wait" ELSE "alloc"]
    /\ UNCHANGED <<descVars, driverRings, busy, data, blk, wr, head, intr, deviceVars, irq>>
-----------------------------------------------------------------------------
(* virtio_disk_intr()                                                      *)

\* Acknowledge the interrupt; the device may raise another from now on.
IntrAck ==
    /\ irq /\ ~intr
    /\ irq' = FALSE
    /\ intr' = TRUE
    /\ UNCHANGED <<descVars, driverRings, busy, data, blk, wr, pc, head, deviceVars>>

IntrOne ==
    LET id == used[used_idx % NUM] IN
    /\ intr /\ used_idx # usedIdx
    /\ status[id] = 0
    /\ busy' = [t \in Thread |-> busy[t] /\ t # info[id]]
    /\ pc' = [t \in Thread |-> IF t = info[id] /\ pc[t] = "asleep_b" THEN "wait" ELSE pc[t]]
    /\ used_idx' = Incr(used_idx)
    /\ used' = [used EXCEPT ![used_idx % NUM] = 0]
    /\ UNCHANGED <<descVars, avail, availIdx, data, blk, wr, head, intr, usedIdx,
                   status, sectors, devIdx, working, irq>>

\* mutant: the handler returns without looking for more entries
IntrEndEarly ==
    /\ intr
    /\ intr' = FALSE
    /\ UNCHANGED <<descVars, driverRings, busy, data, blk, wr, pc, head, deviceVars, irq>>

IntrEnd ==
    /\ intr /\ used_idx = usedIdx
    /\ intr' = FALSE
    /\ UNCHANGED <<descVars, driverRings, busy, data, blk, wr, pc, head, deviceVars, irq>>
-----------------------------------------------------------------------------
(* The device, as the driver uses it.                                      *)

\* It looks at the next available chain ...
DevTake ==
    /\ devIdx # availIdx
    /\ working' = working \cup {avail[devIdx % NUM]}
    /\ devIdx' = Incr(devIdx)
    /\ avail' = [avail EXCEPT ![devIdx % NUM] = 0]
    /\ UNCHANGED <<descVars, availIdx, used_idx, busy, data, blk, wr, pc, head,
                   intr, used, usedIdx, status, sectors, irq>>

\* ... and finishes the chains it has taken in any order.
DevDone(h) ==
    LET buf == IF next[h] = NoDesc THEN NoThread ELSE addr[next[h]] IN
    /\ h \in working
    /\ working' = working \ {h}
    /\ \/ /\ op[h].write
          /\ sectors' = [k \in Block |-> IF buf # NoThread /\ k = op[h].sector
                                         THEN data[buf] ELSE sectors[k]]
          /\ UNCHANGED data
       \/ /\ ~op[h].write
          /\ data' = [t \in Thread |-> IF t = buf THEN sectors[op[h].sector] ELSE data[t]]
          /\ UNCHANGED sectors
    /\ status' = [status EXCEPT ![h] = 0]
    /\ used' = [used EXCEPT ![usedIdx % NUM] = h]
    /\ usedIdx' = Incr(usedIdx)
    /\ irq' = TRUE
    /\ UNCHANGED <<descVars, driverRings, busy, blk, wr, pc, head, intr, devIdx>>
-----------------------------------------------------------------------------
Device == DevTake \/ \E h \in Desc : DevDone(h)

Interrupt == IntrAck \/ IntrOne \/ IntrEnd

ReadWrite(t) == AllocFail(t) \/ Submit(t) \/ SleepAgain(t) \/ Complete(t)

Next ==
    \/ \E t \in Thread, k \in Block, w \in BOOLEAN :
          \E v \in Contents(w) : Call(t, k, w, v)
    \/ \E t \in Thread : ReadWrite(t) \/ Kill(t)
    \/ Interrupt
    \/ Device

Spec == Init /\ [][Next]_vars
-----------------------------------------------------------------------------
TypeOK ==
    /\ free \in [Desc -> BOOLEAN]
    /\ next \in [Desc -> Desc \cup {NoDesc}]
    /\ addr \in [Desc -> Thread \cup {NoThread}]
    /\ op \in [Desc -> [write : BOOLEAN, sector : Block \cup {NoBlock}]]
    /\ info \in [Desc -> Thread \cup {NoThread}]
    /\ status \in [Desc -> {0, 255}]
    /\ avail \in [Desc -> Desc] /\ used \in [Desc -> Desc]
    /\ {availIdx, usedIdx, used_idx, devIdx} \subseteq 0..(UMAX - 1)
    /\ busy \in [Thread -> BOOLEAN]
    /\ data \in [Thread -> Val \cup {NoVal}] /\ blk \in [Thread -> Block \cup {NoBlock}] /\ wr \in [Thread -> BOOLEAN]
    /\ pc \in [Thread -> Labels]
    /\ head \in [Thread -> Desc \cup {NoDesc}]
    /\ intr \in BOOLEAN /\ irq \in BOOLEAN
    /\ sectors \in [Block -> Val]
    /\ working \subseteq Desc

InFlight(t) == pc[t] \in {"asleep_b", "wait"}

\* When virtio_disk_rw() is about to return, its own block has been
\* transferred, in whatever order the device finished the requests and
\* however the descriptors were reused.
TransferDone ==
    \A t \in Thread : pc[t] = "wait" /\ Done(t) => sectors[blk[t]] = data[t]

\* Descriptors are neither shared nor leaked: requests in flight have chains
\* of three, disjoint, none of them free, and every other one is free (so
\* free_desc()'s panics are unreachable); and all variables have their types.
DescriptorsPartitioned ==
    /\ TypeOK
    /\ \A t \in Thread : InFlight(t) => Cardinality(Chain(head[t])) = 3
    /\ \A t, u \in Thread :
          InFlight(t) /\ InFlight(u) /\ t # u => Chain(head[t]) \cap Chain(head[u]) = {}
    /\ FreeDescs = Desc \ UNION {Chain(head[t]) : t \in {u \in Thread : InFlight(u)}}

\* The chains in the available ring that the device has not looked at, and
\* those in the used ring that the handler has not.
Posted ==
    [k \in 1..((availIdx - devIdx) % UMAX) |-> avail[(devIdx + k - 1) % NUM]]
Finished ==
    [k \in 1..((usedIdx - used_idx) % UMAX) |-> used[(used_idx + k - 1) % NUM]]

Elems(s) == {s[k] : k \in 1..Len(s)}
Distinct(s) == \A j, k \in 1..Len(s) : s[j] = s[k] => j = k

\* The handler acknowledges first and then empties the used ring, so that a
\* completion which races with it is "harmless": an entry it has not seen has an
\* interrupt or the handler at work to see it, a good status, and a buffer that
\* waits, each request at most once.
CompletionsPending ==
    /\ Distinct(Finished)
    /\ \A h \in Elems(Finished) :
        /\ irq \/ intr
        /\ status[h] = 0
        /\ \E t \in Thread : info[h] = t /\ head[t] = h /\ busy[t]

\* Nobody sleeps for descriptors when there are enough, nor for a request
\* that is over.
NoLostWakeup ==
    ~intr => \A t \in Thread :
        /\ pc[t] = "asleep_free" => Cardinality(FreeDescs) < 3
        /\ pc[t] = "asleep_b" => ~Done(t)

\* Whatever the device has finished is noticed, and whoever can go on is not
\* asleep, when virtio_disk_intr() is not at work.
NothingLost == CompletionsPending /\ NoLostWakeup
-----------------------------------------------------------------------------
\* The descriptors of a request in flight, and what is in them.
Second(t) == next[head[t]]
Third(t) == next[Second(t)]
Own(t) == {head[t], Second(t), Third(t)}

Formatted(t) ==
    /\ head[t] \in Desc /\ Second(t) \in Desc /\ Third(t) \in Desc
    /\ head[t] # Second(t) /\ Second(t) # Third(t) /\ head[t] # Third(t)
    /\ next[Third(t)] = NoDesc
    /\ op[head[t]] = [write |-> wr[t], sector |-> blk[t]]
    /\ addr[Second(t)] = t /\ info[head[t]] = t
    /\ ~free[head[t]] /\ ~free[Second(t)] /\ ~free[Third(t)]

ChainInv ==
    /\ \A t \in Thread : InFlight(t) => Formatted(t)
    /\ \A t, u \in Thread : InFlight(t) /\ InFlight(u) /\ t # u => Own(t) \cap Own(u) = {}
    /\ \A d \in Desc : ~free[d] => \E t \in Thread : InFlight(t) /\ d \in Own(t)

\* A request that is not over is in exactly one place: posted, in the hands
\* of the device, or finished; and nothing else is there.
RequestInv ==
    /\ Distinct(Posted) /\ Len(Posted) <= NUM
    /\ Distinct(Finished) /\ Len(Finished) <= NUM
    /\ Elems(Posted) \cap working = {}
    /\ Elems(Posted) \cap Elems(Finished) = {}
    /\ working \cap Elems(Finished) = {}
    /\ \A h \in Elems(Posted) \cup working \cup Elems(Finished) :
          \E t \in Thread : InFlight(t) /\ busy[t] /\ head[t] = h
    /\ \A t \in Thread : busy[t] =>
          InFlight(t) /\ head[t] \in Elems(Posted) \cup working \cup Elems(Finished)
    /\ \A h \in Elems(Finished) : status[h] = 0 /\ (irq \/ intr)

\* Requests are about different blocks, and one that is over has been done.
BlockInv ==
    /\ \A t \in Thread : pc[t] # "idle" => blk[t] \in Block /\ (wr[t] => data[t] \in Val)
    /\ \A t, u \in Thread : pc[t] # "idle" /\ pc[u] # "idle" /\ t # u => blk[t] # blk[u]
    /\ \A t \in Thread : InFlight(t) /\ (~busy[t] \/ head[t] \in Elems(Finished)) =>
          sectors[blk[t]] = data[t]

WakeInv ==
    \A t \in Thread :
        /\ pc[t] = "asleep_free" => Cardinality(FreeDescs) < 3
        /\ pc[t] = "asleep_b" => busy[t]

\* A request that is not over is posted, with the device or finished, in one
\* of these only, its three descriptors are its own, and the others are free:
\* the inductive invariant behind the properties above.
VirtioInv == DescriptorsPartitioned /\ ChainInv /\ RequestInv /\ BlockInv /\ WakeInv
=============================================================================
