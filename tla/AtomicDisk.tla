----------------------------- MODULE AtomicDisk -----------------------------
(***************************************************************************)
(* What kernel/log.c promises the file system: a disk on which the updates *)
(* of a group of operations become durable all together or not at all,     *)
(* and only when no operation is half done.                                *)
(***************************************************************************)
CONSTANTS Block, Val, Thread, InitVal

VARIABLES
    disk,      \* what a crash leaves
    view,      \* what operations read
    inflight   \* operations between begin_op() and end_op()

avars == <<disk, view, inflight>>

Init ==
    /\ disk = [b \in Block |-> InitVal]
    /\ view = disk
    /\ inflight = {}

Begin(t) ==
    /\ t \notin inflight
    /\ inflight' = inflight \cup {t}
    /\ UNCHANGED <<disk, view>>

Update(t, b, v) ==
    /\ t \in inflight
    /\ view' = [view EXCEPT ![b] = v]
    /\ UNCHANGED <<disk, inflight>>

End(t) ==
    /\ t \in inflight
    /\ inflight' = inflight \ {t}
    /\ UNCHANGED <<disk, view>>

\* Group commit: everything done so far, never part of an operation.
Commit ==
    /\ inflight = {}
    /\ disk' = view
    /\ UNCHANGED <<view, inflight>>

Crash ==
    /\ view' = disk
    /\ inflight' = {}
    /\ UNCHANGED disk

Next ==
    \/ \E t \in Thread : Begin(t) \/ End(t)
    \/ \E t \in Thread, b \in Block, v \in Val : Update(t, b, v)
    \/ Commit
    \/ Crash

Spec == Init /\ [][Next]_avars
=============================================================================
