-------------------------------- MODULE Fifo --------------------------------
(***************************************************************************)
(* What a pipe, and the console's output, promises: a bounded queue of     *)
(* bytes, first in first out.                                              *)
(***************************************************************************)
EXTENDS Naturals, Sequences

CONSTANTS
    Byte, NoByte,
    Capacity,
    MayLose     \* whether a byte can be taken out and not delivered

VARIABLES queue, out   \* bytes under way; the last byte delivered

Init == queue = <<>> /\ out = NoByte

Put(b) ==
    /\ Len(queue) < Capacity
    /\ queue' = Append(queue, b)
    /\ UNCHANGED out

Deliver ==
    /\ queue # <<>>
    /\ out' = Head(queue)
    /\ queue' = Tail(queue)

\* A read into an address that cannot be written still consumes a byte.
Lose ==
    /\ MayLose /\ queue # <<>>
    /\ queue' = Tail(queue)
    /\ out' = NoByte

Next == (\E b \in Byte : Put(b)) \/ Deliver \/ Lose

Spec == Init /\ [][Next]_<<queue, out>>
=============================================================================
