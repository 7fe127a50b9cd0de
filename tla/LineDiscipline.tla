--------------------------- MODULE LineDiscipline ---------------------------
(***************************************************************************)
(* What console input promises: characters are edited within a line, and   *)
(* only whole lines (or a full buffer) are handed to readers, in order;    *)
(* end-of-file is consumed by a read that returns nothing else.            *)
(***************************************************************************)
EXTENDS Naturals, Sequences

CONSTANTS Char, Newline, Eof, Capacity, Reader

VARIABLES
    ready,     \* characters readers may have
    edit,      \* the line being typed
    got        \* characters each reader's current read has received

Init == ready = <<>> /\ edit = <<>> /\ got = [t \in Reader |-> 0]

Type(x) ==
    /\ Len(ready) + Len(edit) < Capacity
    /\ LET e == Append(edit, x) IN
       IF x \in {Newline, Eof} \/ Len(ready) + Len(e) = Capacity
       THEN ready' = ready \o e /\ edit' = <<>>
       ELSE edit' = e /\ UNCHANGED ready
    /\ UNCHANGED got

Erase ==
    /\ edit # <<>>
    /\ edit' = SubSeq(edit, 1, Len(edit) - 1)
    /\ UNCHANGED <<ready, got>>

KillLine == edit' = <<>> /\ UNCHANGED <<ready, got>>

Deliver(t) ==
    /\ ready # <<>> /\ Head(ready) # Eof
    /\ ready' = Tail(ready)
    /\ got' = [got EXCEPT ![t] = @ + 1]
    /\ UNCHANGED edit

\* A read that ends on end-of-file has received nothing.
DeliverEof(t) ==
    /\ ready # <<>> /\ Head(ready) = Eof /\ got[t] = 0
    /\ ready' = Tail(ready)
    /\ UNCHANGED <<edit, got>>

\* The read returns; if its address is bad, a character may go with it.
End(t) ==
    /\ got' = [got EXCEPT ![t] = 0]
    /\ \/ UNCHANGED ready
       \/ ready # <<>> /\ Head(ready) # Eof /\ ready' = Tail(ready)
    /\ UNCHANGED edit

Next ==
    \/ \E x \in Char : Type(x)
    \/ Erase
    \/ KillLine
    \/ \E t \in Reader : Deliver(t) \/ DeliverEof(t) \/ End(t)

Spec == Init /\ [][Next]_<<ready, edit, got>>
=============================================================================
