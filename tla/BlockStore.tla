----------------------------- MODULE BlockStore -----------------------------
(***************************************************************************)
(* What the buffer cache promises: every disk block is a single variable   *)
(* that one process at a time can use.                                     *)
(***************************************************************************)
CONSTANTS Block, Val, InitVal, NoVal, Thread, NoThread

VARIABLES
    content,   \* each block's current contents
    user,      \* the process between bread() and brelse() of a block
    seen       \* what each process has in its buffer

Init ==
    /\ content = [k \in Block |-> InitVal]
    /\ user = [k \in Block |-> NoThread]
    /\ seen = [t \in Thread |-> NoVal]

Get(t, k) ==
    /\ user[k] = NoThread /\ seen[t] = NoVal
    /\ user' = [user EXCEPT ![k] = t]
    /\ seen' = [seen EXCEPT ![t] = content[k]]
    /\ UNCHANGED content

Write(t, k, v) ==
    /\ user[k] = t
    /\ content' = [content EXCEPT ![k] = v]
    /\ seen' = [seen EXCEPT ![t] = v]
    /\ UNCHANGED user

Put(t, k) ==
    /\ user[k] = t
    /\ user' = [user EXCEPT ![k] = NoThread]
    /\ seen' = [seen EXCEPT ![t] = NoVal]
    /\ UNCHANGED content

Next ==
    \E t \in Thread, k \in Block :
        Get(t, k) \/ Put(t, k) \/ \E v \in Val : Write(t, k, v)

Spec == Init /\ [][Next]_<<content, user, seen>>
=============================================================================
