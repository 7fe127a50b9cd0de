------------------------------ MODULE ByteFile ------------------------------
(***************************************************************************)
(* What kernel/file.c promises of a file: an array of bytes, read and      *)
(* written at the offset of the open file.  A read is one step.  A write   *)
(* is a sequence of steps, each of which puts some bytes in and advances   *)
(* the offset.  A write that fails has written a part, and behind it may   *)
(* have changed bytes (torn) that can later have their old value again.    *)
(***************************************************************************)
EXTENDS Integers, Sequences, FiniteSetsExt

CONSTANTS MAXBYTES, Inum, Proc, File, ip, readable, writable, Calls, src(_, _)

VARIABLES content, torn, off, wr, last

vars == <<content, torn, off, wr, last>>

NoWrite == [f |-> 0, n |-> 0, i |-> 0]

NoCall == [p |-> 0, call |-> "none", f |-> 0, n |-> 0, ret |-> 0, bytes |-> <<>>]

Init ==
    /\ content = [i \in Inum |-> <<>>] /\ torn = [i \in Inum |-> {}]
    /\ off = [f \in File |-> 0]
    /\ wr = [p \in Proc |-> NoWrite]
    /\ last = NoCall

Of(f) == content[ip[f]]

Return(p, call, f, n, ret, bytes) ==
    last' = [p |-> p, call |-> call, f |-> f, n |-> n, ret |-> ret, bytes |-> bytes]

\* The array c with the bytes b at offset o, which is not behind its end.
Overwrite(c, o, b) ==
    [k \in 1..Max({Len(c), o + Len(b)}) |-> IF k \in (o + 1)..(o + Len(b)) THEN b[k - o] ELSE c[k]]

\* Bytes become torn by a failing write only.
Tears(i, new) == \A j \in Inum : torn'[j] \subseteq (torn[j] \cup IF j = i THEN new ELSE {})

\* A buffer may turn out to be bad; a negative count is as good as any large one.
Read(p, f, n) ==
    LET rest == Max({0, Len(Of(f)) - off[f]})
        m == IF n < 0 THEN rest ELSE Min({n, rest})
        Gives(k) == /\ off' = [off EXCEPT ![f] = @ + k]
                    /\ Return(p, "read", f, n, k, SubSeq(Of(f), off[f] + 1, off[f] + k))
    IN  /\ wr[p] = NoWrite
        /\ \/ f \in readable /\ Gives(m)
           \/ f \in readable /\ n < 0 /\ Gives(0)
           \/ Return(p, "read", f, n, -1, <<>>) /\ UNCHANGED off
        /\ UNCHANGED <<content, torn, wr>>

Write(p, f, n) ==
    /\ wr[p] = NoWrite
    /\ IF f \in writable /\ n > 0
       THEN wr' = [wr EXCEPT ![p] = [f |-> f, n |-> n, i |-> 0]] /\ last' = NoCall
       ELSE /\ Return(p, "write", f, n, IF f \in writable /\ n = 0 THEN 0 ELSE -1, <<>>)
            /\ UNCHANGED wr
    /\ UNCHANGED <<content, torn, off>>

Buffer(p, first, n) == [k \in 1..n |-> src(p, first + k - 1)]

WriteSome(p) ==
    LET c == wr[p]
        o == off[c.f]
    IN  /\ c # NoWrite
        /\ o <= Len(Of(c.f))
        /\ \E k \in 1..(c.n - c.i) :
              /\ o + k <= MAXBYTES
              /\ content' = [content EXCEPT ![ip[c.f]] = Overwrite(@, o, Buffer(p, c.i, k))]
              /\ off' = [off EXCEPT ![c.f] = o + k]
              /\ IF c.i + k = c.n
                 THEN wr' = [wr EXCEPT ![p] = NoWrite] /\ Return(p, "write", c.f, c.n, c.n, <<>>)
                 ELSE wr' = [wr EXCEPT ![p].i = @ + k] /\ last' = NoCall
        /\ Tears(0, {})

\* k bytes are written, and j more changed inside the file.
WriteFail(p) ==
    LET c == wr[p]
        o == off[c.f]
        i == ip[c.f]
    IN  /\ c # NoWrite
        /\ \E k \in 0..(c.n - c.i - 1), j \in 0..(c.n - c.i) :
              LET end == Max({Len(content[i]), o + k}) IN
              /\ IF o <= Len(content[i])
                 THEN content' = [content EXCEPT ![i] =
                        SubSeq(Overwrite(@, o, Buffer(p, c.i, k + j)), 1, end)]
                 ELSE k = 0 /\ j = 0 /\ UNCHANGED content
              /\ off' = [off EXCEPT ![c.f] = o + k]
              /\ Tears(i, (o + k + 1)..(o + k + j))
        /\ wr' = [wr EXCEPT ![p] = NoWrite]
        /\ Return(p, "write", c.f, c.n, -1, <<>>)

Stat(p, f) ==
    /\ wr[p] = NoWrite
    /\ Return(p, "stat", f, 0, Len(Of(f)), <<>>)
    /\ UNCHANGED <<content, torn, off, wr>>

Open(p, f) ==
    /\ wr[p] = NoWrite
    /\ \/ UNCHANGED content
       \/ content' = [content EXCEPT ![ip[f]] = <<>>]
    /\ off' = [off EXCEPT ![f] = 0]
    /\ Return(p, "open", f, 0, 0, <<>>)
    /\ Tears(0, {}) /\ UNCHANGED wr

\* Torn bytes fall back.
Forget ==
    /\ \A i \in Inum :
          /\ Len(content'[i]) = Len(content[i])
          /\ \A k \in 1..Len(content[i]) : k \in torn[i] \/ content'[i][k] = content[i][k]
    /\ last' = NoCall /\ Tears(0, {}) /\ UNCHANGED <<off, wr>>

Next ==
    \/ \E c \in Calls :
          Stat(c.p, c.f) \/ Open(c.p, c.f) \/ Read(c.p, c.f, c.n) \/ Write(c.p, c.f, c.n)
    \/ \E p \in Proc : WriteSome(p) \/ WriteFail(p)
    \/ Forget

Spec == Init /\ [][Next]_vars
=============================================================================
