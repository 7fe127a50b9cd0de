-------------------------------- MODULE Grep --------------------------------
(***************************************************************************)
(* user/grep.c: the matcher, and the loop that cuts what it reads into     *)
(* lines.  Strings are sequences of characters without the final NUL.      *)
(***************************************************************************)
EXTENDS Integers, Sequences, FiniteSets, FiniteSetsExt, SequencesExt

CONSTANT BUFSIZE         \* sizeof(buf)

newline == "n"

RECURSIVE matchhere(_, _), matchstar(_, _, _), match(_, _), grep(_, _, _, _)

\* mutant: a star takes one instance or more
matchstarPlus(c, re, text) ==
    text # <<>> /\ (Head(text) = c \/ c = ".") /\ (matchhere(re, Tail(text)) \/ matchstar(c, re, Tail(text)))

matchstar(c, re, text) ==
    \/ matchhere(re, text)
    \/ text # <<>> /\ (Head(text) = c \/ c = ".") /\ matchstar(c, re, Tail(text))

matchhere(re, text) ==
    IF re = <<>> THEN TRUE
    ELSE IF Len(re) > 1 /\ re[2] = "*" THEN matchstar(re[1], SubSeq(re, 3, Len(re)), text)
    ELSE IF re = <<"$">> THEN text = <<>>
    ELSE text # <<>> /\ (re[1] = "." \/ re[1] = Head(text)) /\ matchhere(Tail(re), Tail(text))

match(re, text) ==
    IF re # <<>> /\ re[1] = "^" THEN matchhere(Tail(re), text)
    ELSE \/ matchhere(re, text)
         \/ text # <<>> /\ match(re, Tail(text))

\* The lines complete in buf that match, and what is kept of it.
LinesOf(buf) ==
    LET ends == SetToSortSeq({i \in DOMAIN buf : buf[i] = newline}, <)
    IN  [k \in DOMAIN ends |-> SubSeq(buf, IF k = 1 THEN 1 ELSE ends[k - 1] + 1, ends[k] - 1)]
Kept(buf) ==
    SubSeq(buf, 1 + Max({0} \cup {i \in DOMAIN buf : buf[i] = newline}), Len(buf))

\* grep(): each read() gives what there is, at most what the buffer has room for
\* and at most the next of sizes; one that gives nothing ends the loop.
grep(re, buf, in, sizes) ==
    LET n == Min({BUFSIZE - Len(buf) - 1, Len(in), IF sizes = <<>> THEN Len(in) ELSE Head(sizes)})
        Loop(b) == SelectSeq(LinesOf(b), LAMBDA l : match(re, l))
                     \o grep(re, Kept(b), SubSeq(in, n + 1, Len(in)), IF sizes = <<>> THEN sizes ELSE Tail(sizes))
    IN  IF n = 0 THEN <<>> ELSE Loop(buf \o SubSeq(in, 1, n))
-----------------------------------------------------------------------------
(* What a pattern means.  It is a sequence of items, each one character or *)
(* any number of it, and a "$" at the end anchors it; an item takes a set  *)
(* of places in the text to the places where what it matches may end.      *)

Matches(c, text, i) == i < Len(text) /\ (c = "." \/ text[i + 1] = c)

RECURSIVE Places(_, _, _)
Places(re, text, S) ==
    IF re = <<>> THEN S
    ELSE IF Len(re) > 1 /\ re[2] = "*"
    THEN Places(SubSeq(re, 3, Len(re)), text,
           {j \in 0..Len(text) : \E i \in S : i <= j /\ \A k \in i..(j - 1) : Matches(re[1], text, k)})
    ELSE IF re = <<"$">> THEN S \cap {Len(text)}
    ELSE Places(Tail(re), text, {i + 1 : i \in {i \in S : Matches(re[1], text, i)}})

Meant(re, text) ==
    IF re # <<>> /\ re[1] = "^" THEN Places(Tail(re), text, {0}) # {}
    ELSE Places(re, text, 0..Len(text)) # {}

\* The lines that come before one too long for the buffer.
Fitting(lines) ==
    SubSeq(lines, 1, Min({Len(lines)} \cup {i - 1 : i \in {i \in DOMAIN lines : Len(lines[i]) + 1 > BUFSIZE - 1}}))
=============================================================================
