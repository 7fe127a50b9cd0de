------------------------------ MODULE Console ------------------------------
(***************************************************************************)
(* Console input, kernel/console.c: consoleintr() edits and commits lines  *)
(* in a ring with three free-running uint indices, consoleread() takes     *)
(* them out.  consoleintr() runs under cons.lock and is one step; a read   *)
(* takes a step per character, and a test of killed before it sleeps.      *)
(***************************************************************************)
EXTENDS Integers, Sequences, FiniteSetsExt

CONSTANTS
    Letter,                       \* characters without a meaning of their own
    Newline, Return, Nul,
    CtrlD, CtrlH, CtrlU, CtrlP,
    Reader, Killable, Nobody,
    INPUT_BUF,
    UMAX,                         \* modulus of uint arithmetic
    MaxN                          \* bound: characters asked for in a read

ASSUME ConsoleAssumption ==
    /\ Nobody \notin Reader /\ Killable \subseteq Reader
    /\ INPUT_BUF \in Nat \ {0} /\ MaxN \in Nat /\ UMAX \in Nat
    /\ UMAX > INPUT_BUF /\ UMAX % INPUT_BUF = 0

Stored == Letter \cup {Newline, CtrlD}
Typed == Letter \cup {Newline, Return, Nul, CtrlD, CtrlH, CtrlU, CtrlP}

VARIABLES
    buf, r, w, e, lock,      \* cons
    killed,
    pc, n, target            \* each reader

vars == <<buf, r, w, e, lock, killed, pc, n, target>>

Labels == {"idle", "acquire", "read", "sleep", "asleep"}

Init ==
    /\ buf = [j \in 0..(INPUT_BUF - 1) |-> Newline]
    /\ r = 0 /\ w = 0 /\ e = 0
    /\ lock = Nobody
    /\ killed = [t \in Reader |-> FALSE]
    /\ pc = [t \in Reader |-> "idle"]
    /\ n = [t \in Reader |-> 0]
    /\ target = [t \in Reader |-> 0]
-----------------------------------------------------------------------------
\* x++ on a uint
Incr(x) == (x + 1) % UMAX

\* x-- on a uint
Decr(x) == (x - 1) % UMAX

HasRoom == (e - r) % UMAX < INPUT_BUF

\* mutant: readers sleep on
WokenNone == {}

\* wakeup(&cons.r)
Woken == {t \in Reader : pc[t] = "asleep"}

Wake == pc' = [t \in Reader |-> IF t \in Woken THEN "acquire" ELSE pc[t]]
-----------------------------------------------------------------------------
(* consoleintr(c)                                                          *)

\* Where ^U stops: at w, or behind the last newline.
LineStart ==
    LET stop == {k \in 0..INPUT_BUF :
                    \/ (e - k) % UMAX = w
                    \/ buf[((e - k - 1) % UMAX) % INPUT_BUF] = Newline}
    IN  (e - Min(stop)) % UMAX

KillLine(x) ==
    /\ lock = Nobody /\ x = CtrlU
    /\ e' = LineStart
    /\ UNCHANGED <<buf, r, w, lock, killed, pc, n, target>>

Backspace(x) ==
    /\ lock = Nobody /\ x = CtrlH
    /\ e' = IF e = w THEN e ELSE Decr(e)
    /\ UNCHANGED <<buf, r, w, lock, killed, pc, n, target>>

\* Store the character; commit at a newline, at ^D and when the ring is full.
Default(x) ==
    LET ch == IF x = Return THEN Newline ELSE x IN
    /\ lock = Nobody /\ x \notin {CtrlP, CtrlU, CtrlH, Nul} /\ HasRoom
    /\ buf' = [buf EXCEPT ![e % INPUT_BUF] = ch]
    /\ e' = Incr(e)
    /\ IF ch \in {Newline, CtrlD} \/ Incr(e) = (r + INPUT_BUF) % UMAX
       THEN w' = Incr(e) /\ Wake
       ELSE UNCHANGED <<w, pc>>
    /\ UNCHANGED <<r, lock, killed, n, target>>

\* Lists the processes, or drops a character there is no room for.
Ignore(x) ==
    /\ lock = Nobody
    /\ x \in {CtrlP, Nul} \/ (x \notin {CtrlU, CtrlH} /\ ~HasRoom)
    /\ UNCHANGED vars
-----------------------------------------------------------------------------
(* consoleread()                                                           *)

Call(t, k) ==
    /\ pc[t] = "idle" /\ ~killed[t]
    /\ n' = [n EXCEPT ![t] = k]
    /\ target' = [target EXCEPT ![t] = k]
    /\ pc' = [pc EXCEPT ![t] = "acquire"]
    /\ UNCHANGED <<buf, r, w, e, lock, killed>>

AcquireLock(t) ==
    /\ pc[t] = "acquire" /\ lock = Nobody
    /\ lock' = t
    /\ pc' = [pc EXCEPT ![t] = "read"]
    /\ UNCHANGED <<buf, r, w, e, killed, n, target>>

Finish(t) ==
    /\ lock' = Nobody
    /\ pc' = [pc EXCEPT ![t] = "idle"]
    /\ n' = [n EXCEPT ![t] = 0]
    /\ target' = [target EXCEPT ![t] = 0]
    /\ UNCHANGED <<buf, w, e, killed>>

\* All that was asked for, or killed while there is nothing to read.
ReadReturn(t) ==
    /\ pc[t] = "read"
    /\ n[t] = 0 \/ (r = w /\ killed[t])
    /\ Finish(t)
    /\ UNCHANGED r

ReadWait(t) ==
    /\ pc[t] = "read" /\ n[t] > 0 /\ r = w /\ ~killed[t]
    /\ pc' = [pc EXCEPT ![t] = "sleep"]
    /\ UNCHANGED <<buf, r, w, e, lock, killed, n, target>>

Sleep(t) ==
    /\ pc[t] = "sleep"
    /\ lock' = Nobody
    /\ pc' = [pc EXCEPT ![t] = "asleep"]
    /\ UNCHANGED <<buf, r, w, e, killed, n, target>>

Next1 == buf[r % INPUT_BUF]

\* mutant: ^D is always consumed
ReadEofAlways(t) ==
    /\ pc[t] = "read" /\ n[t] > 0 /\ r # w /\ Next1 = CtrlD
    /\ r' = Incr(r)
    /\ Finish(t)

\* ^D ends the read, and is saved for the next one unless it came first.
ReadEof(t) ==
    /\ pc[t] = "read" /\ n[t] > 0 /\ r # w /\ Next1 = CtrlD
    /\ r' = IF n[t] < target[t] THEN r ELSE Incr(r)
    /\ Finish(t)

ReadChar(t) ==
    /\ pc[t] = "read" /\ n[t] > 0 /\ r # w /\ Next1 # CtrlD
    /\ r' = Incr(r)
    /\ IF Next1 = Newline THEN Finish(t)
       ELSE /\ n' = [n EXCEPT ![t] = @ - 1]
            /\ UNCHANGED <<buf, w, e, lock, killed, pc, target>>

\* The character is taken and either_copyout() fails.
ReadFault(t) ==
    /\ pc[t] = "read" /\ n[t] > 0 /\ r # w /\ Next1 # CtrlD
    /\ r' = Incr(r)
    /\ Finish(t)

Kill(t) ==
    /\ ~killed[t]
    /\ killed' = [killed EXCEPT ![t] = TRUE]
    /\ pc' = [pc EXCEPT ![t] = IF @ = "asleep" THEN "acquire" ELSE @]
    /\ UNCHANGED <<buf, r, w, e, lock, n, target>>
-----------------------------------------------------------------------------
ConsoleIntr(x) == KillLine(x) \/ Backspace(x) \/ Default(x) \/ Ignore(x)

ConsoleRead(t) ==
    \/ ReadReturn(t) \/ ReadWait(t) \/ Sleep(t)
    \/ ReadEof(t) \/ ReadChar(t) \/ ReadFault(t)

Next ==
    \/ \E x \in Typed : ConsoleIntr(x)
    \/ \E t \in Reader : (\E k \in 0..MaxN : Call(t, k)) \/ AcquireLock(t) \/ ConsoleRead(t)
    \/ \E t \in Killable : Kill(t)

Spec == Init /\ [][Next]_vars
-----------------------------------------------------------------------------
TypeOK ==
    /\ buf \in [0..(INPUT_BUF - 1) -> Stored]
    /\ {r, w, e} \subseteq 0..(UMAX - 1)
    /\ lock \in Reader \cup {Nobody}
    /\ killed \in [Reader -> BOOLEAN]
    /\ pc \in [Reader -> Labels]
    /\ n \in [Reader -> 0..MaxN] /\ target \in [Reader -> 0..MaxN]

Slice(from, to) ==
    [k \in 1..((to - from) % UMAX) |-> buf[(from + k - 1) % INPUT_BUF]]

Ready == Slice(r, w)
Edit == Slice(w, e)
Got == [t \in Reader |-> target[t] - n[t]]

Discipline == INSTANCE LineDiscipline WITH
    ready <- Ready, edit <- Edit, got <- Got,
    Char <- Stored, Eof <- CtrlD, Capacity <- INPUT_BUF

\* "do erase/kill processing, append to cons.buf, wake up consoleread() if a
\* whole line has arrived": typed characters reach readers in order, edited
\* only within their line, never overwritten, and a ^D gives some reader a
\* 0-byte result, also across wrap-around, with several readers, and when
\* typing goes on during a read.
IsLineDiscipline == Discipline!Spec

\* A reader sleeps only while there is nothing it could read; and all
\* variables have their types.
ReaderNotStranded ==
    /\ TypeOK
    /\ lock = Nobody => \A t \in Reader : pc[t] = "asleep" => r = w
-----------------------------------------------------------------------------
(* What makes the two properties above hold (module ConsoleProofs).        *)

\* The three indices are in order and span no more than the ring, and the
\* line being typed has no newline: ^U stops at w.
IndexInv ==
    /\ ((w - r) % UMAX) + ((e - w) % UMAX) = (e - r) % UMAX
    /\ (e - r) % UMAX <= INPUT_BUF
    /\ \A k \in 1..Len(Edit) : Edit[k] # Newline

\* cons.lock is held in consoleread() while it takes characters and until it
\* sleeps; nobody goes to sleep or sleeps with something to read; a read has
\* no more left than it asked for.
ReaderInv ==
    \A t \in Reader :
        /\ lock = t <=> pc[t] \in {"read", "sleep"}
        /\ pc[t] \in {"sleep", "asleep"} => r = w
        /\ n[t] <= target[t]
        /\ pc[t] = "idle" => target[t] = 0

\* The inductive invariant.
ConsoleInv == TypeOK /\ IndexInv /\ ReaderInv
=============================================================================
