------------------------------- MODULE Shell --------------------------------
(***************************************************************************)
(* The shell and the programs it runs, as processes making system calls.   *)
(*                                                                         *)
(* A process is the list of calls it has still to make.  runcmd() and the  *)
(* programs (user/sh.c, echo.c, cat.c, primes.c, pingpong.c, xargs.c) give *)
(* these lists; a fork has the child's list, and the result of a read says *)
(* how the list goes on.  A step is one call, fileclose() being two; what  *)
(* a process does between calls is part of the step before.  The shell     *)
(* reads one line and then the end of its input.                           *)
(***************************************************************************)
EXTENDS Files, Parser

CONSTANTS
    sh,               \* the shell's process
    Lines,            \* the lines it may be given, as tokens
    Contents,         \* the files at the start
    LASTNUM           \* primes sieves 2..LASTNUM

ASSUME ShellAssumption == sh \in Proc /\ Lines # {}

VARIABLES
    line,             \* the line typed
    proc,             \* state, parent, code: the calls to make, m: mypipe, num, cnt: primes' locals
    short             \* history: a process, pipe or struct file could not be had

vars == <<fileVars, line, proc, short>>

init == 0             \* the parent of orphans
ERR == 0              \* a message on standard error
Echoed == <<1, 2, 3, 4>>  \* what echo is asked to write
PING == 11
PONG == 12
BLANK == 13           \* an empty line of a program's input
USAGE == 14           \* xargs asking for arguments

\* The calls.  A descriptor is a number, or an end of one of the process's pipes.
Lit(n) == [end |-> "none", n |-> n]
R(k) == [end |-> "r", n |-> k]
W(k) == [end |-> "w", n |-> k]

Op(op) == [op |-> op]
Exit == Op("exit")
Wait == Op("wait")
Close(a) == [op |-> "close", a |-> a]
Dup(a) == [op |-> "dup", a |-> a]
MkPipe(k, else) == [op |-> "pipe", k |-> k, else |-> else]
Fork(code, else) == [op |-> "fork", child |-> code, else |-> else]
Open(file, mode) == [op |-> "open", file |-> file, mode |-> mode]
Write(a, v, else) == [op |-> "write", a |-> a, v |-> v, else |-> else]
Read(a, for, k) == [op |-> "read", a |-> a, for |-> for, k |-> k]
Run(cmd) == [op |-> "run", cmd |-> cmd]

\* fprintf(2, ...); exit(1)
Complain == <<Write(Lit(2), ERR, "on"), Exit>>

\* The program goes on with a result it does not have: no step is defined.
Undefined == <<Op("undefined")>>

\* fork1() panics when there is no process to be had.
fork1(code) == Fork(code, Complain)
-----------------------------------------------------------------------------
(* The programs.  primes and pingpong do not look whether pipe() or fork() *)
(* has failed, and are run with enough of both.                            *)

echo(items) == [i \in DOMAIN items |-> Write(Lit(1), items[i], "on")] \o <<Exit>>

\* primes: main() up to the first stage's loop; stage k reads pipe k and writes 1 - k.
primes(N) ==
    <<MkPipe(0, Undefined), Fork(<<Close(W(0)), MkPipe(1, Undefined), Read(R(0), "prime", 0)>>, Undefined),
      Close(R(0))>>
      \o [i \in 1..(N - 1) |-> Write(W(0), i + 1, "on")] \o <<Close(W(0)), Wait, Exit>>

primesNext(k, cnt) ==
    <<Close(R(k)), Close(W(1 - k))>>
      \o IF cnt = 1 THEN <<Exit>>
         ELSE <<Fork(<<MkPipe(k, Undefined), Read(R(1 - k), "prime", 1 - k)>>, Undefined),
                Close(R(1 - k)), Wait, Exit>>

pingpong ==
    <<MkPipe(0, Undefined), MkPipe(1, Undefined), Fork(<<Read(R(0), "ping", 0)>>, Undefined),
      Write(W(0), PING, "on"), Read(R(1), "pong", 0)>>

\* mutant: end of file does not end the loop
catNoEof(i, v) ==
    IF v > 0 THEN <<Write(Lit(1), v, "complain"), i>>
    ELSE IF v = 0 THEN <<i>> ELSE Complain

\* cat() after a read that returned v.
cat(i, v) ==
    IF v > 0 THEN <<Write(Lit(1), v, "complain"), i>>
    ELSE IF v = 0 THEN <<Exit>> ELSE Complain

\* xargs after read_line(): the end of the input and an empty line both end
\* the loop.  The child runs its command on the line, here echo (k = 1), or,
\* when exec() fails (k = 0), goes on with the loop itself; so does xargs
\* when there is no child.
xargs(i, v) ==
    LET run == IF i.k = 1 THEN echo(<<v>>) ELSE <<i>> IN
    IF v > 0 /\ v # BLANK
    THEN <<Fork(run, run), Wait, i>>
    ELSE <<Exit>>

Program(argv) ==
    CASE argv[1] = "echo" -> echo(Echoed)
      [] argv[1] = "cat" -> <<Read(Lit(0), "cat", 0)>>
      [] argv[1] = "primes" -> primes(LASTNUM)
      [] argv[1] = "pingpong" -> pingpong
      [] argv[1] = "xargs" /\ Len(argv) < 2 -> <<Write(Lit(1), USAGE, "on"), Exit>>
      [] argv[1] = "xargs" /\ Len(argv) >= 2 -> <<Read(Lit(0), "xargs", IF argv[2] = "echo" THEN 1 ELSE 0)>>
      [] OTHER -> Complain                             \* exec fails

\* The calls after a read that returned v, in a process with locals t.
AfterRead(i, v, t) ==
    CASE i.for = "cat" -> cat(i, v)
      [] i.for = "prime" -> <<Write(Lit(1), IF v > 0 THEN v ELSE t.num, "on"), Read(i.a, "sieve", i.k)>>
      [] i.for = "sieve" ->
           IF v <= 0 THEN primesNext(i.k, t.cnt)
           ELSE IF v % t.num # 0 THEN <<Write(W(1 - i.k), v, "on"), i>> ELSE <<i>>
      [] i.for = "ping" -> <<Write(Lit(1), PING, "on"), Write(W(1), PONG, "on"), Exit>>
      [] i.for = "pong" -> <<Write(Lit(1), PONG, "on"), Exit>>
      [] i.for = "xargs" -> xargs(i, v)

Locals(i, v, t) ==
    CASE i.for = "prime" -> [t EXCEPT !.num = IF v > 0 THEN v ELSE @, !.cnt = 1]
      [] i.for = "sieve" -> [t EXCEPT !.cnt = IF v > 0 THEN @ + 1 ELSE @]
      [] OTHER -> t
-----------------------------------------------------------------------------
(* runcmd() *)

Pipeline(l, r) ==
    <<MkPipe(0, Complain), fork1(<<Close(Lit(1)), Dup(W(0)), Close(R(0)), Close(W(0)), Run(l)>>),
      fork1(<<Close(Lit(0)), Dup(R(0)), Close(R(0)), Close(W(0)), Run(r)>>),
      Close(R(0)), Close(W(0)), Wait, Wait, Exit>>

\* mutant: a list does not wait for its left side
runcmdNoWait(c) ==
    CASE c.type = "EXEC" -> IF c.argv = <<>> THEN <<Exit>> ELSE Program(c.argv)
      [] c.type = "REDIR" -> <<Close(Lit(c.fd)), Open(c.file, c.mode), Run(c.cmd)>>
      [] c.type = "LIST" -> <<fork1(<<Run(c.left)>>), Run(c.right)>>
      [] c.type = "PIPE" -> Pipeline(c.left, c.right)
      [] c.type = "BACK" -> <<fork1(<<Run(c.cmd)>>), Exit>>
      [] c.type = "SYNTAX" -> Complain

runcmd(c) ==
    CASE c.type = "EXEC" -> IF c.argv = <<>> THEN <<Exit>> ELSE Program(c.argv)
      [] c.type = "REDIR" -> <<Close(Lit(c.fd)), Open(c.file, c.mode), Run(c.cmd)>>
      [] c.type = "LIST" -> <<fork1(<<Run(c.left)>>), Wait, Run(c.right)>>
      [] c.type = "PIPE" -> Pipeline(c.left, c.right)
      [] c.type = "BACK" -> <<fork1(<<Run(c.cmd)>>), Exit>>
      [] c.type = "SYNTAX" -> Complain                 \* parsecmd() has panicked

\* runcmd() of a part of a command goes on with its calls.
Load(code) == IF Head(code).op = "run" THEN runcmd(Head(code).cmd) ELSE code
-----------------------------------------------------------------------------
NoProc == [state |-> "unused", parent |-> init, code |-> <<>>,
           m |-> [k \in 0..1 |-> [r |-> 0, w |-> 0]], num |-> 0, cnt |-> 0]

Init ==
    /\ FilesInit(sh, Contents)
    /\ line = <<>> /\ short = FALSE
    /\ proc = [p \in Proc |-> IF p = sh THEN [NoProc EXCEPT !.state = "run", !.code = <<Op("getcmd")>>]
                              ELSE NoProc]

Now(p) == Head(proc[p].code)
Does(p, op) == proc[p].state = "run" /\ Ready(p) /\ Now(p).op = op
Arg(p) == LET a == Now(p).a IN IF a.end = "none" THEN a.n ELSE proc[p].m[a.n][a.end]
Goto(p, code) == proc' = [proc EXCEPT ![p].code = Load(code)]
Rest(p) == Tail(proc[p].code)

\* The command tree of each line.
Tree == [l \in Lines |-> parsecmd(l)]

\* A line that begins with "cd ", whose rest is the path, all of it; the only
\* directory is the root.  The next line is the end of the input: the shell
\* exits, after a message if chdir() fails.
IsCd(l) == Len(l) >= 2 /\ l[1] = "cd"
cd(l) == IF Tail(l) = <<"/">> THEN <<Exit>> ELSE Complain

\* main()'s loop: the shell runs cd itself; for any other line a child runs
\* it, and the shell waits.
GetCmd(p) ==
    /\ Does(p, "getcmd")
    /\ \E l \in Lines :
         /\ line' = l
         /\ Goto(p, IF IsCd(l) THEN cd(l) ELSE <<fork1(<<Run(Tree[l])>>), Wait, Exit>>)
    /\ UNCHANGED <<fileVars, short>>

\* fork(), and what its caller does when there is no process to be had.
DoFork(p) ==
    LET free == {c \in Proc : proc[c].state = "unused"} IN
    /\ Does(p, "fork")
    /\ IF free = {} THEN Goto(p, Now(p).else) /\ UNCHANGED fileVars
       ELSE /\ forkfiles(p, Min(free))
            /\ proc' = [proc EXCEPT ![p].code = Load(Rest(p)),
                          ![Min(free)] = [proc[p] EXCEPT !.parent = p, !.code = Load(Now(p).child)]]
    /\ short' = (short \/ free = {}) /\ UNCHANGED line

DoWait(p) ==
    LET children == {c \in Proc : proc[c].state # "unused" /\ proc[c].parent = p}
        Done(c) == proc' = [proc EXCEPT ![p].code = Load(Rest(p)), ![c] = NoProc]
    IN  /\ Does(p, "wait")
        /\ \/ children = {} /\ Goto(p, Rest(p))
           \/ \E c \in children : proc[c].state = "zombie" /\ Done(c)
        /\ UNCHANGED <<fileVars, line, short>>

\* exit(): the descriptors one after the other, then the children go to init.
DoExit(p) ==
    LET left == {fd \in Fd : ofile[p][fd] # 0} IN
    /\ Does(p, "exit")
    /\ IF left # {} THEN fileclose(p, Min(left)) /\ UNCHANGED proc
       ELSE /\ proc' = [c \in Proc |->
                 IF c = p THEN [NoProc EXCEPT !.state = "zombie", !.parent = proc[p].parent]
                 ELSE IF proc[c].parent = p THEN [proc[c] EXCEPT !.parent = init] ELSE proc[c]]
            /\ UNCHANGED fileVars
    /\ UNCHANGED <<line, short>>

\* init's loop of wait(), once an orphan has exited.
Reap(c) ==
    /\ c # sh /\ proc[c].state = "zombie" /\ proc[c].parent = init
    /\ proc' = [proc EXCEPT ![c] = NoProc]
    /\ UNCHANGED <<fileVars, line, short>>

DoClose(p) ==
    /\ Does(p, "close")
    /\ IF ofile[p][Arg(p)] = 0 THEN UNCHANGED fileVars ELSE fileclose(p, Arg(p))
    /\ Goto(p, Rest(p)) /\ UNCHANGED <<line, short>>

DoFinishClose(p) == FinishClose(p) /\ UNCHANGED <<proc, line, short>>

DoDup(p) == Does(p, "dup") /\ dup(p, Arg(p)) /\ Goto(p, Rest(p)) /\ UNCHANGED <<line, short>>

\* pipe(); runcmd() checks that it has not failed, and panics.
DoPipe(p) ==
    /\ Does(p, "pipe")
    /\ \/ pipefile(p) /\ UNCHANGED <<proc, short>>
       \/ /\ pipe(p) /\ UNCHANGED short
          /\ proc' = [proc EXCEPT ![p].code = Load(Rest(p)),
                        ![p].m[Now(p).k] = [r |-> Min(FreeFds(p)), w |-> Second(FreeFds(p))]]
       \/ pipeFailed(p, Now(p).else # Undefined) /\ Goto(p, Now(p).else) /\ short' = TRUE
    /\ UNCHANGED line

DoPipeUndo(p) == pipeUndo(p) /\ UNCHANGED <<proc, line, short>>

DoOpen(p) ==
    /\ Does(p, "open")
    /\ IF OpenFails(p, Now(p).file, Now(p).mode)
       THEN openFailed(Now(p).file, Now(p).mode) /\ Goto(p, Complain)
       ELSE open(p, Now(p).file, Now(p).mode) /\ Goto(p, Rest(p))
    /\ short' = (short \/ FreeFiles = {}) /\ UNCHANGED line

DoRead(p) ==
    LET v == ReadValue(p, Arg(p))
        t == Locals(Now(p), v, proc[p])
    IN
    /\ Does(p, "read") /\ (ReadFails(p, Arg(p)) \/ ~ReadWaits(p, Arg(p)))
    /\ read(p, Arg(p))
    /\ proc' = [proc EXCEPT ![p] = [t EXCEPT !.code = Load(AfterRead(Now(p), v, t))]]
    /\ UNCHANGED <<line, short>>

DoWrite(p) ==
    /\ Does(p, "write")
    /\ IF WriteFails(p, Arg(p))
       THEN UNCHANGED fileVars /\ Goto(p, IF Now(p).else = "complain" THEN Complain ELSE Rest(p))
       ELSE ~WriteWaits(p, Arg(p)) /\ write(p, Arg(p), Now(p).v) /\ Goto(p, Rest(p))
    /\ UNCHANGED <<line, short>>

Step(p) ==
    \/ GetCmd(p) \/ DoFork(p) \/ DoWait(p) \/ DoExit(p) \/ DoClose(p) \/ DoFinishClose(p)
    \/ DoDup(p) \/ DoPipe(p) \/ DoPipeUndo(p) \/ DoOpen(p) \/ DoRead(p) \/ DoWrite(p)

AllDone == proc[sh].state = "zombie" /\ \A p \in Proc \ {sh} : proc[p].state = "unused"
Terminated == AllDone /\ UNCHANGED vars

Next == (\E p \in Proc : Step(p) \/ Reap(p)) \/ Terminated

\* Every process that can go on does, as scheduler() takes runnable ones in turn.
Spec == Init /\ [][Next]_vars /\ \A p \in Proc : WF_vars(Step(p)) /\ WF_vars(Reap(p))
-----------------------------------------------------------------------------
(* What a command writes, as a function of its input and of the files.     *)

IsPrime(n) == n > 1 /\ \A d \in 2..(n - 1) : n % d # 0
PrimesUpTo(n) == SetToSortSeq({i \in 2..n : IsPrime(i)}, <)

Over(old, new) == new \o SubSeq(old, Len(new) + 1, Len(old))

\* out: what goes to standard output; in: the input left; files: the files after it.
Result(out, in, fs) == [out |-> out, in |-> in, files |-> fs]

\* n processes in xargs' loop: each empty line ends one, and each other line
\* is echoed or, when the command cannot be run, adds one.
RECURSIVE XargsMeaning(_, _, _, _)
XargsMeaning(runs, n, in, fs) ==
    CASE n = 0 \/ in = <<>> -> Result(<<>>, in, fs)
      [] n > 0 /\ in # <<>> /\ Head(in) = BLANK -> XargsMeaning(runs, n - 1, Tail(in), fs)
      [] n > 0 /\ in # <<>> /\ Head(in) # BLANK ->
           IF runs THEN LET And(r) == [r EXCEPT !.out = <<Head(in)>> \o @]
                        IN  And(XargsMeaning(runs, n, Tail(in), fs))
           ELSE XargsMeaning(runs, n + 1, Tail(in), fs)

ProgramMeaning(argv, in, fs) ==
    CASE argv[1] = "echo" -> Result(Echoed, in, fs)
      [] argv[1] = "cat" -> Result(in, <<>>, fs)
      [] argv[1] = "xargs" ->
           IF Len(argv) < 2 THEN Result(<<USAGE>>, in, fs)
           ELSE XargsMeaning(argv[2] = "echo", 1, in, fs)
      [] argv[1] = "primes" -> Result(PrimesUpTo(LASTNUM), in, fs)
      [] argv[1] = "pingpong" -> Result(<<PING, PONG>>, in, fs)
      [] OTHER -> Result(<<>>, in, fs)

RECURSIVE Meaning(_, _, _)
Meaning(c, in, fs) ==
    CASE c.type = "EXEC" -> IF c.argv = <<>> THEN Result(<<>>, in, fs) ELSE ProgramMeaning(c.argv, in, fs)
      [] c.type = "LIST" ->
           LET Then(l) ==
                 LET And(r) == [r EXCEPT !.out = l.out \o @] IN And(Meaning(c.right, l.in, l.files))
           IN  Then(Meaning(c.left, in, fs))
      [] c.type = "PIPE" ->
           LET Then(l) == [Meaning(c.right, l.out, l.files) EXCEPT !.in = l.in]
           IN  Then(Meaning(c.left, in, fs))
      [] c.type = "BACK" -> Meaning(c.cmd, in, fs)
      [] c.type = "SYNTAX" -> Result(<<>>, in, fs)
      [] c.type = "REDIR" /\ c.mode = "O_RDONLY" ->
           IF fs[c.file] = Missing THEN Result(<<>>, in, fs)
           ELSE [Meaning(c.cmd, fs[c.file], fs) EXCEPT !.in = in]
      [] c.type = "REDIR" /\ c.mode # "O_RDONLY" ->
           LET old == IF c.mode = "O_TRUNC" \/ fs[c.file] = Missing THEN <<>> ELSE fs[c.file]
               Then(r) == Result(<<>>, r.in, [r.files EXCEPT ![c.file] = Over(@, r.out)])
           IN  Then(Meaning(c.cmd, in, [fs EXCEPT ![c.file] = old]))

\* cd is the shell's own, and says nothing on standard output.
LineMeaning(l) == IF IsCd(l) THEN Result(<<>>, <<>>, Contents) ELSE Meaning(Tree[l], <<>>, Contents)

\* The line leaves a command in the background.
InBackground == \E i \in DOMAIN line : line[i] = "&"

(* runcmd(), primes.c, pingpong.c, xargs.c, cat.c: when all processes of a *)
(* line have exited, the console and the files have what the command       *)
(* means: the stages of a pipeline feed each other everything in order, a  *)
(* list runs one command after the other, redirections go to their files,  *)
(* and primes has printed exactly the primes, in order.  With "&" only the *)
(* order on the console is open.  A line that ran out of processes, pipes  *)
(* or struct files is left out.                                            *)
OutputIsMeaning ==
    LET Same(written, r) ==
          /\ files = r.files
          /\ IF InBackground
             THEN \A v \in Range(written) \cup Range(r.out) :
                    Cardinality({i \in DOMAIN written : written[i] = v})
                      = Cardinality({i \in DOMAIN r.out : r.out[i] = v})
             ELSE written = r.out
    IN  AllDone /\ ~short => Same(SelectSeq(console, LAMBDA v : v # ERR), LineMeaning(line))

(* wait(), the closing of unused pipe ends in runcmd() and primes.c: every *)
(* line comes to an end, with no process left waiting for input or output  *)
(* that cannot come, all descriptors closed and all pipes freed.           *)
LineEnds ==
    <>(/\ AllDone
       /\ \A k \in Pipe : ~pipes[k].live
       /\ \A f \in Slot : ftable[f].ref = 0)
=============================================================================
