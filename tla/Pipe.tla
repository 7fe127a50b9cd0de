-------------------------------- MODULE Pipe --------------------------------
(***************************************************************************)
(* kernel/pipe.c: one pipe, processes that read it and processes that      *)
(* write it, at the granularity of one turn of the loops in pipewrite()    *)
(* and piperead().  pi->lock is explicit because kill() does not take it:  *)
(* a process can be killed between any two turns.                          *)
(*                                                                         *)
(* sleep() gives up pi->lock and sleeps in one step (module Proc), but the *)
(* test of pr->killed before it is a step of its own.  The counters are    *)
(* uints: they wrap at UMAX (2^32 in the code).                            *)
(***************************************************************************)
EXTENDS Integers, Sequences, FiniteSets

CONSTANTS
    Reader, Writer,   \* processes holding the read end, the write end
    Killable,         \* processes somebody may kill()
    Nobody,           \* the holder of a free lock
    Byte, NoByte,
    PIPESIZE,
    UMAX,             \* modulus of uint arithmetic
    ReadSizes,        \* bound: bytes asked for in one read()
    WriteSizes        \* bound: bytes given to one write()

ASSUME PipeAssumption ==
    /\ Reader # {} /\ Writer # {}
    /\ Reader \cap Writer = {} /\ Nobody \notin Reader \cup Writer
    /\ Killable \subseteq Reader \cup Writer
    /\ NoByte \notin Byte
    /\ PIPESIZE \in Nat \ {0} /\ UMAX \in Nat
    /\ ReadSizes \cup WriteSizes \subseteq Nat
    /\ UMAX > PIPESIZE /\ UMAX % PIPESIZE = 0

User == Reader \cup Writer

VARIABLES
    nread, nwrite, data, readopen, writeopen, lock,   \* struct pipe
    fd,                                               \* who still has its end open
    killed,
    pc, n, i,                                         \* locals of the calls
    out                                               \* last byte copied out; NoByte if it could not be

pipeVars == <<nread, nwrite, data, readopen, writeopen>>
vars == <<pipeVars, lock, fd, killed, pc, n, i, out>>

Labels == {"user", "acquire", "write", "write_sleep", "read", "read_sleep",
           "copy", "asleep"}

Init ==
    /\ nread = 0 /\ nwrite = 0
    /\ data = [j \in 0..(PIPESIZE - 1) |-> NoByte]      \* what kalloc() left
    /\ readopen = TRUE /\ writeopen = TRUE
    /\ lock = Nobody
    /\ fd = User
    /\ killed = [u \in User |-> FALSE]
    /\ pc = [u \in User |-> "user"]
    /\ n = [u \in User |-> 0]
    /\ i = [u \in User |-> 0]
    /\ out = NoByte
-----------------------------------------------------------------------------
Empty == nread = nwrite

\* mutant: the sum is not reduced to a uint
FullNoWrap == nwrite = nread + PIPESIZE

\* "pipewrite-full", in uint arithmetic.
Full == nwrite = (nread + PIPESIZE) % UMAX

\* x++ on a uint
Incr(x) == (x + 1) % UMAX

Goto(u, l) == pc' = [pc EXCEPT ![u] = l]

\* The call returns: drop the lock, forget the locals.
Return(u) ==
    /\ lock' = Nobody
    /\ n' = [n EXCEPT ![u] = 0]
    /\ i' = [i EXCEPT ![u] = 0]

\* wakeup(): those in S asleep go back to acquire(&pi->lock); u goes to l.
WakeGoto(S, u, l) ==
    pc' = [v \in User |-> IF v = u THEN l
                          ELSE IF v \in S /\ pc[v] = "asleep" THEN "acquire"
                          ELSE pc[v]]

\* read(fd, addr, k) or write(fd, addr, k) by a process not yet killed.
Call(u, k) ==
    /\ pc[u] = "user" /\ u \in fd /\ ~killed[u]
    /\ n' = [n EXCEPT ![u] = k]
    /\ Goto(u, "acquire")
    /\ UNCHANGED <<pipeVars, lock, fd, killed, i, out>>

\* acquire(&pi->lock), on entry or on the way out of sleep().
AcquireLock(u) ==
    /\ pc[u] = "acquire" /\ lock = Nobody
    /\ lock' = u
    /\ Goto(u, IF u \in Writer THEN "write" ELSE "read")
    /\ UNCHANGED <<pipeVars, fd, killed, n, i, out>>

\* sleep(chan, &pi->lock): chan is told by which end the process uses.
Sleep(u) ==
    /\ pc[u] \in {"write_sleep", "read_sleep"}
    /\ lock' = Nobody
    /\ Goto(u, "asleep")
    /\ UNCHANGED <<pipeVars, fd, killed, n, i, out>>
-----------------------------------------------------------------------------
(* pipewrite()                                                             *)

Broken(w) == ~readopen \/ killed[w]

\* Every byte is in the pipe, or copyin() failed: wake readers and return.
WriteEnd(w) ==
    /\ pc[w] = "write"
    /\ i[w] = n[w] \/ (~Broken(w) /\ ~Full)
    /\ WakeGoto(Reader, w, "user")
    /\ Return(w)
    /\ UNCHANGED <<pipeVars, fd, killed, out>>

\* No reader is left, or the writer was killed: return -1.
WriteError(w) ==
    /\ pc[w] = "write" /\ i[w] < n[w] /\ Broken(w)
    /\ Goto(w, "user")
    /\ Return(w)
    /\ UNCHANGED <<pipeVars, fd, killed, out>>

\* mutant: readers are not woken when the pipe fills
WriteFullNoWake(w) ==
    /\ pc[w] = "write" /\ i[w] < n[w] /\ ~Broken(w)
    /\ Full
    /\ Goto(w, "write_sleep")
    /\ UNCHANGED <<pipeVars, lock, fd, killed, n, i, out>>

\* The pipe is full: wake readers and go to sleep.
WriteFull(w) ==
    /\ pc[w] = "write" /\ i[w] < n[w] /\ ~Broken(w)
    /\ Full
    /\ WakeGoto(Reader, w, "write_sleep")
    /\ UNCHANGED <<pipeVars, lock, fd, killed, n, i, out>>

WriteByte(w, b) ==
    /\ pc[w] = "write" /\ i[w] < n[w] /\ ~Broken(w)
    /\ ~Full
    /\ data' = [data EXCEPT ![nwrite % PIPESIZE] = b]
    /\ nwrite' = Incr(nwrite)
    /\ i' = [i EXCEPT ![w] = @ + 1]
    /\ UNCHANGED <<nread, readopen, writeopen, lock, fd, killed, pc, n, out>>
-----------------------------------------------------------------------------
(* piperead()                                                              *)

\* mutant: end of file is not noticed
MustWaitNoEof == Empty

MustWait == Empty /\ writeopen

ReadKilled(r) ==
    /\ pc[r] = "read" /\ MustWait /\ killed[r]
    /\ Goto(r, "user")
    /\ Return(r)
    /\ UNCHANGED <<pipeVars, fd, killed, out>>

ReadEmpty(r) ==
    /\ pc[r] = "read" /\ MustWait /\ ~killed[r]
    /\ Goto(r, "read_sleep")
    /\ UNCHANGED <<pipeVars, lock, fd, killed, n, i, out>>

ReadReady(r) ==
    /\ pc[r] = "read" /\ ~MustWait
    /\ Goto(r, "copy")
    /\ UNCHANGED <<pipeVars, lock, fd, killed, n, i, out>>

ReadByte(r) ==
    /\ pc[r] = "copy" /\ i[r] < n[r] /\ ~Empty
    /\ out' = data[nread % PIPESIZE]
    /\ nread' = Incr(nread)
    /\ i' = [i EXCEPT ![r] = @ + 1]
    /\ UNCHANGED <<nwrite, data, readopen, writeopen, lock, fd, killed, pc, n>>

\* Enough bytes or none left; or copyout() fails, the byte already taken.
ReadEnd(r) ==
    /\ pc[r] = "copy"
    /\ \/ (i[r] = n[r] \/ Empty) /\ UNCHANGED <<nread, out>>
       \/ i[r] < n[r] /\ ~Empty /\ nread' = Incr(nread) /\ out' = NoByte
    /\ WakeGoto(Writer, r, "user")
    /\ Return(r)
    /\ UNCHANGED <<nwrite, data, readopen, writeopen, fd, killed>>
-----------------------------------------------------------------------------
(* close(), exit() and kill()                                              *)

Side(u) == IF u \in Writer THEN Writer ELSE Reader

\* mutant: every close is taken for the last
LastCloseAny(u) == u \in fd

\* --f->ref reaches 0
LastClose(u) == fd \cap Side(u) = {u}

\* fileclose(): the last close of an end calls pipeclose(), which wakes the
\* other side.  A killed process comes here through exit().
Close(u) ==
    /\ pc[u] = "user" /\ u \in fd
    /\ fd' = fd \ {u}
    /\ \/ /\ ~LastClose(u)
          /\ UNCHANGED <<readopen, writeopen, pc>>
       \/ /\ LastClose(u) /\ lock = Nobody
          /\ readopen' = (readopen /\ u \notin Reader)
          /\ writeopen' = (writeopen /\ u \notin Writer)
          /\ WakeGoto(User \ Side(u), u, "user")
    /\ UNCHANGED <<nread, nwrite, data, lock, killed, n, i, out>>

\* kill(): mark, and make it runnable if it is asleep.
Kill(u) ==
    /\ ~killed[u]
    /\ killed' = [killed EXCEPT ![u] = TRUE]
    /\ IF pc[u] = "asleep" THEN Goto(u, "acquire") ELSE UNCHANGED pc
    /\ UNCHANGED <<pipeVars, lock, fd, n, i, out>>
-----------------------------------------------------------------------------
Write(w) == WriteEnd(w) \/ WriteError(w) \/ WriteFull(w) \/ \E b \in Byte : WriteByte(w, b)

Read(r) == ReadKilled(r) \/ ReadEmpty(r) \/ ReadReady(r) \/ ReadByte(r) \/ ReadEnd(r)

Next ==
    \/ \E u \in User : AcquireLock(u) \/ Sleep(u) \/ Close(u)
    \/ \E r \in Reader, k \in ReadSizes : Call(r, k)
    \/ \E w \in Writer, k \in WriteSizes : Call(w, k)
    \/ \E w \in Writer : Write(w)
    \/ \E r \in Reader : Read(r)
    \/ \E u \in Killable : Kill(u)

Spec == Init /\ [][Next]_vars
-----------------------------------------------------------------------------
TypeOK ==
    /\ nread \in 0..(UMAX - 1) /\ nwrite \in 0..(UMAX - 1)
    /\ data \in [0..(PIPESIZE - 1) -> Byte \cup {NoByte}]
    /\ readopen \in BOOLEAN /\ writeopen \in BOOLEAN
    /\ lock \in User \cup {Nobody}
    /\ fd \subseteq User
    /\ killed \in [User -> BOOLEAN]
    /\ pc \in [User -> Labels]
    /\ n \in [User -> Nat] /\ i \in [User -> Nat]
    /\ \A u \in User : i[u] <= n[u] /\ (pc[u] = "user" => i[u] = 0)
    /\ out \in Byte \cup {NoByte}

Count == (nwrite - nread) % UMAX

Contents == [k \in 1..Count |-> data[(nread + k - 1) % PIPESIZE]]

Queue == INSTANCE Fifo WITH
    queue <- Contents, Capacity <- PIPESIZE, MayLose <- TRUE

\* The ring of PIPESIZE bytes with its two free-running uint counters is a
\* FIFO of at most PIPESIZE bytes: nothing is lost (but the byte of a failing
\* copyout()), duplicated, reordered or overwritten, also when the counters wrap around.
IsFifo == Queue!Spec

\* pipewrite() and pipeclose() leave no reader asleep ("piperead-sleep")
\* unless the pipe is empty and can still be written ("pipe-empty"); but a
\* writer that finds itself killed returns without waking anybody.
ReaderNotStranded ==
    lock = Nobody =>
        \A r \in Reader : pc[r] = "asleep" =>
            (Empty /\ writeopen) \/ \E w \in Writer : killed[w]

\* piperead() ("piperead-wakeup") and pipeclose() leave no writer asleep
\* unless the pipe is full ("pipewrite-full") and can still be read.
WriterNotStranded ==
    lock = Nobody =>
        \A w \in Writer : pc[w] = "asleep" => Full /\ readopen

\* Nobody sleeps on a pipe that it could use.
NobodyStranded == ReaderNotStranded /\ WriterNotStranded

\* An open end is one that somebody still holds, and a process inside a call
\* holds its end, so pipeclose() never frees a pipe that is in use; and all
\* variables have their types.
OpenWhileHeld ==
    /\ TypeOK
    /\ readopen <=> fd \cap Reader # {}
    /\ writeopen <=> fd \cap Writer # {}
    /\ \A u \in User : pc[u] # "user" => u \in fd

WritePc == {"write", "write_sleep"}
ReadPc == {"read", "read_sleep", "copy"}

\* The process between acquire() and release() is the holder of pi->lock.
LockInv ==
    /\ \A u \in User : lock = u <=> pc[u] \in WritePc \cup ReadPc
    /\ \A w \in Writer : pc[w] \notin ReadPc
    /\ \A r \in Reader : pc[r] \notin WritePc

\* Who goes to sleep has seen, under the lock, that it must; and a process
\* asleep may go on waiting unless the holder of the lock is yet to wake it.
WaitInv ==
    /\ \A w \in Writer :
        /\ pc[w] = "write_sleep" => Full /\ readopen
        /\ pc[w] = "asleep" => (Full /\ readopen) \/ \E r \in Reader : pc[r] = "copy"
    /\ \A r \in Reader :
        /\ pc[r] = "read_sleep" => Empty /\ writeopen
        /\ pc[r] = "asleep" => \/ Empty /\ writeopen
                               \/ \E w \in Writer : pc[w] = "write" \/ killed[w]

\* A pipe is open exactly as long as somebody holds an end, its lock is held
\* by the one process inside a call, the ring holds at most PIPESIZE bytes,
\* and who sleeps has reason to: the inductive invariant behind
\* NobodyStranded and IsFifo.
PipeInv == OpenWhileHeld /\ LockInv /\ WaitInv /\ Count <= PIPESIZE
-----------------------------------------------------------------------------
\* A process that runs in the kernel is scheduled, and gets a spinlock that
\* is released again and again.
Fairness ==
    /\ \A u \in User : SF_vars(AcquireLock(u)) /\ WF_vars(Sleep(u))
    /\ \A w \in Writer : WF_vars(Write(w))
    /\ \A r \in Reader : WF_vars(Read(r))

FairSpec == Spec /\ Fairness

\* Once the last writer has closed, a read() returns (end of file); once the
\* last reader has closed, a write() does.
SeesClose ==
    /\ \A r \in Reader : (pc[r] # "user" /\ ~writeopen) ~> (pc[r] = "user")
    /\ \A w \in Writer : (pc[w] # "user" /\ ~readopen) ~> (pc[w] = "user")
=============================================================================
