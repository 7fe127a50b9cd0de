-------------------------------- MODULE Proc --------------------------------
(***************************************************************************)
(* The process table of kernel/proc.c on a multiprocessor, at the          *)
(* granularity of its spinlocks: fork, exit, wait, reparent, kill, sleep,  *)
(* wakeup, yield and the per-CPU scheduler.                                *)
(*                                                                         *)
(* Slot p stands for &proc[p-1]; 0 is the null pointer.  A process that is *)
(* not on a CPU is frozen inside swtch(); ctx[p] says which caller of      *)
(* sched() (or forkret) it resumes in, pc[p] where that caller returns to. *)
(* A lock's value is the CPU that holds it, as lk->cpu, so a lock stays    *)
(* held across swtch() and is released by whoever runs next on that CPU.   *)
(* A step is a stretch of code between two points where another CPU could  *)
(* observe or change what it uses: reads and writes made while holding the *)
(* lock that protects them are merged with the acquire that precedes them. *)
(***************************************************************************)
EXTENDS Integers, FiniteSets

CONSTANTS
    NPROC,      \* number of slots in proc[]
    Cpu,        \* the harts running scheduler()
    NoCpu,      \* the holder of a free lock
    MaxPid,     \* bound: no fork once nextpid exceeds it
    KillPids    \* the arguments user programs pass to kill()

ASSUME ProcAssumption ==
    /\ NPROC \in Nat \ {0}
    /\ Cpu # {} /\ NoCpu \notin Cpu
    /\ MaxPid \in Nat \ {0}
    /\ KillPids \subseteq Int

Slot == 1..NPROC
Cursor == 1..(NPROC + 1)
initproc == 1
NoSlot == 0

VARIABLES
    state, chan, killed, xstate, pid, parent,  \* struct proc
    ctx,                                       \* p->context
    nextpid,
    plock, wait_lock,                          \* p->lock and wait_lock
    cproc, where, scan,                        \* struct cpu and scheduler()'s p
    pc, idx, widx, arg, kids                   \* locals of the kernel thread

procVars == <<state, chan, killed, xstate, pid, parent, ctx, nextpid>>
cpuVars == <<cproc, where, scan>>
localVars == <<pc, idx, widx, arg, kids>>
vars == <<procVars, plock, wait_lock, cpuVars, localVars>>

States == {"UNUSED", "USED", "SLEEPING", "RUNNABLE", "RUNNING", "ZOMBIE"}
Contexts == {"none", "forkret", "yield", "sleep", "exit"}
Labels == {"user", "allocproc", "fork_copy", "fork_parent", "fork_run",
           "wait_acquire", "wait_scan", "sleep_acquire", "sleep_sched",
           "kill", "exit_acquire", "reparent", "wakeup_init",
           "wakeup_parent", "exit_zombie"}

Init ==
    /\ state = [p \in Slot |-> IF p = initproc THEN "RUNNABLE" ELSE "UNUSED"]
    /\ chan = [p \in Slot |-> NoSlot]
    /\ killed = [p \in Slot |-> FALSE]
    /\ xstate = [p \in Slot |-> 0]
    /\ pid = [p \in Slot |-> IF p = initproc THEN 1 ELSE 0]
    /\ parent = [p \in Slot |-> NoSlot]
    /\ ctx = [p \in Slot |-> IF p = initproc THEN "forkret" ELSE "none"]
    /\ nextpid = 2
    /\ plock = [p \in Slot |-> NoCpu]
    /\ wait_lock = NoCpu
    /\ cproc = [c \in Cpu |-> NoSlot]
    /\ where = [c \in Cpu |-> "scheduler"]
    /\ scan = [c \in Cpu |-> 1]
    /\ pc = [p \in Slot |-> "user"]
    /\ idx = [p \in Slot |-> 1]
    /\ widx = [p \in Slot |-> 1]
    /\ arg = [p \in Slot |-> 0]
    /\ kids = [p \in Slot |-> FALSE]
-----------------------------------------------------------------------------
(* Where a CPU is, and which locks it holds.                               *)

\* CPU c executes the kernel or user code of process p.
Runs(c, p) == cproc[c] = p /\ where[c] = "process" /\ ctx[p] = "none"

\* holding(): the process locks CPU c has acquired and not released.
Held(c) == {q \in Slot : plock[q] = c}

\* push_off/pop_off depth is zero, so a timer interrupt can be taken.
InterruptsOn(c) == Held(c) = {} /\ wait_lock # c

\* mutant: the last slot is never looked at
NextSlotSkipLast(p) == IF p >= NPROC - 1 THEN 1 ELSE p + 1

\* The loops over proc[] start again after &proc[NPROC-1].
NextSlot(p) == IF p = NPROC THEN 1 ELSE p + 1

\* mutant: the lock is tested but not taken
AcquireNoSet(c, q) == plock[q] = NoCpu /\ UNCHANGED plock

\* acquire(&q->lock) by CPU c, for a lock that stays held after this step.
Acquire(c, q) == plock[q] = NoCpu /\ plock' = [plock EXCEPT ![q] = c]

\* The thread of p goes on at label l with its loop variables reset.
Goto(p, l) ==
    /\ pc' = [pc EXCEPT ![p] = l]
    /\ idx' = [idx EXCEPT ![p] = 1]
    /\ widx' = [widx EXCEPT ![p] = 1]
    /\ kids' = [kids EXCEPT ![p] = FALSE]

\* Return from the system call; the loop variables are dead.
Return(p) == Goto(p, "user") /\ arg' = [arg EXCEPT ![p] = 0]

Advance(p) ==
    /\ idx' = [idx EXCEPT ![p] = @ + 1]
    /\ UNCHANGED <<pc, widx, arg>>
-----------------------------------------------------------------------------
(* scheduler(), sched() and what runs on either side of swtch().           *)

\* scheduler(): acquire the next slot's lock, find its process RUNNABLE and
\* switch to it with the lock held.
SchedulerSwitch(c) ==
    LET p == scan[c] IN
    /\ where[c] = "scheduler" /\ state[p] = "RUNNABLE"
    /\ Acquire(c, p)
    /\ state' = [state EXCEPT ![p] = "RUNNING"]
    /\ cproc' = [cproc EXCEPT ![c] = p]
    /\ where' = [where EXCEPT ![c] = "process"]
    /\ UNCHANGED <<scan, chan, killed, xstate, pid, parent, ctx, nextpid,
                   wait_lock, localVars>>

\* Not RUNNABLE: release the lock and go on.
SchedulerSkip(c) ==
    /\ where[c] = "scheduler" /\ state[scan[c]] # "RUNNABLE"
    /\ plock[scan[c]] = NoCpu
    /\ scan' = [scan EXCEPT ![c] = NextSlot(scan[c])]
    /\ UNCHANGED <<procVars, plock, wait_lock, cproc, where, localVars>>

\* scheduler(), back from swtch(): forget the process, release its lock.
SchedulerBack(c) ==
    /\ where[c] = "back"
    /\ cproc' = [cproc EXCEPT ![c] = NoSlot]
    /\ where' = [where EXCEPT ![c] = "scheduler"]
    /\ scan' = [scan EXCEPT ![c] = NextSlot(scan[c])]
    /\ plock' = [plock EXCEPT ![scan[c]] = NoCpu]
    /\ UNCHANGED <<procVars, wait_lock, localVars>>

\* The process side of a switch in: the tail of sleep() clears p->chan; it,
\* yield() and forkret() release p->lock.
Resume(c) ==
    LET p == cproc[c] IN
    /\ where[c] = "process"
    /\ ctx[p] \in {"forkret", "yield", "sleep"}
    /\ chan' = IF ctx[p] = "sleep" THEN [chan EXCEPT ![p] = NoSlot] ELSE chan
    /\ ctx' = [ctx EXCEPT ![p] = "none"]
    /\ plock' = [plock EXCEPT ![p] = NoCpu]
    /\ UNCHANGED <<state, killed, xstate, pid, parent, nextpid, wait_lock,
                   cpuVars, localVars>>

\* sched(): leave for the scheduler with p->lock held, to resume in k.
Sched(c, p, k) ==
    /\ ctx' = [ctx EXCEPT ![p] = k]
    /\ where' = [where EXCEPT ![c] = "back"]
    /\ UNCHANGED <<cproc, scan>>

\* yield(), from a timer interrupt in kernel mode, or in user mode after
\* usertrap() has found p not killed.
Yield(c, p) ==
    /\ Runs(c, p)
    /\ InterruptsOn(c)
    /\ pc[p] = "user" => ~killed[p]
    /\ Acquire(c, p)
    /\ state' = [state EXCEPT ![p] = "RUNNABLE"]
    /\ Sched(c, p, "yield")
    /\ UNCHANGED <<chan, killed, xstate, pid, parent, nextpid, wait_lock,
                   localVars>>
-----------------------------------------------------------------------------
(* fork().                                                                 *)

\* The fields freeproc() clears; the caller holds np's lock.
FreeProc(np) ==
    /\ pid' = [pid EXCEPT ![np] = 0]
    /\ parent' = [parent EXCEPT ![np] = NoSlot]
    /\ chan' = [chan EXCEPT ![np] = NoSlot]
    /\ killed' = [killed EXCEPT ![np] = FALSE]
    /\ xstate' = [xstate EXCEPT ![np] = 0]
    /\ state' = [state EXCEPT ![np] = "UNUSED"]

ForkCall(c, p) ==
    /\ Runs(c, p) /\ pc[p] = "user" /\ ~killed[p]
    /\ nextpid <= MaxPid
    /\ Goto(p, "allocproc")
    /\ UNCHANGED <<procVars, plock, wait_lock, cpuVars, arg>>

\* allocproc(): a slot found UNUSED under its lock is claimed.
AllocProc(c, p) ==
    LET np == idx[p] IN
    /\ Runs(c, p) /\ pc[p] = "allocproc" /\ np \in Slot
    /\ state[np] = "UNUSED" /\ Acquire(c, np)
    /\ pid' = [pid EXCEPT ![np] = nextpid]
    /\ nextpid' = nextpid + 1
    /\ state' = [state EXCEPT ![np] = "USED"]
    /\ ctx' = [ctx EXCEPT ![np] = "forkret"]
    /\ Goto(p, "fork_copy")
    /\ arg' = [arg EXCEPT ![p] = np]
    /\ UNCHANGED <<chan, killed, xstate, parent, wait_lock, cpuVars>>

AllocProcSkip(c, p) ==
    /\ Runs(c, p) /\ pc[p] = "allocproc" /\ idx[p] \in Slot
    /\ state[idx[p]] # "UNUSED" /\ plock[idx[p]] = NoCpu
    /\ Advance(p)
    /\ UNCHANGED <<procVars, plock, wait_lock, cpuVars, kids>>

\* allocproc() found no slot: fork() returns -1.
AllocProcFull(c, p) ==
    /\ Runs(c, p) /\ pc[p] = "allocproc" /\ idx[p] \notin Slot
    /\ Return(p)
    /\ UNCHANGED <<procVars, plock, wait_lock, cpuVars>>

\* kalloc() failed in allocproc() or uvmcopy(): undo, fork() returns -1.
ForkNoMemory(c, p) ==
    /\ Runs(c, p) /\ pc[p] = "fork_copy"
    /\ FreeProc(arg[p])
    /\ plock' = [plock EXCEPT ![arg[p]] = NoCpu]
    /\ Return(p)
    /\ UNCHANGED <<ctx, nextpid, wait_lock, cpuVars>>

\* mutants: np->parent is never set; np->lock is kept while taking wait_lock
ForkCopyNoParent(c, p) ==
    /\ Runs(c, p) /\ pc[p] = "fork_copy"
    /\ plock' = [plock EXCEPT ![arg[p]] = NoCpu]
    /\ Goto(p, "fork_run")
    /\ UNCHANGED <<procVars, wait_lock, cpuVars, arg>>
ForkCopyKeepLock(c, p) ==
    /\ Runs(c, p) /\ pc[p] = "fork_copy"
    /\ Goto(p, "fork_parent")
    /\ UNCHANGED <<procVars, plock, wait_lock, cpuVars, arg>>

\* The child is a copy of the parent; drop its lock for wait_lock's sake.
ForkCopy(c, p) ==
    /\ Runs(c, p) /\ pc[p] = "fork_copy"
    /\ plock' = [plock EXCEPT ![arg[p]] = NoCpu]
    /\ Goto(p, "fork_parent")
    /\ UNCHANGED <<procVars, wait_lock, cpuVars, arg>>

ForkParent(c, p) ==
    /\ Runs(c, p) /\ pc[p] = "fork_parent"
    /\ wait_lock = NoCpu
    /\ parent' = [parent EXCEPT ![arg[p]] = p]
    /\ Goto(p, "fork_run")
    /\ UNCHANGED <<state, chan, killed, xstate, pid, ctx, nextpid, plock,
                   wait_lock, cpuVars, arg>>

ForkRun(c, p) ==
    /\ Runs(c, p) /\ pc[p] = "fork_run"
    /\ plock[arg[p]] = NoCpu
    /\ state' = [state EXCEPT ![arg[p]] = "RUNNABLE"]
    /\ Return(p)
    /\ UNCHANGED <<chan, killed, xstate, pid, parent, ctx, nextpid, plock,
                   wait_lock, cpuVars>>
-----------------------------------------------------------------------------
(* wait() and sleep(p, &wait_lock).                                        *)

WaitCall(c, p) ==
    /\ Runs(c, p) /\ pc[p] = "user" /\ ~killed[p]
    /\ Goto(p, "wait_acquire")
    /\ UNCHANGED <<procVars, plock, wait_lock, cpuVars, arg>>

\* acquire(&wait_lock), on entry and again at the end of sleep().
WaitAcquire(c, p) ==
    /\ Runs(c, p) /\ pc[p] = "wait_acquire"
    /\ wait_lock = NoCpu
    /\ wait_lock' = c
    /\ Goto(p, "wait_scan")
    /\ UNCHANGED <<procVars, plock, cpuVars, arg>>

\* One slot of the scan that is not a child, or a child that still lives.
WaitSkip(c, p) ==
    LET np == idx[p] IN
    /\ Runs(c, p) /\ pc[p] = "wait_scan" /\ np \in Slot
    /\ \/ parent[np] # p /\ UNCHANGED kids
       \/ /\ parent[np] = p /\ plock[np] = NoCpu /\ state[np] # "ZOMBIE"
          /\ kids' = [kids EXCEPT ![p] = TRUE]
    /\ Advance(p)
    /\ UNCHANGED <<procVars, plock, wait_lock, cpuVars>>

\* mutant: the child's lock is not acquired
ZombieChildUnlocked(p, np) == parent[np] = p /\ state[np] = "ZOMBIE"

ZombieChild(p, np) == parent[np] = p /\ plock[np] = NoCpu /\ state[np] = "ZOMBIE"

\* A zombie child: free it.
WaitReap(c, p) ==
    /\ Runs(c, p) /\ pc[p] = "wait_scan" /\ idx[p] \in Slot
    /\ ZombieChild(p, idx[p])
    /\ FreeProc(idx[p])
    /\ wait_lock' = NoCpu
    /\ Return(p)
    /\ UNCHANGED <<ctx, nextpid, plock, cpuVars>>

\* Its status cannot be copied out (init.c passes a null address).
WaitCopyFail(c, p) ==
    /\ Runs(c, p) /\ pc[p] = "wait_scan" /\ idx[p] \in Slot
    /\ ZombieChild(p, idx[p]) /\ p # initproc
    /\ wait_lock' = NoCpu
    /\ Return(p)
    /\ UNCHANGED <<procVars, plock, cpuVars>>

\* mutant: having no children does not end the wait
NoPointWaitingKidless(p) == killed[p]

NoPointWaiting(p) == ~kids[p] \/ killed[p]

WaitFail(c, p) ==
    /\ Runs(c, p) /\ pc[p] = "wait_scan" /\ idx[p] \notin Slot
    /\ NoPointWaiting(p)
    /\ wait_lock' = NoCpu
    /\ Return(p)
    /\ UNCHANGED <<procVars, plock, cpuVars>>

\* mutant: wait_lock is released before sleep() takes p->lock
WaitSleepUnlocked(c, p) ==
    /\ Runs(c, p) /\ pc[p] = "wait_scan" /\ idx[p] \notin Slot
    /\ ~NoPointWaiting(p)
    /\ Goto(p, "sleep_acquire")
    /\ wait_lock' = NoCpu
    /\ UNCHANGED <<procVars, plock, cpuVars, arg>>

\* The test of p->killed is over when sleep() is entered.
WaitSleep(c, p) ==
    /\ Runs(c, p) /\ pc[p] = "wait_scan" /\ idx[p] \notin Slot
    /\ ~NoPointWaiting(p)
    /\ Goto(p, "sleep_acquire")
    /\ UNCHANGED <<procVars, plock, wait_lock, cpuVars, arg>>

\* sleep(): acquire(&p->lock) and only then release(lk).
SleepAcquire(c, p) ==
    /\ Runs(c, p) /\ pc[p] = "sleep_acquire"
    /\ Acquire(c, p)
    /\ wait_lock' = NoCpu
    /\ Goto(p, "sleep_sched")
    /\ UNCHANGED <<procVars, cpuVars, arg>>

\* sleep(): go to sleep; when resumed it reacquires lk.
SleepSched(c, p) ==
    /\ Runs(c, p) /\ pc[p] = "sleep_sched"
    /\ chan' = [chan EXCEPT ![p] = p]
    /\ state' = [state EXCEPT ![p] = "SLEEPING"]
    /\ Sched(c, p, "sleep")
    /\ Goto(p, "wait_acquire")
    /\ UNCHANGED <<killed, xstate, pid, parent, nextpid, plock, wait_lock,
                   arg>>
-----------------------------------------------------------------------------
(* kill().                                                                 *)

KillCall(c, p) ==
    /\ Runs(c, p) /\ pc[p] = "user" /\ ~killed[p] /\ p # initproc
    /\ \E v \in KillPids : arg' = [arg EXCEPT ![p] = v]
    /\ Goto(p, "kill")
    /\ UNCHANGED <<procVars, plock, wait_lock, cpuVars>>

\* Found, under its lock: mark the victim and wake it if it sleeps.
KillVictim(c, p) ==
    LET q == idx[p] IN
    /\ Runs(c, p) /\ pc[p] = "kill" /\ q \in Slot
    /\ plock[q] = NoCpu /\ pid[q] = arg[p]
    /\ killed' = [killed EXCEPT ![q] = TRUE]
    /\ state' = [state EXCEPT ![q] = IF @ = "SLEEPING" THEN "RUNNABLE" ELSE @]
    /\ Return(p)
    /\ UNCHANGED <<chan, xstate, pid, parent, ctx, nextpid, plock, wait_lock,
                   cpuVars>>

KillSkip(c, p) ==
    /\ Runs(c, p) /\ pc[p] = "kill" /\ idx[p] \in Slot
    /\ plock[idx[p]] = NoCpu /\ pid[idx[p]] # arg[p]
    /\ Advance(p)
    /\ UNCHANGED <<procVars, plock, wait_lock, cpuVars, kids>>

KillNone(c, p) ==
    /\ Runs(c, p) /\ pc[p] = "kill" /\ idx[p] \notin Slot
    /\ Return(p)
    /\ UNCHANGED <<procVars, plock, wait_lock, cpuVars>>
-----------------------------------------------------------------------------
(* exit(), reparent() and wakeup().                                        *)

\* exit(0) by the program, or exit(-1) by usertrap() once p is killed; the
\* status is kept in arg until it is stored.  init.c never exits.
ExitCall(c, p) ==
    /\ Runs(c, p) /\ pc[p] = "user" /\ p # initproc
    /\ arg' = [arg EXCEPT ![p] = IF killed[p] THEN -1 ELSE 0]
    /\ Goto(p, "exit_acquire")
    /\ UNCHANGED <<procVars, plock, wait_lock, cpuVars>>

ExitAcquire(c, p) ==
    /\ Runs(c, p) /\ pc[p] = "exit_acquire"
    /\ wait_lock = NoCpu
    /\ wait_lock' = c
    /\ Goto(p, "reparent")
    /\ UNCHANGED <<procVars, plock, cpuVars, arg>>

\* reparent(): hand one child to init, then call wakeup(initproc).
ReparentChild(c, p) ==
    /\ Runs(c, p) /\ pc[p] = "reparent" /\ idx[p] \in Slot
    /\ parent[idx[p]] = p
    /\ parent' = [parent EXCEPT ![idx[p]] = initproc]
    /\ pc' = [pc EXCEPT ![p] = "wakeup_init"]
    /\ idx' = [idx EXCEPT ![p] = @ + 1]
    /\ UNCHANGED <<state, chan, killed, xstate, pid, ctx, nextpid, plock,
                   wait_lock, cpuVars, widx, arg, kids>>

ReparentSkip(c, p) ==
    /\ Runs(c, p) /\ pc[p] = "reparent" /\ idx[p] \in Slot
    /\ parent[idx[p]] # p
    /\ Advance(p)
    /\ UNCHANGED <<procVars, plock, wait_lock, cpuVars, kids>>

\* Past the last slot, exit() calls wakeup(p->parent).
ReparentDone(c, p) ==
    /\ Runs(c, p) /\ pc[p] = "reparent" /\ idx[p] \notin Slot
    /\ Goto(p, "wakeup_parent")
    /\ UNCHANGED <<procVars, plock, wait_lock, cpuVars, arg>>

\* mutant: wakeup() looks for the wrong state
SleepsOnWrongState(q, ch) == state[q] = "RUNNABLE" /\ chan[q] = ch

SleepsOn(q, ch) == state[q] = "SLEEPING" /\ chan[q] = ch

\* wakeup(), called from reparent() and from exit(): one slot, under its
\* lock unless it is the caller's own.
WakeupSlot(c, p) ==
    LET q == widx[p]
        ch == IF pc[p] = "wakeup_init" THEN initproc ELSE parent[p] IN
    /\ Runs(c, p) /\ pc[p] \in {"wakeup_init", "wakeup_parent"} /\ q \in Slot
    /\ q = p \/ plock[q] = NoCpu
    /\ state' = [state EXCEPT ![q] = IF q # p /\ SleepsOn(q, ch) THEN "RUNNABLE" ELSE @]
    /\ widx' = [widx EXCEPT ![p] = @ + 1]
    /\ UNCHANGED <<chan, killed, xstate, pid, parent, ctx, nextpid, plock,
                   wait_lock, cpuVars, pc, idx, arg, kids>>

\* The return of wakeup() to its caller.
WakeupDone(c, p) ==
    /\ Runs(c, p) /\ pc[p] \in {"wakeup_init", "wakeup_parent"}
    /\ widx[p] \notin Slot
    /\ pc' = [pc EXCEPT ![p] = IF @ = "wakeup_init" THEN "reparent"
                               ELSE "exit_zombie"]
    /\ widx' = [widx EXCEPT ![p] = 1]
    /\ UNCHANGED <<procVars, plock, wait_lock, cpuVars, idx, arg, kids>>

\* Become a ZOMBIE under both locks, release wait_lock, and switch away.
ExitZombie(c, p) ==
    /\ Runs(c, p) /\ pc[p] = "exit_zombie"
    /\ Acquire(c, p)
    /\ xstate' = [xstate EXCEPT ![p] = arg[p]]
    /\ state' = [state EXCEPT ![p] = "ZOMBIE"]
    /\ wait_lock' = NoCpu
    /\ Sched(c, p, "exit")
    /\ Return(p)
    /\ UNCHANGED <<chan, killed, pid, parent, nextpid>>
-----------------------------------------------------------------------------
\* The steps of a kernel path once it has begun.
Kernel(c, p) ==
    \/ AllocProc(c, p) \/ AllocProcSkip(c, p) \/ AllocProcFull(c, p)
    \/ ForkNoMemory(c, p) \/ ForkCopy(c, p) \/ ForkParent(c, p) \/ ForkRun(c, p)
    \/ WaitAcquire(c, p) \/ WaitSkip(c, p) \/ WaitReap(c, p)
    \/ WaitCopyFail(c, p) \/ WaitFail(c, p) \/ WaitSleep(c, p)
    \/ SleepAcquire(c, p) \/ SleepSched(c, p)
    \/ KillVictim(c, p) \/ KillSkip(c, p) \/ KillNone(c, p)
    \/ ExitAcquire(c, p) \/ ReparentChild(c, p) \/ ReparentSkip(c, p)
    \/ ReparentDone(c, p) \/ WakeupSlot(c, p) \/ WakeupDone(c, p)
    \/ ExitZombie(c, p)

\* What a user program may ask for, at any time or never.
UserCall(c, p) ==
    ForkCall(c, p) \/ WaitCall(c, p) \/ KillCall(c, p) \/ ExitCall(c, p)

SchedStep(c) ==
    SchedulerSwitch(c) \/ SchedulerSkip(c) \/ SchedulerBack(c) \/ Resume(c)

Next ==
    \E c \in Cpu :
        \/ SchedStep(c)
        \/ \E p \in Slot : Kernel(c, p) \/ UserCall(c, p) \/ Yield(c, p)

Spec == Init /\ [][Next]_vars
-----------------------------------------------------------------------------
TypeOK ==
    /\ state \in [Slot -> States]
    /\ chan \in [Slot -> Slot \cup {NoSlot}]
    /\ killed \in [Slot -> BOOLEAN]
    /\ xstate \in [Slot -> Int]
    /\ pid \in [Slot -> Nat]
    /\ parent \in [Slot -> Slot \cup {NoSlot}]
    /\ ctx \in [Slot -> Contexts]
    /\ nextpid \in Nat
    /\ plock \in [Slot -> Cpu \cup {NoCpu}]
    /\ wait_lock \in Cpu \cup {NoCpu}
    /\ cproc \in [Cpu -> Slot \cup {NoSlot}]
    /\ where \in [Cpu -> {"scheduler", "process", "back"}]
    /\ scan \in [Cpu -> Slot]
    /\ pc \in [Slot -> Labels]
    /\ idx \in [Slot -> Cursor]
    /\ widx \in [Slot -> Cursor]
    /\ arg \in [Slot -> Int]
    /\ kids \in [Slot -> BOOLEAN]
-----------------------------------------------------------------------------
(* Safety.                                                                 *)

\* CPU c is on the kernel stack of p, from the scheduler's swtch() until the
\* scheduler is running again.
OnStack(c, p) == where[c] # "scheduler" /\ cproc[c] = p

\* The hand-over of p->lock through swtch() (scheduler(), sched(), yield(),
\* sleep(), exit()) never lets two CPUs execute on one kernel stack, and the
\* process a CPU executes is RUNNING: nobody else believes it may be run,
\* woken or freed.
OneCpuPerProcess ==
    /\ \A c, d \in Cpu : \A p \in Slot : OnStack(c, p) /\ OnStack(d, p) => c = d
    /\ \A c \in Cpu : \A p \in Slot : Runs(c, p) => state[p] = "RUNNING"

\* The inductive strengthening of OneCpuPerProcess and FreedIsOffCpu.

\* A CPU on p's stack either executes p, which is then RUNNING, or is on its
\* way back to the scheduler, and then holds p->lock.
StackInv ==
    \A c \in Cpu : where[c] # "scheduler" =>
        /\ cproc[c] \in Slot /\ scan[c] = cproc[c]
        /\ where[c] = "process" =>
              /\ state[cproc[c]] = "RUNNING" /\ ctx[cproc[c]] # "exit"
              /\ ctx[cproc[c]] # "none" \/ pc[cproc[c]] = "sleep_sched"
                    => plock[cproc[c]] = c
        /\ where[c] = "back" =>
              /\ plock[cproc[c]] = c
              /\ state[cproc[c]] \in {"RUNNABLE", "SLEEPING", "ZOMBIE"}

StackUnique ==
    \A c, d \in Cpu :
        where[c] # "scheduler" /\ where[d] # "scheduler" /\ cproc[c] = cproc[d] => c = d

\* What the saved context of a process that is not running resumes in, and
\* that only a live process is inside a system call.
ContextInv ==
    \A p \in Slot :
        /\ state[p] \in {"RUNNABLE", "SLEEPING"} => ctx[p] \in {"forkret", "yield", "sleep"}
        /\ state[p] = "USED" => ctx[p] = "forkret"
        /\ state[p] \in {"UNUSED", "USED", "ZOMBIE"} => pc[p] = "user"
        /\ pc[p] = "sleep_sched" => ctx[p] = "none"

Forking(p) == pc[p] \in {"fork_copy", "fork_parent", "fork_run"}

\* The slot fork() is filling is USED and nobody else's.
ForkInv ==
    /\ \A p \in Slot : Forking(p) => arg[p] \in Slot /\ state[arg[p]] = "USED"
    /\ \A p, q \in Slot : Forking(p) /\ Forking(q) /\ arg[p] = arg[q] => p = q

\* The process table stays consistent: the invariant the proof of
\* OneCpuPerProcess and FreedIsOffCpu rests on.
TableInv == TypeOK /\ StackInv /\ StackUnique /\ ContextInv /\ ForkInv

\* wait() frees a child only when no CPU is on its stack any more ("make
\* sure the child isn't still in exit() or swtch()"), and the scheduler
\* never resumes a process inside exit() (panic "zombie exit").
FreedIsOffCpu ==
    \A c \in Cpu : \A p \in Slot :
        OnStack(c, p) =>
            /\ state[p] \notin {"UNUSED", "USED"}
            /\ where[c] = "process" => ctx[p] # "exit"

\* wait_lock "helps ensure that wakeups of wait()ing parents are not lost":
\* whenever nobody is inside a wait_lock section, no parent sleeps in wait()
\* while it has a zombie child to reap.
NoLostExit ==
    wait_lock = NoCpu =>
        \A p, np \in Slot :
            parent[np] = p /\ state[np] = "ZOMBIE"
                => ~(state[p] = "SLEEPING" /\ chan[p] = p)

\* exit() gives its children to init before it becomes a zombie, and fork()
\* makes a child visible only once it has a parent: every process other than
\* init always has a parent that can still call wait() for it.
EveryChildHasLiveParent ==
    \A np \in Slot \ {initproc} :
        state[np] \notin {"UNUSED", "USED"} =>
            /\ parent[np] # NoSlot
            /\ state[parent[np]] \notin {"UNUSED", "USED", "ZOMBIE"}

Live == {"SLEEPING", "RUNNABLE", "RUNNING"}

LiveChild(p) == \E np \in Slot : parent[np] = p /\ state[np] \in Live

\* wait() tests p->killed without p->lock, so a kill() on another CPU can come
\* between that test and sleep(), and the killed process sleeps all the same.
\* But nobody sleeps in wait(), killed or not, without a child that has yet to
\* exit and will then wake it.
SleeperHasLiveChild ==
    \A p \in Slot : state[p] = "SLEEPING" /\ chan[p] = p => LiveChild(p)

\* The lock that CPU c spins on next, if its next step is an acquire():
\* a slot for that slot's lock, NoSlot for wait_lock.
Wants(c) ==
    IF where[c] = "scheduler" THEN {scan[c]}
    ELSE UNION {
        CASE pc[p] \in {"fork_parent", "wait_acquire", "exit_acquire"} -> {NoSlot}
          [] pc[p] \in {"allocproc", "kill"} -> {idx[p]} \cap Slot
          [] pc[p] = "fork_run" -> {arg[p]}
          [] pc[p] = "wait_scan" ->
                {q \in {idx[p]} \cap Slot : parent[q] = p}
          [] pc[p] \in {"wakeup_init", "wakeup_parent"} -> ({widx[p]} \cap Slot) \ {p}
          [] pc[p] \in {"sleep_acquire", "exit_zombie"} -> {p}
          [] OTHER -> {}
        : p \in {q \in Slot : Runs(c, q)}}

\* "wait_lock must be acquired before any p->lock": a CPU that waits for
\* wait_lock holds no lock, and one that waits for a process lock holds at
\* most wait_lock.  So acquire() never spins on a lock its own CPU holds
\* (panic "acquire") and no cycle of CPUs can wait for each other.
LockOrder ==
    \A c \in Cpu : Wants(c) # {} =>
        /\ Held(c) = {}
        /\ NoSlot \in Wants(c) => wait_lock # c

\* sched() is entered with p->lock held and no other lock (panics "sched
\* p->lock" and "sched locks") and p no longer RUNNING ("sched running").
SchedHoldsOnlyItsLock ==
    \A c \in Cpu : where[c] = "back" =>
        /\ scan[c] = cproc[c] /\ Held(c) = {cproc[c]} /\ wait_lock # c
        /\ state[cproc[c]] # "RUNNING"

\* Locks are taken in order and held as sched() wants them.
LockDiscipline == LockOrder /\ SchedHoldsOnlyItsLock

(* What makes the properties above hold (module ProcProofs).               *)

\* The places inside a section of wait_lock, and of some lock.
WaitPc == {"wait_scan", "sleep_acquire", "reparent", "wakeup_init", "wakeup_parent", "exit_zombie"}
LockPc == WaitPc \cup {"fork_copy", "sleep_sched"}

\* q->lock is CPU c's: on either side of swtch() to or from q, in sleep()
\* before it, and in fork() while q is filled.
LockOf(c, q) ==
    \/ OnStack(c, q) /\ (where[c] = "back" \/ ctx[q] # "none" \/ pc[q] = "sleep_sched")
    \/ Runs(c, cproc[c]) /\ pc[cproc[c]] = "fork_copy" /\ arg[cproc[c]] = q

\* A process inside a locked section is on a CPU, and that CPU holds the lock
\* of the section; no CPU holds any other lock.
HolderInv ==
    /\ \A p \in Slot : pc[p] \in LockPc => \E c \in Cpu : Runs(c, p)
    /\ \A c \in Cpu : wait_lock = c <=> Runs(c, cproc[c]) /\ pc[cproc[c]] \in WaitPc
    /\ \A c \in Cpu : \A q \in Slot : plock[q] = c <=> LockOf(c, q)

\* What p's place in fork() and exit() says of its children.
ChildrenOf(p) ==
    /\ pc[p] = "fork_run" => parent[arg[p]] = p
    /\ pc[p] \in {"exit_acquire"} \cup (WaitPc \ {"wait_scan", "sleep_acquire"}) => p # initproc
    /\ pc[p] \in {"reparent", "wakeup_init"} => \A np \in Slot : np < idx[p] => parent[np] # p
    /\ pc[p] \in {"wakeup_parent", "exit_zombie"} => \A np \in Slot : parent[np] # p

\* Parents are alive, init is, and every child but init has one.
FamilyInv ==
    /\ state[initproc] \in Live
    /\ \A np \in Slot : parent[np] # NoSlot => state[parent[np]] \in Live
    /\ \A np \in Slot \ {initproc} : state[np] \notin {"UNUSED", "USED"} => parent[np] # NoSlot
    /\ \A p \in Slot : ChildrenOf(p)

\* p sleeps in wait(), or is bound to.
Dozing(p) == pc[p] = "sleep_sched" \/ (state[p] = "SLEEPING" /\ chan[p] = p)

Reapable(p, np) == parent[np] = p /\ state[np] = "ZOMBIE"

\* What p has seen in wait() and done in exit().
SeenBy(p) ==
    /\ pc[p] = "wait_scan" => \A np \in Slot : np < idx[p] => ~Reapable(p, np)
    /\ pc[p] = "sleep_acquire" => \A np \in Slot : ~Reapable(p, np)
    /\ pc[p] = "reparent" => widx[p] = 1
    /\ \A q \in Slot :
          parent[p] = q /\ (pc[p] = "exit_zombie" \/ (pc[p] = "wakeup_parent" /\ q < widx[p]))
             => ~Dozing(q)

\* Only init can be asleep while it has a zombie child, and only while the
\* process that gave it the child is about to wake it.
WaitInv ==
    /\ \A p, np \in Slot : Reapable(p, np) /\ Dozing(p) =>
          p = initproc /\ \E q \in Slot : pc[q] = "wakeup_init" /\ widx[q] <= initproc
    /\ \A p \in Slot : SeenBy(p)

\* Locks are held by whom the code says, parents outlive their children, and
\* who sleeps in wait() has nothing to reap: TableInv and these together are
\* the inductive invariant of proc.c.
ProcInv == TableInv /\ HolderInv /\ FamilyInv /\ WaitInv

\* p has seen a child in wait() that had not exited, and has neither returned
\* nor been woken since.
Expecting(p) ==
    \/ pc[p] = "wait_scan" /\ kids[p]
    \/ pc[p] = "sleep_acquire"
    \/ Dozing(p)

\* A slot with a parent holds a process, or is being filled by that parent's
\* fork(); and whoever expects a child to exit has one: with ProcInv, the
\* inductive invariant behind SleeperHasLiveChild.
KidsInv ==
    /\ \A np \in Slot : state[np] = "UNUSED" => parent[np] = NoSlot
    /\ \A np, p \in Slot :
          state[np] = "USED" /\ parent[np] = p => pc[p] = "fork_run" /\ arg[p] = np
    /\ \A p \in Slot : Expecting(p) => LiveChild(p)
-----------------------------------------------------------------------------
(* Liveness.                                                               *)

\* A timer interrupt in user mode: exit if killed, else yield().
UserTick(c, p) ==
    pc[p] = "user" /\ (IF killed[p] THEN ExitCall(c, p) ELSE Yield(c, p))

\* Each hart keeps executing, and a hart spinning on a lock that is released
\* again and again gets it in the end; a time slice is long enough for the
\* process it is given to to take a step; timer interrupts keep coming; and
\* init.c calls wait() in a loop.
Fairness ==
    /\ \A c \in Cpu : SF_vars(SchedStep(c)) /\ SF_vars(\E p \in Slot : UserTick(c, p))
    /\ \A p \in Slot : SF_vars(\E c \in Cpu : Kernel(c, p))
    /\ SF_vars(\E c \in Cpu : WaitCall(c, initproc))

FairSpec == Spec /\ Fairness

\* Round-robin over proc[]: a RUNNABLE process gets a CPU.
RunnableRuns ==
    \A p \in Slot : state[p] = "RUNNABLE" ~> state[p] # "RUNNABLE"

\* exit()'s two wakeups and init's wait() loop: an orphan that has exited
\* does not stay a zombie.
OrphansReaped ==
    \A p \in Slot :
        (state[p] = "ZOMBIE" /\ parent[p] = initproc) ~> (state[p] = "UNUSED")
=============================================================================
