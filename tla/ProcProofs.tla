----------------------------- MODULE ProcProofs -----------------------------
(***************************************************************************)
(* Proofs about module Proc, for any number of CPUs, slots and processes.  *)
(* First the process table: TableInv is inductive, so no kernel stack is   *)
(* ever used by two CPUs or freed while a CPU is on it.  There is one      *)
(* lemma per action; for those that only move the running process's own    *)
(* program counter, the work is done once, in LocalTable.  Then the locks  *)
(* and the family tree: with TableInv, ProcInv is inductive, and with it   *)
(* the lock order, the live parents and the exits that wait() never        *)
(* misses.  Last, with both, KidsInv: whoever sleeps in wait() has a child *)
(* that will wake it.                                                      *)
(***************************************************************************)
EXTENDS Proc, TLAPS

\* Most leaves are first-order and go to Zenon; the others name the SMT solver.
USE ZenonT(30)

\* proc[] is a range of integers with init in its first slot, and the
\* scheduler's cursor stays inside it.
LEMMA SlotFacts ==
    /\ initproc \in Slot /\ 1 \in Slot /\ NoSlot \notin Slot /\ 1 \in Cursor
    /\ \A p \in Slot : p + 1 \in Cursor /\ NextSlot(p) \in Slot
    /\ Slot \subseteq Int
  BY ProcAssumption, SMTT(30) DEF Slot, Cursor, initproc, NoSlot, NextSlot

\* userinit() leaves a consistent process table.
LEMMA InitTable == Init => TableInv
  BY SlotFacts, ProcAssumption, SMTT(30) DEF Init, TableInv, TypeOK, StackInv, StackUnique, ContextInv, ForkInv, Forking,
     States, Contexts, Labels

\* A step of the running process p that changes no state, context, lock or CPU,
\* and starts neither a fork() nor a sleep(), keeps the table consistent.
LEMMA LocalTable ==
  ASSUME NEW c \in Cpu, NEW p \in Slot, TableInv, Runs(c, p), TypeOK',
         UNCHANGED <<state, ctx, plock, cpuVars>>,
         \A q \in Slot \ {p} : pc'[q] = pc[q] /\ arg'[q] = arg[q],
         pc'[p] # "sleep_sched",
         Forking(p)' => Forking(p) /\ arg'[p] = arg[p]
  PROVE  TableInv'
  <1>1. state[p] = "RUNNING"
    BY DEF TableInv, StackInv, Runs
  <1>2. StackInv'
    <2> SUFFICES ASSUME NEW d \in Cpu PROVE StackInv!(d)'
      BY DEF StackInv
    <2>1. where[d] = "process" /\ pc'[cproc[d]] = "sleep_sched" => pc[cproc[d]] = "sleep_sched"
      BY DEF TableInv, StackInv
    <2> QED BY <2>1 DEF TableInv, StackInv, cpuVars
  <1>3. StackUnique'
    BY DEF TableInv, StackUnique, cpuVars
  <1>4. ContextInv'
    BY <1>1 DEF TableInv, ContextInv
  <1>5. ForkInv'
    <2>1. \A q \in Slot : Forking(q)' => Forking(q) /\ arg'[q] = arg[q]
      BY DEF Forking
    <2> QED BY <2>1 DEF TableInv, ForkInv
  <1> QED BY <1>2, <1>3, <1>4, <1>5 DEF TableInv
-----------------------------------------------------------------------------
\* scheduler() finds a RUNNABLE process: nobody can be on its stack, since it is
\* not RUNNING and its lock was free.
LEMMA SchedulerSwitchTable ==
  ASSUME NEW c \in Cpu, TableInv, SchedulerSwitch(c)
  PROVE  TableInv'
  <1> USE SlotFacts, ProcAssumption DEF SchedulerSwitch, Acquire, localVars
  <1>1. TypeOK'
    BY DEF TableInv, TypeOK, States
  <1>2. StackInv'
    <2> SUFFICES ASSUME NEW d \in Cpu PROVE StackInv!(d)'
      BY DEF StackInv
    <2>1. scan[c] \in Slot /\ ctx[scan[c]] # "exit" /\ ctx[scan[c]] # "none"
      BY DEF TableInv, TypeOK, ContextInv
    <2>2. CASE d = c
      BY <2>1, <2>2 DEF TableInv, TypeOK
    <2>3. CASE d # c
      <3>1. where[d] # "scheduler" => cproc[d] # scan[c]
        BY <2>3, SMTT(30) DEF TableInv, TypeOK, StackInv
      <3> QED BY <2>1, <2>3, <3>1, SMTT(30) DEF TableInv, StackInv
    <2> QED BY <2>2, <2>3
  <1>3. StackUnique'
    BY SMTT(30) DEF TableInv, TypeOK, StackInv, StackUnique
  <1>4. ContextInv'
    <2> SUFFICES ASSUME NEW q \in Slot PROVE ContextInv!(q)'
      BY DEF ContextInv
    <2> QED BY SMTT(30) DEF TableInv, ContextInv
  <1>5. ForkInv'
    BY SMTT(30) DEF TableInv, ForkInv, Forking
  <1> QED BY <1>1, <1>2, <1>3, <1>4, <1>5 DEF TableInv

\* scheduler() passes over a process that is not RUNNABLE.
LEMMA SchedulerSkipTable ==
  ASSUME NEW c \in Cpu, TableInv, SchedulerSkip(c)
  PROVE  TableInv'
  <1> USE SlotFacts, ProcAssumption DEF SchedulerSkip, procVars, localVars
  <1>1. TypeOK'
    BY DEF TableInv, TypeOK
  <1>2. StackInv'
    <2> SUFFICES ASSUME NEW d \in Cpu PROVE StackInv!(d)'
      BY DEF StackInv
    <2> QED BY SMTT(30) DEF TableInv, StackInv
  <1>3. StackUnique'
    BY DEF TableInv, StackUnique
  <1>4. ContextInv'
    <2> SUFFICES ASSUME NEW q \in Slot PROVE ContextInv!(q)'
      BY DEF ContextInv
    <2> QED BY DEF TableInv, ContextInv
  <1>5. ForkInv'
    BY DEF TableInv, ForkInv, Forking
  <1> QED BY <1>1, <1>2, <1>3, <1>4, <1>5 DEF TableInv

\* swtch() is back in scheduler(), which lets go of the stack and then of p->lock.
LEMMA SchedulerBackTable ==
  ASSUME NEW c \in Cpu, TableInv, SchedulerBack(c)
  PROVE  TableInv'
  <1> USE SlotFacts, ProcAssumption DEF SchedulerBack, procVars, localVars
  <1>1. TypeOK'
    BY DEF TableInv, TypeOK
  <1>2. StackInv'
    <2> SUFFICES ASSUME NEW d \in Cpu PROVE StackInv!(d)'
      BY DEF StackInv
    <2> QED BY SMTT(30) DEF TableInv, TypeOK, StackInv
  <1>3. StackUnique'
    BY SMTT(30) DEF TableInv, StackInv, StackUnique
  <1>4. ContextInv'
    <2> SUFFICES ASSUME NEW q \in Slot PROVE ContextInv!(q)'
      BY DEF ContextInv
    <2> QED BY DEF TableInv, ContextInv
  <1>5. ForkInv'
    BY DEF TableInv, ForkInv, Forking
  <1> QED BY <1>1, <1>2, <1>3, <1>4, <1>5 DEF TableInv

\* A process comes out of swtch() in forkret(), yield() or sleep() and releases
\* its own lock.
LEMMA ResumeTable ==
  ASSUME NEW c \in Cpu, TableInv, Resume(c)
  PROVE  TableInv'
  <1> USE SlotFacts, ProcAssumption DEF Resume, cpuVars, localVars
  <1>1. TypeOK'
    BY DEF TableInv, TypeOK, Contexts
  <1>2. StackInv'
    <2> SUFFICES ASSUME NEW d \in Cpu PROVE StackInv!(d)'
      BY DEF StackInv
    <2> QED BY DEF TableInv, TypeOK, StackInv, ContextInv
  <1>3. StackUnique'
    BY DEF TableInv, StackUnique
  <1>4. ContextInv'
    <2> SUFFICES ASSUME NEW q \in Slot PROVE ContextInv!(q)'
      BY DEF ContextInv
    <2> QED BY SMTT(30) DEF TableInv, StackInv, ContextInv
  <1>5. ForkInv'
    BY DEF TableInv, ForkInv, Forking
  <1> QED BY <1>1, <1>2, <1>3, <1>4, <1>5 DEF TableInv

\* yield(): the process becomes RUNNABLE under its lock, kept by the CPU that is
\* still on its stack.
LEMMA YieldTable ==
  ASSUME NEW c \in Cpu, NEW p \in Slot, TableInv, Yield(c, p)
  PROVE  TableInv'
  <1> USE SlotFacts, ProcAssumption DEF Yield, Acquire, Sched, Runs, localVars
  <1>1. TypeOK'
    BY DEF TableInv, TypeOK, States, Contexts
  <1>2. StackInv'
    <2> SUFFICES ASSUME NEW d \in Cpu PROVE StackInv!(d)'
      BY DEF StackInv
    <2> QED BY DEF TableInv, TypeOK, StackInv, StackUnique
  <1>3. StackUnique'
    BY SMTT(30) DEF TableInv, StackUnique
  <1>4. ContextInv'
    <2> SUFFICES ASSUME NEW q \in Slot PROVE ContextInv!(q)'
      BY DEF ContextInv
    <2> QED BY SMTT(30) DEF TableInv, TypeOK, StackInv, ContextInv
  <1>5. ForkInv'
    BY SMTT(30) DEF TableInv, ContextInv, ForkInv, Forking
  <1> QED BY <1>1, <1>2, <1>3, <1>4, <1>5 DEF TableInv

\* fork() is called.
LEMMA ForkCallTable ==
  ASSUME NEW c \in Cpu, NEW p \in Slot, TableInv, ForkCall(c, p)
  PROVE  TableInv'
  <1> USE DEF ForkCall, Goto, procVars
  <1>1. TypeOK'
    BY SlotFacts, ProcAssumption DEF TableInv, TypeOK, Labels, cpuVars
  <1>2. /\ \A q \in Slot \ {p} : pc'[q] = pc[q] /\ arg'[q] = arg[q]
        /\ pc'[p] # "sleep_sched"
        /\ Forking(p)' => Forking(p) /\ arg'[p] = arg[p]
    BY DEF TableInv, TypeOK, Forking
  <1> QED BY <1>1, <1>2, LocalTable

\* allocproc() claims an UNUSED slot, which no other fork() can be filling.
LEMMA AllocProcTable ==
  ASSUME NEW c \in Cpu, NEW p \in Slot, TableInv, AllocProc(c, p)
  PROVE  TableInv'
  <1> USE SlotFacts, ProcAssumption DEF AllocProc, Acquire, Goto, cpuVars
  <1>1. TypeOK'
    <2>1. state' \in [Slot -> States] /\ ctx' \in [Slot -> Contexts]
      BY DEF TableInv, TypeOK, States, Contexts
    <2>2. pid' \in [Slot -> Nat] /\ nextpid' \in Nat
      BY SMTT(30) DEF TableInv, TypeOK
    <2>3. plock' \in [Slot -> Cpu \cup {NoCpu}]
      BY DEF TableInv, TypeOK
    <2>4. pc' \in [Slot -> Labels] /\ arg' \in [Slot -> Int]
      BY DEF TableInv, TypeOK, Labels
    <2>5. idx' \in [Slot -> Cursor] /\ widx' \in [Slot -> Cursor] /\ kids' \in [Slot -> BOOLEAN]
      BY DEF TableInv, TypeOK
    <2> QED BY <2>1, <2>2, <2>3, <2>4, <2>5 DEF TableInv, TypeOK
  <1>2. StackInv'
    <2> SUFFICES ASSUME NEW d \in Cpu PROVE StackInv!(d)'
      BY DEF StackInv
    <2> QED BY SMTT(30) DEF TableInv, StackInv
  <1>3. StackUnique'
    BY DEF TableInv, StackUnique
  <1>4. ContextInv'
    <2> SUFFICES ASSUME NEW q \in Slot PROVE ContextInv!(q)'
      BY DEF ContextInv
    <2> QED BY DEF TableInv, TypeOK, ContextInv
  <1>5. ForkInv'
    BY SMTT(30) DEF TableInv, TypeOK, ForkInv, Forking
  <1> QED BY <1>1, <1>2, <1>3, <1>4, <1>5 DEF TableInv

\* allocproc() passes over a slot in use.
LEMMA AllocProcSkipTable ==
  ASSUME NEW c \in Cpu, NEW p \in Slot, TableInv, AllocProcSkip(c, p)
  PROVE  TableInv'
  <1> USE DEF AllocProcSkip, Advance, procVars
  <1>1. TypeOK'
    BY SlotFacts, ProcAssumption DEF TableInv, TypeOK, Labels, cpuVars
  <1>2. /\ \A q \in Slot \ {p} : pc'[q] = pc[q] /\ arg'[q] = arg[q]
        /\ pc'[p] # "sleep_sched"
        /\ Forking(p)' => Forking(p) /\ arg'[p] = arg[p]
    BY DEF TableInv, TypeOK, Forking
  <1> QED BY <1>1, <1>2, LocalTable

\* allocproc() finds no free slot.
LEMMA AllocProcFullTable ==
  ASSUME NEW c \in Cpu, NEW p \in Slot, TableInv, AllocProcFull(c, p)
  PROVE  TableInv'
  <1> USE DEF AllocProcFull, Return, Goto, procVars
  <1>1. TypeOK'
    BY SlotFacts, ProcAssumption, SMTT(30) DEF TableInv, TypeOK, Labels, cpuVars
  <1>2. /\ \A q \in Slot \ {p} : pc'[q] = pc[q] /\ arg'[q] = arg[q]
        /\ pc'[p] # "sleep_sched"
        /\ Forking(p)' => Forking(p) /\ arg'[p] = arg[p]
    BY DEF TableInv, TypeOK, Forking
  <1> QED BY <1>1, <1>2, LocalTable

\* fork() fails and frees the slot it alone was filling.
LEMMA ForkNoMemoryTable ==
  ASSUME NEW c \in Cpu, NEW p \in Slot, TableInv, ForkNoMemory(c, p)
  PROVE  TableInv'
  <1> USE SlotFacts, ProcAssumption DEF ForkNoMemory, FreeProc, Return, Goto, cpuVars
  <1>1. TypeOK'
    BY SMTT(30) DEF TableInv, TypeOK, States, Labels, ForkInv, Forking
  <1>2. StackInv'
    <2> SUFFICES ASSUME NEW d \in Cpu PROVE StackInv!(d)'
      BY DEF StackInv
    <2> QED BY SMTT(30) DEF TableInv, StackInv, ForkInv, Forking
  <1>3. StackUnique'
    BY DEF TableInv, StackUnique
  <1>4. ContextInv'
    <2> SUFFICES ASSUME NEW q \in Slot PROVE ContextInv!(q)'
      BY DEF ContextInv
    <2> QED BY SMTT(30) DEF TableInv, ContextInv, ForkInv, Forking
  <1>5. ForkInv'
    BY DEF TableInv, TypeOK, ForkInv, Forking
  <1> QED BY <1>1, <1>2, <1>3, <1>4, <1>5 DEF TableInv

\* fork() has copied the parent and releases np->lock; the slot stays USED.
LEMMA ForkCopyTable ==
  ASSUME NEW c \in Cpu, NEW p \in Slot, TableInv, ForkCopy(c, p)
  PROVE  TableInv'
  <1> USE SlotFacts, ProcAssumption DEF ForkCopy, Goto, procVars, cpuVars
  <1>1. TypeOK'
    BY DEF TableInv, TypeOK, Labels
  <1>2. StackInv'
    <2> SUFFICES ASSUME NEW d \in Cpu PROVE StackInv!(d)'
      BY DEF StackInv
    <2> QED BY SMTT(30) DEF TableInv, StackInv, ForkInv, Forking
  <1>3. StackUnique'
    BY DEF TableInv, StackUnique
  <1>4. ContextInv'
    <2> SUFFICES ASSUME NEW q \in Slot PROVE ContextInv!(q)'
      BY DEF ContextInv
    <2> QED BY SMTT(30) DEF TableInv, ContextInv
  <1>5. ForkInv'
    BY SMTT(30) DEF TableInv, ForkInv, Forking
  <1> QED BY <1>1, <1>2, <1>3, <1>4, <1>5 DEF TableInv

\* fork() sets np->parent under wait_lock.
LEMMA ForkParentTable ==
  ASSUME NEW c \in Cpu, NEW p \in Slot, TableInv, ForkParent(c, p)
  PROVE  TableInv'
  <1> USE DEF ForkParent, Goto, procVars
  <1>1. TypeOK'
    BY SlotFacts, ProcAssumption DEF TableInv, TypeOK, Labels, cpuVars
  <1>2. /\ \A q \in Slot \ {p} : pc'[q] = pc[q] /\ arg'[q] = arg[q]
        /\ pc'[p] # "sleep_sched"
        /\ Forking(p)' => Forking(p) /\ arg'[p] = arg[p]
    BY DEF TableInv, TypeOK, Forking
  <1> QED BY <1>1, <1>2, LocalTable

\* fork() makes the child RUNNABLE, with forkret() as its saved context.
LEMMA ForkRunTable ==
  ASSUME NEW c \in Cpu, NEW p \in Slot, TableInv, ForkRun(c, p)
  PROVE  TableInv'
  <1> USE SlotFacts, ProcAssumption DEF ForkRun, Return, Goto, cpuVars
  <1>1. TypeOK'
    BY SMTT(30) DEF TableInv, TypeOK, States, Labels, ForkInv, Forking
  <1>2. StackInv'
    <2> SUFFICES ASSUME NEW d \in Cpu PROVE StackInv!(d)'
      BY DEF StackInv
    <2> QED BY SMTT(30) DEF TableInv, StackInv, ForkInv, Forking
  <1>3. StackUnique'
    BY DEF TableInv, StackUnique
  <1>4. ContextInv'
    <2> SUFFICES ASSUME NEW q \in Slot PROVE ContextInv!(q)'
      BY DEF ContextInv
    <2> QED BY SMTT(30) DEF TableInv, ContextInv, ForkInv, Forking
  <1>5. ForkInv'
    BY SMTT(30) DEF TableInv, TypeOK, ForkInv, Forking
  <1> QED BY <1>1, <1>2, <1>3, <1>4, <1>5 DEF TableInv

\* wait() is called.
LEMMA WaitCallTable ==
  ASSUME NEW c \in Cpu, NEW p \in Slot, TableInv, WaitCall(c, p)
  PROVE  TableInv'
  <1> USE DEF WaitCall, Goto, procVars
  <1>1. TypeOK'
    BY SlotFacts, ProcAssumption DEF TableInv, TypeOK, Labels, cpuVars
  <1>2. /\ \A q \in Slot \ {p} : pc'[q] = pc[q] /\ arg'[q] = arg[q]
        /\ pc'[p] # "sleep_sched"
        /\ Forking(p)' => Forking(p) /\ arg'[p] = arg[p]
    BY DEF TableInv, TypeOK, Forking
  <1> QED BY <1>1, <1>2, LocalTable

\* wait() takes wait_lock.
LEMMA WaitAcquireTable ==
  ASSUME NEW c \in Cpu, NEW p \in Slot, TableInv, WaitAcquire(c, p)
  PROVE  TableInv'
  <1> USE DEF WaitAcquire, Goto, procVars
  <1>1. TypeOK'
    BY SlotFacts, ProcAssumption DEF TableInv, TypeOK, Labels, cpuVars
  <1>2. /\ \A q \in Slot \ {p} : pc'[q] = pc[q] /\ arg'[q] = arg[q]
        /\ pc'[p] # "sleep_sched"
        /\ Forking(p)' => Forking(p) /\ arg'[p] = arg[p]
    BY DEF TableInv, TypeOK, Forking
  <1> QED BY <1>1, <1>2, LocalTable

\* wait() passes over a slot that is not a zombie child.
LEMMA WaitSkipTable ==
  ASSUME NEW c \in Cpu, NEW p \in Slot, TableInv, WaitSkip(c, p)
  PROVE  TableInv'
  <1> USE DEF WaitSkip, Advance, procVars
  <1>1. TypeOK'
    BY SlotFacts, ProcAssumption DEF TableInv, TypeOK, Labels, cpuVars
  <1>2. /\ \A q \in Slot \ {p} : pc'[q] = pc[q] /\ arg'[q] = arg[q]
        /\ pc'[p] # "sleep_sched"
        /\ Forking(p)' => Forking(p) /\ arg'[p] = arg[p]
    BY DEF TableInv, TypeOK, Forking
  <1> QED BY <1>1, <1>2, LocalTable

\* wait() frees a zombie: it holds the child's lock, so no CPU is still on its
\* way out of that stack.
LEMMA WaitReapTable ==
  ASSUME NEW c \in Cpu, NEW p \in Slot, TableInv, WaitReap(c, p)
  PROVE  TableInv'
  <1> USE SlotFacts, ProcAssumption DEF WaitReap, ZombieChild, FreeProc, Return, Goto, cpuVars
  <1>1. TypeOK'
    BY SMTT(30) DEF TableInv, TypeOK, States, Labels
  <1>2. StackInv'
    <2> SUFFICES ASSUME NEW d \in Cpu PROVE StackInv!(d)'
      BY SMTT(30) DEF StackInv
    <2> QED BY SMTT(30) DEF TableInv, StackInv
  <1>3. StackUnique'
    BY DEF TableInv, StackUnique
  <1>4. ContextInv'
    <2> SUFFICES ASSUME NEW q \in Slot PROVE ContextInv!(q)'
      BY DEF ContextInv
    <2> QED BY SMTT(30) DEF TableInv, ContextInv
  <1>5. ForkInv'
    BY SMTT(30) DEF TableInv, ForkInv, Forking
  <1> QED BY <1>1, <1>2, <1>3, <1>4, <1>5 DEF TableInv

\* wait() cannot copy out the exit status and leaves the zombie.
LEMMA WaitCopyFailTable ==
  ASSUME NEW c \in Cpu, NEW p \in Slot, TableInv, WaitCopyFail(c, p)
  PROVE  TableInv'
  <1> USE DEF WaitCopyFail, Return, Goto, procVars
  <1>1. TypeOK'
    BY SlotFacts, ProcAssumption, SMTT(30) DEF TableInv, TypeOK, Labels, cpuVars
  <1>2. /\ \A q \in Slot \ {p} : pc'[q] = pc[q] /\ arg'[q] = arg[q]
        /\ pc'[p] # "sleep_sched"
        /\ Forking(p)' => Forking(p) /\ arg'[p] = arg[p]
    BY DEF TableInv, TypeOK, Forking
  <1> QED BY <1>1, <1>2, LocalTable

\* wait() has no children, or was killed.
LEMMA WaitFailTable ==
  ASSUME NEW c \in Cpu, NEW p \in Slot, TableInv, WaitFail(c, p)
  PROVE  TableInv'
  <1> USE DEF WaitFail, Return, Goto, procVars
  <1>1. TypeOK'
    BY SlotFacts, ProcAssumption, SMTT(30) DEF TableInv, TypeOK, Labels, cpuVars
  <1>2. /\ \A q \in Slot \ {p} : pc'[q] = pc[q] /\ arg'[q] = arg[q]
        /\ pc'[p] # "sleep_sched"
        /\ Forking(p)' => Forking(p) /\ arg'[p] = arg[p]
    BY DEF TableInv, TypeOK, Forking
  <1> QED BY <1>1, <1>2, LocalTable

\* wait() goes to sleep().
LEMMA WaitSleepTable ==
  ASSUME NEW c \in Cpu, NEW p \in Slot, TableInv, WaitSleep(c, p)
  PROVE  TableInv'
  <1> USE DEF WaitSleep, Goto, procVars
  <1>1. TypeOK'
    BY SlotFacts, ProcAssumption DEF TableInv, TypeOK, Labels, cpuVars
  <1>2. /\ \A q \in Slot \ {p} : pc'[q] = pc[q] /\ arg'[q] = arg[q]
        /\ pc'[p] # "sleep_sched"
        /\ Forking(p)' => Forking(p) /\ arg'[p] = arg[p]
    BY SMTT(30) DEF TableInv, TypeOK, Forking
  <1> QED BY <1>1, <1>2, LocalTable

\* sleep() takes p->lock and releases the condition lock.
LEMMA SleepAcquireTable ==
  ASSUME NEW c \in Cpu, NEW p \in Slot, TableInv, SleepAcquire(c, p)
  PROVE  TableInv'
  <1> USE SlotFacts, ProcAssumption DEF SleepAcquire, Acquire, Goto, Runs, procVars, cpuVars
  <1>1. TypeOK'
    BY SMTT(30) DEF TableInv, TypeOK, Labels
  <1>2. StackInv'
    <2> SUFFICES ASSUME NEW d \in Cpu PROVE StackInv!(d)'
      BY SMTT(30) DEF StackInv
    <2> QED BY SMTT(30) DEF TableInv, TypeOK, StackInv, StackUnique
  <1>3. StackUnique'
    BY DEF TableInv, StackUnique
  <1>4. ContextInv'
    <2> SUFFICES ASSUME NEW q \in Slot PROVE ContextInv!(q)'
      BY DEF ContextInv
    <2> QED BY SMTT(30) DEF TableInv, ContextInv
  <1>5. ForkInv'
    BY SMTT(30) DEF TableInv, ForkInv, Forking
  <1> QED BY <1>1, <1>2, <1>3, <1>4, <1>5 DEF TableInv

\* sleep() leaves the CPU SLEEPING, p->lock still held.
LEMMA SleepSchedTable ==
  ASSUME NEW c \in Cpu, NEW p \in Slot, TableInv, SleepSched(c, p)
  PROVE  TableInv'
  <1> USE SlotFacts, ProcAssumption DEF SleepSched, Sched, Goto, Runs
  <1>1. TypeOK'
    BY DEF TableInv, TypeOK, States, Contexts, Labels
  <1>2. StackInv'
    <2> SUFFICES ASSUME NEW d \in Cpu PROVE StackInv!(d)'
      BY SMTT(30) DEF StackInv
    <2>1. CASE d = c
      BY SMTT(30), <2>1 DEF TableInv, TypeOK, StackInv
    <2>2. CASE d # c
      <3>1. where[d] # "scheduler" => cproc[d] # p
        BY <2>2 DEF TableInv, StackUnique
      <3> QED BY SMTT(30), <2>2, <3>1 DEF TableInv, StackInv
    <2> QED BY <2>1, <2>2
  <1>3. StackUnique'
    BY SMTT(30) DEF TableInv, StackUnique
  <1>4. ContextInv'
    <2> SUFFICES ASSUME NEW q \in Slot PROVE ContextInv!(q)'
      BY DEF ContextInv
    <2> QED BY DEF TableInv, TypeOK, ContextInv
  <1>5. ForkInv'
    BY SMTT(30) DEF TableInv, ContextInv, ForkInv, Forking
  <1> QED BY <1>1, <1>2, <1>3, <1>4, <1>5 DEF TableInv

\* kill() is called.
LEMMA KillCallTable ==
  ASSUME NEW c \in Cpu, NEW p \in Slot, TableInv, KillCall(c, p)
  PROVE  TableInv'
  <1> USE DEF KillCall, Goto, procVars
  <1>1. TypeOK'
    BY SlotFacts, ProcAssumption, SMTT(30) DEF TableInv, TypeOK, Labels, cpuVars
  <1>2. /\ \A q \in Slot \ {p} : pc'[q] = pc[q] /\ arg'[q] = arg[q]
        /\ pc'[p] # "sleep_sched"
        /\ Forking(p)' => Forking(p) /\ arg'[p] = arg[p]
    BY DEF TableInv, TypeOK, Forking
  <1> QED BY <1>1, <1>2, LocalTable

\* A step of the running process p that only moves its program counter, not
\* into sleep() or fork(), and makes SLEEPING processes RUNNABLE.
LEMMA WakeTable ==
  ASSUME NEW p \in Slot, TableInv, TypeOK', UNCHANGED <<ctx, plock, cpuVars>>, state[p] = "RUNNING",
         \A q \in Slot : state'[q] = state[q] \/ (state[q] = "SLEEPING" /\ state'[q] = "RUNNABLE"),
         \A q \in Slot \ {p} : pc'[q] = pc[q] /\ arg'[q] = arg[q],
         pc'[p] # "sleep_sched", ~Forking(p)'
  PROVE  TableInv'
  <1>1. UNCHANGED <<cproc, where, scan>> /\ state'[p] = "RUNNING"
    BY DEF cpuVars
  <1>2. StackInv'
    <2> SUFFICES ASSUME NEW d \in Cpu PROVE StackInv!(d)'
      BY DEF StackInv
    <2>1. StackInv!(d)
      BY DEF TableInv, StackInv
    <2>2. CASE where[d] = "scheduler"
      BY <1>1, <2>2
    <2>3. CASE where[d] = "process"
      BY <1>1, <2>1, <2>3
    <2>4. CASE where[d] = "back"
      BY <1>1, <2>1, <2>4
    <2> QED BY <2>2, <2>3, <2>4 DEF TableInv, TypeOK
  <1>3. StackUnique'
    BY <1>1 DEF TableInv, StackUnique
  <1>4. ContextInv'
    <2> SUFFICES ASSUME NEW q \in Slot PROVE ContextInv!(q)'
      BY DEF ContextInv
    <2>1. ContextInv!(q)
      BY DEF TableInv, ContextInv
    <2>2. CASE q = p
      BY <1>1, <2>2
    <2>3. CASE q # p
      BY <2>1, <2>3
    <2> QED BY <2>2, <2>3
  <1>5. \A q \in Slot : Forking(q)' => Forking(q) /\ arg'[q] = arg[q]
    BY DEF Forking
  <1>6. ForkInv'
    <2>1. ForkInv
      BY DEF TableInv
    <2>2. \A q \in Slot : Forking(q)' => arg'[q] \in Slot /\ state'[arg'[q]] = "USED"
      <3> SUFFICES ASSUME NEW q \in Slot, Forking(q)'
                   PROVE  arg'[q] \in Slot /\ state'[arg'[q]] = "USED"
        OBVIOUS
      <3>1. arg'[q] = arg[q] /\ arg[q] \in Slot /\ state[arg[q]] = "USED"
        BY <1>5, <2>1 DEF ForkInv
      <3> QED BY <3>1
    <2>3. ASSUME NEW q \in Slot, NEW r \in Slot, Forking(q)', Forking(r)', arg'[q] = arg'[r]
          PROVE  q = r
      BY <1>5, <2>1, <2>3 DEF ForkInv
    <2> QED BY <2>2, <2>3 DEF ForkInv
  <1> QED BY <1>2, <1>3, <1>4, <1>6 DEF TableInv

\* kill() marks its victim and makes it RUNNABLE if it was SLEEPING.
LEMMA KillVictimTable ==
  ASSUME NEW c \in Cpu, NEW p \in Slot, TableInv, KillVictim(c, p)
  PROVE  TableInv'
  <1> USE SlotFacts, ProcAssumption DEF KillVictim, Return, Goto, Runs, procVars, cpuVars, localVars
  <1>1. TypeOK'
    <2>1. state' \in [Slot -> States]
      BY DEF TableInv, TypeOK, States
    <2>2. killed' \in [Slot -> BOOLEAN] /\ kids' \in [Slot -> BOOLEAN]
      BY DEF TableInv, TypeOK
    <2>3. pc' \in [Slot -> Labels] /\ arg' \in [Slot -> Int]
      BY SMTT(30) DEF TableInv, TypeOK, Labels
    <2>4. idx' \in [Slot -> Cursor] /\ widx' \in [Slot -> Cursor]
      BY DEF TableInv, TypeOK
    <2> QED BY SMTT(30), <2>1, <2>2, <2>3, <2>4 DEF TableInv, TypeOK
  <1>2. /\ UNCHANGED <<ctx, plock, cpuVars>> /\ state[p] = "RUNNING"
        /\ \A q \in Slot : state'[q] = state[q] \/ (state[q] = "SLEEPING" /\ state'[q] = "RUNNABLE")
    BY DEF TableInv, TypeOK, StackInv
  <1>3. /\ \A q \in Slot \ {p} : pc'[q] = pc[q] /\ arg'[q] = arg[q]
        /\ pc'[p] # "sleep_sched" /\ ~Forking(p)'
    BY DEF TableInv, TypeOK, Forking
  <1> HIDE DEF KillVictim
  <1> QED BY <1>1, <1>2, <1>3, WakeTable

\* kill() passes over another pid.
LEMMA KillSkipTable ==
  ASSUME NEW c \in Cpu, NEW p \in Slot, TableInv, KillSkip(c, p)
  PROVE  TableInv'
  <1> USE DEF KillSkip, Advance, procVars
  <1>1. TypeOK'
    BY SlotFacts, ProcAssumption DEF TableInv, TypeOK, Labels, cpuVars
  <1>2. /\ \A q \in Slot \ {p} : pc'[q] = pc[q] /\ arg'[q] = arg[q]
        /\ pc'[p] # "sleep_sched"
        /\ Forking(p)' => Forking(p) /\ arg'[p] = arg[p]
    BY DEF TableInv, TypeOK, Forking
  <1> QED BY <1>1, <1>2, LocalTable

\* kill() finds nobody.
LEMMA KillNoneTable ==
  ASSUME NEW c \in Cpu, NEW p \in Slot, TableInv, KillNone(c, p)
  PROVE  TableInv'
  <1> USE DEF KillNone, Return, Goto, procVars
  <1>1. TypeOK'
    BY SlotFacts, ProcAssumption, SMTT(30) DEF TableInv, TypeOK, Labels, cpuVars
  <1>2. /\ \A q \in Slot \ {p} : pc'[q] = pc[q] /\ arg'[q] = arg[q]
        /\ pc'[p] # "sleep_sched"
        /\ Forking(p)' => Forking(p) /\ arg'[p] = arg[p]
    BY DEF TableInv, TypeOK, Forking
  <1> QED BY <1>1, <1>2, LocalTable

\* exit() is called.
LEMMA ExitCallTable ==
  ASSUME NEW c \in Cpu, NEW p \in Slot, TableInv, ExitCall(c, p)
  PROVE  TableInv'
  <1> USE DEF ExitCall, Goto, procVars
  <1>1. TypeOK'
    BY SMTT(30), SlotFacts, ProcAssumption DEF TableInv, TypeOK, Labels, cpuVars
  <1>2. /\ \A q \in Slot \ {p} : pc'[q] = pc[q] /\ arg'[q] = arg[q]
        /\ pc'[p] # "sleep_sched"
        /\ Forking(p)' => Forking(p) /\ arg'[p] = arg[p]
    BY DEF TableInv, TypeOK, Forking
  <1> QED BY SMTT(30), <1>1, <1>2, LocalTable

\* exit() takes wait_lock.
LEMMA ExitAcquireTable ==
  ASSUME NEW c \in Cpu, NEW p \in Slot, TableInv, ExitAcquire(c, p)
  PROVE  TableInv'
  <1> USE DEF ExitAcquire, Goto, procVars
  <1>1. TypeOK'
    BY SMTT(30), SlotFacts, ProcAssumption DEF TableInv, TypeOK, Labels, cpuVars
  <1>2. /\ \A q \in Slot \ {p} : pc'[q] = pc[q] /\ arg'[q] = arg[q]
        /\ pc'[p] # "sleep_sched"
        /\ Forking(p)' => Forking(p) /\ arg'[p] = arg[p]
    BY DEF TableInv, TypeOK, Forking
  <1> QED BY SMTT(30), <1>1, <1>2, LocalTable

\* reparent() gives a child to init.
LEMMA ReparentChildTable ==
  ASSUME NEW c \in Cpu, NEW p \in Slot, TableInv, ReparentChild(c, p)
  PROVE  TableInv'
  <1> USE DEF ReparentChild, procVars
  <1>1. TypeOK'
    BY SlotFacts, ProcAssumption DEF TableInv, TypeOK, Labels, cpuVars
  <1>2. /\ \A q \in Slot \ {p} : pc'[q] = pc[q] /\ arg'[q] = arg[q]
        /\ pc'[p] # "sleep_sched"
        /\ Forking(p)' => Forking(p) /\ arg'[p] = arg[p]
    BY DEF TableInv, TypeOK, Forking
  <1> QED BY SMTT(30), <1>1, <1>2, LocalTable

\* reparent() passes over a slot.
LEMMA ReparentSkipTable ==
  ASSUME NEW c \in Cpu, NEW p \in Slot, TableInv, ReparentSkip(c, p)
  PROVE  TableInv'
  <1> USE DEF ReparentSkip, Advance, procVars
  <1>1. TypeOK'
    BY SlotFacts, ProcAssumption DEF TableInv, TypeOK, Labels, cpuVars
  <1>2. /\ \A q \in Slot \ {p} : pc'[q] = pc[q] /\ arg'[q] = arg[q]
        /\ pc'[p] # "sleep_sched"
        /\ Forking(p)' => Forking(p) /\ arg'[p] = arg[p]
    BY DEF TableInv, TypeOK, Forking
  <1> QED BY <1>1, <1>2, LocalTable

\* reparent() has finished.
LEMMA ReparentDoneTable ==
  ASSUME NEW c \in Cpu, NEW p \in Slot, TableInv, ReparentDone(c, p)
  PROVE  TableInv'
  <1> USE DEF ReparentDone, Goto, procVars
  <1>1. TypeOK'
    BY SlotFacts, ProcAssumption DEF TableInv, TypeOK, Labels, cpuVars
  <1>2. /\ \A q \in Slot \ {p} : pc'[q] = pc[q] /\ arg'[q] = arg[q]
        /\ pc'[p] # "sleep_sched"
        /\ Forking(p)' => Forking(p) /\ arg'[p] = arg[p]
    BY SMTT(30) DEF TableInv, TypeOK, Forking
  <1> QED BY <1>1, <1>2, LocalTable

\* wakeup() makes a process SLEEPING on the channel RUNNABLE; its saved context
\* is the one sleep() left.
LEMMA WakeupSlotTable ==
  ASSUME NEW c \in Cpu, NEW p \in Slot, TableInv, WakeupSlot(c, p)
  PROVE  TableInv'
  <1> USE SlotFacts, ProcAssumption DEF WakeupSlot, SleepsOn, Runs, procVars, cpuVars, localVars
  <1>1. TypeOK'
    BY DEF TableInv, TypeOK, States, Contexts, Labels, StackInv, ForkInv, Forking
  <1>2. /\ UNCHANGED <<ctx, plock, cpuVars>> /\ state[p] = "RUNNING"
        /\ \A q \in Slot : state'[q] = state[q] \/ (state[q] = "SLEEPING" /\ state'[q] = "RUNNABLE")
    BY DEF TableInv, TypeOK, StackInv
  <1>3. /\ \A q \in Slot \ {p} : pc'[q] = pc[q] /\ arg'[q] = arg[q]
        /\ pc'[p] # "sleep_sched" /\ ~Forking(p)'
    BY DEF Forking
  <1> HIDE DEF WakeupSlot
  <1> QED BY <1>1, <1>2, <1>3, WakeTable

\* wakeup() has finished.
LEMMA WakeupDoneTable ==
  ASSUME NEW c \in Cpu, NEW p \in Slot, TableInv, WakeupDone(c, p)
  PROVE  TableInv'
  <1> USE DEF WakeupDone, procVars
  <1>1. TypeOK'
    BY SMTT(30), SlotFacts, ProcAssumption DEF TableInv, TypeOK, Labels, cpuVars
  <1>2. /\ \A q \in Slot \ {p} : pc'[q] = pc[q] /\ arg'[q] = arg[q]
        /\ pc'[p] # "sleep_sched"
        /\ Forking(p)' => Forking(p) /\ arg'[p] = arg[p]
    BY DEF TableInv, TypeOK, Forking
  <1> QED BY SMTT(30), <1>1, <1>2, LocalTable

\* exit() leaves the CPU for the last time as a ZOMBIE, p->lock still held.
LEMMA ExitZombieTable ==
  ASSUME NEW c \in Cpu, NEW p \in Slot, TableInv, ExitZombie(c, p)
  PROVE  TableInv'
  <1> USE SlotFacts, ProcAssumption DEF ExitZombie, Acquire, Sched, Return, Goto, Runs
  <1>1. TypeOK'
    BY SMTT(30) DEF TableInv, TypeOK, States, Contexts, Labels
  <1>2. StackInv'
    <2> SUFFICES ASSUME NEW d \in Cpu PROVE StackInv!(d)'
      BY DEF StackInv
    <2>1. CASE d = c
      BY SMTT(30), <2>1 DEF TableInv, TypeOK, StackInv
    <2>2. CASE d # c
      <3>1. where[d] # "scheduler" => cproc[d] # p
        BY <2>2 DEF TableInv, StackUnique
      <3> QED BY SMTT(30), <2>2, <3>1 DEF TableInv, StackInv
    <2> QED BY <2>1, <2>2
  <1>3. StackUnique'
    BY SMTT(30) DEF TableInv, StackUnique
  <1>4. ContextInv'
    <2> SUFFICES ASSUME NEW q \in Slot PROVE ContextInv!(q)'
      BY DEF ContextInv
    <2> QED BY DEF TableInv, TypeOK, ContextInv
  <1>5. ForkInv'
    BY SMTT(30) DEF TableInv, ContextInv, ForkInv, Forking
  <1> QED BY <1>1, <1>2, <1>3, <1>4, <1>5 DEF TableInv
-----------------------------------------------------------------------------
\* Every step of every CPU keeps the process table consistent.
LEMMA NextTable == TableInv /\ [Next]_vars => TableInv'
  <1> SUFFICES ASSUME TableInv, [Next]_vars PROVE TableInv'
    BY SMTT(30)
  <1>1. CASE UNCHANGED vars
    <2>1. UNCHANGED <<procVars, plock, wait_lock, cpuVars, localVars>>
      BY <1>1 DEF vars
    <2>2. TypeOK'
      BY <2>1 DEF procVars, cpuVars, localVars, TableInv, TypeOK
    <2>3. StackInv' /\ StackUnique'
      BY <2>1 DEF procVars, cpuVars, localVars, TableInv, StackInv, StackUnique
    <2>4. ContextInv' /\ ForkInv'
      BY <2>1 DEF procVars, localVars, TableInv, ContextInv, ForkInv, Forking
    <2> QED BY <2>2, <2>3, <2>4 DEF TableInv
  <1>2. ASSUME NEW c \in Cpu, SchedStep(c) PROVE TableInv'
    BY SMTT(30), <1>2, SchedulerSwitchTable, SchedulerSkipTable, SchedulerBackTable, ResumeTable
       DEF SchedStep
  <1>3. ASSUME NEW c \in Cpu, NEW p \in Slot, Kernel(c, p) PROVE TableInv'
    BY <1>3,
       AllocProcTable, AllocProcSkipTable, AllocProcFullTable,
       ForkNoMemoryTable, ForkCopyTable, ForkParentTable, ForkRunTable,
       WaitAcquireTable, WaitSkipTable, WaitReapTable, WaitCopyFailTable,
       WaitFailTable, WaitSleepTable, SleepAcquireTable, SleepSchedTable,
       KillVictimTable, KillSkipTable, KillNoneTable, ExitAcquireTable,
       ReparentChildTable, ReparentSkipTable, ReparentDoneTable,
       WakeupSlotTable, WakeupDoneTable, ExitZombieTable
       DEF Kernel
  <1>4. ASSUME NEW c \in Cpu, NEW p \in Slot, UserCall(c, p) PROVE TableInv'
    BY <1>4, ForkCallTable, WaitCallTable, KillCallTable, ExitCallTable DEF UserCall
  <1> QED BY <1>1, <1>2, <1>3, <1>4, YieldTable DEF Next

\* The process table of proc.c stays consistent for any number of CPUs and slots.
THEOREM TableInvariant == Spec => []TableInv
  BY InitTable, NextTable, PTL DEF Spec

\* Every variable keeps its type: in particular p->parent, c->proc and the
\* scheduler's cursor always name a slot of proc[].
THEOREM TypeCorrect == Spec => []TypeOK
  <1>1. TableInv => TypeOK
    BY DEF TableInv
  <1> QED BY <1>1, TableInvariant, PTL

\* The hand-over of p->lock through swtch() never lets two CPUs execute on one
\* kernel stack, and the process a CPU executes is RUNNING.
THEOREM OneCpu == Spec => []OneCpuPerProcess
  <1>1. TableInv => OneCpuPerProcess
    BY SMTT(30) DEF TableInv, StackInv, StackUnique, OneCpuPerProcess, OnStack, Runs
  <1> QED BY <1>1, TableInvariant, PTL

\* wait() and a failing fork() never free a slot while a CPU is on its kernel
\* stack, and the scheduler never resumes a process inside exit().
THEOREM FreedOffCpu == Spec => []FreedIsOffCpu
  <1>1. TableInv => FreedIsOffCpu
    BY DEF TableInv, TypeOK, StackInv, FreedIsOffCpu, OnStack
  <1> QED BY <1>1, TableInvariant, PTL
-----------------------------------------------------------------------------
(* Locks, children and wait().                                             *)

\* A step of p leaves the local variables of the other kernel threads alone.
Others(p) ==
    \A q \in Slot \ {p} : pc'[q] = pc[q] /\ idx'[q] = idx[q] /\ widx'[q] = widx[q] /\ arg'[q] = arg[q]

\* The arrays a step updates have one element per slot or CPU.
LEMMA Arrays ==
  ASSUME TypeOK
  PROVE  /\ DOMAIN state = Slot /\ DOMAIN chan = Slot /\ DOMAIN parent = Slot /\ DOMAIN ctx = Slot
         /\ DOMAIN plock = Slot /\ DOMAIN arg = Slot /\ DOMAIN where = Cpu /\ DOMAIN cproc = Cpu
  BY DEF TypeOK

\* The stack a CPU is on belongs to a process that is neither free nor on
\* another CPU.
LEMMA Stacks ==
  ASSUME TableInv, NEW c \in Cpu, where[c] # "scheduler"
  PROVE  /\ cproc[c] \in Slot /\ state[cproc[c]] \notin {"UNUSED", "USED"}
         /\ \A d \in Cpu \ {c} : where[d] # "scheduler" => cproc[d] # cproc[c]
  BY DEF TableInv, TypeOK, StackInv, StackUnique

\* A loop that is past the last slot has passed them all.
LEMMA PastEnd ==
  ASSUME NEW i \in Cursor, i \notin Slot
  PROVE  \A q \in Slot : q < i
  BY ProcAssumption, SMTT(30) DEF Cursor, Slot

\* What the CPU that runs p holds.
LEMMA Holds ==
  ASSUME TableInv, HolderInv, NEW c \in Cpu, NEW p \in Slot, Runs(c, p)
  PROVE  /\ wait_lock = c <=> pc[p] \in WaitPc
         /\ \A q \in Slot : plock[q] = c <=>
               (q = p /\ pc[p] = "sleep_sched") \/ (pc[p] = "fork_copy" /\ arg[p] = q)
         /\ state[p] = "RUNNING"
  <1>1. wait_lock = c <=> pc[p] \in WaitPc
    BY DEF HolderInv, Runs
  <1>2. \A q \in Slot : plock[q] = c <=>
               (q = p /\ pc[p] = "sleep_sched") \/ (pc[p] = "fork_copy" /\ arg[p] = q)
    BY SMTT(30) DEF HolderInv, LockOf, OnStack, Runs
  <1> QED BY <1>1, <1>2 DEF TableInv, StackInv, Runs

\* wait_lock admits one process to its sections.
LEMMA OneInWait ==
  ASSUME TableInv, HolderInv, NEW p \in Slot, NEW q \in Slot, pc[p] \in WaitPc, pc[q] \in WaitPc
  PROVE  p = q /\ wait_lock # NoCpu
  <1>1. PICK c \in Cpu : Runs(c, p)
    BY DEF HolderInv, LockPc
  <1>2. PICK d \in Cpu : Runs(d, q)
    BY DEF HolderInv, LockPc
  <1>3. wait_lock = c /\ wait_lock = d
    BY <1>1, <1>2, Holds
  <1> QED BY <1>1, <1>2, <1>3, ProcAssumption DEF Runs

\* What a CPU holds in a section of wait_lock, which it has to itself.
LEMMA InSection ==
  ASSUME TableInv, HolderInv, NEW c \in Cpu, NEW p \in Slot, Runs(c, p), pc[p] \in WaitPc
  PROVE  /\ wait_lock = c /\ state[p] = "RUNNING" /\ \A q \in Slot : plock[q] # c
         /\ \A q \in Slot \ {p} : pc[q] \notin WaitPc
  <1>1. \A q \in Slot \ {p} : pc[q] \notin WaitPc
    BY OneInWait
  <1>2. pc[p] \notin {"sleep_sched", "fork_copy"}
    BY DEF WaitPc
  <1> QED BY <1>1, <1>2, Holds, SMTT(30)

\* A CPU outside the lock sections holds no lock.
LEMMA OutOfSections ==
  ASSUME TableInv, HolderInv, NEW c \in Cpu, NEW p \in Slot, Runs(c, p), pc[p] \notin LockPc
  PROVE  wait_lock # c /\ state[p] = "RUNNING" /\ \A q \in Slot : plock[q] # c
  <1>1. pc[p] \notin WaitPc /\ pc[p] \notin {"sleep_sched", "fork_copy"}
    BY DEF LockPc
  <1> QED BY <1>1, Holds, SMTT(30)

\* A step that leaves the locks, the CPUs and the places alone.
LEMMA HolderSame ==
  ASSUME HolderInv, UNCHANGED <<ctx, plock, wait_lock, cproc, where, pc, arg>>
  PROVE  HolderInv'
  <1>1. \A c \in Cpu : Runs(c, cproc[c])' <=> Runs(c, cproc[c])
    BY DEF Runs
  <1>2. \A c \in Cpu, p \in Slot : Runs(c, p)' <=> Runs(c, p)
    BY DEF Runs
  <1>3. \A c \in Cpu, q \in Slot : LockOf(c, q)' <=> LockOf(c, q)
    BY DEF LockOf, OnStack, Runs
  <1> QED BY <1>1, <1>2, <1>3 DEF HolderInv

\* A step of CPU c that is on no process's code, before or after it.
LEMMA CpuStep ==
  ASSUME NEW c \in Cpu, HolderInv, UNCHANGED <<ctx, pc, arg, wait_lock>>,
         \A d \in Cpu \ {c} : where'[d] = where[d] /\ cproc'[d] = cproc[d],
         where[c] # "process", where'[c] # "process" \/ ctx[cproc'[c]] # "none",
         \A q \in Slot : plock'[q] = c <=> where'[c] = "process" /\ q = cproc'[c],
         where'[c] \in {"scheduler", "process"},
         \A d \in Cpu \ {c}, q \in Slot : plock'[q] = d <=> plock[q] = d
  PROVE  HolderInv'
  <1>1. ASSUME NEW d \in Cpu \ {c}, NEW q \in Slot
        PROVE  /\ Runs(d, cproc[d])' <=> Runs(d, cproc[d])
               /\ LockOf(d, q)' <=> LockOf(d, q)
               /\ Runs(d, q) => Runs(d, q)'
    BY DEF Runs, LockOf, OnStack
  <1>2. ~Runs(c, cproc[c]) /\ ~Runs(c, cproc[c])' /\ \A q \in Slot : ~Runs(c, q)
    BY DEF Runs
  <1>3. ASSUME NEW q \in Slot, pc'[q] \in LockPc PROVE \E d \in Cpu : Runs(d, q)'
    <2>1. PICK d \in Cpu : Runs(d, q)
      BY <1>3 DEF HolderInv
    <2> QED BY <1>1, <1>2, <2>1, SMTT(30)
  <1>4. ASSUME NEW d \in Cpu PROVE wait_lock' = d <=> Runs(d, cproc[d])' /\ pc'[cproc'[d]] \in WaitPc
    <2>1. CASE d = c
      BY <1>2, <2>1 DEF HolderInv
    <2>2. CASE d # c
      BY <2>2, SMTT(30) DEF HolderInv, Runs
    <2> QED BY <2>1, <2>2
  <1>5. ASSUME NEW d \in Cpu, NEW q \in Slot PROVE plock'[q] = d <=> LockOf(d, q)'
    <2>1. CASE d = c
      BY <1>2, <2>1 DEF LockOf, OnStack
    <2>2. CASE d # c
      BY <1>1, <2>2, SMTT(30) DEF HolderInv
    <2> QED BY <2>1, <2>2
  <1> QED BY <1>3, <1>4, <1>5 DEF HolderInv

\* What a CPU runs and holds is told by its own registers and by the process
\* whose stack it is on.
LEMMA SameFrame ==
  ASSUME NEW d, NEW q, where'[d] = where[d], cproc'[d] = cproc[d],
         pc'[cproc[d]] = pc[cproc[d]], arg'[cproc[d]] = arg[cproc[d]], ctx'[cproc[d]] = ctx[cproc[d]]
  PROVE  /\ Runs(d, cproc[d])' <=> Runs(d, cproc[d])
         /\ Runs(d, q)' <=> Runs(d, q)
         /\ LockOf(d, q)' <=> LockOf(d, q)
  BY SMTT(30) DEF Runs, LockOf, OnStack

\* A CPU on no process's stack runs no process and holds no process's lock.
LEMMA NoFrame ==
  ASSUME NEW d, NEW q, where[d] = "scheduler", where'[d] = "scheduler"
  PROVE  ~Runs(d, q) /\ ~Runs(d, q)' /\ ~LockOf(d, q) /\ ~LockOf(d, q)'
         /\ ~Runs(d, cproc[d]) /\ ~Runs(d, cproc[d])'
  BY SMTT(30) DEF Runs, LockOf, OnStack

\* The place p has come to says that CPU c, on p's stack, holds q's lock.
FrameLock(c, p, q) ==
    \/ q = p /\ (where[c] = "back" \/ ctx[p] # "none" \/ pc[p] = "sleep_sched")
    \/ Runs(c, p) /\ pc[p] = "fork_copy" /\ arg[p] = q

\* The locks of CPU c on the stack of p, after a step.
LEMMA LockOfAfter ==
  ASSUME NEW c, NEW p, NEW q, cproc'[c] = p, where'[c] # "scheduler"
  PROVE  LockOf(c, q)' <=> FrameLock(c, p, q)'
  BY SMTT(30) DEF Runs, LockOf, OnStack, FrameLock

\* A step of p on c that leaves the locks of the other CPUs alone, and leaves
\* c with the locks of the place p has come to.
LEMMA HolderStep ==
  ASSUME NEW c \in Cpu, NEW p \in Slot, TableInv, HolderInv, TypeOK', OnStack(c, p), Others(p),
         cproc' = cproc, \A d \in Cpu \ {c} : where'[d] = where[d],
         where'[c] # "scheduler",
         \A q \in Slot \ {p} : ctx'[q] = ctx[q] \/ state[q] = "UNUSED",
         pc'[p] \in LockPc => Runs(c, p)',
         wait_lock' = c <=> Runs(c, p)' /\ pc'[p] \in WaitPc,
         \A d \in Cpu \ {c} : wait_lock' = d <=> wait_lock = d,
         \A q \in Slot : plock'[q] = c <=>
             \/ q = p /\ (where'[c] = "back" \/ ctx'[p] # "none" \/ pc'[p] = "sleep_sched")
             \/ Runs(c, p)' /\ pc'[p] = "fork_copy" /\ arg'[p] = q,
         \A d \in Cpu \ {c}, q \in Slot : plock'[q] = d <=> plock[q] = d
  PROVE  HolderInv'
  <1>1. cproc[c] = p /\ where[c] # "scheduler"
    BY DEF OnStack
  <1>2. ASSUME NEW d \in Cpu \ {c}, where[d] # "scheduler"
        PROVE  /\ cproc[d] \in Slot \ {p} /\ state[cproc[d]] # "UNUSED"
               /\ pc'[cproc[d]] = pc[cproc[d]] /\ arg'[cproc[d]] = arg[cproc[d]]
               /\ ctx'[cproc[d]] = ctx[cproc[d]]
    <2>1. cproc[d] \in Slot \ {p} /\ state[cproc[d]] # "UNUSED"
      BY <1>1, <1>2, Stacks
    <2> QED BY <2>1 DEF Others
  <1>3. ASSUME NEW d \in Cpu \ {c}, NEW q \in Slot
        PROVE  /\ Runs(d, cproc[d])' <=> Runs(d, cproc[d])
               /\ LockOf(d, q)' <=> LockOf(d, q)
               /\ Runs(d, cproc[d]) => pc'[cproc[d]] = pc[cproc[d]]
               /\ Runs(d, q) => Runs(d, q)'
    <2>1. cproc'[d] = cproc[d] /\ where'[d] = where[d]
      BY <1>3
    <2>2. CASE where[d] = "scheduler"
      BY <2>1, <2>2, NoFrame
    <2>3. CASE where[d] # "scheduler"
      <3>1. /\ pc'[cproc[d]] = pc[cproc[d]] /\ arg'[cproc[d]] = arg[cproc[d]]
            /\ ctx'[cproc[d]] = ctx[cproc[d]]
        BY <1>2, <1>3, <2>3
      <3> QED BY <2>1, <3>1, SameFrame
    <2> QED BY <2>2, <2>3
  <1>4. ASSUME NEW q \in Slot, pc'[q] \in LockPc PROVE \E d \in Cpu : Runs(d, q)'
    <2>1. CASE q = p
      BY <1>4, <2>1
    <2>2. CASE q # p
      <3>1. pc[q] \in LockPc
        BY <1>4, <2>2 DEF Others
      <3>2. PICK d \in Cpu : Runs(d, q)
        BY <3>1 DEF HolderInv
      <3>3. d # c
        BY <1>1, <2>2, <3>2 DEF Runs
      <3> QED BY <1>3, <3>2, <3>3
    <2> QED BY <2>1, <2>2
  <1>5. ASSUME NEW d \in Cpu PROVE wait_lock' = d <=> Runs(d, cproc[d])' /\ pc'[cproc'[d]] \in WaitPc
    <2>1. CASE d = c
      BY <1>1, <2>1
    <2>2. CASE d # c
      <3>1. wait_lock' = d <=> Runs(d, cproc[d]) /\ pc[cproc[d]] \in WaitPc
        BY <2>2 DEF HolderInv
      <3>2. /\ Runs(d, cproc[d])' <=> Runs(d, cproc[d])
            /\ Runs(d, cproc[d]) => pc'[cproc[d]] = pc[cproc[d]]
        BY <1>3, <1>5, <2>2
      <3> QED BY <3>1, <3>2
    <2> QED BY <2>1, <2>2
  <1>6. ASSUME NEW d \in Cpu, NEW q \in Slot PROVE plock'[q] = d <=> LockOf(d, q)'
    <2>1. CASE d = c
      <3>1. cproc'[c] = p /\ where'[c] # "scheduler"
        BY <1>1
      <3>2. LockOf(c, q)' <=> FrameLock(c, p, q)'
        BY <3>1, LockOfAfter
      <3>3. plock'[q] = c <=> FrameLock(c, p, q)'
        BY DEF FrameLock
      <3> QED BY <2>1, <3>2, <3>3
    <2>2. CASE d # c
      <3>1. plock'[q] = d <=> LockOf(d, q)
        <4>1. plock'[q] = d <=> plock[q] = d
          BY <2>2
        <4>2. plock[q] = d <=> LockOf(d, q)
          BY DEF HolderInv
        <4> QED BY <4>1, <4>2
      <3>2. LockOf(d, q)' <=> LockOf(d, q)
        BY <1>3, <1>6, <2>2
      <3> QED BY <3>1, <3>2
    <2> QED BY <2>1, <2>2
  <1> QED BY <1>4, <1>5, <1>6 DEF HolderInv

\* The same for a step after which p is still running.
LEMMA HolderStays ==
  ASSUME NEW c \in Cpu, NEW p \in Slot, TableInv, HolderInv, TypeOK', Runs(c, p), Others(p),
         UNCHANGED cpuVars, ctx'[p] = "none",
         \A q \in Slot \ {p} : ctx'[q] = ctx[q] \/ state[q] = "UNUSED",
         wait_lock' = c <=> pc'[p] \in WaitPc,
         \A d \in Cpu \ {c} : wait_lock' = d <=> wait_lock = d,
         \A q \in Slot : plock'[q] = c <=>
             (q = p /\ pc'[p] = "sleep_sched") \/ (pc'[p] = "fork_copy" /\ arg'[p] = q),
         \A d \in Cpu \ {c}, q \in Slot : plock'[q] = d <=> plock[q] = d
  PROVE  HolderInv'
  <1>1. OnStack(c, p) /\ Runs(c, p)' /\ cproc' = cproc /\ where' = where /\ where[c] = "process"
    BY DEF Runs, OnStack, cpuVars
  <1> QED BY <1>1, HolderStep, SMTT(30)

\* The same for a step after which p has left for the scheduler, which holds
\* p->lock for it.
LEMMA HolderLeaves ==
  ASSUME NEW c \in Cpu, NEW p \in Slot, TableInv, HolderInv, TypeOK', OnStack(c, p), Others(p),
         cproc' = cproc, where' = [where EXCEPT ![c] = "back"],
         \A q \in Slot \ {p} : ctx'[q] = ctx[q],
         pc'[p] \notin LockPc, wait_lock' # c,
         \A d \in Cpu \ {c} : wait_lock' = d <=> wait_lock = d,
         \A q \in Slot : plock'[q] = c <=> q = p,
         \A d \in Cpu \ {c}, q \in Slot : plock'[q] = d <=> plock[q] = d
  PROVE  HolderInv'
  <1>1. where'[c] = "back" /\ \A d \in Cpu \ {c} : where'[d] = where[d]
    BY DEF TableInv, TypeOK
  <1>2. ~Runs(c, p)'
    BY <1>1 DEF Runs
  <1> QED BY <1>1, <1>2, HolderStep

\* A step that kills and frees nobody who is a parent, and changes no parent
\* but that of a slot it frees.
LEMMA FamilyStep ==
  ASSUME NEW p \in Slot, TableInv, FamilyInv, TypeOK', Others(p),
         \A q \in Slot : state[q] \in Live => state'[q] \in Live,
         \A q \in Slot : state'[q] \notin {"UNUSED", "USED"} => state[q] \notin {"UNUSED", "USED"},
         \A q \in Slot : parent'[q] = parent[q] \/ (parent'[q] = NoSlot /\ state'[q] = "UNUSED"),
         \A q \in Slot \ {p} : pc[q] = "fork_run" => parent'[arg[q]] = parent[arg[q]],
         ChildrenOf(p)'
  PROVE  FamilyInv'
  <1>1. state'[initproc] \in Live
    BY SlotFacts DEF FamilyInv
  <1>2. ASSUME NEW np \in Slot, parent'[np] # NoSlot PROVE state'[parent'[np]] \in Live
    <2>1. parent'[np] = parent[np] /\ parent[np] \in Slot \cup {NoSlot}
      BY <1>2 DEF TableInv, TypeOK
    <2> QED BY <1>2, <2>1 DEF FamilyInv
  <1>3. ASSUME NEW np \in Slot \ {initproc}, state'[np] \notin {"UNUSED", "USED"}
        PROVE  parent'[np] # NoSlot
    BY <1>3 DEF FamilyInv
  <1>4. ASSUME NEW q \in Slot PROVE ChildrenOf(q)'
    <2>1. CASE q = p
      BY <2>1
    <2>2. CASE q # p
      <3>1. ChildrenOf(q)
        BY DEF FamilyInv
      <3>2. \A np \in Slot : parent[np] # q => parent'[np] # q
        BY SlotFacts
      <3> QED BY <2>2, <3>1, <3>2, SMTT(30) DEF ChildrenOf, Others
    <2> QED BY <2>1, <2>2
  <1> QED BY <1>1, <1>2, <1>3, <1>4 DEF FamilyInv

\* A step that makes no zombie, gives none a new parent and puts nobody to
\* sleep.
LEMMA WaitStep ==
  ASSUME NEW p \in Slot, TableInv, WaitInv, TypeOK', Others(p),
         \A q, np \in Slot : Reapable(q, np)' => Reapable(q, np),
         \A q \in Slot : Dozing(q)' => Dozing(q),
         \A q \in Slot \ {p} : pc[q] \in {"wakeup_parent", "exit_zombie"} => parent'[q] = parent[q],
         SeenBy(p)',
         pc[p] = "wakeup_init" /\ widx[p] <= initproc =>
            (pc'[p] = "wakeup_init" /\ widx'[p] <= initproc) \/ ~Dozing(initproc)'
  PROVE  WaitInv'
  <1>1. ASSUME NEW q \in Slot, NEW np \in Slot, Reapable(q, np)', Dozing(q)'
        PROVE  q = initproc /\ \E r \in Slot : pc'[r] = "wakeup_init" /\ widx'[r] <= initproc
    <2>1. q = initproc
      BY <1>1 DEF WaitInv
    <2>2. PICK r \in Slot : pc[r] = "wakeup_init" /\ widx[r] <= initproc
      BY <1>1 DEF WaitInv
    <2>3. pc'[r] = "wakeup_init" /\ widx'[r] <= initproc
      BY <1>1, <2>1, <2>2 DEF Others
    <2> QED BY <2>1, <2>3
  <1>2. ASSUME NEW q \in Slot PROVE SeenBy(q)'
    <2>1. CASE q = p
      BY <2>1
    <2>2. CASE q # p
      <3>1. SeenBy(q)
        BY DEF WaitInv
      <3>2. pc'[q] = pc[q] /\ idx'[q] = idx[q] /\ widx'[q] = widx[q]
        BY <2>2 DEF Others
      <3> QED BY <2>2, <3>1, <3>2 DEF SeenBy
    <2> QED BY <2>1, <2>2
  <1> QED BY <1>1, <1>2 DEF WaitInv

\* A step within a system call that leaves p on its CPU, and changes no lock
\* but wait_lock and no state but to wake a sleeper.
LEMMA CallStep ==
  ASSUME NEW c \in Cpu, NEW p \in Slot, ProcInv, TableInv', Runs(c, p), Others(p),
         UNCHANGED <<chan, parent, ctx, plock, cpuVars>>,
         \A q \in Slot : state'[q] = state[q] \/ (state[q] = "SLEEPING" /\ state'[q] = "RUNNABLE"),
         pc[p] \notin {"fork_copy", "sleep_sched"}, pc'[p] \notin {"fork_copy", "sleep_sched"},
         pc'[p] \in WaitPc => wait_lock' = c /\ wait_lock \in {c, NoCpu},
         pc'[p] \notin WaitPc => wait_lock' = IF pc[p] \in WaitPc THEN NoCpu ELSE wait_lock,
         ChildrenOf(p)', SeenBy(p)',
         pc[p] = "wakeup_init" /\ widx[p] <= initproc =>
            (pc'[p] = "wakeup_init" /\ widx'[p] <= initproc) \/ ~Dozing(initproc)'
  PROVE  ProcInv'
  <1>1. TableInv /\ HolderInv /\ FamilyInv /\ WaitInv /\ TypeOK'
    BY DEF ProcInv, TableInv
  <1>2. /\ wait_lock = c <=> pc[p] \in WaitPc
        /\ \A q \in Slot : plock[q] # c
    BY <1>1, Holds, SMTT(30)
  <1>3. HolderInv'
    <2>1. wait_lock' = c <=> pc'[p] \in WaitPc
      BY <1>2, ProcAssumption
    <2>2. \A d \in Cpu \ {c} : wait_lock' = d <=> wait_lock = d
      BY <1>2, ProcAssumption
    <2>3. ctx'[p] = "none"
      BY DEF Runs
    <2> QED BY <1>1, <1>2, <2>1, <2>2, <2>3, HolderStays
  <1>4. FamilyInv'
    BY <1>1, FamilyStep DEF Live
  <1>5. WaitInv'
    <2>1. \A q, np \in Slot : Reapable(q, np)' => Reapable(q, np)
      BY DEF Reapable
    <2>2. \A q \in Slot : Dozing(q)' => Dozing(q)
      BY DEF Dozing, Others
    <2> QED BY <1>1, <2>1, <2>2, WaitStep
  <1> QED BY <1>3, <1>4, <1>5 DEF ProcInv

\* The places of a system call that say nothing of locks or children.
Outer == {"user", "allocproc", "fork_copy", "fork_parent", "wait_acquire", "sleep_sched", "kill"}

\* A thread at such a place owes nothing.
LEMMA OuterSays ==
  ASSUME NEW p \in Slot, pc'[p] \in Outer
  PROVE  ChildrenOf(p)' /\ SeenBy(p)'
  BY DEF Outer, ChildrenOf, SeenBy, WaitPc

\* A thread that goes to a label leaves the other threads where they are.
LEMMA Moves ==
  ASSUME TypeOK, NEW p \in Slot, NEW l, Goto(p, l),
         \A q \in Slot \ {p} : arg'[q] = arg[q]
  PROVE  Others(p) /\ pc'[p] = l /\ idx'[p] = 1 /\ widx'[p] = 1
  BY DEF TypeOK, Goto, Others

\* A loop over proc[] that goes on leaves the other threads where they are.
LEMMA Advances ==
  ASSUME TypeOK, NEW p \in Slot, Advance(p)
  PROVE  Others(p) /\ pc'[p] = pc[p] /\ idx'[p] = idx[p] + 1 /\ widx'[p] = widx[p]
  BY DEF TypeOK, Advance, Others

\* A step between two places outside the lock sections, or out of the one of
\* wait() when it returns without reaping.
LEMMA OuterStep ==
  ASSUME NEW c \in Cpu, NEW p \in Slot, ProcInv, TableInv', Runs(c, p), Others(p),
         UNCHANGED <<chan, parent, ctx, plock, cpuVars>>,
         \A q \in Slot : state'[q] = state[q] \/ (state[q] = "SLEEPING" /\ state'[q] = "RUNNABLE"),
         pc[p] \in {"user", "allocproc", "kill", "wait_scan"},
         pc'[p] \in {"user", "allocproc", "kill", "wait_acquire", "exit_acquire"},
         pc'[p] = "exit_acquire" => p # initproc,
         wait_lock' = IF pc[p] = "wait_scan" THEN NoCpu ELSE wait_lock
  PROVE  ProcInv'
  <1>1. ChildrenOf(p)' /\ SeenBy(p)'
    BY DEF ChildrenOf, SeenBy, WaitPc
  <1> QED BY <1>1, CallStep DEF WaitPc
-----------------------------------------------------------------------------
\* fork(), wait(), kill() and exit() are called.
LEMMA UserCallProc ==
  ASSUME NEW c \in Cpu, NEW p \in Slot, ProcInv, TableInv', UserCall(c, p)
  PROVE  ProcInv'
  <1> USE DEF procVars
  <1>0. TypeOK
    BY DEF ProcInv, TableInv
  <1>1. CASE ForkCall(c, p)
    <2>1. Others(p) /\ pc'[p] = "allocproc"
      BY <1>0, <1>1, Moves DEF ForkCall
    <2> QED BY <1>1, <2>1, OuterStep DEF ForkCall
  <1>2. CASE WaitCall(c, p)
    <2>1. Others(p) /\ pc'[p] = "wait_acquire"
      BY <1>0, <1>2, Moves DEF WaitCall
    <2> QED BY <1>2, <2>1, OuterStep DEF WaitCall
  <1>3. CASE KillCall(c, p)
    <2>1. \A q \in Slot \ {p} : arg'[q] = arg[q]
      BY <1>0, <1>3 DEF KillCall, TypeOK
    <2>2. Others(p) /\ pc'[p] = "kill"
      BY <1>0, <1>3, <2>1, Moves DEF KillCall
    <2> QED BY <1>3, <2>2, OuterStep DEF KillCall
  <1>4. CASE ExitCall(c, p)
    <2>1. \A q \in Slot \ {p} : arg'[q] = arg[q]
      BY <1>0, <1>4 DEF ExitCall, TypeOK
    <2>2. Others(p) /\ pc'[p] = "exit_acquire"
      BY <1>0, <1>4, <2>1, Moves DEF ExitCall
    <2> QED BY <1>4, <2>2, OuterStep DEF ExitCall
  <1> QED BY <1>1, <1>2, <1>3, <1>4 DEF UserCall

\* A return from a system call.
LEMMA Returns ==
  ASSUME TypeOK, NEW p \in Slot, Return(p)
  PROVE  Others(p) /\ pc'[p] = "user"
  <1>1. \A q \in Slot \ {p} : arg'[q] = arg[q]
    BY DEF Return, TypeOK
  <1> QED BY <1>1, Moves DEF Return

\* allocproc() passes over a slot, or has found none.
LEMMA AllocProcLoop ==
  ASSUME NEW c \in Cpu, NEW p \in Slot, ProcInv, TableInv', AllocProcSkip(c, p) \/ AllocProcFull(c, p)
  PROVE  ProcInv'
  <1> USE DEF procVars
  <1>0. TypeOK
    BY DEF ProcInv, TableInv
  <1>1. CASE AllocProcSkip(c, p)
    <2>1. Others(p) /\ pc'[p] = "allocproc"
      BY <1>0, <1>1, Advances DEF AllocProcSkip
    <2> QED BY <1>1, <2>1, OuterStep DEF AllocProcSkip
  <1>2. CASE AllocProcFull(c, p)
    <2>1. Others(p) /\ pc'[p] = "user"
      BY <1>0, <1>2, Returns DEF AllocProcFull
    <2> QED BY <1>2, <2>1, OuterStep DEF AllocProcFull
  <1> QED BY <1>1, <1>2

\* kill() wakes its victim, passes over a slot, or has found nobody.
LEMMA KillLoop ==
  ASSUME NEW c \in Cpu, NEW p \in Slot, ProcInv, TableInv',
         KillVictim(c, p) \/ KillSkip(c, p) \/ KillNone(c, p)
  PROVE  ProcInv'
  <1> USE DEF procVars
  <1>0. TypeOK
    BY DEF ProcInv, TableInv
  <1>1. CASE KillVictim(c, p)
    <2>1. Others(p) /\ pc'[p] = "user"
      BY <1>0, <1>1, Returns DEF KillVictim
    <2>2. \A q \in Slot : state'[q] = state[q] \/ (state[q] = "SLEEPING" /\ state'[q] = "RUNNABLE")
      BY <1>0, <1>1 DEF KillVictim, TypeOK
    <2> QED BY <1>1, <2>1, <2>2, OuterStep DEF KillVictim
  <1>2. CASE KillSkip(c, p)
    <2>1. Others(p) /\ pc'[p] = "kill"
      BY <1>0, <1>2, Advances DEF KillSkip
    <2> QED BY <1>2, <2>1, OuterStep DEF KillSkip
  <1>3. CASE KillNone(c, p)
    <2>1. Others(p) /\ pc'[p] = "user"
      BY <1>0, <1>3, Returns DEF KillNone
    <2> QED BY <1>3, <2>1, OuterStep DEF KillNone
  <1> QED BY <1>1, <1>2, <1>3

\* wait() gives up.
LEMMA WaitGivesUp ==
  ASSUME NEW c \in Cpu, NEW p \in Slot, ProcInv, TableInv', WaitCopyFail(c, p) \/ WaitFail(c, p)
  PROVE  ProcInv'
  <1>1. Others(p) /\ pc'[p] = "user"
    BY Returns DEF ProcInv, TableInv, WaitCopyFail, WaitFail
  <1> QED BY <1>1, OuterStep DEF WaitCopyFail, WaitFail, procVars
-----------------------------------------------------------------------------
\* Who is in sleep() with p->lock holds it.
LEMMA Unlocked ==
  ASSUME TableInv, HolderInv, NEW q \in Slot, plock[q] = NoCpu
  PROVE  pc[q] # "sleep_sched"
  <1> SUFFICES ASSUME pc[q] = "sleep_sched" PROVE FALSE
    OBVIOUS
  <1>1. PICK d \in Cpu : Runs(d, q)
    BY DEF HolderInv, LockPc
  <1> QED BY <1>1, Holds, ProcAssumption, SMTT(30)

\* wait() takes wait_lock and has looked at no slot yet.
LEMMA WaitAcquireProc ==
  ASSUME NEW c \in Cpu, NEW p \in Slot, ProcInv, TableInv', WaitAcquire(c, p)
  PROVE  ProcInv'
  <1>1. Others(p) /\ pc'[p] = "wait_scan" /\ idx'[p] = 1
    BY Moves DEF ProcInv, TableInv, WaitAcquire
  <1>2. ChildrenOf(p)' /\ SeenBy(p)'
    BY <1>1, SMTT(30) DEF ChildrenOf, SeenBy, WaitPc, Slot
  <1> QED BY <1>1, <1>2, CallStep DEF WaitAcquire, WaitPc, procVars

\* wait() passes over a slot that is no zombie child.
LEMMA WaitSkipProc ==
  ASSUME NEW c \in Cpu, NEW p \in Slot, ProcInv, TableInv', WaitSkip(c, p)
  PROVE  ProcInv'
  <1> USE DEF procVars
  <1>0. TableInv /\ HolderInv /\ TypeOK /\ SeenBy(p)
    BY DEF ProcInv, TableInv, WaitInv
  <1>1. Others(p) /\ pc'[p] = "wait_scan" /\ idx'[p] = idx[p] + 1
    BY <1>0, Advances DEF WaitSkip
  <1>2. ASSUME NEW np \in Slot, np < idx'[p] PROVE ~Reapable(p, np)'
    <2>1. np < idx[p] \/ np = idx[p]
      BY <1>1, <1>2, SMTT(30) DEF WaitSkip, Slot
    <2> QED BY <1>0, <2>1 DEF WaitSkip, SeenBy, Reapable
  <1>3. ChildrenOf(p)' /\ SeenBy(p)'
    BY <1>1, <1>2 DEF ChildrenOf, SeenBy, WaitPc
  <1>4. wait_lock = c
    BY <1>0, Holds DEF WaitSkip, WaitPc
  <1> QED BY <1>1, <1>3, <1>4, CallStep DEF WaitSkip, WaitPc

\* wait() has looked at every slot and found nothing to reap.
LEMMA WaitSleepProc ==
  ASSUME NEW c \in Cpu, NEW p \in Slot, ProcInv, TableInv', WaitSleep(c, p)
  PROVE  ProcInv'
  <1> USE DEF procVars
  <1>0. TableInv /\ HolderInv /\ TypeOK /\ SeenBy(p)
    BY DEF ProcInv, TableInv, WaitInv
  <1>1. Others(p) /\ pc'[p] = "sleep_acquire"
    BY <1>0, Moves DEF WaitSleep
  <1>2. \A np \in Slot : np < idx[p]
    BY <1>0, PastEnd DEF WaitSleep, TypeOK
  <1>3. \A np \in Slot : ~Reapable(p, np)'
    BY <1>0, <1>2 DEF WaitSleep, SeenBy, Reapable
  <1>4. ChildrenOf(p)' /\ SeenBy(p)'
    BY <1>1, <1>3 DEF ChildrenOf, SeenBy, WaitPc
  <1>5. wait_lock = c
    BY <1>0, Holds DEF WaitSleep, WaitPc
  <1> QED BY <1>1, <1>4, <1>5, CallStep DEF WaitSleep, WaitPc

\* exit() takes wait_lock and has reparented nobody yet.
LEMMA ExitAcquireProc ==
  ASSUME NEW c \in Cpu, NEW p \in Slot, ProcInv, TableInv', ExitAcquire(c, p)
  PROVE  ProcInv'
  <1>1. Others(p) /\ pc'[p] = "reparent" /\ idx'[p] = 1 /\ widx'[p] = 1
    BY Moves DEF ProcInv, TableInv, ExitAcquire
  <1>2. p # initproc
    BY DEF ProcInv, FamilyInv, ChildrenOf, ExitAcquire
  <1>3. ChildrenOf(p)' /\ SeenBy(p)'
    BY <1>1, <1>2, SMTT(30) DEF ChildrenOf, SeenBy, WaitPc, Slot
  <1> QED BY <1>1, <1>3, CallStep DEF ExitAcquire, WaitPc, procVars

\* reparent() passes over a slot that is no child.
LEMMA ReparentSkipProc ==
  ASSUME NEW c \in Cpu, NEW p \in Slot, ProcInv, TableInv', ReparentSkip(c, p)
  PROVE  ProcInv'
  <1> USE DEF procVars
  <1>0. TableInv /\ HolderInv /\ TypeOK /\ ChildrenOf(p) /\ SeenBy(p)
    BY DEF ProcInv, TableInv, FamilyInv, WaitInv
  <1>1. Others(p) /\ pc'[p] = "reparent" /\ idx'[p] = idx[p] + 1 /\ widx'[p] = widx[p]
    BY <1>0, Advances DEF ReparentSkip
  <1>2. ASSUME NEW np \in Slot, np < idx'[p] PROVE parent'[np] # p
    <2>1. np < idx[p] \/ np = idx[p]
      BY <1>1, <1>2, SMTT(30) DEF ReparentSkip, Slot
    <2> QED BY <1>0, <2>1 DEF ReparentSkip, ChildrenOf
  <1>3. ChildrenOf(p)'
    BY <1>0, <1>1, <1>2 DEF ChildrenOf, ReparentSkip, WaitPc
  <1>4. SeenBy(p)'
    BY <1>0, <1>1 DEF SeenBy, ReparentSkip
  <1>5. wait_lock = c
    BY <1>0, Holds DEF ReparentSkip, WaitPc
  <1> QED BY <1>1, <1>3, <1>4, <1>5, CallStep DEF ReparentSkip, WaitPc

\* reparent() has left p without children, and exit() is about to wake its
\* parent.
LEMMA ReparentDoneProc ==
  ASSUME NEW c \in Cpu, NEW p \in Slot, ProcInv, TableInv', ReparentDone(c, p)
  PROVE  ProcInv'
  <1> USE DEF procVars
  <1>0. TableInv /\ HolderInv /\ TypeOK /\ ChildrenOf(p)
    BY DEF ProcInv, TableInv, FamilyInv
  <1>1. Others(p) /\ pc'[p] = "wakeup_parent" /\ widx'[p] = 1
    BY <1>0, Moves DEF ReparentDone
  <1>2. \A np \in Slot : np < idx[p]
    BY <1>0, PastEnd DEF ReparentDone, TypeOK
  <1>3. ChildrenOf(p)'
    BY <1>0, <1>1, <1>2 DEF ReparentDone, ChildrenOf, WaitPc
  <1>4. SeenBy(p)'
    BY <1>1, SMTT(30) DEF SeenBy, Slot
  <1>5. wait_lock = c
    BY <1>0, Holds DEF ReparentDone, WaitPc
  <1> QED BY <1>1, <1>3, <1>4, <1>5, CallStep DEF ReparentDone, WaitPc

\* wakeup() looks at one slot: whoever it passes no longer sleeps in wait().
LEMMA WakeupSlotProc ==
  ASSUME NEW c \in Cpu, NEW p \in Slot, ProcInv, TableInv', WakeupSlot(c, p)
  PROVE  ProcInv'
  <1>0. TableInv /\ HolderInv /\ TypeOK /\ ChildrenOf(p) /\ SeenBy(p)
    BY DEF ProcInv, TableInv, FamilyInv, WaitInv
  <1>1. /\ Others(p) /\ pc' = pc /\ idx' = idx /\ arg' = arg /\ widx'[p] = widx[p] + 1
        /\ UNCHANGED <<chan, parent, ctx, plock, cpuVars, wait_lock>>
    BY <1>0 DEF WakeupSlot, Others, TypeOK
  <1>2. \A q \in Slot : state'[q] = state[q] \/ (state[q] = "SLEEPING" /\ state'[q] = "RUNNABLE")
    BY <1>0 DEF WakeupSlot, SleepsOn, TypeOK
  <1>3. Runs(c, p) /\ pc[p] \in {"wakeup_init", "wakeup_parent"} /\ widx[p] \in Slot
    BY DEF WakeupSlot
  <1>4. state[p] = "RUNNING" /\ wait_lock = c
    BY <1>0, <1>3, Holds DEF WaitPc
  <1>5. ASSUME NEW q \in Slot, q = IF pc[p] = "wakeup_init" THEN initproc ELSE parent[p], widx[p] = q
        PROVE  ~Dozing(q)'
    <2>1. CASE q = p
      BY <1>1, <1>2, <1>3, <1>4, <2>1 DEF Dozing
    <2>2. CASE q # p
      <3>1. plock[q] = NoCpu
        BY <1>5, <2>2 DEF WakeupSlot
      <3>2. pc[q] # "sleep_sched"
        BY <1>0, <3>1, Unlocked
      <3>3. ~(state'[q] = "SLEEPING" /\ chan[q] = q)
        BY <1>0, <1>5, <2>2 DEF WakeupSlot, SleepsOn, TypeOK
      <3> QED BY <1>1, <3>2, <3>3 DEF Dozing
    <2> QED BY <2>1, <2>2
  <1>6. ChildrenOf(p)'
    BY <1>0, <1>1 DEF ChildrenOf
  <1>7. SeenBy(p)'
    <2>1. ASSUME NEW q \in Slot, parent[p] = q, pc[p] = "wakeup_parent", q < widx'[p]
          PROVE  ~Dozing(q)'
      <3>1. q < widx[p] \/ q = widx[p]
        BY <1>1, <1>3, <2>1, SMTT(30) DEF Slot
      <3>2. CASE q < widx[p]
        <4>1. ~Dozing(q)
          BY <1>0, <2>1, <3>2 DEF SeenBy
        <4> QED BY <1>1, <1>2, <4>1 DEF Dozing
      <3>3. CASE q = widx[p]
        BY <1>5, <2>1, <3>3
      <3> QED BY <3>1, <3>2, <3>3
    <2> QED BY <1>1, <1>3, <2>1 DEF SeenBy
  <1>8. ASSUME pc[p] = "wakeup_init", widx[p] <= initproc PROVE ~Dozing(initproc)'
    <2>1. widx[p] = initproc
      BY <1>3, <1>8, SMTT(30) DEF initproc, Slot
    <2> QED BY <1>3, <1>5, <1>8, <2>1
  <1> QED BY <1>1, <1>2, <1>3, <1>4, <1>6, <1>7, <1>8, CallStep DEF WaitPc

\* wakeup() has looked at every slot.
LEMMA WakeupDoneProc ==
  ASSUME NEW c \in Cpu, NEW p \in Slot, ProcInv, TableInv', WakeupDone(c, p)
  PROVE  ProcInv'
  <1> USE DEF procVars
  <1>0. TableInv /\ HolderInv /\ TypeOK /\ ChildrenOf(p) /\ SeenBy(p)
    BY DEF ProcInv, TableInv, FamilyInv, WaitInv
  <1>1. /\ Others(p) /\ idx' = idx /\ arg' = arg /\ widx'[p] = 1
        /\ pc'[p] = IF pc[p] = "wakeup_init" THEN "reparent" ELSE "exit_zombie"
    BY <1>0 DEF WakeupDone, Others, TypeOK
  <1>2. \A q \in Slot : q < widx[p]
    BY <1>0, PastEnd DEF WakeupDone, TypeOK
  <1>3. ChildrenOf(p)'
    BY <1>0, <1>1, SMTT(30) DEF WakeupDone, ChildrenOf, WaitPc
  <1>4. ASSUME NEW q \in Slot, parent[p] = q, pc[p] = "wakeup_parent" PROVE ~Dozing(q)'
    <2>1. ~Dozing(q)
      BY <1>0, <1>2, <1>4 DEF SeenBy
    <2>2. pc'[q] = "sleep_sched" => pc[q] = "sleep_sched"
      BY <1>1 DEF Others
    <2> QED BY <2>1, <2>2 DEF Dozing, WakeupDone
  <1>5. SeenBy(p)'
    BY <1>1, <1>4, SMTT(30) DEF WakeupDone, SeenBy
  <1>6. wait_lock = c
    BY <1>0, Holds DEF WakeupDone, WaitPc
  <1>7. ~(widx[p] <= initproc)
    BY <1>0, <1>2, SlotFacts, SMTT(30) DEF TypeOK, Cursor, initproc
  <1> QED BY <1>1, <1>3, <1>5, <1>6, <1>7, CallStep, SMTT(30) DEF WakeupDone, WaitPc
-----------------------------------------------------------------------------
\* A step of scheduler(), swtch() or yield() moves no kernel thread and changes
\* no parent; it is nobody's birth, death or sleep.
LEMMA ThreadsStay ==
  ASSUME ProcInv, TypeOK', UNCHANGED <<parent, localVars>>,
         \A q \in Slot : state'[q] = state[q] \/ (state[q] \in Live /\ state'[q] \in {"RUNNING", "RUNNABLE"}),
         \A q \in Slot : chan'[q] = chan[q] \/ state'[q] # "SLEEPING"
  PROVE  FamilyInv' /\ WaitInv'
  <1>0. /\ TableInv /\ FamilyInv /\ WaitInv /\ initproc \in Slot
        /\ ChildrenOf(initproc) /\ SeenBy(initproc)
    BY SlotFacts DEF ProcInv, FamilyInv, WaitInv
  <1>1. Others(initproc)
    BY DEF Others, localVars
  <1>2. \A q, np \in Slot : Reapable(q, np)' => Reapable(q, np)
    BY DEF Reapable
  <1>3. \A q \in Slot : Dozing(q)' => Dozing(q)
    BY DEF Dozing, localVars
  <1>4. ChildrenOf(initproc)'
    BY <1>0 DEF ChildrenOf, localVars
  <1>5. SeenBy(initproc)'
    BY <1>0, <1>2, <1>3 DEF SeenBy, localVars
  <1>6. FamilyInv'
    BY <1>0, <1>1, <1>4, FamilyStep DEF Live
  <1>7. WaitInv'
    BY <1>0, <1>1, <1>2, <1>3, <1>5, WaitStep DEF localVars
  <1> QED BY <1>6, <1>7

\* scheduler() switches to a RUNNABLE process with its lock held.
LEMMA SchedulerSwitchProc ==
  ASSUME NEW c \in Cpu, ProcInv, TableInv', SchedulerSwitch(c)
  PROVE  ProcInv'
  <1> DEFINE p == scan[c]
  <1>0. TableInv /\ HolderInv /\ TypeOK /\ TypeOK'
    BY DEF ProcInv, TableInv
  <1>1. p \in Slot /\ ctx[p] # "none" /\ plock[p] = NoCpu /\ where[c] = "scheduler"
    BY <1>0 DEF SchedulerSwitch, Acquire, TypeOK, TableInv, ContextInv
  <1>2. /\ cproc' = [cproc EXCEPT ![c] = p] /\ where' = [where EXCEPT ![c] = "process"]
        /\ plock' = [plock EXCEPT ![p] = c]
        /\ UNCHANGED <<ctx, pc, arg, wait_lock>>
    BY DEF SchedulerSwitch, Acquire, localVars
  <1> HIDE DEF p
  <1>3. \A q \in Slot : plock[q] # c
    BY <1>0, <1>1, SMTT(30) DEF HolderInv, LockOf, OnStack, Runs
  <1>4. /\ cproc'[c] = p /\ where'[c] = "process"
        /\ \A d \in Cpu \ {c} : where'[d] = where[d] /\ cproc'[d] = cproc[d]
    BY <1>0, <1>2, Arrays
  <1>5. /\ \A q \in Slot : plock'[q] = c <=> q = p
        /\ \A d \in Cpu \ {c}, q \in Slot : plock'[q] = d <=> plock[q] = d
    BY <1>0, <1>1, <1>2, <1>3, Arrays, ProcAssumption
  <1>6. HolderInv'
    BY <1>0, <1>1, <1>2, <1>4, <1>5, CpuStep, SMTT(30)
  <1>7. FamilyInv' /\ WaitInv'
    <2>1. \A q \in Slot : state'[q] = state[q] \/ (state[q] \in Live /\ state'[q] \in {"RUNNING", "RUNNABLE"})
      BY <1>0, Arrays DEF SchedulerSwitch, Live
    <2>2. UNCHANGED <<parent, chan, localVars>>
      BY DEF SchedulerSwitch
    <2> QED BY <1>0, <2>1, <2>2, ThreadsStay
  <1> QED BY <1>6, <1>7 DEF ProcInv

\* scheduler() passes over a slot.
LEMMA SchedulerSkipProc ==
  ASSUME NEW c \in Cpu, ProcInv, TableInv', SchedulerSkip(c)
  PROVE  ProcInv'
  <1>1. UNCHANGED <<procVars, plock, wait_lock, cproc, where, localVars>>
    BY DEF SchedulerSkip
  <1>2. HolderInv'
    BY <1>1, HolderSame DEF ProcInv, procVars, localVars
  <1>3. FamilyInv' /\ WaitInv'
    BY <1>1, ThreadsStay DEF procVars, TableInv
  <1> QED BY <1>2, <1>3 DEF ProcInv

\* scheduler() is back from swtch() and releases the lock of the process it ran.
LEMMA SchedulerBackProc ==
  ASSUME NEW c \in Cpu, ProcInv, TableInv', SchedulerBack(c)
  PROVE  ProcInv'
  <1> DEFINE p == scan[c]
  <1>0. TableInv /\ HolderInv /\ TypeOK /\ TypeOK'
    BY DEF ProcInv, TableInv
  <1>1. p \in Slot /\ cproc[c] = p /\ where[c] = "back"
    BY <1>0 DEF SchedulerBack, TableInv, StackInv
  <1>2. /\ cproc' = [cproc EXCEPT ![c] = NoSlot] /\ where' = [where EXCEPT ![c] = "scheduler"]
        /\ plock' = [plock EXCEPT ![p] = NoCpu]
        /\ UNCHANGED <<ctx, pc, arg, wait_lock, state, parent, chan, localVars>>
    BY DEF SchedulerBack, procVars, localVars
  <1> HIDE DEF p
  <1>3. \A q \in Slot : plock[q] = c <=> q = p
    BY <1>0, <1>1, SMTT(30) DEF HolderInv, LockOf, OnStack, Runs
  <1>4. where'[c] = "scheduler" /\ \A d \in Cpu \ {c} : where'[d] = where[d] /\ cproc'[d] = cproc[d]
    BY <1>0, <1>2, Arrays
  <1>5. /\ \A q \in Slot : plock'[q] # c
        /\ \A d \in Cpu \ {c}, q \in Slot : plock'[q] = d <=> plock[q] = d
    BY <1>0, <1>1, <1>2, <1>3, Arrays, ProcAssumption, SMTT(30)
  <1>6. HolderInv'
    BY <1>0, <1>1, <1>2, <1>4, <1>5, CpuStep
  <1>7. FamilyInv' /\ WaitInv'
    BY <1>0, <1>2, ThreadsStay
  <1> QED BY <1>6, <1>7 DEF ProcInv

\* A process comes out of swtch() and releases its lock: it left from no place
\* where it held another.
LEMMA ResumeProc ==
  ASSUME NEW c \in Cpu, ProcInv, TableInv', Resume(c)
  PROVE  ProcInv'
  <1> DEFINE p == cproc[c]
  <1>0. TableInv /\ HolderInv /\ TypeOK /\ TypeOK'
    BY DEF ProcInv, TableInv
  <1>1. p \in Slot /\ where[c] = "process" /\ ctx[p] # "none" /\ state[p] = "RUNNING"
    BY <1>0 DEF Resume, TypeOK, TableInv, StackInv
  <1>2. /\ ctx' = [ctx EXCEPT ![p] = "none"] /\ plock' = [plock EXCEPT ![p] = NoCpu]
        /\ UNCHANGED <<state, parent, wait_lock, cproc, where, localVars>>
        /\ chan' = chan \/ chan' = [chan EXCEPT ![p] = NoSlot]
    BY DEF Resume, cpuVars
  <1>3. OnStack(c, p)
    BY <1>1 DEF OnStack
  <1> HIDE DEF p
  <1>4. pc[p] \notin LockPc
    BY <1>0, <1>1 DEF HolderInv, Runs
  <1>5. wait_lock # c /\ \A q \in Slot : plock[q] = c <=> q = p
    <2>1. cproc[c] = p /\ ~Runs(c, p)
      BY <1>1, <1>3 DEF Runs, OnStack
    <2>2. \A q \in Slot : LockOf(c, q) <=> q = p
      BY <1>1, <1>3, <2>1 DEF LockOf, OnStack
    <2> QED BY <1>0, <2>1, <2>2 DEF HolderInv
  <1>6. Others(p) /\ pc' = pc
    BY <1>2 DEF Others, localVars
  <1>7. /\ \A d \in Cpu \ {c}, q \in Slot : plock'[q] = d <=> plock[q] = d
        /\ \A q \in Slot : plock'[q] # c
    BY <1>0, <1>1, <1>2, <1>5, Arrays, ProcAssumption, SMTT(30)
  <1>8. ctx'[p] = "none" /\ \A q \in Slot \ {p} : ctx'[q] = ctx[q]
    BY <1>0, <1>1, <1>2, Arrays
  <1>9. HolderInv'
    <2>1. pc'[p] \notin WaitPc /\ pc'[p] \notin {"sleep_sched", "fork_copy"} /\ where'[c] = "process"
      BY <1>1, <1>2, <1>4, <1>6 DEF LockPc
    <2>2. wait_lock' = c <=> Runs(c, p)' /\ pc'[p] \in WaitPc
      BY <1>2, <1>5, <2>1
    <2>3. \A q \in Slot : plock'[q] = c <=>
             \/ q = p /\ (where'[c] = "back" \/ ctx'[p] # "none" \/ pc'[p] = "sleep_sched")
             \/ Runs(c, p)' /\ pc'[p] = "fork_copy" /\ arg'[p] = q
      BY <1>7, <1>8, <2>1
    <2>4. cproc' = cproc /\ where' = where /\ wait_lock' = wait_lock /\ pc'[p] \notin LockPc
      BY <1>2, <1>4, <1>6
    <2> QED BY <1>0, <1>1, <1>3, <1>6, <1>7, <1>8, <2>1, <2>2, <2>3, <2>4, HolderStep
  <1>10. \A q \in Slot : chan'[q] = chan[q] \/ state'[q] # "SLEEPING"
    BY <1>0, <1>1, <1>2, Arrays
  <1>11. FamilyInv' /\ WaitInv'
    BY <1>0, <1>2, <1>10, ThreadsStay
  <1> QED BY <1>9, <1>11 DEF ProcInv

\* yield() leaves from a place where interrupts are on, hence with no lock but
\* its own.
LEMMA YieldProc ==
  ASSUME NEW c \in Cpu, NEW p \in Slot, ProcInv, TableInv', Yield(c, p)
  PROVE  ProcInv'
  <1>0. TableInv /\ HolderInv /\ TypeOK /\ TypeOK'
    BY DEF ProcInv, TableInv
  <1>1. Runs(c, p) /\ OnStack(c, p) /\ plock[p] = NoCpu
    BY DEF Yield, Runs, OnStack, Acquire
  <1>2. /\ ctx' = [ctx EXCEPT ![p] = "yield"] /\ plock' = [plock EXCEPT ![p] = c]
        /\ where' = [where EXCEPT ![c] = "back"] /\ state' = [state EXCEPT ![p] = "RUNNABLE"]
        /\ UNCHANGED <<parent, chan, wait_lock, cproc, localVars>>
    BY DEF Yield, Acquire, Sched
  <1>3. wait_lock # c /\ \A q \in Slot : plock[q] # c
    BY DEF Yield, InterruptsOn, Held
  <1>4. pc[p] \notin LockPc
    <2>1. pc[p] = "fork_copy" => arg[p] \in Slot
      BY <1>0 DEF TableInv, ForkInv, Forking
    <2> QED BY <1>0, <1>1, <1>3, <2>1, Holds, SMTT(30) DEF LockPc
  <1>5. Others(p) /\ pc' = pc
    BY <1>2 DEF Others, localVars
  <1>6. /\ \A d \in Cpu \ {c}, q \in Slot : plock'[q] = d <=> plock[q] = d
        /\ \A q \in Slot : plock'[q] = c <=> q = p
    BY <1>0, <1>1, <1>2, <1>3, Arrays, ProcAssumption
  <1>7. \A q \in Slot \ {p} : ctx'[q] = ctx[q]
    BY <1>0, <1>2, Arrays
  <1>8. HolderInv'
    BY <1>0, <1>1, <1>2, <1>3, <1>4, <1>5, <1>6, <1>7, HolderLeaves
  <1>9. \A q \in Slot : state'[q] = state[q] \/ (state[q] \in Live /\ state'[q] \in {"RUNNING", "RUNNABLE"})
    <2>1. state[p] = "RUNNING"
      BY <1>0, <1>1, Holds
    <2> QED BY <1>0, <1>2, <2>1, Arrays DEF Live
  <1>10. FamilyInv' /\ WaitInv'
    BY <1>0, <1>2, <1>9, ThreadsStay
  <1> QED BY <1>8, <1>10 DEF ProcInv
-----------------------------------------------------------------------------
\* allocproc() claims a slot and returns with its lock held.
LEMMA AllocProcProc ==
  ASSUME NEW c \in Cpu, NEW p \in Slot, ProcInv, TableInv', AllocProc(c, p)
  PROVE  ProcInv'
  <1> DEFINE np == idx[p]
  <1>0. TableInv /\ HolderInv /\ FamilyInv /\ WaitInv /\ TypeOK /\ TypeOK'
    BY DEF ProcInv, TableInv
  <1>1. Runs(c, p) /\ pc[p] = "allocproc" /\ np \in Slot /\ state[np] = "UNUSED" /\ plock[np] = NoCpu
    BY DEF AllocProc, Acquire
  <1>2. /\ ctx' = [ctx EXCEPT ![np] = "forkret"] /\ plock' = [plock EXCEPT ![np] = c]
        /\ state' = [state EXCEPT ![np] = "USED"] /\ arg' = [arg EXCEPT ![p] = np]
        /\ UNCHANGED <<parent, chan, wait_lock, cpuVars>>
    BY DEF AllocProc, Acquire
  <1>3. Others(p) /\ pc'[p] = "fork_copy"
    <2>1. \A q \in Slot \ {p} : arg'[q] = arg[q]
      BY <1>0, <1>2, Arrays
    <2> QED BY <1>0, <2>1, Moves DEF AllocProc
  <1> HIDE DEF np
  <1>4. wait_lock # c /\ state[p] = "RUNNING" /\ \A q \in Slot : plock[q] # c
    BY <1>0, <1>1, OutOfSections DEF LockPc, WaitPc
  <1>5. HolderInv'
    <2>1. arg'[p] = np /\ ctx'[p] = "none" /\ \A q \in Slot \ {p} : ctx'[q] = ctx[q] \/ state[q] = "UNUSED"
      BY <1>0, <1>1, <1>2, <1>4, Arrays DEF Runs
    <2>2. /\ \A q \in Slot : plock'[q] = c <=> q = np
          /\ \A d \in Cpu \ {c}, q \in Slot : plock'[q] = d <=> plock[q] = d
      BY <1>0, <1>1, <1>2, <1>4, Arrays, ProcAssumption
    <2>3. wait_lock' = c <=> pc'[p] \in WaitPc
      BY <1>2, <1>3, <1>4 DEF WaitPc
    <2> QED BY <1>0, <1>1, <1>2, <1>3, <2>1, <2>2, <2>3, HolderStays, SMTT(30)
  <1>6. ChildrenOf(p)' /\ SeenBy(p)'
    BY <1>3, OuterSays DEF Outer
  <1>7. FamilyInv'
    <2>1. \A q \in Slot : state'[q] = state[q] \/ (state[q] = "UNUSED" /\ state'[q] = "USED")
      BY <1>0, <1>1, <1>2, Arrays
    <2> QED BY <1>0, <1>2, <1>3, <1>6, <2>1, FamilyStep DEF Live
  <1>8. WaitInv'
    <2>1. \A q \in Slot : state'[q] = state[q] \/ state'[q] = "USED"
      BY <1>0, <1>1, <1>2, Arrays
    <2>2. \A q, r \in Slot : Reapable(q, r)' => Reapable(q, r)
      BY <1>2, <2>1 DEF Reapable
    <2>3. \A q \in Slot : Dozing(q)' => Dozing(q)
      BY <1>2, <1>3, <2>1 DEF Dozing, Others
    <2> QED BY <1>0, <1>1, <1>2, <1>3, <1>6, <2>2, <2>3, WaitStep
  <1> QED BY <1>5, <1>7, <1>8 DEF ProcInv

\* What fork() knows of the slot it fills.
LEMMA Filling ==
  ASSUME TableInv, NEW p \in Slot, Forking(p)
  PROVE  /\ arg[p] \in Slot /\ state[arg[p]] = "USED" /\ pc[arg[p]] = "user"
         /\ \A q \in Slot \ {p} : pc[q] = "fork_run" => arg[q] # arg[p]
  BY DEF TableInv, ContextInv, ForkInv, Forking

\* fork() frees the slot it could not fill and releases its lock.
LEMMA ForkNoMemoryProc ==
  ASSUME NEW c \in Cpu, NEW p \in Slot, ProcInv, TableInv', ForkNoMemory(c, p)
  PROVE  ProcInv'
  <1> DEFINE np == arg[p]
  <1>0. TableInv /\ HolderInv /\ FamilyInv /\ WaitInv /\ TypeOK /\ TypeOK'
    BY DEF ProcInv, TableInv
  <1>1. Runs(c, p) /\ pc[p] = "fork_copy"
    BY DEF ForkNoMemory
  <1>2. /\ plock' = [plock EXCEPT ![np] = NoCpu] /\ state' = [state EXCEPT ![np] = "UNUSED"]
        /\ parent' = [parent EXCEPT ![np] = NoSlot] /\ chan' = [chan EXCEPT ![np] = NoSlot]
        /\ UNCHANGED <<ctx, wait_lock, cpuVars>>
    BY DEF ForkNoMemory, FreeProc
  <1>3. Others(p) /\ pc'[p] = "user"
    BY <1>0, Returns DEF ForkNoMemory
  <1>4. /\ np \in Slot /\ state[np] = "USED" /\ pc[np] = "user"
        /\ \A q \in Slot \ {p} : pc[q] = "fork_run" => arg[q] # np
    BY <1>0, <1>1, Filling DEF Forking
  <1>5. wait_lock # c /\ \A q \in Slot : plock[q] = c <=> q = np
    BY <1>0, <1>1, Holds, SMTT(30) DEF WaitPc
  <1>6. ASSUME NEW q \in Slot \ {p}, pc[q] = "fork_run" PROVE arg[q] \in Slot
    BY <1>0, <1>6, Filling DEF Forking
  <1> HIDE DEF np
  <1>7. HolderInv'
    <2>1. /\ \A q \in Slot : plock'[q] # c
          /\ \A d \in Cpu \ {c}, q \in Slot : plock'[q] = d <=> plock[q] = d
      BY <1>0, <1>2, <1>4, <1>5, Arrays, ProcAssumption
    <2>2. (wait_lock' = c <=> pc'[p] \in WaitPc) /\ ctx'[p] = "none"
      BY <1>1, <1>2, <1>3, <1>5 DEF WaitPc, Runs
    <2> QED BY <1>0, <1>1, <1>2, <1>3, <2>1, <2>2, HolderStays
  <1>8. ChildrenOf(p)' /\ SeenBy(p)'
    BY <1>3, OuterSays DEF Outer
  <1>9. \A q \in Slot \ {np} : state'[q] = state[q] /\ parent'[q] = parent[q] /\ chan'[q] = chan[q]
    BY <1>0, <1>2, Arrays
  <1>10. state'[np] = "UNUSED" /\ parent'[np] = NoSlot
    BY <1>0, <1>2, <1>4, Arrays
  <1>11. FamilyInv'
    BY <1>0, <1>3, <1>4, <1>6, <1>8, <1>9, <1>10, FamilyStep DEF Live
  <1>12. WaitInv'
    <2>1. \A q, r \in Slot : Reapable(q, r)' => Reapable(q, r)
      BY <1>9, <1>10 DEF Reapable
    <2>2. \A q \in Slot : Dozing(q)' => Dozing(q)
      BY <1>3, <1>9, <1>10 DEF Dozing, Others
    <2> QED BY <1>0, <1>1, <1>3, <1>4, <1>8, <1>9, <2>1, <2>2, WaitStep
  <1> QED BY <1>7, <1>11, <1>12 DEF ProcInv

\* fork() releases the lock of the slot before it asks for wait_lock.
LEMMA ForkCopyProc ==
  ASSUME NEW c \in Cpu, NEW p \in Slot, ProcInv, TableInv', ForkCopy(c, p)
  PROVE  ProcInv'
  <1> DEFINE np == arg[p]
  <1>0. TableInv /\ HolderInv /\ FamilyInv /\ WaitInv /\ TypeOK /\ TypeOK'
    BY DEF ProcInv, TableInv
  <1>1. Runs(c, p) /\ pc[p] = "fork_copy"
    BY DEF ForkCopy
  <1>2. /\ plock' = [plock EXCEPT ![np] = NoCpu]
        /\ UNCHANGED <<state, parent, chan, ctx, wait_lock, cpuVars, arg>>
    BY DEF ForkCopy, procVars
  <1>3. Others(p) /\ pc'[p] = "fork_parent"
    BY <1>0, Moves DEF ForkCopy
  <1>4. wait_lock # c /\ np \in Slot /\ \A q \in Slot : plock[q] = c <=> q = np
    <2>1. np \in Slot
      BY <1>0, <1>1, Filling DEF Forking
    <2> QED BY <1>0, <1>1, <2>1, Holds, SMTT(30) DEF WaitPc
  <1> HIDE DEF np
  <1>5. HolderInv'
    <2>1. /\ \A q \in Slot : plock'[q] # c
          /\ \A d \in Cpu \ {c}, q \in Slot : plock'[q] = d <=> plock[q] = d
      BY <1>0, <1>2, <1>4, Arrays, ProcAssumption
    <2>2. (wait_lock' = c <=> pc'[p] \in WaitPc) /\ ctx'[p] = "none"
      BY <1>1, <1>2, <1>3, <1>4 DEF WaitPc, Runs
    <2> QED BY <1>0, <1>1, <1>2, <1>3, <2>1, <2>2, HolderStays
  <1>6. ChildrenOf(p)' /\ SeenBy(p)'
    BY <1>3, OuterSays DEF Outer
  <1>7. FamilyInv'
    BY <1>0, <1>2, <1>3, <1>6, FamilyStep
  <1>8. WaitInv'
    <2>1. \A q, r \in Slot : Reapable(q, r)' => Reapable(q, r)
      BY <1>2 DEF Reapable
    <2>2. \A q \in Slot : Dozing(q)' => Dozing(q)
      BY <1>2, <1>3 DEF Dozing, Others
    <2> QED BY <1>0, <1>1, <1>2, <1>3, <1>6, <2>1, <2>2, WaitStep
  <1> QED BY <1>5, <1>7, <1>8 DEF ProcInv

\* fork() makes itself the parent of the slot.
LEMMA ForkParentProc ==
  ASSUME NEW c \in Cpu, NEW p \in Slot, ProcInv, TableInv', ForkParent(c, p)
  PROVE  ProcInv'
  <1> DEFINE np == arg[p]
  <1>0. TableInv /\ HolderInv /\ FamilyInv /\ WaitInv /\ TypeOK /\ TypeOK'
    BY DEF ProcInv, TableInv
  <1>1. Runs(c, p) /\ pc[p] = "fork_parent"
    BY DEF ForkParent
  <1>2. /\ parent' = [parent EXCEPT ![np] = p]
        /\ UNCHANGED <<state, chan, ctx, plock, wait_lock, cpuVars, arg>>
    BY DEF ForkParent
  <1>3. Others(p) /\ pc'[p] = "fork_run"
    BY <1>0, Moves DEF ForkParent
  <1>4. /\ np \in Slot /\ state[np] = "USED" /\ pc[np] = "user"
        /\ \A q \in Slot \ {p} : pc[q] = "fork_run" => arg[q] # np
    BY <1>0, <1>1, Filling DEF Forking
  <1>5. wait_lock # c /\ state[p] = "RUNNING" /\ \A q \in Slot : plock[q] # c
    BY <1>0, <1>1, OutOfSections DEF LockPc, WaitPc
  <1>6. ASSUME NEW q \in Slot \ {p}, pc[q] = "fork_run" PROVE arg[q] \in Slot
    BY <1>0, <1>6, Filling DEF Forking
  <1>7. parent'[np] = p /\ \A q \in Slot \ {np} : parent'[q] = parent[q]
    BY <1>0, <1>2, <1>4, Arrays
  <1>8. ChildrenOf(p)' /\ SeenBy(p)'
    BY <1>2, <1>3, <1>7 DEF ChildrenOf, SeenBy, WaitPc
  <1> HIDE DEF np
  <1>9. HolderInv'
    <2>1. (wait_lock' = c <=> pc'[p] \in WaitPc) /\ ctx'[p] = "none"
      BY <1>1, <1>2, <1>3, <1>5 DEF WaitPc, Runs
    <2> QED BY <1>0, <1>1, <1>2, <1>3, <1>5, <2>1, HolderStays
  <1>10. FamilyInv'
    <2>1. state'[initproc] \in Live
      BY <1>0, <1>2 DEF FamilyInv
    <2>2. ASSUME NEW q \in Slot, parent'[q] # NoSlot PROVE state'[parent'[q]] \in Live
      BY <1>0, <1>2, <1>5, <1>7, <2>2 DEF FamilyInv, Live
    <2>3. ASSUME NEW q \in Slot \ {initproc}, state'[q] \notin {"UNUSED", "USED"} PROVE parent'[q] # NoSlot
      BY <1>0, <1>2, <1>4, <1>7, <2>3 DEF FamilyInv
    <2>4. ASSUME NEW q \in Slot PROVE ChildrenOf(q)'
      <3>1. CASE q = p
        BY <1>8, <3>1
      <3>2. CASE q # p
        <4>1. ChildrenOf(q)
          BY <1>0 DEF FamilyInv
        <4>2. pc[q] = "fork_run" => parent'[arg[q]] = parent[arg[q]]
          BY <1>4, <1>6, <1>7, <3>2
        <4>3. \A r \in Slot : parent[r] # q => parent'[r] # q
          BY <1>7, <3>2
        <4> QED BY <1>3, <3>2, <4>1, <4>2, <4>3 DEF ChildrenOf, Others
      <3> QED BY <3>1, <3>2
    <2> QED BY <2>1, <2>2, <2>3, <2>4 DEF FamilyInv
  <1>11. WaitInv'
    <2>1. \A q, r \in Slot : Reapable(q, r)' => Reapable(q, r)
      BY <1>2, <1>4, <1>7 DEF Reapable
    <2>2. \A q \in Slot : Dozing(q)' => Dozing(q)
      BY <1>2, <1>3 DEF Dozing, Others
    <2> QED BY <1>0, <1>1, <1>3, <1>4, <1>7, <1>8, <2>1, <2>2, WaitStep
  <1> QED BY <1>9, <1>10, <1>11 DEF ProcInv

\* fork() lets the child run; it has a parent by now.
LEMMA ForkRunProc ==
  ASSUME NEW c \in Cpu, NEW p \in Slot, ProcInv, TableInv', ForkRun(c, p)
  PROVE  ProcInv'
  <1> DEFINE np == arg[p]
  <1>0. TableInv /\ HolderInv /\ FamilyInv /\ WaitInv /\ TypeOK /\ TypeOK'
    BY DEF ProcInv, TableInv
  <1>1. Runs(c, p) /\ pc[p] = "fork_run"
    BY DEF ForkRun
  <1>2. /\ state' = [state EXCEPT ![np] = "RUNNABLE"]
        /\ UNCHANGED <<parent, chan, ctx, plock, wait_lock, cpuVars>>
    BY DEF ForkRun
  <1>3. Others(p) /\ pc'[p] = "user"
    BY <1>0, Returns DEF ForkRun
  <1>4. np \in Slot /\ state[np] = "USED" /\ pc[np] = "user"
    BY <1>0, <1>1, Filling DEF Forking
  <1>5. wait_lock # c /\ \A q \in Slot : plock[q] # c
    BY <1>0, <1>1, OutOfSections DEF LockPc, WaitPc
  <1>6. parent[np] = p
    BY <1>0, <1>1 DEF FamilyInv, ChildrenOf
  <1>7. state'[np] = "RUNNABLE" /\ \A q \in Slot \ {np} : state'[q] = state[q]
    BY <1>0, <1>2, <1>4, Arrays
  <1>8. ChildrenOf(p)' /\ SeenBy(p)'
    BY <1>3, OuterSays DEF Outer
  <1> HIDE DEF np
  <1>9. HolderInv'
    <2>1. (wait_lock' = c <=> pc'[p] \in WaitPc) /\ ctx'[p] = "none"
      BY <1>1, <1>2, <1>3, <1>5 DEF WaitPc, Runs
    <2> QED BY <1>0, <1>1, <1>2, <1>3, <1>5, <2>1, HolderStays
  <1>10. FamilyInv'
    <2>1. state'[initproc] \in Live
      BY <1>0, <1>7, SlotFacts DEF FamilyInv, Live
    <2>2. ASSUME NEW q \in Slot, parent'[q] # NoSlot PROVE state'[parent'[q]] \in Live
      <3>1. parent[q] \in Slot /\ state[parent[q]] \in Live
        BY <1>0, <1>2, <2>2 DEF FamilyInv, TypeOK
      <3> QED BY <1>2, <1>7, <3>1 DEF Live
    <2>3. ASSUME NEW q \in Slot \ {initproc}, state'[q] \notin {"UNUSED", "USED"} PROVE parent'[q] # NoSlot
      BY <1>0, <1>2, <1>6, <1>7, <2>3, SlotFacts DEF FamilyInv
    <2>4. ASSUME NEW q \in Slot PROVE ChildrenOf(q)'
      <3>1. CASE q = p
        BY <1>8, <3>1
      <3>2. CASE q # p
        <4>1. ChildrenOf(q)
          BY <1>0 DEF FamilyInv
        <4> QED BY <1>2, <1>3, <3>2, <4>1 DEF ChildrenOf, Others
      <3> QED BY <3>1, <3>2
    <2> QED BY <2>1, <2>2, <2>3, <2>4 DEF FamilyInv
  <1>11. WaitInv'
    <2>1. \A q, r \in Slot : Reapable(q, r)' => Reapable(q, r)
      BY <1>2, <1>7 DEF Reapable
    <2>2. \A q \in Slot : Dozing(q)' => Dozing(q)
      BY <1>2, <1>3, <1>7 DEF Dozing, Others
    <2> QED BY <1>0, <1>1, <1>2, <1>3, <1>8, <2>1, <2>2, WaitStep
  <1> QED BY <1>9, <1>10, <1>11 DEF ProcInv

\* wait() frees a zombie, which is nobody's parent, and releases wait_lock.
LEMMA WaitReapProc ==
  ASSUME NEW c \in Cpu, NEW p \in Slot, ProcInv, TableInv', WaitReap(c, p)
  PROVE  ProcInv'
  <1> DEFINE np == idx[p]
  <1>0. TableInv /\ HolderInv /\ FamilyInv /\ WaitInv /\ TypeOK /\ TypeOK'
    BY DEF ProcInv, TableInv
  <1>1. Runs(c, p) /\ pc[p] = "wait_scan" /\ np \in Slot /\ state[np] = "ZOMBIE"
    BY DEF WaitReap, ZombieChild
  <1>2. /\ state' = [state EXCEPT ![np] = "UNUSED"] /\ parent' = [parent EXCEPT ![np] = NoSlot]
        /\ chan' = [chan EXCEPT ![np] = NoSlot] /\ wait_lock' = NoCpu
        /\ UNCHANGED <<ctx, plock, cpuVars>>
    BY DEF WaitReap, FreeProc
  <1>3. Others(p) /\ pc'[p] = "user"
    BY <1>0, Returns DEF WaitReap
  <1>4. wait_lock = c /\ \A q \in Slot : plock[q] # c
    BY <1>0, <1>1, InSection DEF WaitPc
  <1>5. pc[np] = "user"
    BY <1>0, <1>1 DEF TableInv, ContextInv
  <1>6. ASSUME NEW q \in Slot \ {p}, pc[q] = "fork_run" PROVE arg[q] \in Slot \ {np}
    BY <1>0, <1>1, <1>6, Filling DEF Forking
  <1>7. ChildrenOf(p)' /\ SeenBy(p)'
    BY <1>3, OuterSays DEF Outer
  <1> HIDE DEF np
  <1>8. HolderInv'
    <2>1. (wait_lock' = c <=> pc'[p] \in WaitPc) /\ ctx'[p] = "none"
      BY <1>1, <1>2, <1>3, ProcAssumption DEF WaitPc, Runs
    <2>2. \A d \in Cpu \ {c} : wait_lock' = d <=> wait_lock = d
      BY <1>2, <1>4, ProcAssumption
    <2> QED BY <1>0, <1>1, <1>2, <1>3, <1>4, <2>1, <2>2, HolderStays
  <1>9. \A q \in Slot \ {np} : state'[q] = state[q] /\ parent'[q] = parent[q] /\ chan'[q] = chan[q]
    BY <1>0, <1>2, Arrays
  <1>10. state'[np] = "UNUSED" /\ parent'[np] = NoSlot
    BY <1>0, <1>1, <1>2, Arrays
  <1>11. FamilyInv'
    BY <1>0, <1>1, <1>3, <1>6, <1>7, <1>9, <1>10, FamilyStep DEF Live
  <1>12. WaitInv'
    <2>1. \A q, r \in Slot : Reapable(q, r)' => Reapable(q, r)
      BY <1>9, <1>10 DEF Reapable
    <2>2. \A q \in Slot : Dozing(q)' => Dozing(q)
      BY <1>3, <1>9, <1>10 DEF Dozing, Others
    <2> QED BY <1>0, <1>1, <1>3, <1>5, <1>7, <1>9, <2>1, <2>2, WaitStep
  <1> QED BY <1>8, <1>11, <1>12 DEF ProcInv

\* sleep() takes p->lock and then releases wait_lock: until that moment no
\* child could become a zombie.
LEMMA SleepAcquireProc ==
  ASSUME NEW c \in Cpu, NEW p \in Slot, ProcInv, TableInv', SleepAcquire(c, p)
  PROVE  ProcInv'
  <1>0. TableInv /\ HolderInv /\ FamilyInv /\ WaitInv /\ TypeOK /\ TypeOK' /\ SeenBy(p)
    BY DEF ProcInv, TableInv, WaitInv
  <1>1. Runs(c, p) /\ pc[p] = "sleep_acquire" /\ plock[p] = NoCpu
    BY DEF SleepAcquire, Acquire
  <1>2. /\ plock' = [plock EXCEPT ![p] = c] /\ wait_lock' = NoCpu
        /\ UNCHANGED <<state, parent, chan, ctx, cpuVars, arg>>
    BY DEF SleepAcquire, Acquire, procVars
  <1>3. Others(p) /\ pc'[p] = "sleep_sched"
    BY <1>0, Moves DEF SleepAcquire
  <1>4. wait_lock = c /\ \A q \in Slot : plock[q] # c
    BY <1>0, <1>1, InSection DEF WaitPc
  <1>5. ChildrenOf(p)' /\ SeenBy(p)'
    BY <1>3, OuterSays DEF Outer
  <1>6. HolderInv'
    <2>1. (wait_lock' = c <=> pc'[p] \in WaitPc) /\ ctx'[p] = "none"
      BY <1>1, <1>2, <1>3, ProcAssumption DEF WaitPc, Runs
    <2>2. \A d \in Cpu \ {c} : wait_lock' = d <=> wait_lock = d
      BY <1>2, <1>4, ProcAssumption
    <2>3. \A q \in Slot : plock'[q] = c <=> q = p
      BY <1>0, <1>2, <1>4, Arrays
    <2>4. \A d \in Cpu \ {c}, q \in Slot : plock'[q] = d <=> plock[q] = d
      BY <1>0, <1>1, <1>2, ProcAssumption, Arrays
    <2> QED BY <1>0, <1>1, <1>2, <1>3, <2>1, <2>2, <2>3, <2>4, HolderStays
  <1>7. FamilyInv'
    BY <1>0, <1>2, <1>3, <1>5, FamilyStep
  <1>8. \A q \in Slot \ {p} : pc[q] \notin WaitPc
    BY <1>0, <1>1, InSection DEF WaitPc
  <1>9. WaitInv'
    <2>1. ASSUME NEW q \in Slot, NEW np \in Slot, Reapable(q, np)', Dozing(q)'
          PROVE  q = initproc /\ \E r \in Slot : pc'[r] = "wakeup_init" /\ widx'[r] <= initproc
      <3>1. Reapable(q, np)
        BY <1>2, <2>1 DEF Reapable
      <3>2. q # p
        BY <1>0, <1>1, <3>1 DEF SeenBy
      <3>3. Dozing(q)
        BY <1>2, <1>3, <2>1, <3>2 DEF Dozing, Others
      <3>4. PICK r \in Slot : pc[r] = "wakeup_init" /\ widx[r] <= initproc
        BY <1>0, <3>1, <3>3 DEF WaitInv
      <3> QED BY <1>1, <1>8, <3>4 DEF WaitPc
    <2>2. ASSUME NEW q \in Slot PROVE SeenBy(q)'
      <3>1. CASE q = p
        BY <1>5, <3>1
      <3>2. CASE q # p
        BY <1>3, <1>8, <3>2 DEF SeenBy, Others, WaitPc
      <3> QED BY <3>1, <3>2
    <2> QED BY <2>1, <2>2 DEF WaitInv
  <1> QED BY <1>6, <1>7, <1>9 DEF ProcInv

\* sleep() leaves the CPU with p->lock held.
LEMMA SleepSchedProc ==
  ASSUME NEW c \in Cpu, NEW p \in Slot, ProcInv, TableInv', SleepSched(c, p)
  PROVE  ProcInv'
  <1>0. TableInv /\ HolderInv /\ FamilyInv /\ WaitInv /\ TypeOK /\ TypeOK'
    BY DEF ProcInv, TableInv
  <1>1. Runs(c, p) /\ OnStack(c, p) /\ pc[p] = "sleep_sched"
    BY DEF SleepSched, Runs, OnStack
  <1>2. /\ chan' = [chan EXCEPT ![p] = p] /\ state' = [state EXCEPT ![p] = "SLEEPING"]
        /\ ctx' = [ctx EXCEPT ![p] = "sleep"] /\ where' = [where EXCEPT ![c] = "back"]
        /\ UNCHANGED <<parent, plock, wait_lock, cproc, arg>>
    BY DEF SleepSched, Sched
  <1>3. Others(p) /\ pc'[p] = "wait_acquire"
    BY <1>0, Moves DEF SleepSched
  <1>4. wait_lock # c /\ state[p] = "RUNNING" /\ \A q \in Slot : plock[q] = c <=> q = p
    BY <1>0, <1>1, Holds, SMTT(30) DEF WaitPc
  <1>5. ChildrenOf(p)' /\ SeenBy(p)'
    BY <1>3, OuterSays DEF Outer
  <1>6. /\ where'[c] = "back" /\ \A d \in Cpu \ {c} : where'[d] = where[d]
        /\ \A q \in Slot \ {p} : ctx'[q] = ctx[q] /\ state'[q] = state[q] /\ chan'[q] = chan[q]
        /\ state'[p] = "SLEEPING"
    BY <1>0, <1>2, Arrays
  <1>7. HolderInv'
    <2>1. pc'[p] \notin LockPc
      BY <1>3 DEF LockPc, WaitPc
    <2> QED BY <1>0, <1>1, <1>2, <1>3, <1>4, <1>6, <2>1, HolderLeaves
  <1>8. FamilyInv'
    BY <1>0, <1>2, <1>3, <1>4, <1>5, <1>6, FamilyStep DEF Live
  <1>9. WaitInv'
    <2>1. \A q, r \in Slot : Reapable(q, r)' => Reapable(q, r)
      BY <1>2, <1>6 DEF Reapable
    <2>2. \A q \in Slot : Dozing(q)' => Dozing(q)
      BY <1>1, <1>3, <1>6 DEF Dozing, Others
    <2> QED BY <1>0, <1>1, <1>2, <1>3, <1>5, <2>1, <2>2, WaitStep
  <1> QED BY <1>7, <1>8, <1>9 DEF ProcInv

\* reparent() gives a child, zombie or not, to init, which it wakes next.
LEMMA ReparentChildProc ==
  ASSUME NEW c \in Cpu, NEW p \in Slot, ProcInv, TableInv', ReparentChild(c, p)
  PROVE  ProcInv'
  <1> DEFINE np == idx[p]
  <1>0. /\ TableInv /\ HolderInv /\ FamilyInv /\ WaitInv /\ TypeOK /\ TypeOK'
        /\ ChildrenOf(p) /\ SeenBy(p)
    BY DEF ProcInv, TableInv, FamilyInv, WaitInv
  <1>1. Runs(c, p) /\ pc[p] = "reparent" /\ np \in Slot /\ parent[np] = p
    BY DEF ReparentChild
  <1>2. /\ parent' = [parent EXCEPT ![np] = initproc]
        /\ UNCHANGED <<state, chan, ctx, plock, wait_lock, cpuVars, widx, arg>>
    BY DEF ReparentChild
  <1>3. Others(p) /\ pc'[p] = "wakeup_init" /\ idx'[p] = np + 1
    <2>1. DOMAIN pc = Slot /\ DOMAIN idx = Slot
      BY <1>0 DEF TypeOK
    <2>2. /\ pc' = [pc EXCEPT ![p] = "wakeup_init"] /\ idx' = [idx EXCEPT ![p] = @ + 1]
          /\ UNCHANGED <<widx, arg>>
      BY DEF ReparentChild
    <2> QED BY <2>1, <2>2 DEF Others
  <1>4. wait_lock = c /\ \A q \in Slot : plock[q] # c
    BY <1>0, <1>1, InSection DEF WaitPc
  <1>5. p # initproc /\ widx[p] = 1 /\ \A q \in Slot : q < np => parent[q] # p
    BY <1>0, <1>1 DEF ChildrenOf, SeenBy, WaitPc
  <1> HIDE DEF np
  <1>6. parent'[np] = initproc /\ \A q \in Slot \ {np} : parent'[q] = parent[q]
    BY <1>0, <1>1, <1>2, Arrays
  <1>7. \A q \in Slot \ {p} : pc[q] \notin WaitPc
    BY <1>0, <1>1, InSection DEF WaitPc
  <1>8. HolderInv'
    <2>1. (wait_lock' = c <=> pc'[p] \in WaitPc) /\ ctx'[p] = "none"
      BY <1>1, <1>2, <1>3, <1>4 DEF WaitPc, Runs
    <2>2. \A q \in Slot : plock'[q] = c <=>
             (q = p /\ pc'[p] = "sleep_sched") \/ (pc'[p] = "fork_copy" /\ arg'[p] = q)
      BY <1>2, <1>3, <1>4
    <2> QED BY <1>0, <1>1, <1>2, <1>3, <2>1, <2>2, HolderStays
  <1>9. FamilyInv'
    <2>1. state'[initproc] \in Live
      BY <1>0, <1>2 DEF FamilyInv
    <2>2. ASSUME NEW q \in Slot, parent'[q] # NoSlot PROVE state'[parent'[q]] \in Live
      BY <1>0, <1>2, <1>6, <2>2 DEF FamilyInv
    <2>3. ASSUME NEW q \in Slot \ {initproc}, state'[q] \notin {"UNUSED", "USED"} PROVE parent'[q] # NoSlot
      BY <1>0, <1>2, <1>6, <2>3, SlotFacts DEF FamilyInv
    <2>4. ASSUME NEW q \in Slot PROVE ChildrenOf(q)'
      <3>1. CASE q = p
        <4>1. ASSUME NEW r \in Slot, r < np + 1 PROVE parent'[r] # p
          <5>1. r < np \/ r = np
            BY <1>1, <4>1, SMTT(30) DEF Slot
          <5> QED BY <1>5, <1>6, <5>1
        <4> QED BY <1>3, <1>5, <3>1, <4>1 DEF ChildrenOf
      <3>2. CASE q # p
        <4>1. ChildrenOf(q)
          BY <1>0 DEF FamilyInv
        <4>2. pc[q] = "fork_run" => arg[q] \in Slot \ {np}
          <5>1. pc[q] = "fork_run" => arg[q] \in Slot
            BY <1>0, Filling DEF Forking
          <5>2. pc[q] = "fork_run" => parent[arg[q]] = q
            BY <4>1 DEF ChildrenOf
          <5> QED BY <1>1, <3>2, <5>1, <5>2
        <4>3. pc[q] = "fork_run" => parent'[arg[q]] = q
          BY <1>6, <4>1, <4>2 DEF ChildrenOf
        <4>4. pc[q] \notin {"reparent", "wakeup_init", "wakeup_parent", "exit_zombie"}
          BY <1>7, <3>2 DEF WaitPc
        <4> QED BY <1>2, <1>3, <3>2, <4>1, <4>3, <4>4 DEF ChildrenOf, Others
      <3> QED BY <3>1, <3>2
    <2> QED BY <2>1, <2>2, <2>3, <2>4 DEF FamilyInv
  <1>10. WaitInv'
    <2>1. ASSUME NEW q \in Slot, NEW r \in Slot, Reapable(q, r)', Dozing(q)'
          PROVE  q = initproc /\ \E t \in Slot : pc'[t] = "wakeup_init" /\ widx'[t] <= initproc
      <3>1. q = initproc
        <4>1. CASE r = np
          BY <1>6, <2>1, <4>1 DEF Reapable
        <4>2. CASE r # np
          <5>1. Reapable(q, r)
            BY <1>2, <1>6, <2>1, <4>2 DEF Reapable
          <5>2. Dozing(q)
            BY <1>2, <1>3, <2>1 DEF Dozing, Others
          <5> QED BY <1>0, <5>1, <5>2 DEF WaitInv
        <4> QED BY <4>1, <4>2
      <3>2. pc'[p] = "wakeup_init" /\ widx'[p] <= initproc
        BY <1>2, <1>3, <1>5, SMTT(30) DEF initproc
      <3> QED BY <3>1, <3>2
    <2>2. ASSUME NEW q \in Slot PROVE SeenBy(q)'
      BY <1>3, <1>7 DEF SeenBy, Others, WaitPc
    <2> QED BY <2>1, <2>2 DEF WaitInv
  <1> QED BY <1>8, <1>9, <1>10 DEF ProcInv

\* exit() becomes a zombie once it has no children and its parent is awake.
LEMMA ExitZombieProc ==
  ASSUME NEW c \in Cpu, NEW p \in Slot, ProcInv, TableInv', ExitZombie(c, p)
  PROVE  ProcInv'
  <1>0. /\ TableInv /\ HolderInv /\ FamilyInv /\ WaitInv /\ TypeOK /\ TypeOK'
        /\ ChildrenOf(p) /\ SeenBy(p)
    BY DEF ProcInv, TableInv, FamilyInv, WaitInv
  <1>1. Runs(c, p) /\ OnStack(c, p) /\ pc[p] = "exit_zombie" /\ plock[p] = NoCpu
    BY DEF ExitZombie, Runs, OnStack, Acquire
  <1>2. /\ plock' = [plock EXCEPT ![p] = c] /\ state' = [state EXCEPT ![p] = "ZOMBIE"]
        /\ ctx' = [ctx EXCEPT ![p] = "exit"] /\ where' = [where EXCEPT ![c] = "back"]
        /\ wait_lock' = NoCpu /\ UNCHANGED <<parent, chan, cproc>>
    BY DEF ExitZombie, Acquire, Sched
  <1>3. Others(p) /\ pc'[p] = "user"
    BY <1>0, Returns DEF ExitZombie
  <1>4. wait_lock = c /\ state[p] = "RUNNING" /\ \A q \in Slot : plock[q] # c
    BY <1>0, <1>1, InSection DEF WaitPc
  <1>5. ChildrenOf(p)' /\ SeenBy(p)'
    BY <1>3, OuterSays DEF Outer
  <1>6. /\ where'[c] = "back" /\ \A d \in Cpu \ {c} : where'[d] = where[d]
        /\ \A q \in Slot \ {p} : ctx'[q] = ctx[q] /\ state'[q] = state[q]
        /\ state'[p] = "ZOMBIE"
    BY <1>0, <1>2, Arrays
  <1>7. p # initproc /\ \A q \in Slot : parent[q] # p
    BY <1>0, <1>1 DEF ChildrenOf, WaitPc
  <1>8. \A q \in Slot \ {p} : pc[q] \notin WaitPc
    BY <1>0, <1>1, InSection DEF WaitPc
  <1>9. HolderInv'
    <2>1. pc'[p] \notin LockPc
      BY <1>3 DEF LockPc, WaitPc
    <2>2. wait_lock' # c /\ \A d \in Cpu \ {c} : wait_lock' = d <=> wait_lock = d
      BY <1>2, <1>4, ProcAssumption
    <2>3. /\ \A q \in Slot : plock'[q] = c <=> q = p
          /\ \A d \in Cpu \ {c}, q \in Slot : plock'[q] = d <=> plock[q] = d
      BY <1>0, <1>1, <1>2, <1>4, Arrays, ProcAssumption
    <2> QED BY <1>0, <1>1, <1>2, <1>3, <1>6, <2>1, <2>2, <2>3, HolderLeaves
  <1>10. FamilyInv'
    <2>1. state'[initproc] \in Live
      BY <1>0, <1>6, <1>7, SlotFacts DEF FamilyInv
    <2>2. ASSUME NEW q \in Slot, parent'[q] # NoSlot PROVE state'[parent'[q]] \in Live
      <3>1. parent[q] \in Slot \ {p} /\ state[parent[q]] \in Live
        <4>1. parent[q] \in Slot \cup {NoSlot}
          BY <1>0 DEF TypeOK
        <4>2. parent[q] # NoSlot
          BY <1>2, <2>2
        <4> QED BY <1>0, <1>7, <4>1, <4>2 DEF FamilyInv
      <3> QED BY <1>2, <1>6, <3>1
    <2>3. ASSUME NEW q \in Slot \ {initproc}, state'[q] \notin {"UNUSED", "USED"} PROVE parent'[q] # NoSlot
      BY <1>0, <1>2, <1>4, <1>6, <2>3 DEF FamilyInv
    <2>4. ASSUME NEW q \in Slot PROVE ChildrenOf(q)'
      <3>1. CASE q = p
        BY <1>5, <3>1
      <3>2. CASE q # p
        <4>1. ChildrenOf(q)
          BY <1>0 DEF FamilyInv
        <4> QED BY <1>2, <1>3, <3>2, <4>1 DEF ChildrenOf, Others
      <3> QED BY <3>1, <3>2
    <2> QED BY <2>1, <2>2, <2>3, <2>4 DEF FamilyInv
  <1>11. WaitInv'
    <2>1. ASSUME NEW q \in Slot, NEW np \in Slot, Reapable(q, np)', Dozing(q)'
          PROVE  q = initproc /\ \E r \in Slot : pc'[r] = "wakeup_init" /\ widx'[r] <= initproc
      <3>1. q # p /\ Dozing(q)
        BY <1>2, <1>3, <1>6, <2>1 DEF Dozing, Others
      <3>2. np # p
        BY <1>0, <1>1, <1>2, <2>1, <3>1 DEF SeenBy, Reapable
      <3>3. Reapable(q, np)
        BY <1>2, <1>6, <2>1, <3>2 DEF Reapable
      <3>4. PICK r \in Slot : pc[r] = "wakeup_init" /\ widx[r] <= initproc
        BY <1>0, <3>1, <3>3 DEF WaitInv
      <3> QED BY <1>1, <1>8, <3>4 DEF WaitPc
    <2>2. ASSUME NEW q \in Slot PROVE SeenBy(q)'
      <3>1. CASE q = p
        BY <1>5, <3>1
      <3>2. CASE q # p
        BY <1>3, <1>8, <3>2 DEF SeenBy, Others, WaitPc
      <3> QED BY <3>1, <3>2
    <2> QED BY <2>1, <2>2 DEF WaitInv
  <1> QED BY <1>9, <1>10, <1>11 DEF ProcInv
-----------------------------------------------------------------------------
\* userinit() leaves init alone, RUNNABLE, and every lock free.
LEMMA InitProc == Init => ProcInv
  <1> SUFFICES ASSUME Init PROVE ProcInv
    OBVIOUS
  <1>1. TableInv
    BY InitTable
  <1>2. HolderInv
    BY ProcAssumption DEF Init, HolderInv, LockOf, OnStack, Runs, LockPc, WaitPc
  <1>3. FamilyInv
    BY SlotFacts DEF Init, FamilyInv, ChildrenOf, Live, WaitPc
  <1>4. WaitInv
    BY SlotFacts DEF Init, WaitInv, SeenBy, Reapable, Dozing
  <1> QED BY <1>1, <1>2, <1>3, <1>4 DEF ProcInv

\* Every step of every CPU keeps the locks and the family tree in order.
LEMMA NextProc == ProcInv /\ [Next]_vars => ProcInv'
  <1> SUFFICES ASSUME ProcInv, [Next]_vars PROVE ProcInv'
    OBVIOUS
  <1>0. TableInv'
    BY NextTable DEF ProcInv
  <1>1. CASE UNCHANGED vars
    <2>1. UNCHANGED <<state, chan, parent, ctx, plock, wait_lock, cproc, where, pc, idx, widx, arg>>
      BY <1>1 DEF vars, procVars, cpuVars, localVars
    <2>2. HolderInv'
      BY <2>1, HolderSame DEF ProcInv
    <2>3. FamilyInv'
      BY <2>1 DEF ProcInv, FamilyInv, ChildrenOf
    <2>4. WaitInv'
      <3>1. \A q, np \in Slot : Reapable(q, np)' <=> Reapable(q, np)
        BY <2>1 DEF Reapable
      <3>2. \A q \in Slot : (Dozing(q)' <=> Dozing(q)) /\ (SeenBy(q)' <=> SeenBy(q))
        BY <2>1, <3>1 DEF Dozing, SeenBy
      <3> QED BY <2>1, <3>1, <3>2 DEF ProcInv, WaitInv
    <2> QED BY <1>0, <2>2, <2>3, <2>4 DEF ProcInv
  <1>2. ASSUME NEW c \in Cpu, SchedStep(c) PROVE ProcInv'
    BY <1>0, <1>2, SchedulerSwitchProc, SchedulerSkipProc, SchedulerBackProc, ResumeProc DEF SchedStep
  <1>3. ASSUME NEW c \in Cpu, NEW p \in Slot, Kernel(c, p) PROVE ProcInv'
    BY <1>0, <1>3, AllocProcProc, AllocProcLoop, ForkNoMemoryProc, ForkCopyProc, ForkParentProc, ForkRunProc,
       WaitAcquireProc, WaitSkipProc, WaitReapProc, WaitGivesUp, WaitSleepProc, SleepAcquireProc,
       SleepSchedProc, KillLoop, ExitAcquireProc, ReparentChildProc, ReparentSkipProc, ReparentDoneProc,
       WakeupSlotProc, WakeupDoneProc, ExitZombieProc
       DEF Kernel
  <1>4. ASSUME NEW c \in Cpu, NEW p \in Slot, UserCall(c, p) \/ Yield(c, p) PROVE ProcInv'
    BY <1>0, <1>4, UserCallProc, YieldProc
  <1> QED BY <1>1, <1>2, <1>3, <1>4 DEF Next

\* For any number of CPUs and slots, every lock of proc.c is held by the CPU
\* whose place in the code says so, every parent is alive, and whoever sleeps
\* in wait() has no zombie that nobody will wake it for.
THEOREM ProcInvariant == Spec => []ProcInv
  BY InitProc, NextProc, PTL DEF Spec

\* "wait_lock must be acquired before any p->lock": no CPU spins on a lock it
\* holds, no CPUs wait for each other in a cycle, and sched() is entered with
\* p->lock held and no other.
THEOREM LockDisciplineHolds == Spec => []LockDiscipline
  <1>1. ProcInv => LockDiscipline
    <2> SUFFICES ASSUME ProcInv PROVE LockDiscipline
      OBVIOUS
    <2>0. TableInv /\ HolderInv /\ TypeOK
      BY DEF ProcInv, TableInv
    <2>1. ASSUME NEW c \in Cpu, Wants(c) # {} PROVE Held(c) = {} /\ (NoSlot \in Wants(c) => wait_lock # c)
      <3>1. CASE where[c] = "scheduler"
        <4>1. \A q \in Slot : ~LockOf(c, q)
          BY <3>1 DEF LockOf, OnStack, Runs
        <4>2. Held(c) = {}
          BY <2>0, <4>1 DEF Held, HolderInv
        <4>3. NoSlot \notin Wants(c)
          BY <2>0, <3>1, SlotFacts, SMTT(30) DEF Wants, TypeOK
        <4> QED BY <4>2, <4>3
      <3>2. CASE where[c] # "scheduler"
        <4>1. PICK p \in Slot : Runs(c, p)
          BY <2>1, <3>2 DEF Wants
        <4>2. \A q \in Slot : Runs(c, q) => q = p
          BY <4>1 DEF Runs
        <4>3. {q \in Slot : Runs(c, q)} = {p}
          BY <4>1, <4>2
        <4>4. Wants(c) =
                CASE pc[p] \in {"fork_parent", "wait_acquire", "exit_acquire"} -> {NoSlot}
                  [] pc[p] \in {"allocproc", "kill"} -> {idx[p]} \cap Slot
                  [] pc[p] = "fork_run" -> {arg[p]}
                  [] pc[p] = "wait_scan" -> {q \in {idx[p]} \cap Slot : parent[q] = p}
                  [] pc[p] \in {"wakeup_init", "wakeup_parent"} -> ({widx[p]} \cap Slot) \ {p}
                  [] pc[p] \in {"sleep_acquire", "exit_zombie"} -> {p}
                  [] OTHER -> {}
          BY <3>2, <4>3, SMTT(30) DEF Wants
        <4>5. pc[p] \notin {"fork_copy", "sleep_sched"}
          BY <2>1, <4>4
        <4>6. Held(c) = {}
          BY <2>0, <4>1, <4>5, Holds, SMTT(30) DEF Held
        <4>7. NoSlot \in Wants(c) => pc[p] \in {"fork_parent", "wait_acquire", "exit_acquire"}
          <5>1. pc[p] = "fork_run" => arg[p] \in Slot
            BY <2>0, Filling DEF Forking
          <5> QED BY <4>4, <5>1, SlotFacts
        <4>8. NoSlot \in Wants(c) => wait_lock # c
          BY <2>0, <4>1, <4>7, Holds DEF WaitPc
        <4> QED BY <4>6, <4>8
      <3> QED BY <3>1, <3>2
    <2>2. ASSUME NEW c \in Cpu, where[c] = "back"
          PROVE  /\ scan[c] = cproc[c] /\ Held(c) = {cproc[c]} /\ wait_lock # c
                 /\ state[cproc[c]] # "RUNNING"
      <3>1. cproc[c] \in Slot /\ scan[c] = cproc[c] /\ state[cproc[c]] # "RUNNING"
        BY <2>0, <2>2 DEF TableInv, StackInv
      <3>2. \A q \in Slot : plock[q] = c <=> q = cproc[c]
        BY <2>0, <2>2, SMTT(30) DEF HolderInv, LockOf, OnStack, Runs
      <3>3. wait_lock # c
        BY <2>0, <2>2 DEF HolderInv, Runs
      <3> QED BY <3>1, <3>2, <3>3 DEF Held
    <2> QED BY <2>1, <2>2 DEF LockDiscipline, LockOrder, SchedHoldsOnlyItsLock
  <1> QED BY <1>1, ProcInvariant, PTL

\* exit() and fork() leave no process but init without a live parent.
THEOREM LiveParents == Spec => []EveryChildHasLiveParent
  <1>1. ProcInv => EveryChildHasLiveParent
    BY DEF ProcInv, FamilyInv, EveryChildHasLiveParent, Live
  <1> QED BY <1>1, ProcInvariant, PTL

\* wait_lock keeps wait() from missing an exit: when it is free, no parent
\* sleeps in wait() with a zombie child.
THEOREM NoExitIsLost == Spec => []NoLostExit
  <1>1. ProcInv => NoLostExit
    <2> SUFFICES ASSUME ProcInv, wait_lock = NoCpu, NEW p \in Slot, NEW np \in Slot,
                        parent[np] = p, state[np] = "ZOMBIE", state[p] = "SLEEPING", chan[p] = p
                 PROVE  FALSE
      BY DEF NoLostExit
    <2>1. PICK q \in Slot : pc[q] = "wakeup_init"
      BY DEF ProcInv, WaitInv, Reapable, Dozing
    <2> QED BY <2>1, OneInWait DEF ProcInv, WaitPc
  <1> QED BY <1>1, ProcInvariant, PTL
-----------------------------------------------------------------------------
(* A child for everybody who sleeps in wait().                             *)

\* A step that leaves parents alone and ends no process keeps KidsInv, if
\* nobody begins to expect a child without having one.
LEMMA KidsStep ==
  ASSUME KidsInv, UNCHANGED parent,
         \A q \in Slot : state'[q] = state[q] \/ state'[q] \in Live,
         \A q \in Slot : pc[q] = "fork_run" =>
            (pc'[q] = "fork_run" /\ arg'[q] = arg[q]) \/ state'[arg[q]] \in Live,
         \A q \in Slot : Expecting(q)' => Expecting(q) \/ LiveChild(q)
  PROVE  KidsInv'
  <1>1. ASSUME NEW np \in Slot, state'[np] = "UNUSED" PROVE parent'[np] = NoSlot
    BY <1>1 DEF KidsInv, Live
  <1>2. ASSUME NEW np \in Slot, NEW p \in Slot, state'[np] = "USED", parent'[np] = p
        PROVE  pc'[p] = "fork_run" /\ arg'[p] = np
    <2>1. state[np] = "USED" /\ parent[np] = p /\ state'[np] \notin Live
      BY <1>2 DEF Live
    <2>2. pc[p] = "fork_run" /\ arg[p] = np
      BY <2>1 DEF KidsInv
    <2> QED BY <2>1, <2>2
  <1>3. ASSUME NEW p \in Slot, Expecting(p)' PROVE LiveChild(p)'
    <2>1. PICK np \in Slot : parent[np] = p /\ state[np] \in Live
      BY <1>3 DEF KidsInv, LiveChild
    <2> QED BY <2>1 DEF LiveChild
  <1> QED BY <1>1, <1>2, <1>3 DEF KidsInv

\* A step that only moves the thread of p.
LEMMA KidsThread ==
  ASSUME NEW p \in Slot, KidsInv, UNCHANGED <<state, parent, chan>>, Others(p),
         \A q \in Slot \ {p} : kids'[q] = kids[q],
         pc[p] # "fork_run",
         Expecting(p)' => Expecting(p) \/ LiveChild(p)
  PROVE  KidsInv'
  <1>1. \A q \in Slot \ {p} : Expecting(q)' <=> Expecting(q)
    BY DEF Expecting, Dozing, Others
  <1>2. \A q \in Slot : pc[q] = "fork_run" => pc'[q] = "fork_run" /\ arg'[q] = arg[q]
    BY DEF Others
  <1> QED BY <1>1, <1>2, KidsStep

\* Where a running process expects no child to exit.
LEMMA NotExpecting ==
  ASSUME NEW p \in Slot, state'[p] = "RUNNING", pc'[p] \notin {"sleep_acquire", "sleep_sched"},
         pc'[p] = "wait_scan" => ~kids'[p]
  PROVE  ~Expecting(p)'
  BY DEF Expecting, Dozing

\* Going to a label resets the local variable havekids, and that of p only.
LEMMA KidsReset ==
  ASSUME TypeOK, NEW p \in Slot, NEW l, Goto(p, l)
  PROVE  ~kids'[p] /\ \A q \in Slot \ {p} : kids'[q] = kids[q]
  BY DEF TypeOK, Goto

\* The actions that move p from one label to another where it expects nobody.
LEMMA GotoKids ==
  ASSUME NEW c \in Cpu, NEW p \in Slot, ProcInv, KidsInv, Runs(c, p), pc[p] # "fork_run",
         UNCHANGED <<state, parent, chan>>, NEW l, l \notin {"sleep_acquire", "sleep_sched"}, Goto(p, l),
         \A q \in Slot \ {p} : arg'[q] = arg[q]
  PROVE  KidsInv'
  <1>1. TypeOK /\ state'[p] = "RUNNING"
    BY Holds DEF ProcInv, TableInv
  <1>2. Others(p) /\ pc'[p] = l
    BY <1>1, Moves
  <1>3. ~kids'[p] /\ \A q \in Slot \ {p} : kids'[q] = kids[q]
    BY <1>1, KidsReset
  <1>4. ~Expecting(p)'
    BY <1>1, <1>2, <1>3, NotExpecting
  <1> QED BY <1>2, <1>3, <1>4, KidsThread

\* fork(), wait(), kill() and exit() are called.
LEMMA UserCallKids ==
  ASSUME NEW c \in Cpu, NEW p \in Slot, ProcInv, KidsInv, UserCall(c, p)
  PROVE  KidsInv'
  <1>1. \A q \in Slot \ {p} : arg'[q] = arg[q]
    BY DEF ProcInv, TableInv, TypeOK, UserCall, ForkCall, WaitCall, KillCall, ExitCall
  <1>2. Runs(c, p) /\ pc[p] = "user" /\ UNCHANGED <<state, parent, chan>>
    BY DEF UserCall, ForkCall, WaitCall, KillCall, ExitCall, procVars
  <1>3. \E l \in {"allocproc", "wait_acquire", "kill", "exit_acquire"} : Goto(p, l)
    BY DEF UserCall, ForkCall, WaitCall, KillCall, ExitCall
  <1> QED BY <1>1, <1>2, <1>3, GotoKids

\* A system call returns, and no state but its own has changed.
LEMMA ReturnKids ==
  ASSUME NEW c \in Cpu, NEW p \in Slot, ProcInv, KidsInv,
         AllocProcFull(c, p) \/ WaitCopyFail(c, p) \/ WaitFail(c, p) \/ KillNone(c, p)
  PROVE  KidsInv'
  <1>1. /\ Runs(c, p) /\ pc[p] # "fork_run" /\ Return(p)
        /\ UNCHANGED <<state, parent, chan>>
    BY DEF AllocProcFull, WaitCopyFail, WaitFail, KillNone, procVars
  <1>2. \A q \in Slot \ {p} : arg'[q] = arg[q]
    BY <1>1 DEF ProcInv, TableInv, TypeOK, Return
  <1> QED BY <1>1, <1>2, GotoKids DEF Return

\* A system call goes on to its next section.
LEMMA SectionKids ==
  ASSUME NEW c \in Cpu, NEW p \in Slot, ProcInv, KidsInv,
         ForkCopy(c, p) \/ WaitAcquire(c, p) \/ ExitAcquire(c, p) \/ ReparentDone(c, p)
  PROVE  KidsInv'
  <1>1. /\ Runs(c, p) /\ pc[p] # "fork_run" /\ UNCHANGED <<state, parent, chan, arg>>
        /\ \E l \in {"fork_parent", "wait_scan", "reparent", "wakeup_parent"} : Goto(p, l)
    BY DEF ForkCopy, WaitAcquire, ExitAcquire, ReparentDone, procVars
  <1> QED BY <1>1, GotoKids

\* A loop of fork(), kill() or reparent() goes on, or wakeup() returns.
LEMMA LoopKids ==
  ASSUME NEW c \in Cpu, NEW p \in Slot, ProcInv, KidsInv,
         AllocProcSkip(c, p) \/ KillSkip(c, p) \/ ReparentSkip(c, p) \/ WakeupDone(c, p)
  PROVE  KidsInv'
  <1>1. /\ Runs(c, p) /\ pc[p] # "fork_run" /\ UNCHANGED <<state, parent, chan, kids>>
    BY DEF AllocProcSkip, KillSkip, ReparentSkip, WakeupDone, procVars
  <1>2. TypeOK /\ state'[p] = "RUNNING"
    BY <1>1, Holds DEF ProcInv, TableInv
  <1>3. Others(p) /\ pc'[p] \notin {"wait_scan", "sleep_acquire", "sleep_sched"}
    <2>1. CASE AllocProcSkip(c, p) \/ KillSkip(c, p) \/ ReparentSkip(c, p)
      BY <1>2, <2>1, Advances DEF AllocProcSkip, KillSkip, ReparentSkip
    <2>2. CASE WakeupDone(c, p)
      BY <1>2, <2>2 DEF WakeupDone, TypeOK, Others
    <2> QED BY <2>1, <2>2
  <1>4. ~Expecting(p)'
    BY <1>2, <1>3, NotExpecting
  <1> QED BY <1>1, <1>3, <1>4, KidsThread

\* wait() passes over a slot: a child that is no zombie is a process that has
\* yet to exit, since fork() has finished with it.
LEMMA WaitSkipKids ==
  ASSUME NEW c \in Cpu, NEW p \in Slot, ProcInv, KidsInv, WaitSkip(c, p)
  PROVE  KidsInv'
  <1>1. /\ Runs(c, p) /\ pc[p] = "wait_scan" /\ idx[p] \in Slot /\ UNCHANGED <<state, parent, chan>>
        /\ Advance(p)
    BY DEF WaitSkip, procVars
  <1>2. TypeOK /\ state'[p] = "RUNNING"
    BY <1>1, Holds DEF ProcInv, TableInv
  <1>3. Others(p) /\ pc'[p] = "wait_scan" /\ \A q \in Slot \ {p} : kids'[q] = kids[q]
    <2>1. \A q \in Slot \ {p} : kids'[q] = kids[q]
      BY <1>2 DEF TypeOK, WaitSkip
    <2> QED BY <1>1, <1>2, <2>1, Advances
  <1>4. Expecting(p)' => Expecting(p) \/ LiveChild(p)
    <2>1. CASE UNCHANGED kids
      BY <1>1, <1>2, <1>3, <2>1 DEF Expecting, Dozing
    <2>2. CASE parent[idx[p]] = p /\ state[idx[p]] # "ZOMBIE"
      <3>1. p # NoSlot /\ pc[p] # "fork_run"
        BY <1>1, SlotFacts
      <3>2. state[idx[p]] # "UNUSED"
        BY <1>1, <2>2, <3>1 DEF KidsInv
      <3>3. state[idx[p]] # "USED"
        BY <1>1, <2>2, <3>1 DEF KidsInv
      <3>4. state[idx[p]] \in Live
        BY <1>1, <1>2, <2>2, <3>2, <3>3 DEF TypeOK, States, Live
      <3> QED BY <1>1, <2>2, <3>4 DEF LiveChild
    <2> QED BY <2>1, <2>2 DEF WaitSkip
  <1> QED BY <1>1, <1>3, <1>4, KidsThread

\* wait() has seen a child and goes to sleep.
LEMMA WaitSleepKids ==
  ASSUME NEW c \in Cpu, NEW p \in Slot, ProcInv, KidsInv, WaitSleep(c, p) \/ SleepAcquire(c, p)
  PROVE  KidsInv'
  <1>1. /\ Expecting(p) /\ pc[p] # "fork_run" /\ UNCHANGED <<state, parent, chan, arg>>
        /\ \E l \in {"sleep_acquire", "sleep_sched"} : Goto(p, l)
    BY DEF WaitSleep, SleepAcquire, NoPointWaiting, Expecting, procVars
  <1>2. TypeOK
    BY DEF ProcInv, TableInv
  <1>3. Others(p) /\ \A q \in Slot \ {p} : kids'[q] = kids[q]
    BY <1>1, <1>2, Moves, KidsReset
  <1> QED BY <1>1, <1>3, KidsThread

\* Only states within Live change, and nothing else that KidsInv is about.
LEMMA LiveKids ==
  ASSUME NEW r \in Slot, NEW s \in Live, TypeOK, KidsInv, UNCHANGED <<parent, chan, pc, arg, kids>>,
         state' = [state EXCEPT ![r] = s], s # "SLEEPING" \/ s = state[r]
  PROVE  KidsInv'
  <1>1. \A q \in Slot : state'[q] = state[q] \/ (state'[q] \in Live /\ state'[q] # "SLEEPING")
    BY DEF TypeOK
  <1>2. \A q \in Slot : Expecting(q)' => Expecting(q)
    BY <1>1 DEF Expecting, Dozing
  <1> QED BY <1>1, <1>2, KidsStep

\* A process is given a CPU, gives it back, or goes on after swtch().
LEMMA SwitchKids ==
  ASSUME NEW c \in Cpu, ProcInv, KidsInv, SchedStep(c)
  PROVE  KidsInv'
  <1>1. TableInv /\ TypeOK
    BY DEF ProcInv, TableInv
  <1>2. CASE SchedulerSwitch(c)
    <2>1. scan[c] \in Slot /\ UNCHANGED <<parent, chan, pc, arg, kids>>
          /\ state' = [state EXCEPT ![scan[c]] = "RUNNING"]
      BY <1>1, <1>2 DEF SchedulerSwitch, localVars, TypeOK
    <2> QED BY <1>1, <2>1, LiveKids DEF Live
  <1>3. CASE SchedulerSkip(c) \/ SchedulerBack(c)
    <2>1. UNCHANGED <<state, parent, chan, pc, arg, kids>>
      BY <1>3 DEF SchedulerSkip, SchedulerBack, procVars, localVars
    <2>2. \A q \in Slot : Expecting(q)' => Expecting(q)
      BY <2>1 DEF Expecting, Dozing
    <2> QED BY <2>1, <2>2, KidsStep
  <1>4. CASE Resume(c)
    <2>1. cproc[c] \in Slot
      BY <1>1, <1>4, Stacks DEF Resume
    <2>2. UNCHANGED <<state, parent, pc, arg, kids>>
      BY <1>4 DEF Resume, localVars
    <2>3. \A q \in Slot : q # NoSlot
      BY SlotFacts
    <2>4. \A q \in Slot : chan'[q] = chan[q] \/ chan'[q] = NoSlot
      BY <1>1, <1>4, <2>1 DEF Resume, TypeOK
    <2>5. \A q \in Slot : Expecting(q)' => Expecting(q)
      BY <2>2, <2>3, <2>4 DEF Expecting, Dozing
    <2> QED BY <2>2, <2>5, KidsStep
  <1> QED BY <1>2, <1>3, <1>4 DEF SchedStep

\* A timer interrupt takes the CPU away, or exit() wakes a sleeper.
LEMMA YieldKids ==
  ASSUME NEW c \in Cpu, NEW p \in Slot, ProcInv, KidsInv, Yield(c, p) \/ WakeupSlot(c, p)
  PROVE  KidsInv'
  <1>1. TypeOK
    BY DEF ProcInv, TableInv
  <1>2. CASE Yield(c, p)
    <2>1. UNCHANGED <<parent, chan, pc, arg, kids>> /\ state' = [state EXCEPT ![p] = "RUNNABLE"]
      BY <1>2 DEF Yield, localVars
    <2> QED BY <1>1, <2>1, LiveKids DEF Live
  <1>3. CASE WakeupSlot(c, p)
    <2>1. UNCHANGED <<parent, chan, pc, arg, kids>>
      BY <1>3 DEF WakeupSlot
    <2>2. \A q \in Slot : state'[q] = state[q] \/ state'[q] = "RUNNABLE"
      BY <1>1, <1>3 DEF WakeupSlot, TypeOK
    <2>3. \A q \in Slot : Expecting(q)' => Expecting(q)
      BY <2>1, <2>2 DEF Expecting, Dozing
    <2> QED BY <2>1, <2>2, <2>3, KidsStep DEF Live
  <1> QED BY <1>2, <1>3

\* fork() makes the child runnable, or kill() a sleeper, and the call returns.
LEMMA RunnableKids ==
  ASSUME NEW c \in Cpu, NEW p \in Slot, ProcInv, KidsInv, ForkRun(c, p) \/ KillVictim(c, p)
  PROVE  KidsInv'
  <1>1. TableInv /\ TypeOK
    BY DEF ProcInv, TableInv
  <1>2. /\ Runs(c, p) /\ UNCHANGED <<parent, chan>> /\ Return(p)
    BY DEF ForkRun, KillVictim
  <1>3. Others(p) /\ pc'[p] = "user"
    BY <1>1, <1>2, Returns
  <1>4. \A q \in Slot \ {p} : kids'[q] = kids[q]
    BY <1>1, <1>2, KidsReset DEF Return
  <1>5. \A q \in Slot : state'[q] = state[q] \/ state'[q] = "RUNNABLE"
    BY <1>1 DEF ForkRun, KillVictim, TypeOK
  <1>6. state[p] = "RUNNING"
    BY <1>2, Holds DEF ProcInv
  <1>7. pc[p] = "fork_run" => state'[arg[p]] = "RUNNABLE"
    <2> SUFFICES ASSUME pc[p] = "fork_run" PROVE state'[arg[p]] = "RUNNABLE"
      OBVIOUS
    <2>1. arg[p] \in Slot
      BY <1>1, Filling DEF Forking
    <2> QED BY <1>1, <2>1, Arrays DEF ForkRun, KillVictim
  <1>8. \A q \in Slot \ {p} : Expecting(q)' => Expecting(q)
    BY <1>2, <1>3, <1>4, <1>5 DEF Expecting, Dozing, Others
  <1>9. ~Expecting(p)'
    BY <1>3, <1>5, <1>6 DEF Expecting, Dozing
  <1>10. \A q \in Slot : pc[q] = "fork_run" =>
            (pc'[q] = "fork_run" /\ arg'[q] = arg[q]) \/ state'[arg[q]] \in Live
    BY <1>3, <1>7 DEF Others, Live
  <1> QED BY <1>2, <1>5, <1>8, <1>9, <1>10, KidsStep DEF Live

\* sleep() marks the process SLEEPING.
LEMMA SleepSchedKids ==
  ASSUME NEW c \in Cpu, NEW p \in Slot, ProcInv, KidsInv, SleepSched(c, p)
  PROVE  KidsInv'
  <1>1. TypeOK
    BY DEF ProcInv, TableInv
  <1>2. Expecting(p) /\ pc[p] # "fork_run" /\ UNCHANGED <<parent, arg>> /\ Goto(p, "wait_acquire")
    BY DEF SleepSched, Expecting, Dozing
  <1>3. Others(p) /\ \A q \in Slot \ {p} : kids'[q] = kids[q]
    BY <1>1, <1>2, Moves, KidsReset
  <1>4. \A q \in Slot : state'[q] = state[q] \/ (q = p /\ state'[q] = "SLEEPING")
    BY <1>1 DEF SleepSched, TypeOK
  <1>5. \A q \in Slot \ {p} : chan'[q] = chan[q]
    BY <1>1 DEF SleepSched, TypeOK
  <1>6. \A q \in Slot \ {p} : Expecting(q)' => Expecting(q)
    BY <1>3, <1>4, <1>5 DEF Expecting, Dozing, Others
  <1>7. \A q \in Slot : pc[q] = "fork_run" => pc'[q] = "fork_run" /\ arg'[q] = arg[q]
    BY <1>2, <1>3 DEF Others
  <1> QED BY <1>2, <1>4, <1>6, <1>7, KidsStep DEF Live

\* A slot that is neither a live process before nor after the step is freed or
\* filled by the thread of p, which expects nobody.
LEMMA SlotKids ==
  ASSUME NEW p \in Slot, NEW np \in Slot, KidsInv, Others(p), pc[p] # "fork_run", pc'[p] # "fork_run",
         \A q \in Slot \ {p} : kids'[q] = kids[q],
         \A q \in Slot \ {np} : state'[q] = state[q] /\ parent'[q] = parent[q] /\ chan'[q] = chan[q],
         state[np] \notin Live, state'[np] \in {"UNUSED", "USED"}, parent'[np] = NoSlot,
         ~Expecting(p)'
  PROVE  KidsInv'
  <1>1. ASSUME NEW q \in Slot, state'[q] = "UNUSED" PROVE parent'[q] = NoSlot
    <2>1. CASE q = np
      BY <2>1
    <2>2. CASE q # np
      <3>1. state[q] = "UNUSED" /\ parent'[q] = parent[q]
        BY <1>1, <2>2
      <3> QED BY <3>1 DEF KidsInv
    <2> QED BY <2>1, <2>2
  <1>2. ASSUME NEW q \in Slot, NEW r \in Slot, state'[q] = "USED", parent'[q] = r
        PROVE  pc'[r] = "fork_run" /\ arg'[r] = q
    <2>1. q # np
      BY <1>2, SlotFacts
    <2>2. state[q] = "USED" /\ parent[q] = r
      BY <1>2, <2>1
    <2>3. pc[r] = "fork_run" /\ arg[r] = q
      BY <2>2 DEF KidsInv
    <2> QED BY <2>3 DEF Others
  <1>3. ASSUME NEW q \in Slot, Expecting(q)' PROVE LiveChild(q)'
    <2>1. q # p
      BY <1>3
    <2>2. Expecting(q)
      <3>1. CASE q = np
        BY <1>3, <2>1, <3>1 DEF Expecting, Dozing, Others
      <3>2. CASE q # np
        BY <1>3, <2>1, <3>2 DEF Expecting, Dozing, Others
      <3> QED BY <3>1, <3>2
    <2>3. PICK k \in Slot : parent[k] = q /\ state[k] \in Live
      BY <2>2 DEF KidsInv, LiveChild
    <2> QED BY <2>3 DEF LiveChild
  <1> QED BY <1>1, <1>2, <1>3 DEF KidsInv

\* allocproc() fills a slot; fork() without memory, or wait(), frees one.
LEMMA FreeKids ==
  ASSUME NEW c \in Cpu, NEW p \in Slot, ProcInv, KidsInv,
         AllocProc(c, p) \/ ForkNoMemory(c, p) \/ WaitReap(c, p)
  PROVE  KidsInv'
  <1> DEFINE np == IF pc[p] = "fork_copy" THEN arg[p] ELSE idx[p]
  <1>1. TableInv /\ TypeOK /\ Runs(c, p) /\ state[p] = "RUNNING"
    BY Holds DEF ProcInv, TableInv, AllocProc, ForkNoMemory, WaitReap
  <1>2. /\ np \in Slot /\ state[np] \in {"UNUSED", "USED", "ZOMBIE"}
        /\ state[np] = "UNUSED" => pc[p] = "allocproc"
        /\ pc[p] \in {"allocproc", "fork_copy", "wait_scan"}
    <2>1. CASE AllocProc(c, p)
      BY <2>1 DEF AllocProc
    <2>2. CASE ForkNoMemory(c, p)
      BY <1>1, <2>2, Filling DEF ForkNoMemory, Forking
    <2>3. CASE WaitReap(c, p)
      BY <2>3 DEF WaitReap, ZombieChild
    <2> QED BY <2>1, <2>2, <2>3
  <1>3. \A q \in Slot \ {np} : state'[q] = state[q] /\ parent'[q] = parent[q] /\ chan'[q] = chan[q]
    BY <1>1, <1>2 DEF AllocProc, ForkNoMemory, WaitReap, FreeProc, TypeOK
  <1>4. state'[np] \in {"UNUSED", "USED"} /\ parent'[np] = NoSlot
    <2>1. CASE AllocProc(c, p)
      <3>1. np = idx[p] /\ state[np] = "UNUSED" /\ UNCHANGED parent
            /\ state' = [state EXCEPT ![np] = "USED"]
        BY <2>1 DEF AllocProc
      <3>2. state'[np] = "USED" /\ parent'[np] = NoSlot
        BY <1>1, <1>2, <3>1, Arrays DEF KidsInv
      <3> QED BY <3>2
    <2>2. CASE ForkNoMemory(c, p) \/ WaitReap(c, p)
      <3>1. FreeProc(np)
        BY <2>2 DEF ForkNoMemory, WaitReap
      <3> QED BY <1>1, <1>2, <3>1, Arrays DEF FreeProc
    <2> QED BY <2>1, <2>2
  <1>5. \E l \in {"fork_copy", "user"} : Goto(p, l)
    BY DEF AllocProc, ForkNoMemory, WaitReap, Return
  <1>6. \A q \in Slot \ {p} : arg'[q] = arg[q]
    BY <1>1 DEF AllocProc, ForkNoMemory, WaitReap, Return, TypeOK
  <1>7. /\ Others(p) /\ pc'[p] \in {"fork_copy", "user"}
        /\ \A q \in Slot \ {p} : kids'[q] = kids[q]
    BY <1>1, <1>5, <1>6, Moves, KidsReset
  <1>8. state'[p] = "RUNNING"
    BY <1>1, <1>2, <1>3
  <1>9. ~Expecting(p)'
    BY <1>7, <1>8 DEF Expecting, Dozing
  <1>10. state[np] \notin Live /\ pc[p] # "fork_run" /\ pc'[p] # "fork_run"
    BY <1>2, <1>7 DEF Live
  <1> HIDE DEF np
  <1> QED BY <1>2, <1>3, <1>4, <1>7, <1>9, <1>10, SlotKids

\* fork() writes the parent of the slot it fills.
LEMMA ForkParentKids ==
  ASSUME NEW c \in Cpu, NEW p \in Slot, ProcInv, KidsInv, ForkParent(c, p)
  PROVE  KidsInv'
  <1> DEFINE np == arg[p]
  <1>1. TableInv /\ TypeOK /\ Runs(c, p) /\ state[p] = "RUNNING" /\ pc[p] = "fork_parent"
    BY Holds DEF ProcInv, TableInv, ForkParent
  <1>2. np \in Slot /\ state[np] = "USED"
    BY <1>1, Filling DEF Forking
  <1>3. UNCHANGED <<state, chan, arg>> /\ Goto(p, "fork_run") /\ parent' = [parent EXCEPT ![np] = p]
    BY DEF ForkParent
  <1>4. Others(p) /\ pc'[p] = "fork_run" /\ \A q \in Slot \ {p} : kids'[q] = kids[q]
    BY <1>1, <1>3, Moves, KidsReset
  <1>5. parent'[np] = p /\ \A q \in Slot \ {np} : parent'[q] = parent[q]
    BY <1>1, <1>2, <1>3, Arrays
  <1> HIDE DEF np
  <1>6. ASSUME NEW q \in Slot, state'[q] = "UNUSED" PROVE parent'[q] = NoSlot
    BY <1>2, <1>3, <1>5, <1>6 DEF KidsInv
  <1>7. ASSUME NEW q \in Slot, NEW r \in Slot, state'[q] = "USED", parent'[q] = r
        PROVE  pc'[r] = "fork_run" /\ arg'[r] = q
    <2>1. CASE q = np
      BY <1>3, <1>4, <1>5, <1>7, <2>1 DEF np
    <2>2. CASE q # np
      <3>1. pc[r] = "fork_run" /\ arg[r] = q
        BY <1>3, <1>5, <1>7, <2>2 DEF KidsInv
      <3> QED BY <1>1, <1>4, <3>1 DEF Others
    <2> QED BY <2>1, <2>2
  <1>8. ASSUME NEW q \in Slot, Expecting(q)' PROVE LiveChild(q)'
    <2>1. Expecting(q)
      BY <1>1, <1>3, <1>4, <1>8 DEF Expecting, Dozing, Others
    <2>2. PICK k \in Slot : parent[k] = q /\ state[k] \in Live
      BY <2>1 DEF KidsInv, LiveChild
    <2>3. k # np
      BY <1>2, <2>2 DEF Live
    <2> QED BY <1>3, <1>5, <2>2, <2>3 DEF LiveChild
  <1> QED BY <1>6, <1>7, <1>8 DEF KidsInv

\* reparent() gives a child to init. The process that exits expects nobody.
LEMMA ReparentKids ==
  ASSUME NEW c \in Cpu, NEW p \in Slot, ProcInv, KidsInv, ReparentChild(c, p)
  PROVE  KidsInv'
  <1> DEFINE np == idx[p]
  <1>1. TypeOK /\ Runs(c, p) /\ state[p] = "RUNNING" /\ pc[p] = "reparent"
    BY Holds DEF ProcInv, TableInv, ReparentChild
  <1>2. np \in Slot /\ parent[np] = p /\ UNCHANGED <<state, chan, arg, kids>>
    BY DEF ReparentChild
  <1>3. pc'[p] = "wakeup_init" /\ \A q \in Slot \ {p} : pc'[q] = pc[q]
    BY <1>1 DEF ReparentChild, TypeOK
  <1>4. \A q \in Slot \ {np} : parent'[q] = parent[q]
    BY <1>1, <1>2 DEF ReparentChild, TypeOK
  <1> HIDE DEF np
  <1>5. p # NoSlot
    BY SlotFacts
  <1>6. state[np] # "UNUSED"
    BY <1>2, <1>5 DEF KidsInv
  <1>7. state[np] # "USED"
    BY <1>1, <1>2 DEF KidsInv
  <1>8. ASSUME NEW q \in Slot, state'[q] = "UNUSED" PROVE parent'[q] = NoSlot
    BY <1>2, <1>4, <1>6, <1>8 DEF KidsInv
  <1>9. ASSUME NEW q \in Slot, NEW r \in Slot, state'[q] = "USED", parent'[q] = r
        PROVE  pc'[r] = "fork_run" /\ arg'[r] = q
    <2>1. pc[r] = "fork_run" /\ arg[r] = q
      BY <1>2, <1>4, <1>7, <1>9 DEF KidsInv
    <2> QED BY <1>1, <1>2, <1>3, <2>1
  <1>10. ASSUME NEW q \in Slot, Expecting(q)' PROVE LiveChild(q)'
    <2>1. q # p
      BY <1>1, <1>2, <1>3, <1>10 DEF Expecting, Dozing
    <2>2. Expecting(q)
      BY <1>2, <1>3, <1>10, <2>1 DEF Expecting, Dozing
    <2>3. PICK k \in Slot : parent[k] = q /\ state[k] \in Live
      BY <2>2 DEF KidsInv, LiveChild
    <2>4. k # np
      BY <1>2, <2>1, <2>3
    <2> QED BY <1>2, <1>4, <2>3, <2>4 DEF LiveChild
  <1> QED BY <1>8, <1>9, <1>10 DEF KidsInv

\* A process becomes a zombie. Its parent has been woken, and is kept out of
\* wait() by wait_lock.
LEMMA ExitZombieKids ==
  ASSUME NEW c \in Cpu, NEW p \in Slot, ProcInv, KidsInv, ExitZombie(c, p)
  PROVE  KidsInv'
  <1>1. TableInv /\ HolderInv /\ TypeOK /\ Runs(c, p) /\ pc[p] = "exit_zombie"
    BY DEF ProcInv, TableInv, ExitZombie
  <1>2. Return(p) /\ UNCHANGED <<parent, chan>>
    BY DEF ExitZombie
  <1>3. Others(p) /\ pc'[p] = "user" /\ \A q \in Slot \ {p} : kids'[q] = kids[q]
    BY <1>1, <1>2, Returns, KidsReset DEF Return
  <1>4. state'[p] = "ZOMBIE" /\ \A q \in Slot \ {p} : state'[q] = state[q]
    BY <1>1 DEF ExitZombie, TypeOK
  <1>5. \A q \in Slot \ {p} : pc[q] \notin {"wait_scan", "sleep_acquire"}
    BY <1>1, InSection DEF WaitPc
  <1>6. \A q \in Slot : parent[p] = q => ~Dozing(q)
    BY <1>1 DEF ProcInv, WaitInv, SeenBy
  <1>7. ASSUME NEW q \in Slot, state'[q] = "UNUSED" PROVE parent'[q] = NoSlot
    BY <1>2, <1>4, <1>7 DEF KidsInv
  <1>8. ASSUME NEW q \in Slot, NEW r \in Slot, state'[q] = "USED", parent'[q] = r
        PROVE  pc'[r] = "fork_run" /\ arg'[r] = q
    <2>1. state[q] = "USED" /\ parent[q] = r
      BY <1>2, <1>4, <1>8
    <2>2. pc[r] = "fork_run" /\ arg[r] = q
      BY <2>1 DEF KidsInv
    <2> QED BY <1>1, <1>3, <2>2 DEF Others
  <1>9. ASSUME NEW q \in Slot, Expecting(q)' PROVE LiveChild(q)'
    <2>1. q # p
      BY <1>3, <1>4, <1>9 DEF Expecting, Dozing
    <2>2. Expecting(q)
      BY <1>2, <1>3, <1>4, <1>9, <2>1 DEF Expecting, Dozing, Others
    <2>3. PICK k \in Slot : parent[k] = q /\ state[k] \in Live
      BY <2>2 DEF KidsInv, LiveChild
    <2>4. k # p
      BY <1>5, <1>6, <2>1, <2>2, <2>3 DEF Expecting
    <2> QED BY <1>2, <1>4, <2>3, <2>4 DEF LiveChild
  <1> QED BY <1>7, <1>8, <1>9 DEF KidsInv

\* Every step keeps KidsInv.
LEMMA NextKids ==
  ASSUME ProcInv, KidsInv, [Next]_vars
  PROVE  KidsInv'
  <1>1. ASSUME NEW c \in Cpu, NEW p \in Slot, Kernel(c, p) PROVE KidsInv'
    BY <1>1, ReturnKids, SectionKids, LoopKids, WaitSkipKids, WaitSleepKids, YieldKids, RunnableKids,
       SleepSchedKids, FreeKids, ForkParentKids, ReparentKids, ExitZombieKids DEF Kernel
  <1>2. CASE Next
    BY <1>1, <1>2, SwitchKids, UserCallKids, YieldKids DEF Next
  <1>3. CASE UNCHANGED vars
    <2>1. UNCHANGED <<state, parent, chan, pc, arg, kids>>
      BY <1>3 DEF vars, procVars, localVars
    <2>2. \A q \in Slot : Expecting(q)' => Expecting(q)
      BY <2>1 DEF Expecting, Dozing
    <2> QED BY <2>1, <2>2, KidsStep
  <1> QED BY <1>2, <1>3

\* Nobody sleeps in wait(), killed or not, without a child that has yet to
\* exit: the child wait() saw cannot end before sleep() is under way, since
\* exit() needs wait_lock, and afterwards it wakes its parent before it ends.
THEOREM SleepersHaveLiveChildren == Spec => []SleeperHasLiveChild
  <1>1. Init => KidsInv
    <2> SUFFICES ASSUME Init PROVE KidsInv
      OBVIOUS
    <2>1. \A q \in Slot : /\ q # NoSlot /\ state[q] \in {"RUNNABLE", "UNUSED"} /\ parent[q] = NoSlot
                          /\ pc[q] = "user"
      BY SlotFacts DEF Init
    <2> QED BY <2>1 DEF KidsInv, Expecting, Dozing
  <1>2. KidsInv => SleeperHasLiveChild
    BY DEF KidsInv, SleeperHasLiveChild, Expecting, Dozing
  <1>3. ProcInv /\ KidsInv /\ [Next]_vars => KidsInv'
    BY NextKids
  <1> QED BY <1>1, <1>2, <1>3, ProcInvariant, PTL DEF Spec
=============================================================================
