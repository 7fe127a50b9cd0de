-------------------------------- MODULE Log --------------------------------
(***************************************************************************)
(* The redo log of kernel/log.c over the buffer cache of kernel/bio.c, with*)
(* a crash possible before, between and after all disk writes.             *)
(*                                                                         *)
(* Threads bracket file-system operations with begin_op() and end_op() and *)
(* change blocks through log_write().  Sections that run under log.lock    *)
(* are one step; sleep(&log, &log.lock) releases the lock and sleeps       *)
(* atomically (module Proc).  A write of one disk block is atomic and is   *)
(* durable when bwrite() returns, because virtio_disk_rw() waits for the   *)
(* device; a commit is therefore one step per block it writes.             *)
(***************************************************************************)
EXTENDS Integers, Sequences, FiniteSets

CONSTANTS
    Block,        \* home blocks
    Val,          \* block contents
    InitVal,      \* what mkfs wrote
    NoVal,        \* "not in the buffer cache"
    Thread,       \* processes inside file-system calls
    MAXOPBLOCKS,  \* log space begin_op() reserves for an operation
    OpBlocks,     \* distinct blocks an operation really writes, at most
    LOGSIZE,      \* capacity of logheader.block[]
    LogSize       \* log.size = sb.nlog: blocks of the log on disk

ASSUME LogAssumption ==
    /\ InitVal \in Val /\ NoVal \notin Val
    /\ MAXOPBLOCKS \in Nat /\ LOGSIZE \in Nat \ {0} /\ LogSize \in Nat
    /\ OpBlocks \in 1..MAXOPBLOCKS
    /\ IsFiniteSet(Thread)

VARIABLES
    home, dhdr, dlog,                 \* disk: home blocks, log header, log data
    cache, pin,                       \* buffers: data (or NoVal), bpin() count
    lh, outstanding, committing,      \* struct log
    op, wrote,                        \* each thread, and the blocks its op wrote
    panicked,                         \* log_write() has stopped, holding log.lock
    phase, tail                       \* place in commit() or recover_from_log()

diskVars == <<home, dhdr, dlog>>
logVars == <<lh, outstanding, committing>>
vars == <<diskVars, cache, pin, logVars, op, wrote, panicked, phase, tail>>

Phases == {"idle", "write_log", "write_head", "install", "clear", "finish",
           "read_head", "recover_install", "recover_clear"}
OpStates == {"idle", "asleep", "woken", "active", "commit"}

Recovering == phase \in {"read_head", "recover_install", "recover_clear"}

Init ==
    /\ home = [b \in Block |-> InitVal]
    /\ dhdr = <<>>
    /\ dlog = [i \in 1..LOGSIZE |-> InitVal]
    /\ cache = [b \in Block |-> NoVal]
    /\ pin = [b \in Block |-> 0]
    /\ lh = <<>> /\ outstanding = 0 /\ committing = FALSE
    /\ op = [t \in Thread |-> "idle"]
    /\ wrote = [t \in Thread |-> {}]
    /\ panicked = FALSE
    /\ phase = "read_head" /\ tail = 1
-----------------------------------------------------------------------------
(* The buffer cache, as log.c uses it.                                     *)

\* bread(b)->data: the cached copy if there is one, else the disk's.
BRead(b) == IF cache[b] = NoVal THEN home[b] ELSE cache[b]

\* mutant: a pinned buffer is recycled
EvictPinned(b) ==
    /\ cache[b] # NoVal
    /\ cache' = [cache EXCEPT ![b] = NoVal]
    /\ UNCHANGED <<diskVars, pin, logVars, op, wrote, panicked, phase, tail>>

\* bget() recycles a buffer that nobody uses or pins, without writing it.
Evict(b) ==
    /\ cache[b] # NoVal /\ pin[b] = 0
    /\ cache' = [cache EXCEPT ![b] = NoVal]
    /\ UNCHANGED <<diskVars, pin, logVars, op, wrote, panicked, phase, tail>>
-----------------------------------------------------------------------------
(* begin_op(), log_write() and end_op().                                   *)

\* "this op might exhaust log space; wait for commit."
LogSpace == Len(lh) + (outstanding + 1) * MAXOPBLOCKS <= LOGSIZE

\* mutant: a commit does not keep new operations out
MustWaitForSpace == ~LogSpace

MustWait == committing \/ ~LogSpace

\* mutant: the waiters are not woken
WakeNone(o) == o

\* wakeup(&log)
WakeAll(o) == [t \in Thread |-> IF o[t] = "asleep" THEN "woken" ELSE o[t]]

\* One turn of begin_op()'s loop.
BeginOp(t) ==
    /\ ~Recovering /\ ~panicked
    /\ op[t] \in {"idle", "woken"}
    /\ \/ /\ MustWait
          /\ op' = [op EXCEPT ![t] = "asleep"]
          /\ UNCHANGED outstanding
       \/ /\ ~MustWait
          /\ outstanding' = outstanding + 1
          /\ op' = [op EXCEPT ![t] = "active"]
    /\ UNCHANGED <<diskVars, cache, pin, lh, committing, wrote, panicked, phase, tail>>

\* Otherwise log_write() calls panic("too big a transaction").
LogHasRoom == Len(lh) < LOGSIZE /\ Len(lh) < LogSize - 1

\* bread(), a change of the buffer, log_write() and brelse(), all under the
\* buffer's sleep-lock: absorb a block already logged, else append and pin.
\* An active thread is counted, so panic("log_write outside of trans") is dead.
LogWrite(t, b, v) ==
    /\ op[t] = "active" /\ ~panicked /\ LogHasRoom
    /\ b \in wrote[t] \/ Cardinality(wrote[t]) < OpBlocks
    /\ wrote' = [wrote EXCEPT ![t] = @ \cup {b}]
    /\ cache' = [cache EXCEPT ![b] = v]
    /\ \/ /\ \E i \in 1..Len(lh) : lh[i] = b
          /\ UNCHANGED <<lh, pin>>
       \/ /\ \A i \in 1..Len(lh) : lh[i] # b
          /\ lh' = Append(lh, b)
          /\ pin' = [pin EXCEPT ![b] = @ + 1]
    /\ UNCHANGED <<diskVars, outstanding, committing, op, panicked, phase, tail>>

\* log_write() finds the log full, of a block already logged too.  The thread
\* stops with log.lock and the buffer it changed, which nobody sees again:
\* until the machine is started anew nobody begins, logs or ends anything.
LogPanic(t) ==
    /\ op[t] = "active" /\ ~panicked /\ ~LogHasRoom
    /\ panicked' = TRUE
    /\ UNCHANGED <<diskVars, cache, pin, logVars, op, wrote, phase, tail>>

\* The last operation to end commits, the others wake begin_op() waiters.
EndOp(t) ==
    /\ op[t] = "active" /\ ~panicked
    /\ outstanding' = outstanding - 1
    /\ wrote' = [wrote EXCEPT ![t] = {}]
    /\ \/ /\ outstanding = 1
          /\ committing' = TRUE
          /\ op' = [op EXCEPT ![t] = "commit"]
          /\ phase' = IF lh = <<>> THEN "finish" ELSE "write_log"
       \/ /\ outstanding # 1
          /\ op' = WakeAll([op EXCEPT ![t] = "idle"])
          /\ UNCHANGED <<committing, phase>>
    /\ UNCHANGED <<diskVars, cache, pin, lh, panicked, tail>>
-----------------------------------------------------------------------------
(* commit(), run by the thread whose op is "commit", without log.lock.     *)

\* After the step for entry tail of a loop over lh, go on with `next`.
LoopTo(next) ==
    /\ tail' = IF tail = Len(lh) THEN 1 ELSE tail + 1
    /\ phase' = IF tail = Len(lh) THEN next ELSE phase

\* write_log(): copy one cached block to the log.
WriteLog ==
    /\ phase = "write_log"
    /\ dlog' = [dlog EXCEPT ![tail] = BRead(lh[tail])]
    /\ cache' = [cache EXCEPT ![lh[tail]] = BRead(lh[tail])]
    /\ LoopTo("write_head")
    /\ UNCHANGED <<home, dhdr, pin, logVars, op, wrote, panicked>>

\* write_head(): the commit point.
WriteHead ==
    /\ phase = "write_head"
    /\ dhdr' = lh
    /\ phase' = "install"
    /\ UNCHANGED <<home, dlog, cache, pin, logVars, op, wrote, panicked, tail>>

\* install_trans(): copy one block from the log to its home.
InstallOne(unpin) ==
    LET b == lh[tail] IN
    /\ home' = [home EXCEPT ![b] = dlog[tail]]
    /\ cache' = [cache EXCEPT ![b] = dlog[tail]]
    /\ pin' = IF unpin THEN [pin EXCEPT ![b] = @ - 1] ELSE pin
    /\ UNCHANGED <<dhdr, dlog, logVars, op, wrote, panicked>>

InstallTrans == phase = "install" /\ InstallOne(TRUE) /\ LoopTo("clear")

\* log.lh.n = 0; write_head(): erase the transaction.
Clear ==
    /\ lh' = <<>> /\ dhdr' = <<>>
    /\ UNCHANGED <<home, dlog, cache, pin, outstanding, committing, op, wrote, panicked, tail>>

ClearLog == phase = "clear" /\ Clear /\ phase' = "finish"

\* The end of end_op(): committing = 0 and wakeup(&log).
Finish(t) ==
    /\ phase = "finish" /\ op[t] = "commit"
    /\ committing' = FALSE
    /\ op' = WakeAll([op EXCEPT ![t] = "idle"])
    /\ phase' = "idle"
    /\ UNCHANGED <<diskVars, cache, pin, lh, outstanding, wrote, panicked, tail>>
-----------------------------------------------------------------------------
(* A crash, and initlog() -> recover_from_log() at the next boot.          *)

\* Power fails: only the disk survives.
Crash ==
    /\ cache' = [b \in Block |-> NoVal]
    /\ pin' = [b \in Block |-> 0]
    /\ lh' = <<>> /\ outstanding' = 0 /\ committing' = FALSE
    /\ op' = [t \in Thread |-> "idle"]
    /\ wrote' = [t \in Thread |-> {}]
    /\ panicked' = FALSE
    /\ phase' = "read_head" /\ tail' = 1
    /\ UNCHANGED diskVars

ReadHead ==
    /\ phase = "read_head"
    /\ lh' = dhdr
    /\ phase' = IF dhdr = <<>> THEN "recover_clear" ELSE "recover_install"
    /\ UNCHANGED <<diskVars, cache, pin, outstanding, committing, op, wrote, panicked, tail>>

RecoverInstall ==
    phase = "recover_install" /\ InstallOne(FALSE) /\ LoopTo("recover_clear")

RecoverClear == phase = "recover_clear" /\ Clear /\ phase' = "idle"
-----------------------------------------------------------------------------
CommitStep ==
    WriteLog \/ WriteHead \/ InstallTrans \/ ClearLog \/ \E t \in Thread : Finish(t)

RecoverStep == ReadHead \/ RecoverInstall \/ RecoverClear

Next ==
    \/ \E t \in Thread : BeginOp(t) \/ EndOp(t) \/ LogPanic(t)
    \/ \E t \in Thread, b \in Block, v \in Val : LogWrite(t, b, v)
    \/ CommitStep
    \/ \E b \in Block : Evict(b)
    \/ Crash
    \/ RecoverStep

Spec == Init /\ [][Next]_vars
-----------------------------------------------------------------------------
TypeOK ==
    /\ home \in [Block -> Val]
    /\ dhdr \in Seq(Block) /\ Len(dhdr) <= LOGSIZE
    /\ dlog \in [1..LOGSIZE -> Val]
    /\ cache \in [Block -> Val \cup {NoVal}]
    /\ pin \in [Block -> Nat]
    /\ lh \in Seq(Block) /\ Len(lh) <= LOGSIZE
    /\ outstanding \in Nat
    /\ committing \in BOOLEAN
    /\ op \in [Thread -> OpStates]
    /\ wrote \in [Thread -> SUBSET Block]
    /\ panicked \in BOOLEAN
    /\ phase \in Phases
    /\ tail \in 1..LOGSIZE

\* The contents recovery would leave after a crash now.
Durable ==
    [b \in Block |->
        IF \E i \in 1..Len(dhdr) : dhdr[i] = b
        THEN dlog[CHOOSE i \in 1..Len(dhdr) : dhdr[i] = b] ELSE home[b]]

\* What file-system operations read.
View == IF Recovering THEN Durable ELSE [b \in Block |-> BRead(b)]

Promise == INSTANCE AtomicDisk
    WITH disk <- Durable, view <- View,
         inflight <- {t \in Thread : op[t] = "active"}

\* "The on-disk log ... contains the updates of only complete system calls":
\* whatever is evicted, absorbed, grouped or interrupted by crashes (also
\* during recovery), operations become durable in whole groups, the
\* write of the header being the commit point.
CrashAtomic == Promise!Spec

\* A commit sees no operation in progress ("there is never any reasoning
\* required about whether a commit might write an uncommitted system call's
\* updates"), so end_op()'s panic("log.committing") is unreachable, and the
\* count of operations is right.
CommitIsAlone ==
    /\ outstanding = Cardinality({t \in Thread : op[t] = "active"})
    /\ committing => outstanding = 0
    /\ committing <=> \E t \in Thread : op[t] = "commit"

\* Between transactions everything written is durable and nothing is left
\* pinned: every bpin() of log_write() met its bunpin() in install_trans().
QuiescentIsDurable ==
    ~Recovering /\ ~committing /\ outstanding = 0 =>
        Durable = View /\ lh = <<>> /\ \A b \in Block : pin[b] = 0

\* The rest of the inductive invariant (LogProofs).  Of the phases of a
\* commit: which of them a committing end_op() can be in, which header is on
\* disk in each (none before the commit point, log.lh after it), no block is
\* logged twice, and where the loops over log.lh are.
Committing == {"write_log", "write_head", "install", "clear", "finish"}

NoDuplicates(s) == \A i, j \in 1..Len(s) : s[i] = s[j] => i = j

PhaseInv ==
    /\ committing <=> phase \in Committing
    /\ Recovering => outstanding = 0
    /\ \A t, u \in Thread : op[t] = "commit" /\ op[u] = "commit" => t = u
    /\ NoDuplicates(lh) /\ NoDuplicates(dhdr)
    /\ phase \in {"install", "clear", "recover_install", "recover_clear"} => dhdr = lh
    /\ phase \in {"idle", "write_log", "write_head", "finish"} => dhdr = <<>>
    /\ phase \in {"write_log", "write_head"} => Len(lh) > 0
    /\ phase \in {"read_head", "finish"} => lh = <<>>
    /\ phase = "idle" /\ outstanding = 0 => lh = <<>>
    /\ IF phase \in {"write_log", "install", "recover_install"}
       THEN tail <= Len(lh) ELSE tail = 1

\* The blocks that only the buffer cache and perhaps the log have up to date.
Pending ==
    {lh[i] : i \in CASE Recovering \/ phase = "clear" -> {}
                     [] phase = "install" -> tail..Len(lh)
                     [] OTHER -> 1..Len(lh)}

\* A buffer is pinned, once, exactly while its block is pending, so that it
\* stays cached; every other cached buffer is what the disk has.
PinInv ==
    \A b \in Block :
        IF b \in Pending THEN pin[b] = 1 /\ cache[b] # NoVal
        ELSE pin[b] = 0 /\ cache[b] \in {NoVal, home[b]}

\* What write_log() has copied is what operations read, and what
\* install_trans() has copied is what the log holds.
CopyInv ==
    /\ phase = "write_log" => \A i \in 1..(tail - 1) : dlog[i] = BRead(lh[i])
    /\ phase \in {"write_head", "install", "clear"} =>
          \A i \in 1..Len(lh) : dlog[i] = BRead(lh[i])
    /\ phase \in {"install", "recover_install"} =>
          \A i \in 1..(tail - 1) : home[lh[i]] = dlog[i]
    /\ phase \in {"clear", "recover_clear"} =>
          \A i \in 1..Len(lh) : home[lh[i]] = dlog[i]

\* What holds of log.c's state at every step: its types, commits without
\* operations in progress, nothing left over between transactions, and what
\* makes them so: the header on disk, the pins and the copies of each phase.
LogInv ==
    /\ TypeOK /\ CommitIsAlone /\ QuiescentIsDurable
    /\ PhaseInv /\ PinInv /\ CopyInv
-----------------------------------------------------------------------------
\* System calls end, and the committing thread is scheduled and its disk
\* writes complete; nothing is assumed about who wins the race for space.
Fairness ==
    /\ \A t \in Thread : WF_vars(EndOp(t)) /\ WF_vars(op[t] = "woken" /\ BeginOp(t))
    /\ WF_vars(CommitStep)
    /\ WF_vars(RecoverStep)

FairSpec == Spec /\ Fairness

\* begin_op() "sleeps until the last outstanding end_op() commits": whoever is
\* put to sleep, the wakeup() of end_op() comes and wakes them all, unless
\* log_write() panics first.
WaiterIsWoken ==
    (\E t \in Thread : op[t] = "asleep") ~> (panicked \/ \A t \in Thread : op[t] # "asleep")

\* Unless the machine keeps crashing, a commit or a recovery, once begun, runs
\* to its end: every loop of write_log() and install_trans() terminates.
CommitEnds == <>[][~Crash]_vars => (phase # "idle" ~> phase = "idle")

\* Short of a panic nobody waits for ever in begin_op(), end_op() or
\* recover_from_log().
LogProgress == WaiterIsWoken /\ CommitEnds
=============================================================================
