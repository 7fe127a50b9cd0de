----------------------------- MODULE LogProofs ------------------------------
(***************************************************************************)
(* Proofs about module Log, for any blocks, contents, threads and log      *)
(* size: LogInv is inductive, and with it every step of log.c is a step of *)
(* AtomicDisk or changes nothing a file-system operation or a crash could  *)
(* see.                                                                    *)
(***************************************************************************)
EXTENDS Log, FiniteSetTheorems, TLAPS

\* Most leaves are first-order and go to Zenon; the others name the SMT solver.
USE ZenonT(30)

\* The conjuncts of LogInv that are inductive together.
CoreInv == TypeOK /\ CommitIsAlone /\ PhaseInv /\ PinInv /\ CopyInv

\* Which blocks are pending, phase by phase.
LEMMA PendingIs ==
    /\ Recovering \/ phase = "clear" => Pending = {}
    /\ phase = "install" => Pending = {lh[i] : i \in tail..Len(lh)}
    /\ ~Recovering /\ phase # "clear" /\ phase # "install" =>
          Pending = {lh[i] : i \in 1..Len(lh)}
  BY DEF Pending, Recovering

\* A set of threads has a size, which is 0 for the empty set only.
LEMMA ActiveCount ==
  ASSUME NEW S \in SUBSET Thread
  PROVE  /\ Cardinality(S) \in Nat
         /\ Cardinality(S) = 0 <=> S = {}
         /\ \A t \in Thread : t \notin S => Cardinality(S \cup {t}) = Cardinality(S) + 1
         /\ \A t \in S : Cardinality(S \ {t}) = Cardinality(S) - 1
  <1>1. IsFiniteSet(S)
    BY LogAssumption, FS_Subset
  <1> QED BY <1>1, FS_CardinalityType, FS_EmptySet, FS_AddElement, FS_RemoveElement

\* Between transactions nothing is logged, so the disk has it all.
LEMMA Quiescent == CoreInv => QuiescentIsDurable
  <1> SUFFICES ASSUME CoreInv, ~Recovering, ~committing, outstanding = 0
               PROVE  Durable = View /\ lh = <<>> /\ \A b \in Block : pin[b] = 0
    BY DEF QuiescentIsDurable
  <1>1. phase = "idle" /\ lh = <<>> /\ dhdr = <<>>
    BY DEF CoreInv, TypeOK, PhaseInv, Phases, Committing, Recovering
  <1>2. Pending = {}
    BY <1>1, PendingIs, SMTT(30)
  <1>3. \A b \in Block : pin[b] = 0 /\ BRead(b) = home[b]
    BY <1>2 DEF CoreInv, PinInv, BRead
  <1>4. Durable = [b \in Block |-> home[b]]
    BY <1>1, SMTT(30) DEF Durable
  <1> QED BY <1>1, <1>3, <1>4 DEF View

\* While an operation is in progress there is neither a commit nor a recovery.
LEMMA ActiveIsIdle ==
  ASSUME CoreInv, NEW t \in Thread, op[t] = "active"
  PROVE  outstanding >= 1 /\ phase = "idle" /\ ~committing
  <1> DEFINE Active == {u \in Thread : op[u] = "active"}
  <1>1. outstanding \in Nat /\ outstanding # 0
    <2>1. Active # {} /\ outstanding = Cardinality(Active)
      BY DEF CoreInv, CommitIsAlone
    <2>2. Cardinality(Active) \in Nat /\ (Cardinality(Active) = 0 <=> Active = {})
      BY ActiveCount
    <2> QED BY <2>1, <2>2
  <1> QED BY <1>1, SMTT(30) DEF CoreInv, TypeOK, CommitIsAlone, PhaseInv, Phases, Committing, Recovering

\* The machine boots into initlog(), with an empty log.
LEMMA InitCore == Init => CoreInv
  <1> SUFFICES ASSUME Init PROVE CoreInv
    OBVIOUS
  <1> USE LogAssumption DEF Init
  <1>1. TypeOK
    <2>1. dlog \in [1..LOGSIZE -> Val] /\ tail \in 1..LOGSIZE
      BY SMTT(30)
    <2>2. lh \in Seq(Block) /\ Len(lh) <= LOGSIZE
      BY SMTT(30)
    <2> QED BY <2>1, <2>2 DEF TypeOK, OpStates, Phases
  <1>2. CommitIsAlone
    <2>1. {t \in Thread : op[t] = "active"} = {}
      OBVIOUS
    <2> QED BY <2>1, FS_EmptySet DEF CommitIsAlone
  <1>3. PhaseInv
    BY SMTT(30) DEF PhaseInv, NoDuplicates, Committing, Recovering
  <1>4. PinInv
    BY PendingIs DEF PinInv, Recovering
  <1>5. CopyInv
    BY DEF CopyInv
  <1> QED BY <1>1, <1>2, <1>3, <1>4, <1>5 DEF CoreInv
-----------------------------------------------------------------------------
\* bget() recycles only buffers that are not pending.
LEMMA EvictCore ==
  ASSUME NEW b \in Block, CoreInv, Evict(b)
  PROVE  CoreInv'
  <1> USE DEF Evict, diskVars, logVars
  <1>1. TypeOK'
    BY DEF CoreInv, TypeOK
  <1>2. CommitIsAlone'
    BY DEF CoreInv, CommitIsAlone
  <1>3. PhaseInv'
    BY SMTT(30) DEF CoreInv, PhaseInv, NoDuplicates, Recovering
  <1>4. Pending' = Pending
    BY DEF Pending, Recovering
  <1>5. PinInv'
    BY <1>4, SMTT(30) DEF CoreInv, PinInv, TypeOK
  <1>6. \A a \in Block : BRead(a)' = BRead(a)
    BY SMTT(30) DEF CoreInv, PinInv, TypeOK, BRead
  <1>7. CopyInv'
    <2>1. \A i \in 1..Len(lh) : lh[i] \in Block
      BY SMTT(30) DEF CoreInv, TypeOK
    <2> QED BY <1>6, <2>1, SMTT(30) DEF CoreInv, CopyInv, TypeOK, PhaseInv, BRead
  <1> QED BY <1>1, <1>2, <1>3, <1>5, <1>7 DEF CoreInv

\* begin_op() goes to sleep, or counts a new operation while no commit runs.
LEMMA BeginOpCore ==
  ASSUME NEW t \in Thread, CoreInv, BeginOp(t)
  PROVE  CoreInv'
  <1> USE DEF BeginOp, diskVars
  <1> DEFINE Active == {u \in Thread : op[u] = "active"}
  <1>1. TypeOK'
    <2>1. op' \in [Thread -> OpStates]
      BY DEF CoreInv, TypeOK, OpStates
    <2>2. outstanding' \in Nat
      BY SMTT(30) DEF CoreInv, TypeOK
    <2> QED BY <2>1, <2>2 DEF CoreInv, TypeOK
  <1>2. \A u \in Thread : op'[u] = "commit" <=> op[u] = "commit"
    BY DEF CoreInv, TypeOK
  <1>3. CommitIsAlone' /\ (outstanding' = outstanding \/ outstanding' = outstanding + 1)
    <2>1. CASE MustWait /\ op' = [op EXCEPT ![t] = "asleep"] /\ UNCHANGED outstanding
      <3>1. Active' = Active
        BY <2>1 DEF CoreInv, TypeOK
      <3>2. Cardinality(Active') = Cardinality(Active)
        BY <3>1
      <3> QED BY <1>2, <2>1, <3>2 DEF CoreInv, TypeOK, CommitIsAlone
    <2>2. CASE ~MustWait /\ outstanding' = outstanding + 1 /\ op' = [op EXCEPT ![t] = "active"]
      <3>1. Active' = Active \cup {t} /\ t \notin Active
        BY <2>2 DEF CoreInv, TypeOK
      <3>2. Cardinality(Active') = Cardinality(Active) + 1
        BY <3>1, ActiveCount, SMTT(30)
      <3> QED BY <1>2, <2>2, <3>2 DEF CoreInv, CommitIsAlone, MustWait
    <2> QED BY <2>1, <2>2
  <1>4. PhaseInv'
    <2>1. phase = "idle" /\ outstanding' = 0 => outstanding = 0
      BY <1>3, SMTT(30) DEF CoreInv, TypeOK
    <2>2. ~Recovering'
      BY DEF Recovering
    <2> QED BY <1>2, <2>1, <2>2, SMTT(30) DEF CoreInv, TypeOK, PhaseInv, NoDuplicates
  <1>5. Pending' = Pending
    BY DEF Pending, Recovering
  <1>6. PinInv'
    BY <1>5 DEF CoreInv, PinInv
  <1>7. CopyInv'
    BY DEF CoreInv, CopyInv, BRead
  <1> QED BY <1>1, <1>3, <1>4, <1>6, <1>7 DEF CoreInv

\* log_write() logs and pins a block once per transaction.
LEMMA LogWriteCore ==
  ASSUME NEW t \in Thread, NEW b \in Block, NEW v \in Val, CoreInv, LogWrite(t, b, v)
  PROVE  CoreInv'
  <1> USE DEF LogWrite, diskVars
  <1>1. outstanding >= 1 /\ phase = "idle" /\ ~committing
    BY ActiveIsIdle
  <1>2. /\ lh' \in Seq(Block) /\ Len(lh') <= LOGSIZE
        /\ {lh'[i] : i \in 1..Len(lh')} = {lh[i] : i \in 1..Len(lh)} \cup {b}
        /\ NoDuplicates(lh')
    <2>1. CASE \E i \in 1..Len(lh) : lh[i] = b
      BY <2>1 DEF CoreInv, TypeOK, PhaseInv
    <2>2. CASE \A i \in 1..Len(lh) : lh[i] # b
      <3>1. lh' = Append(lh, b) /\ Len(lh) < LOGSIZE
        BY <2>2 DEF LogHasRoom
      <3>2. /\ Len(lh') = Len(lh) + 1 /\ lh'[Len(lh) + 1] = b
            /\ \A i \in 1..Len(lh) : lh'[i] = lh[i]
        BY <3>1, SMTT(30) DEF CoreInv, TypeOK
      <3>3. lh' \in Seq(Block) /\ Len(lh') <= LOGSIZE
        BY <3>1, <3>2, LogAssumption, SMTT(30) DEF CoreInv, TypeOK
      <3>4. Len(lh) \in Nat
        BY SMTT(30) DEF CoreInv, TypeOK
      <3>5. {lh'[i] : i \in 1..Len(lh')} = {lh[i] : i \in 1..Len(lh)} \cup {b}
        <4>1. 1..Len(lh') = (1..Len(lh)) \cup {Len(lh) + 1}
          BY <3>2, <3>4, SMTT(30)
        <4>2. {lh'[i] : i \in 1..Len(lh')} = {lh'[i] : i \in 1..Len(lh)} \cup {lh'[Len(lh) + 1]}
          BY <4>1
        <4>3. {lh'[i] : i \in 1..Len(lh)} = {lh[i] : i \in 1..Len(lh)}
          BY <3>2, SMTT(30)
        <4> QED BY <3>2, <4>2, <4>3
      <3>6. NoDuplicates(lh')
        BY <2>2, <3>2, <3>4, SMTT(30) DEF CoreInv, PhaseInv, NoDuplicates
      <3> QED BY <3>3, <3>5, <3>6
    <2> QED BY <2>1, <2>2
  <1>3. TypeOK'
    <2>1. cache' \in [Block -> Val \cup {NoVal}] /\ wrote' \in [Thread -> SUBSET Block]
      BY DEF CoreInv, TypeOK
    <2>2. pin' \in [Block -> Nat]
      BY SMTT(30) DEF CoreInv, TypeOK
    <2> QED BY <1>2, <2>1, <2>2 DEF CoreInv, TypeOK
  <1>4. CommitIsAlone'
    BY DEF CoreInv, CommitIsAlone
  <1>5. PhaseInv'
    BY <1>1, <1>2, SMTT(30) DEF CoreInv, TypeOK, PhaseInv, Recovering, NoDuplicates
  <1>6. PinInv'
    <2>1. Pending = {lh[i] : i \in 1..Len(lh)} /\ Pending' = Pending \cup {b}
      BY <1>1, <1>2 DEF Pending, Recovering
    <2>2. pin' = IF b \in Pending THEN pin ELSE [pin EXCEPT ![b] = @ + 1]
      BY <2>1
    <2>3. pin'[b] = 1 /\ cache'[b] # NoVal
      <3>1. cache'[b] = v /\ v # NoVal
        BY LogAssumption DEF CoreInv, TypeOK
      <3>2. b \in Pending => pin[b] = 1
        BY DEF CoreInv, PinInv
      <3>3. b \notin Pending => pin[b] = 0 /\ pin'[b] = pin[b] + 1
        BY <2>2 DEF CoreInv, PinInv, TypeOK
      <3>4. pin'[b] = 1
        BY <2>2, <3>2, <3>3, SMTT(30)
      <3> QED BY <3>1, <3>4
    <2>4. \A a \in Block \ {b} : /\ pin'[a] = pin[a] /\ cache'[a] = cache[a] /\ home'[a] = home[a]
                                 /\ a \in Pending' <=> a \in Pending
      BY <2>1, <2>2 DEF CoreInv, TypeOK
    <2> QED BY <2>1, <2>3, <2>4 DEF CoreInv, PinInv
  <1>7. CopyInv'
    BY <1>1 DEF CopyInv
  <1> QED BY <1>3, <1>4, <1>5, <1>6, <1>7 DEF CoreInv

\* end_op(): only the last operation starts a commit.
LEMMA EndOpCore ==
  ASSUME NEW t \in Thread, CoreInv, EndOp(t)
  PROVE  CoreInv'
  <1> USE DEF EndOp, diskVars
  <1> DEFINE Active == {u \in Thread : op[u] = "active"}
  <1>1. outstanding >= 1 /\ phase = "idle" /\ ~committing /\ tail = 1 /\ dhdr = <<>>
    BY ActiveIsIdle DEF CoreInv, PhaseInv
  <1>2. TypeOK'
    <2>1. op' \in [Thread -> OpStates]
      BY DEF CoreInv, TypeOK, OpStates, WakeAll
    <2>2. outstanding' \in Nat
      BY <1>1, SMTT(30) DEF CoreInv, TypeOK
    <2>3. phase' \in Phases
      BY DEF CoreInv, TypeOK, Phases
    <2>4. committing' \in BOOLEAN
      BY DEF CoreInv, TypeOK
    <2>5. wrote' \in [Thread -> SUBSET Block]
      BY DEF CoreInv, TypeOK
    <2> QED BY <2>1, <2>2, <2>5, <2>3, <2>4 DEF CoreInv, TypeOK
  <1>3. \A u \in Thread : op[u] # "commit"
    BY <1>1 DEF CoreInv, CommitIsAlone
  <1>4. Cardinality(Active') = Cardinality(Active) - 1
    <2>1. Active' = Active \ {t} /\ t \in Active
      BY DEF CoreInv, TypeOK, WakeAll
    <2> QED BY <2>1, ActiveCount
  <1>5. CommitIsAlone'
    BY <1>1, <1>3, <1>4, SMTT(30) DEF CoreInv, TypeOK, CommitIsAlone, WakeAll
  <1>6. PhaseInv'
    <2>1. lh # <<>> => Len(lh) > 0
      BY SMTT(30) DEF CoreInv, TypeOK
    <2>2. (committing <=> phase \in Committing)' /\ ~Recovering'
      BY <1>1, SMTT(30) DEF Recovering, Committing
    <2>3. \A u, w \in Thread : op'[u] = "commit" /\ op'[w] = "commit" => u = w
      BY <1>3 DEF CoreInv, TypeOK, WakeAll
    <2>4. (phase = "idle" /\ outstanding = 0)' => FALSE
      BY <1>1, SMTT(30) DEF CoreInv, TypeOK
    <2> QED BY <1>1, <2>1, <2>2, <2>3, <2>4, SMTT(30) DEF CoreInv, PhaseInv, NoDuplicates
  <1>7. Pending' = Pending
    BY <1>1 DEF Pending, Recovering
  <1>8. PinInv'
    BY <1>7 DEF CoreInv, PinInv
  <1>9. CopyInv'
    BY <1>1, SMTT(30) DEF CopyInv
  <1> QED BY <1>2, <1>5, <1>6, <1>8, <1>9 DEF CoreInv
-----------------------------------------------------------------------------
\* Where the loops over log.lh are: at one of its entries, which is a block.
LEMMA LoopEntry ==
  ASSUME CoreInv, phase \in {"write_log", "install", "recover_install"}
  PROVE  /\ Len(lh) \in Nat /\ tail \in 1..Len(lh) /\ tail \in 1..LOGSIZE
         /\ \A i \in 1..Len(lh) : lh[i] \in Block /\ i \in 1..LOGSIZE
         /\ \A i, j \in 1..Len(lh) : lh[i] = lh[j] => i = j
  BY LogAssumption, SMTT(30) DEF CoreInv, TypeOK, PhaseInv, NoDuplicates

\* write_log() copies the pinned buffers, and so changes no buffer.
LEMMA WriteLogCore ==
  ASSUME CoreInv, WriteLog
  PROVE  CoreInv' /\ cache' = cache
  <1> USE DEF WriteLog, LoopTo, logVars
  <1>1. lh[tail] \in Block /\ lh[tail] \in Pending
    BY LoopEntry, PendingIs DEF Recovering
  <1>2. cache' = cache /\ BRead(lh[tail]) \in Val
    BY <1>1 DEF CoreInv, TypeOK, PinInv, BRead
  <1>3. TypeOK'
    <2>1. dlog' \in [1..LOGSIZE -> Val] /\ tail' \in 1..LOGSIZE /\ phase' \in Phases
      BY <1>2, LoopEntry, LogAssumption, SMTT(30) DEF CoreInv, TypeOK, Phases
    <2> QED BY <1>2, <2>1 DEF CoreInv, TypeOK
  <1>4. CommitIsAlone'
    BY DEF CoreInv, CommitIsAlone
  <1>5. PhaseInv'
    BY LoopEntry, SMTT(30) DEF CoreInv, PhaseInv, NoDuplicates, Recovering, Committing
  <1>6. Pending' = Pending
    BY DEF Pending, Recovering
  <1>7. PinInv'
    BY <1>2, <1>6 DEF CoreInv, PinInv
  <1>8. CopyInv'
    <2>1. \A i \in 1..tail : dlog'[i] = BRead(lh[i])
      BY <1>2, LoopEntry, SMTT(30) DEF CoreInv, TypeOK, CopyInv
    <2>2. \A i \in 1..Len(lh) : BRead(lh[i])' = BRead(lh[i])
      BY <1>2 DEF BRead
    <2> QED BY <2>1, <2>2, LoopEntry, SMTT(30) DEF CopyInv, BRead
  <1> QED BY <1>2, <1>3, <1>4, <1>5, <1>7, <1>8 DEF CoreInv

\* write_head() makes the logged blocks those of the header on disk.
LEMMA WriteHeadCore ==
  ASSUME CoreInv, WriteHead
  PROVE  CoreInv'
  <1> USE DEF WriteHead, logVars
  <1>1. tail = 1 /\ Len(lh) >= 1
    BY SMTT(30) DEF CoreInv, PhaseInv
  <1>2. TypeOK'
    BY DEF CoreInv, TypeOK, Phases
  <1>3. CommitIsAlone'
    BY DEF CoreInv, CommitIsAlone
  <1>4. PhaseInv'
    BY <1>1, SMTT(30) DEF CoreInv, PhaseInv, NoDuplicates, Recovering, Committing
  <1>5. Pending' = Pending
    BY <1>1, PendingIs DEF Pending, Recovering
  <1>6. PinInv'
    BY <1>5 DEF CoreInv, PinInv
  <1>7. CopyInv'
    BY <1>1, SMTT(30) DEF CoreInv, CopyInv, BRead
  <1> QED BY <1>2, <1>3, <1>4, <1>6, <1>7 DEF CoreInv

\* install_trans() in a commit: the installed block is no longer pending.
LEMMA InstallTransCore ==
  ASSUME CoreInv, InstallTrans
  PROVE  CoreInv'
  <1> USE DEF InstallTrans, InstallOne, LoopTo, logVars
  <1> DEFINE b == lh[tail]
  <1>1. b \in Block /\ b \in Pending /\ dlog[tail] \in Val
    BY LoopEntry, PendingIs, SMTT(30) DEF CoreInv, TypeOK
  <1>2. TypeOK'
    <2>1. home' \in [Block -> Val] /\ cache' \in [Block -> Val \cup {NoVal}]
      BY <1>1 DEF CoreInv, TypeOK
    <2>2. pin' \in [Block -> Nat]
      BY <1>1, SMTT(30) DEF CoreInv, TypeOK, PinInv
    <2>3. tail' \in 1..LOGSIZE /\ phase' \in Phases
      BY LoopEntry, LogAssumption, SMTT(30) DEF CoreInv, TypeOK, Phases
    <2> QED BY <2>1, <2>2, <2>3 DEF CoreInv, TypeOK
  <1>3. CommitIsAlone'
    BY DEF CoreInv, CommitIsAlone
  <1>4. PhaseInv'
    BY LoopEntry, SMTT(30) DEF CoreInv, PhaseInv, NoDuplicates, Recovering, Committing
  <1>5. Pending' = Pending \ {b}
    <2>1. Pending = {lh[i] : i \in tail..Len(lh)}
      BY PendingIs
    <2>2. CASE tail = Len(lh)
      BY <2>1, <2>2, LoopEntry, SMTT(30) DEF Pending, Recovering
    <2>3. CASE tail # Len(lh)
      <3>1. Pending' = {lh[i] : i \in (tail + 1)..Len(lh)}
        BY <2>3 DEF Pending, Recovering
      <3> QED BY <2>1, <3>1, LoopEntry, SMTT(30)
    <2> QED BY <2>2, <2>3
  <1>6. PinInv'
    BY <1>1, <1>5, SMTT(30) DEF CoreInv, TypeOK, PinInv
  <1>7. CopyInv'
    <2>1. \A i \in 1..Len(lh) : dlog[i] = BRead(lh[i])'
      BY <1>1, LoopEntry, LogAssumption DEF CoreInv, TypeOK, CopyInv, BRead
    <2>2. \A i \in 1..tail : home'[lh[i]] = dlog[i]
      BY <1>1, LoopEntry, SMTT(30) DEF CoreInv, TypeOK, CopyInv
    <2> QED BY <2>1, <2>2, LoopEntry, SMTT(30) DEF CopyInv, BRead
  <1> QED BY <1>2, <1>3, <1>4, <1>6, <1>7 DEF CoreInv

\* The transaction is erased when all of it is installed.
LEMMA ClearLogCore ==
  ASSUME CoreInv, ClearLog
  PROVE  CoreInv'
  <1> USE DEF ClearLog, Clear
  <1>1. TypeOK'
    BY LogAssumption, SMTT(30) DEF CoreInv, TypeOK, Phases
  <1>2. CommitIsAlone'
    BY DEF CoreInv, CommitIsAlone
  <1>3. PhaseInv'
    BY SMTT(30) DEF CoreInv, PhaseInv, NoDuplicates, Recovering, Committing
  <1>4. Pending' = {} /\ Pending = {}
    BY SMTT(30) DEF Pending, Recovering
  <1>5. PinInv'
    BY <1>4 DEF CoreInv, PinInv
  <1>6. CopyInv'
    BY DEF CopyInv
  <1> QED BY <1>1, <1>2, <1>3, <1>5, <1>6 DEF CoreInv

\* The commit ends with nothing pending.
LEMMA FinishCore ==
  ASSUME NEW t \in Thread, CoreInv, Finish(t)
  PROVE  CoreInv'
  <1> USE DEF Finish, diskVars
  <1>1. committing /\ outstanding = 0 /\ lh = <<>> /\ dhdr = <<>>
    BY DEF CoreInv, PhaseInv, Committing, CommitIsAlone
  <1>2. TypeOK'
    <2>1. op' \in [Thread -> OpStates]
      BY DEF CoreInv, TypeOK, OpStates, WakeAll
    <2> QED BY <2>1 DEF CoreInv, TypeOK, Phases
  <1>3. \A u \in Thread : op'[u] # "commit"
    BY DEF CoreInv, TypeOK, PhaseInv, WakeAll
  <1>4. CommitIsAlone'
    <2>1. {u \in Thread : op'[u] = "active"} = {u \in Thread : op[u] = "active"}
      BY DEF CoreInv, TypeOK, WakeAll
    <2> QED BY <1>1, <1>3, <2>1 DEF CoreInv, CommitIsAlone
  <1>5. PhaseInv'
    <2>1. tail' = 1 /\ lh' = <<>> /\ dhdr' = <<>> /\ NoDuplicates(lh)' /\ NoDuplicates(dhdr)'
      BY <1>1, SMTT(30) DEF CoreInv, PhaseInv, NoDuplicates
    <2>2. (committing <=> phase \in Committing)' /\ ~Recovering'
      BY DEF Recovering, Committing
    <2> QED BY <1>3, <2>1, <2>2 DEF PhaseInv
  <1>6. Pending' = Pending
    BY <1>1 DEF Pending, Recovering
  <1>7. PinInv'
    BY <1>6 DEF CoreInv, PinInv
  <1>8. CopyInv'
    BY DEF CopyInv
  <1> QED BY <1>2, <1>4, <1>5, <1>7, <1>8 DEF CoreInv
-----------------------------------------------------------------------------
\* After a crash nothing is known but the disk, whose header has no duplicates.
LEMMA CrashCore ==
  ASSUME CoreInv, Crash
  PROVE  CoreInv'
  <1> USE DEF Crash, diskVars
  <1>1. TypeOK'
    <2>1. lh' \in Seq(Block) /\ Len(lh') <= LOGSIZE /\ tail' \in 1..LOGSIZE
      BY LogAssumption, SMTT(30)
    <2>2. cache' \in [Block -> Val \cup {NoVal}] /\ pin' \in [Block -> Nat] /\ wrote' \in [Thread -> SUBSET Block]
      OBVIOUS
    <2> QED BY <2>1, <2>2 DEF CoreInv, TypeOK, Phases, OpStates
  <1>2. CommitIsAlone'
    <2>1. {t \in Thread : op'[t] = "active"} = {}
      OBVIOUS
    <2> QED BY <2>1, FS_EmptySet DEF CommitIsAlone
  <1>3. PhaseInv'
    BY SMTT(30) DEF CoreInv, PhaseInv, NoDuplicates, Recovering, Committing
  <1>4. PinInv'
    BY DEF Pending, PinInv, Recovering
  <1>5. CopyInv'
    BY DEF CopyInv
  <1> QED BY <1>1, <1>2, <1>3, <1>4, <1>5 DEF CoreInv

\* read_head() gets the header that is on disk.
LEMMA ReadHeadCore ==
  ASSUME CoreInv, ReadHead
  PROVE  CoreInv'
  <1> USE DEF ReadHead, diskVars
  <1>1. TypeOK'
    BY DEF CoreInv, TypeOK, Phases
  <1>2. CommitIsAlone'
    BY DEF CoreInv, CommitIsAlone
  <1>3. dhdr # <<>> => Len(dhdr) > 0
    BY SMTT(30) DEF CoreInv, TypeOK
  <1>4. PhaseInv'
    BY <1>3, SMTT(30) DEF CoreInv, PhaseInv, NoDuplicates, Recovering, Committing
  <1>5. Pending' = {} /\ Pending = {}
    BY DEF Pending, Recovering
  <1>6. PinInv'
    BY <1>5 DEF CoreInv, PinInv
  <1>7. CopyInv'
    BY SMTT(30) DEF CoreInv, PhaseInv, CopyInv, Recovering
  <1> QED BY <1>1, <1>2, <1>4, <1>6, <1>7 DEF CoreInv

\* install_trans() in recovery: no buffer is pinned, all agree with the disk.
LEMMA RecoverInstallCore ==
  ASSUME CoreInv, RecoverInstall
  PROVE  CoreInv'
  <1> USE DEF RecoverInstall, InstallOne, LoopTo, logVars
  <1> DEFINE b == lh[tail]
  <1>1. b \in Block /\ dlog[tail] \in Val
    BY LoopEntry DEF CoreInv, TypeOK
  <1>2. TypeOK'
    <2>1. home' \in [Block -> Val] /\ cache' \in [Block -> Val \cup {NoVal}]
      BY <1>1 DEF CoreInv, TypeOK
    <2>2. tail' \in 1..LOGSIZE /\ phase' \in Phases
      BY LoopEntry, LogAssumption, SMTT(30) DEF CoreInv, TypeOK, Phases
    <2> QED BY <2>1, <2>2 DEF CoreInv, TypeOK
  <1>3. CommitIsAlone'
    BY DEF CoreInv, CommitIsAlone
  <1>4. PhaseInv'
    BY LoopEntry, SMTT(30) DEF CoreInv, PhaseInv, NoDuplicates, Recovering, Committing
  <1>5. Pending' = {} /\ Pending = {}
    BY DEF Pending, Recovering
  <1>6. PinInv'
    BY <1>1, <1>5 DEF CoreInv, TypeOK, PinInv
  <1>7. CopyInv'
    <2>1. \A i \in 1..tail : home'[lh[i]] = dlog[i]
      BY <1>1, LoopEntry, SMTT(30) DEF CoreInv, TypeOK, CopyInv
    <2> QED BY <2>1, LoopEntry, SMTT(30) DEF CopyInv
  <1> QED BY <1>2, <1>3, <1>4, <1>6, <1>7 DEF CoreInv

\* Recovery ends with an empty log.
LEMMA RecoverClearCore ==
  ASSUME CoreInv, RecoverClear
  PROVE  CoreInv'
  <1> USE DEF RecoverClear, Clear
  <1>1. TypeOK'
    BY LogAssumption, SMTT(30) DEF CoreInv, TypeOK, Phases
  <1>2. CommitIsAlone'
    BY DEF CoreInv, CommitIsAlone
  <1>3. PhaseInv'
    BY SMTT(30) DEF CoreInv, PhaseInv, NoDuplicates, Recovering, Committing
  <1>4. Pending' = {} /\ Pending = {}
    BY SMTT(30) DEF Pending, Recovering
  <1>5. PinInv'
    BY <1>4 DEF CoreInv, PinInv
  <1>6. CopyInv'
    BY DEF CopyInv
  <1> QED BY <1>1, <1>2, <1>3, <1>5, <1>6 DEF CoreInv

\* Every step of log.c, of the buffer cache under it and of a crash keeps
\* CoreInv.
LEMMA NextCore == CoreInv /\ [Next]_vars => CoreInv'
  <1> SUFFICES ASSUME CoreInv, [Next]_vars PROVE CoreInv'
    OBVIOUS
  <1>1. ASSUME NEW t \in Thread, BeginOp(t) PROVE CoreInv'
    BY <1>1, BeginOpCore
  <1>2. ASSUME NEW t \in Thread, EndOp(t) PROVE CoreInv'
    BY <1>2, EndOpCore
  <1>3. ASSUME NEW t \in Thread, NEW b \in Block, NEW v \in Val, LogWrite(t, b, v) PROVE CoreInv'
    BY <1>3, LogWriteCore
  <1>4. CASE CommitStep
    BY <1>4, WriteLogCore, WriteHeadCore, InstallTransCore, ClearLogCore, FinishCore DEF CommitStep
  <1>5. ASSUME NEW b \in Block, Evict(b) PROVE CoreInv'
    BY <1>5, EvictCore
  <1>6. CASE Crash
    BY <1>6, CrashCore
  <1>7. CASE RecoverStep
    BY <1>7, ReadHeadCore, RecoverInstallCore, RecoverClearCore DEF RecoverStep
  <1>8. CASE UNCHANGED vars
    BY <1>8, SMTT(30) DEF vars, diskVars, logVars, CoreInv, TypeOK, CommitIsAlone, PhaseInv, NoDuplicates,
       Recovering, Pending, PinInv, CopyInv, BRead
  <1>9. ASSUME NEW t \in Thread, LogPanic(t) PROVE CoreInv'
    BY <1>9, SMTT(30) DEF LogPanic, diskVars, logVars, CoreInv, TypeOK, CommitIsAlone, PhaseInv, NoDuplicates,
       Recovering, Pending, PinInv, CopyInv, BRead
  <1> QED BY <1>1, <1>2, <1>3, <1>4, <1>5, <1>6, <1>7, <1>8, <1>9 DEF Next

\* CoreInv holds in every reachable state of log.c.
LEMMA CoreInvariant == Spec => []CoreInv
  BY InitCore, NextCore, PTL DEF Spec

\* log.c never commits while an operation is in progress, never has a block
\* logged twice, pins exactly the buffers that are not yet home, and leaves
\* nothing pinned or unwritten between transactions; for any number of blocks,
\* threads and log entries, and wherever it crashes.
THEOREM LogInvariant == Spec => []LogInv
  <1>1. CoreInv => LogInv
    BY Quiescent DEF CoreInv, LogInv
  <1> QED BY <1>1, CoreInvariant, PTL
-----------------------------------------------------------------------------
(* The refinement.                                                         *)

\* What operations are in progress, in the state of AtomicDisk.
Inflight == {t \in Thread : op[t] = "active"}

\* Recovery writes each block of the header from its own log entry, and leaves
\* the others alone.
LEMMA DurableIs ==
  ASSUME CoreInv
  PROVE  /\ Durable = [b \in Block |-> Durable[b]]
         /\ \A i \in 1..Len(dhdr) : dhdr[i] \in Block /\ Durable[dhdr[i]] = dlog[i]
         /\ \A b \in Block : (\A i \in 1..Len(dhdr) : dhdr[i] # b) => Durable[b] = home[b]
  <1>1. Durable = [b \in Block |-> Durable[b]]
    BY DEF Durable
  <1>2. ASSUME NEW i \in 1..Len(dhdr)
        PROVE  dhdr[i] \in Block /\ Durable[dhdr[i]] = dlog[i]
    <2>1. dhdr[i] \in Block
      BY SMTT(30) DEF CoreInv, TypeOK
    <2>2. PICK j \in 1..Len(dhdr) : dhdr[j] = dhdr[i] /\ Durable[dhdr[i]] = dlog[j]
      BY <2>1 DEF Durable
    <2> QED BY <2>1, <2>2 DEF CoreInv, PhaseInv, NoDuplicates
  <1>3. ASSUME NEW b \in Block, \A i \in 1..Len(dhdr) : dhdr[i] # b
        PROVE  Durable[b] = home[b]
    BY <1>3 DEF Durable
  <1> QED BY <1>1, <1>2, <1>3

\* With no header on disk, the home blocks are what a crash leaves.
LEMMA DurableIsHome ==
  ASSUME dhdr = <<>>
  PROVE  Durable = [b \in Block |-> home[b]]
  BY SMTT(30) DEF Durable

\* A block that is not pending reads as the disk has it.
LEMMA CleanRead ==
  ASSUME CoreInv, NEW b \in Block, b \notin Pending
  PROVE  BRead(b) = home[b]
  BY DEF CoreInv, PinInv, BRead

\* The state the machine boots with is the one AtomicDisk starts from.
LEMMA InitRefines == Init => Promise!Init
  <1> SUFFICES ASSUME Init PROVE Promise!Init
    OBVIOUS
  <1>1. Durable = [b \in Block |-> InitVal]
    BY SMTT(30) DEF Init, Durable
  <1>2. View = Durable
    BY DEF Init, View, Recovering
  <1>3. {t \in Thread : op[t] = "active"} = {}
    BY DEF Init
  <1> QED BY <1>1, <1>2, <1>3 DEF Promise!Init
-----------------------------------------------------------------------------
\* Recycling a buffer shows nobody anything else.
LEMMA EvictRefines ==
  ASSUME NEW b \in Block, CoreInv, Evict(b)
  PROVE  UNCHANGED <<Durable, View, Inflight>>
  <1> USE DEF Evict, diskVars
  <1>1. Durable' = Durable
    BY DEF Durable
  <1>2. \A a \in Block : BRead(a)' = BRead(a)
    BY SMTT(30) DEF CoreInv, PinInv, TypeOK, BRead
  <1>3. View' = View
    BY <1>1, <1>2 DEF View, Recovering
  <1> QED BY <1>1, <1>3 DEF Inflight

\* begin_op() waits, or begins an operation.
LEMMA BeginOpRefines ==
  ASSUME NEW t \in Thread, CoreInv, BeginOp(t)
  PROVE  Promise!Begin(t) \/ UNCHANGED <<Durable, View, Inflight>>
  <1> USE DEF BeginOp, diskVars
  <1>1. Durable' = Durable
    BY DEF Durable
  <1>2. View' = View
    BY <1>1 DEF View, Recovering, BRead
  <1>3. CASE op' = [op EXCEPT ![t] = "asleep"]
    BY <1>1, <1>2, <1>3 DEF CoreInv, TypeOK, Inflight
  <1>4. CASE op' = [op EXCEPT ![t] = "active"]
    <2>1. Inflight' = Inflight \cup {t} /\ t \notin Inflight
      BY <1>4 DEF CoreInv, TypeOK, Inflight
    <2> QED BY <1>1, <1>2, <2>1 DEF Promise!Begin, Inflight
  <1> QED BY <1>3, <1>4

\* log_write() changes one block of what operations read, and no durable one.
LEMMA LogWriteRefines ==
  ASSUME NEW t \in Thread, NEW b \in Block, NEW v \in Val, CoreInv, LogWrite(t, b, v)
  PROVE  Promise!Update(t, b, v)
  <1> USE DEF LogWrite, diskVars
  <1>1. Durable' = Durable
    BY DEF Durable
  <1>2. phase = "idle"
    BY ActiveIsIdle
  <1>3. View = [a \in Block |-> BRead(a)] /\ View' = [a \in Block |-> BRead(a)']
    BY <1>2 DEF View, Recovering
  <1>4. View' = [View EXCEPT ![b] = v]
    BY <1>3, LogAssumption DEF CoreInv, TypeOK, BRead
  <1>5. Inflight' = Inflight /\ t \in Inflight
    BY DEF Inflight
  <1> QED BY <1>1, <1>4, <1>5 DEF Promise!Update, Inflight

\* end_op() ends an operation and makes nothing durable by itself.
LEMMA EndOpRefines ==
  ASSUME NEW t \in Thread, CoreInv, EndOp(t)
  PROVE  Promise!End(t)
  <1> USE DEF EndOp, diskVars
  <1>1. Durable' = Durable
    BY DEF Durable
  <1>2. ~Recovering /\ ~Recovering'
    BY ActiveIsIdle DEF Recovering
  <1>3. View' = View
    BY <1>2 DEF View, BRead
  <1>4. Inflight' = Inflight \ {t} /\ t \in Inflight
    BY DEF CoreInv, TypeOK, Inflight, WakeAll
  <1> QED BY <1>1, <1>3, <1>4 DEF Promise!End, Inflight

\* write_log() writes the log while no header refers to it.
LEMMA WriteLogRefines ==
  ASSUME CoreInv, WriteLog
  PROVE  UNCHANGED <<Durable, View, Inflight>>
  <1>1. dhdr = <<>> /\ dhdr' = <<>> /\ home' = home
    BY DEF WriteLog, CoreInv, PhaseInv
  <1>2. Durable' = Durable
    BY <1>1, DurableIsHome, SMTT(30) DEF Durable
  <1>3. cache' = cache
    BY WriteLogCore
  <1>4. ~Recovering /\ ~Recovering'
    BY DEF WriteLog, LoopTo, Recovering
  <1>5. View' = View
    BY <1>1, <1>3, <1>4 DEF View, BRead
  <1> QED BY <1>2, <1>5 DEF WriteLog, Inflight

\* write_head() commits: what it makes durable is what operations read, at a
\* moment when none is in progress.
LEMMA WriteHeadRefines ==
  ASSUME CoreInv, WriteHead
  PROVE  Promise!Commit
  <1> USE DEF WriteHead, logVars
  <1>1. ~Recovering /\ ~Recovering'
    BY DEF Recovering
  <1>2. View = [b \in Block |-> BRead(b)] /\ View' = View
    BY <1>1 DEF View, BRead
  <1>3. Inflight = {} /\ Inflight' = {}
    <2>1. outstanding = 0
      BY DEF CoreInv, PhaseInv, CommitIsAlone, Committing
    <2> QED BY <2>1, ActiveCount DEF CoreInv, CommitIsAlone, Inflight
  <1>4. Durable' = View
    <2>1. Durable' = [b \in Block |-> IF \E i \in 1..Len(lh) : lh[i] = b
                                      THEN dlog[CHOOSE i \in 1..Len(lh) : lh[i] = b] ELSE home[b]]
      BY DEF Durable
    <2>2. ASSUME NEW b \in Block PROVE Durable'[b] = BRead(b)
      <3>1. CASE \E i \in 1..Len(lh) : lh[i] = b
        <4>1. PICK i \in 1..Len(lh) : lh[i] = b /\ Durable'[b] = dlog[i]
          BY <2>1, <3>1
        <4> QED BY <4>1 DEF CoreInv, CopyInv
      <3>2. CASE \A i \in 1..Len(lh) : lh[i] # b
        <4>1. Durable'[b] = home[b]
          BY <2>1, <3>2
        <4>2. b \notin Pending
          BY <1>1, <3>2, PendingIs
        <4> QED BY <4>1, <4>2, CleanRead
      <3> QED BY <3>1, <3>2
    <2>3. Durable' = [b \in Block |-> Durable'[b]]
      BY <2>1
    <2> QED BY <1>2, <2>2, <2>3
  <1> QED BY <1>2, <1>3, <1>4 DEF Promise!Commit, Inflight

\* Installing a block of the header writes home what recovery would.
LEMMA InstallRefines ==
  ASSUME CoreInv, phase \in {"install", "recover_install"},
         home' = [home EXCEPT ![lh[tail]] = dlog[tail]], UNCHANGED <<dhdr, dlog>>
  PROVE  Durable' = Durable
  <1>1. dhdr = lh /\ tail \in 1..Len(lh)
    BY LoopEntry DEF CoreInv, PhaseInv
  <1>2. ASSUME NEW b \in Block, \A i \in 1..Len(dhdr) : dhdr[i] # b PROVE home'[b] = home[b]
    BY <1>1, <1>2 DEF CoreInv, TypeOK
  <1> QED BY <1>2 DEF Durable

\* install_trans() in a commit shows nobody anything else.
LEMMA InstallTransRefines ==
  ASSUME CoreInv, InstallTrans
  PROVE  UNCHANGED <<Durable, View, Inflight>>
  <1> USE DEF InstallTrans, InstallOne
  <1>1. Durable' = Durable
    BY InstallRefines
  <1>2. ~Recovering /\ ~Recovering'
    BY DEF Recovering, LoopTo
  <1>3. \A b \in Block : BRead(b)' = BRead(b)
    BY LoopEntry, LogAssumption, SMTT(30) DEF CoreInv, TypeOK, CopyInv, BRead
  <1>4. View' = View
    BY <1>2, <1>3 DEF View
  <1> QED BY <1>1, <1>4 DEF Inflight

\* Erasing the header after the blocks are home loses nothing.
LEMMA ClearRefines ==
  ASSUME CoreInv, phase \in {"clear", "recover_clear"}, Clear
  PROVE  Durable' = Durable /\ Durable = [b \in Block |-> home[b]]
  <1>1. Durable' = [b \in Block |-> home[b]]
    BY SMTT(30) DEF Durable, Clear
  <1>2. ASSUME NEW b \in Block PROVE Durable[b] = home[b]
    <2>1. CASE \E i \in 1..Len(dhdr) : dhdr[i] = b
      BY <2>1, DurableIs, SMTT(30) DEF CoreInv, CopyInv, PhaseInv
    <2> QED BY <2>1, DurableIs
  <1> QED BY <1>1, <1>2, DurableIs

\* The commit of log.c after its commit point.
LEMMA ClearLogRefines ==
  ASSUME CoreInv, ClearLog
  PROVE  UNCHANGED <<Durable, View, Inflight>>
  <1> USE DEF ClearLog, Clear
  <1>1. Durable' = Durable
    BY ClearRefines
  <1>2. View' = View
    BY DEF View, BRead, Recovering
  <1> QED BY <1>1, <1>2 DEF Inflight

\* The end of end_op() is not visible.
LEMMA FinishRefines ==
  ASSUME NEW t \in Thread, CoreInv, Finish(t)
  PROVE  UNCHANGED <<Durable, View, Inflight>>
  <1> USE DEF Finish, diskVars
  <1>1. Durable' = Durable
    BY DEF Durable
  <1>2. View' = View
    BY DEF View, BRead, Recovering
  <1>3. Inflight' = Inflight
    BY DEF CoreInv, TypeOK, Inflight, WakeAll
  <1> QED BY <1>1, <1>2, <1>3

\* A crash loses what was not durable.
LEMMA CrashRefines ==
  ASSUME CoreInv, Crash
  PROVE  Promise!Crash
  <1> USE DEF Crash, diskVars
  <1>1. Durable' = Durable
    BY DEF Durable
  <1>2. View' = Durable
    BY <1>1 DEF View, Recovering
  <1>3. Inflight' = {}
    BY DEF Inflight
  <1> QED BY <1>1, <1>2, <1>3 DEF Promise!Crash, Inflight

\* No step of recovery is visible.
LEMMA RecoverRefines ==
  ASSUME CoreInv, RecoverStep
  PROVE  UNCHANGED <<Durable, View, Inflight>>
  <1>1. CASE ReadHead
    <2>1. Durable' = Durable
      BY <1>1 DEF ReadHead, diskVars, Durable
    <2> QED BY <1>1, <2>1 DEF ReadHead, View, Recovering, Inflight
  <1>2. CASE RecoverInstall
    <2>1. Durable' = Durable
      BY <1>2, InstallRefines DEF RecoverInstall, InstallOne
    <2>2. Recovering /\ Recovering'
      BY <1>2 DEF RecoverInstall, LoopTo, Recovering
    <2> QED BY <1>2, <2>1, <2>2 DEF RecoverInstall, InstallOne, View, Inflight
  <1>3. CASE RecoverClear
    <2>1. Durable' = Durable /\ Durable = [b \in Block |-> home[b]]
      BY <1>3, ClearRefines DEF RecoverClear
    <2>2. \A b \in Block : BRead(b)' = home[b]
      <3>1. Pending = {}
        BY <1>3, PendingIs DEF RecoverClear, Recovering
      <3> QED BY <1>3, <3>1, CleanRead DEF RecoverClear, Clear, BRead
    <2>3. View = Durable /\ View' = [b \in Block |-> BRead(b)']
      BY <1>3 DEF RecoverClear, View, Recovering
    <2> QED BY <1>3, <2>1, <2>2, <2>3 DEF RecoverClear, Clear, Inflight
  <1> QED BY <1>1, <1>2, <1>3 DEF RecoverStep

\* Every step is a step of AtomicDisk or leaves its state alone.
LEMMA NextRefines == CoreInv /\ [Next]_vars => [Promise!Next]_(Promise!avars)
  <1> SUFFICES ASSUME CoreInv, [Next]_vars PROVE [Promise!Next]_(Promise!avars)
    OBVIOUS
  <1> USE DEF Promise!avars, Inflight
  <1>1. ASSUME NEW t \in Thread, BeginOp(t) PROVE [Promise!Next]_(Promise!avars)
    BY <1>1, BeginOpRefines DEF Promise!Next
  <1>2. ASSUME NEW t \in Thread, EndOp(t) PROVE [Promise!Next]_(Promise!avars)
    BY <1>2, EndOpRefines DEF Promise!Next
  <1>3. ASSUME NEW t \in Thread, NEW b \in Block, NEW v \in Val, LogWrite(t, b, v)
        PROVE  [Promise!Next]_(Promise!avars)
    BY <1>3, LogWriteRefines DEF Promise!Next
  <1>4. CASE CommitStep
    BY <1>4, WriteLogRefines, WriteHeadRefines, InstallTransRefines, ClearLogRefines, FinishRefines
       DEF CommitStep, Promise!Next
  <1>5. ASSUME NEW b \in Block, Evict(b) PROVE [Promise!Next]_(Promise!avars)
    BY <1>5, EvictRefines
  <1>6. CASE Crash
    BY <1>6, CrashRefines DEF Promise!Next
  <1>7. CASE RecoverStep
    BY <1>7, RecoverRefines
  <1>8. CASE UNCHANGED vars
    BY <1>8 DEF vars, diskVars, Durable, View, Recovering, BRead
  <1>9. ASSUME NEW t \in Thread, LogPanic(t) PROVE [Promise!Next]_(Promise!avars)
    BY <1>9 DEF LogPanic, diskVars, Durable, View, Recovering, BRead
  <1> QED BY <1>1, <1>2, <1>3, <1>4, <1>5, <1>6, <1>7, <1>8, <1>9 DEF Next

\* log.c implements AtomicDisk: operations become durable in whole groups, at
\* the write of the header, whatever is evicted, absorbed, grouped or cut
\* short by a crash, in a commit or in recovery.
THEOREM CrashAtomicity == Spec => CrashAtomic
  BY InitRefines, CoreInvariant, NextRefines, PTL DEF Spec, CrashAtomic, Promise!Spec
=============================================================================
