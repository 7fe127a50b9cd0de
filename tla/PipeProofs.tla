----------------------------- MODULE PipeProofs -----------------------------
(***************************************************************************)
(* Proofs about module Pipe, for every number of readers and writers, size *)
(* of the ring and width of its counters: PipeInv is an invariant, so      *)
(* nobody sleeps on a pipe it could use, and the ring is a FIFO.           *)
(***************************************************************************)
EXTENDS Pipe, RingLemmas

\* Most leaves are first-order and go to Zenon; the others name the SMT solver.
USE ZenonT(30)

\* struct pipe as a ring: PipeAssumption and the types give what the lemmas
\* on rings ask for.
LEMMA RingFacts ==
  TypeOK => /\ IsRing(PIPESIZE, UMAX) /\ PIPESIZE \in Nat \ {0} /\ UMAX \in Nat \ {0}
            /\ nread \in Index(UMAX) /\ nwrite \in Index(UMAX)
            /\ data \in Buffers(PIPESIZE, Byte \cup {NoByte})
            /\ Count = Dist(UMAX, nread, nwrite) /\ Count \in Nat
            /\ Contents = RingSlice(data, PIPESIZE, UMAX, nread, nwrite)
  <1> SUFFICES ASSUME TypeOK
               PROVE  /\ IsRing(PIPESIZE, UMAX) /\ PIPESIZE \in Nat \ {0} /\ UMAX \in Nat \ {0}
                      /\ nread \in Index(UMAX) /\ nwrite \in Index(UMAX)
                      /\ data \in Buffers(PIPESIZE, Byte \cup {NoByte})
                      /\ Count = Dist(UMAX, nread, nwrite) /\ Count \in Nat
                      /\ Contents = RingSlice(data, PIPESIZE, UMAX, nread, nwrite)
    OBVIOUS
  <1>1. IsRing(PIPESIZE, UMAX) /\ PIPESIZE \in Nat \ {0} /\ UMAX \in Nat \ {0}
    BY PipeAssumption, SMTT(30) DEF IsRing
  <1>2. nread \in 0..(UMAX - 1) /\ nwrite \in 0..(UMAX - 1)
    BY DEF TypeOK
  <1>3. nread \in Index(UMAX) /\ nwrite \in Index(UMAX)
    BY <1>2 DEF Index
  <1>4. data \in Buffers(PIPESIZE, Byte \cup {NoByte})
    BY DEF TypeOK, Buffers
  <1>5. Count = Dist(UMAX, nread, nwrite)
    BY DEF Count, Dist
  <1>6. Count \in Nat
    BY <1>1, <1>2, <1>5, DistRange
  <1>7. Contents = RingSlice(data, PIPESIZE, UMAX, nread, nwrite)
    BY DEF Contents, Count, RingSlice
  <1> QED BY <1>1, <1>3, <1>4, <1>5, <1>6, <1>7

\* "pipewrite-full" and "pipe-empty" say how many bytes the ring holds.
LEMMA FullIs ==
  TypeOK => (Full <=> Count = PIPESIZE) /\ (Empty <=> Count = 0)
  <1> SUFFICES ASSUME TypeOK
               PROVE  (Full <=> Count = PIPESIZE) /\ (Empty <=> Count = 0)
    OBVIOUS
  <1>1. /\ PIPESIZE \in Nat /\ UMAX \in Nat \ {0} /\ PIPESIZE < UMAX
        /\ nread \in 0..(UMAX - 1) /\ nwrite \in 0..(UMAX - 1)
        /\ Count = Dist(UMAX, nread, nwrite)
    BY PipeAssumption, SMTT(30) DEF TypeOK, Count, Dist
  <1>2. Full <=> Count = PIPESIZE
    BY <1>1, FullDist DEF Full
  <1>3. Empty <=> Count = 0
    BY <1>1, DistZero, DistSelf DEF Empty
  <1> QED BY <1>2, <1>3
-----------------------------------------------------------------------------
(* Steps that leave the ring and its ends alone.                           *)

\* Entering read() or write().
LEMMA CallInv ==
  ASSUME PipeInv, NEW u \in User, NEW k \in Nat, Call(u, k)
  PROVE  PipeInv'
  <1> USE DEF PipeInv
  <1>1. TypeOK'
    <2>1. /\ pc' \in [User -> Labels] /\ n' \in [User -> Nat]
          /\ UNCHANGED <<pipeVars, lock, fd, killed, i, out>>
      BY DEF OpenWhileHeld, TypeOK, Labels, Call, Goto
    <2>2. i[u] = 0 /\ n'[u] = k /\ pc'[u] = "acquire"
          /\ \A v \in User \ {u} : n'[v] = n[v] /\ pc'[v] = pc[v]
      BY DEF OpenWhileHeld, TypeOK, Call, Goto
    <2>3. i[u] <= n'[u]
      BY <2>2, SMTT(30)
    <2>4. \A v \in User : i'[v] <= n'[v] /\ (pc'[v] = "user" => i'[v] = 0)
      BY <2>1, <2>2, <2>3 DEF OpenWhileHeld, TypeOK
    <2> QED BY <2>1, <2>4 DEF OpenWhileHeld, TypeOK, pipeVars
  <1>2. OpenWhileHeld'
    BY <1>1, PipeAssumption DEF OpenWhileHeld, TypeOK, User, Call, Goto, pipeVars
  <1>3. LockInv'
    BY <1>1, PipeAssumption DEF OpenWhileHeld, TypeOK, LockInv, WritePc, ReadPc, User, Call, Goto, pipeVars
  <1>4. WaitInv'
    BY <1>1, PipeAssumption DEF OpenWhileHeld, TypeOK, LockInv, WaitInv, WritePc, ReadPc, User, Empty, Full, Call, Goto, pipeVars
  <1>5. (Count <= PIPESIZE)'
    BY DEF Count, Call, Goto, pipeVars
  <1> QED BY <1>2, <1>3, <1>4, <1>5

\* acquire(&pi->lock).
LEMMA AcquireLockInv ==
  ASSUME PipeInv, NEW u \in User, AcquireLock(u)
  PROVE  PipeInv'
  <1> USE DEF PipeInv
  <1>1. TypeOK'
    BY PipeAssumption DEF OpenWhileHeld, TypeOK, Labels, User, AcquireLock, Goto, pipeVars
  <1>2. OpenWhileHeld'
    BY <1>1, PipeAssumption DEF OpenWhileHeld, TypeOK, User, AcquireLock, Goto, pipeVars
  <1>3. LockInv'
    BY <1>1, PipeAssumption, SMTT(30) DEF OpenWhileHeld, TypeOK, LockInv, WritePc, ReadPc, User, AcquireLock, Goto, pipeVars
  <1>4. WaitInv'
    BY <1>1, PipeAssumption DEF OpenWhileHeld, TypeOK, LockInv, WaitInv, WritePc, ReadPc, User, Empty, Full, AcquireLock, Goto, pipeVars
  <1>5. (Count <= PIPESIZE)'
    BY DEF Count, AcquireLock, Goto, pipeVars
  <1> QED BY <1>2, <1>3, <1>4, <1>5

\* sleep(chan, &pi->lock).
LEMMA SleepInv ==
  ASSUME PipeInv, NEW u \in User, Sleep(u)
  PROVE  PipeInv'
  <1> USE DEF PipeInv
  <1>1. TypeOK'
    BY PipeAssumption DEF OpenWhileHeld, TypeOK, Labels, User, Sleep, Goto, pipeVars
  <1>2. OpenWhileHeld'
    BY <1>1, PipeAssumption DEF OpenWhileHeld, TypeOK, User, Sleep, Goto, pipeVars
  <1>3. LockInv'
    BY <1>1, PipeAssumption DEF OpenWhileHeld, TypeOK, LockInv, WritePc, ReadPc, User, Sleep, Goto, pipeVars
  <1>4. WaitInv'
    BY <1>1, PipeAssumption DEF OpenWhileHeld, TypeOK, LockInv, WaitInv, WritePc, ReadPc, User, Empty, Full, Sleep, Goto, pipeVars
  <1>5. (Count <= PIPESIZE)'
    BY DEF Count, Sleep, Goto, pipeVars
  <1> QED BY <1>2, <1>3, <1>4, <1>5

\* pipewrite() returns, having woken the readers.
LEMMA WriteEndInv ==
  ASSUME PipeInv, NEW w \in Writer, WriteEnd(w)
  PROVE  PipeInv'
  <1> USE DEF PipeInv
  <1>1. TypeOK'
    BY PipeAssumption, SMTT(30) DEF OpenWhileHeld, TypeOK, Labels, User, WriteEnd, WakeGoto, Return, pipeVars
  <1>2. OpenWhileHeld'
    BY <1>1, PipeAssumption DEF OpenWhileHeld, TypeOK, User, WriteEnd, WakeGoto, Return, pipeVars
  <1>3. LockInv'
    BY <1>1, PipeAssumption DEF OpenWhileHeld, TypeOK, LockInv, WritePc, ReadPc, User, WriteEnd, WakeGoto, Return, pipeVars
  <1>4. WaitInv'
    BY <1>1, PipeAssumption DEF OpenWhileHeld, TypeOK, LockInv, WaitInv, WritePc, ReadPc, User, Empty, Full, WriteEnd, WakeGoto, Return, pipeVars
  <1>5. (Count <= PIPESIZE)'
    BY DEF Count, WriteEnd, WakeGoto, Return, pipeVars
  <1> QED BY <1>2, <1>3, <1>4, <1>5

\* pipewrite() returns -1.
LEMMA WriteErrorInv ==
  ASSUME PipeInv, NEW w \in Writer, WriteError(w)
  PROVE  PipeInv'
  <1> USE DEF PipeInv
  <1>1. TypeOK'
    BY PipeAssumption, SMTT(30) DEF OpenWhileHeld, TypeOK, Labels, User, WriteError, Broken, Goto, Return, pipeVars
  <1>2. OpenWhileHeld'
    BY <1>1, PipeAssumption DEF OpenWhileHeld, TypeOK, User, WriteError, Broken, Goto, Return, pipeVars
  <1>3. LockInv'
    BY <1>1, PipeAssumption DEF OpenWhileHeld, TypeOK, LockInv, WritePc, ReadPc, User, WriteError, Broken, Goto, Return, pipeVars
  <1>4. WaitInv'
    BY <1>1, PipeAssumption DEF OpenWhileHeld, TypeOK, LockInv, WaitInv, WritePc, ReadPc, User, Empty, Full, WriteError, Broken, Goto, Return, pipeVars
  <1>5. (Count <= PIPESIZE)'
    BY DEF Count, WriteError, Broken, Goto, Return, pipeVars
  <1> QED BY <1>2, <1>3, <1>4, <1>5

\* pipewrite() finds the pipe full.
LEMMA WriteFullInv ==
  ASSUME PipeInv, NEW w \in Writer, WriteFull(w)
  PROVE  PipeInv'
  <1> USE DEF PipeInv
  <1>1. TypeOK'
    BY PipeAssumption DEF OpenWhileHeld, TypeOK, Labels, User, WriteFull, Broken, WakeGoto, pipeVars
  <1>2. OpenWhileHeld'
    BY <1>1, PipeAssumption DEF OpenWhileHeld, TypeOK, User, WriteFull, Broken, WakeGoto, pipeVars
  <1>3. LockInv'
    BY <1>1, PipeAssumption DEF OpenWhileHeld, TypeOK, LockInv, WritePc, ReadPc, User, WriteFull, Broken, WakeGoto, pipeVars
  <1>4. WaitInv'
    BY <1>1, PipeAssumption DEF OpenWhileHeld, TypeOK, LockInv, WaitInv, WritePc, ReadPc, User, Empty, Full, WriteFull, Broken, WakeGoto, pipeVars
  <1>5. (Count <= PIPESIZE)'
    BY DEF Count, WriteFull, Broken, WakeGoto, pipeVars
  <1> QED BY <1>2, <1>3, <1>4, <1>5

\* piperead() finds itself killed.
LEMMA ReadKilledInv ==
  ASSUME PipeInv, NEW r \in Reader, ReadKilled(r)
  PROVE  PipeInv'
  <1> USE DEF PipeInv
  <1>1. TypeOK'
    <2>1. /\ pc' \in [User -> Labels] /\ lock' \in User \cup {Nobody}
          /\ UNCHANGED <<pipeVars, fd, killed, out>>
      BY DEF OpenWhileHeld, TypeOK, Labels, ReadKilled, Goto, Return
    <2>2. r \in User /\ 0 <= 0 /\ 0 \in Nat
      BY SMTT(30) DEF User
    <2>3. n' \in [User -> Nat] /\ i' \in [User -> Nat]
      BY <2>2 DEF OpenWhileHeld, TypeOK, ReadKilled, Return
    <2>4. /\ i'[r] = 0 /\ n'[r] = 0
          /\ \A v \in User \ {r} : n'[v] = n[v] /\ i'[v] = i[v] /\ pc'[v] = pc[v]
      BY <2>2 DEF OpenWhileHeld, TypeOK, ReadKilled, Goto, Return
    <2>5. \A v \in User : i'[v] <= n'[v] /\ (pc'[v] = "user" => i'[v] = 0)
      BY <2>2, <2>4 DEF OpenWhileHeld, TypeOK
    <2> QED BY <2>1, <2>3, <2>5 DEF OpenWhileHeld, TypeOK, pipeVars
  <1>2. OpenWhileHeld'
    BY <1>1, PipeAssumption DEF OpenWhileHeld, TypeOK, User, ReadKilled, Goto, Return, pipeVars
  <1>3. LockInv'
    BY <1>1, PipeAssumption, SMTT(30) DEF OpenWhileHeld, TypeOK, LockInv, WritePc, ReadPc, User, ReadKilled, Goto, Return, pipeVars
  <1>4. WaitInv'
    BY <1>1, PipeAssumption DEF OpenWhileHeld, TypeOK, LockInv, WaitInv, WritePc, ReadPc, User, Empty, Full, ReadKilled, Goto, Return, pipeVars
  <1>5. (Count <= PIPESIZE)'
    BY DEF Count, ReadKilled, Goto, Return, pipeVars
  <1> QED BY <1>2, <1>3, <1>4, <1>5

\* piperead() finds the pipe empty.
LEMMA ReadEmptyInv ==
  ASSUME PipeInv, NEW r \in Reader, ReadEmpty(r)
  PROVE  PipeInv'
  <1> USE DEF PipeInv
  <1>1. TypeOK'
    BY PipeAssumption DEF OpenWhileHeld, TypeOK, Labels, User, ReadEmpty, MustWait, Goto, pipeVars
  <1>2. OpenWhileHeld'
    BY <1>1, PipeAssumption DEF OpenWhileHeld, TypeOK, User, ReadEmpty, MustWait, Goto, pipeVars
  <1>3. LockInv'
    BY <1>1, PipeAssumption DEF OpenWhileHeld, TypeOK, LockInv, WritePc, ReadPc, User, ReadEmpty, MustWait, Goto, pipeVars
  <1>4. WaitInv'
    BY <1>1, PipeAssumption DEF OpenWhileHeld, TypeOK, LockInv, WaitInv, WritePc, ReadPc, User, Empty, Full, ReadEmpty, MustWait, Goto, pipeVars
  <1>5. (Count <= PIPESIZE)'
    BY DEF Count, ReadEmpty, MustWait, Goto, pipeVars
  <1> QED BY <1>2, <1>3, <1>4, <1>5

\* piperead() need not wait.
LEMMA ReadReadyInv ==
  ASSUME PipeInv, NEW r \in Reader, ReadReady(r)
  PROVE  PipeInv'
  <1> USE DEF PipeInv
  <1>1. TypeOK'
    BY PipeAssumption DEF OpenWhileHeld, TypeOK, Labels, User, ReadReady, MustWait, Goto, pipeVars
  <1>2. OpenWhileHeld'
    BY <1>1, PipeAssumption DEF OpenWhileHeld, TypeOK, User, ReadReady, MustWait, Goto, pipeVars
  <1>3. LockInv'
    BY <1>1, PipeAssumption DEF OpenWhileHeld, TypeOK, LockInv, WritePc, ReadPc, User, ReadReady, MustWait, Goto, pipeVars
  <1>4. WaitInv'
    BY <1>1, PipeAssumption DEF OpenWhileHeld, TypeOK, LockInv, WaitInv, WritePc, ReadPc, User, Empty, Full, ReadReady, MustWait, Goto, pipeVars
  <1>5. (Count <= PIPESIZE)'
    BY DEF Count, ReadReady, MustWait, Goto, pipeVars
  <1> QED BY <1>2, <1>3, <1>4, <1>5

\* kill().
LEMMA KillInv ==
  ASSUME PipeInv, NEW u \in User, Kill(u)
  PROVE  PipeInv'
  <1> USE DEF PipeInv
  <1>1. TypeOK'
    <2>1. /\ pc' \in [User -> Labels] /\ killed' \in [User -> BOOLEAN]
          /\ UNCHANGED <<pipeVars, lock, fd, n, i, out>>
      BY DEF OpenWhileHeld, TypeOK, Labels, Kill, Goto
    <2>2. \A v \in User : pc'[v] = "user" => pc[v] = "user"
      BY DEF OpenWhileHeld, TypeOK, Kill, Goto
    <2> QED BY <2>1, <2>2 DEF OpenWhileHeld, TypeOK, pipeVars
  <1>2. OpenWhileHeld'
    BY <1>1, PipeAssumption DEF OpenWhileHeld, TypeOK, User, Kill, Goto, pipeVars
  <1>3. LockInv'
    <2>1. CASE pc[u] = "asleep"
      <3>1. pc' = [pc EXCEPT ![u] = "acquire"] /\ lock' = lock /\ pc \in [User -> Labels]
        BY <2>1 DEF Kill, Goto, OpenWhileHeld, TypeOK
      <3>2. \A v \in User : pc'[v] = pc[v] \/ (v = u /\ pc'[v] = "acquire")
        BY <3>1
      <3> QED BY <2>1, <3>1, <3>2 DEF LockInv, WritePc, ReadPc, User
    <2>2. CASE pc[u] # "asleep"
      BY <2>2 DEF LockInv, Kill
    <2> QED BY <2>1, <2>2
  <1>4. WaitInv'
    <2>1. /\ \A v \in User : pc'[v] # pc[v] => pc[v] = "asleep" /\ pc'[v] = "acquire"
          /\ \A v \in User : killed[v] => killed'[v]
      BY DEF OpenWhileHeld, TypeOK, Kill, Goto
    <2>2. (Full' <=> Full) /\ (Empty' <=> Empty) /\ readopen' = readopen /\ writeopen' = writeopen
      BY DEF Full, Empty, Kill, pipeVars
    <2> QED BY <2>1, <2>2 DEF WaitInv, User
  <1>5. (Count <= PIPESIZE)'
    BY DEF Count, Kill, Goto, pipeVars
  <1> QED BY <1>2, <1>3, <1>4, <1>5
-----------------------------------------------------------------------------
(* Steps that change the ring or its ends.                                 *)

\* One byte more.
LEMMA PutCount ==
  ASSUME TypeOK, Count <= PIPESIZE, ~Full, nwrite' = Incr(nwrite), nread' = nread
  PROVE  Count' = Count + 1 /\ Count + 1 <= PIPESIZE /\ nwrite' \in 0..(UMAX - 1)
  <1>1. /\ PIPESIZE \in Nat /\ UMAX \in Nat \ {0} /\ PIPESIZE < UMAX
        /\ nread \in 0..(UMAX - 1) /\ nwrite \in 0..(UMAX - 1)
        /\ Count = Dist(UMAX, nread, nwrite) /\ Count' = Dist(UMAX, nread, (nwrite + 1) % UMAX)
    BY PipeAssumption, SMTT(30) DEF TypeOK, Count, Dist, Incr
  <1>2. Count \in Nat /\ Count # PIPESIZE
    BY RingFacts, FullIs
  <1>3. Dist(UMAX, nread, nwrite) + 1 < UMAX /\ Count + 1 <= PIPESIZE
    BY <1>1, <1>2, SMTT(30)
  <1>4. Count' = Count + 1
    BY <1>1, <1>3, DistIncrTo
  <1>5. nwrite' \in 0..(UMAX - 1)
    BY <1>1, IncrIs DEF Incr
  <1> QED BY <1>3, <1>4, <1>5

\* One byte less.
LEMMA TakeCount ==
  ASSUME TypeOK, ~Empty, nread' = Incr(nread), nwrite' = nwrite
  PROVE  Count' = Count - 1 /\ nread' \in 0..(UMAX - 1)
  <1>1. /\ UMAX \in Nat \ {0} /\ nread # nwrite
        /\ nread \in 0..(UMAX - 1) /\ nwrite \in 0..(UMAX - 1)
        /\ Count = Dist(UMAX, nread, nwrite) /\ Count' = Dist(UMAX, (nread + 1) % UMAX, nwrite)
    BY PipeAssumption, SMTT(30) DEF TypeOK, Count, Dist, Incr, Empty
  <1>2. Count' = Count - 1
    BY <1>1, DistIncrFrom
  <1>3. nread' \in 0..(UMAX - 1)
    BY <1>1, IncrIs DEF Incr
  <1> QED BY <1>2, <1>3

\* pipewrite() puts a byte into the ring.
LEMMA WriteByteInv ==
  ASSUME PipeInv, NEW w \in Writer, NEW b \in Byte, WriteByte(w, b)
  PROVE  PipeInv'
  <1> USE DEF PipeInv
  <1>1. Count' = Count + 1 /\ Count + 1 <= PIPESIZE /\ nwrite' \in 0..(UMAX - 1)
    BY PutCount DEF OpenWhileHeld, WriteByte
  <1>2. data' \in [0..(PIPESIZE - 1) -> Byte \cup {NoByte}]
    BY DEF OpenWhileHeld, TypeOK, WriteByte
  <1>3. TypeOK'
    <2>1. i' = [i EXCEPT ![w] = @ + 1] /\ i[w] < n[w] /\ pc[w] = "write"
          /\ UNCHANGED <<nread, readopen, writeopen, lock, fd, killed, pc, n, out>>
      BY DEF WriteByte
    <2>2. TypeOK /\ w \in User
      BY DEF OpenWhileHeld, User
    <2>3. i' \in [User -> Nat] /\ \A u \in User : i'[u] <= n[u] /\ (pc[u] = "user" => i'[u] = 0)
      BY <2>1, <2>2, SMTT(30) DEF TypeOK
    <2> QED BY <1>1, <1>2, <2>1, <2>2, <2>3 DEF TypeOK
  <1>4. OpenWhileHeld'
    BY <1>3 DEF OpenWhileHeld, WriteByte
  <1>5. LockInv'
    BY DEF LockInv, WriteByte
  <1>6. WaitInv'
    BY PipeAssumption, SMTT(30) DEF OpenWhileHeld, TypeOK, LockInv, WaitInv, WritePc, ReadPc, User, WriteByte
  <1> QED BY <1>1, <1>4, <1>5, <1>6

\* piperead() takes a byte out of the ring.
LEMMA ReadByteInv ==
  ASSUME PipeInv, NEW r \in Reader, ReadByte(r)
  PROVE  PipeInv'
  <1> USE DEF PipeInv
  <1>1. Count' = Count - 1 /\ nread' \in 0..(UMAX - 1)
    BY TakeCount DEF OpenWhileHeld, ReadByte
  <1>2. (Count <= PIPESIZE)'
    BY <1>1, RingFacts, SMTT(30) DEF OpenWhileHeld
  <1>3. out' \in Byte \cup {NoByte}
    <2>1. nread \in Int /\ PIPESIZE \in Nat \ {0}
      BY PipeAssumption, SMTT(30) DEF OpenWhileHeld, TypeOK
    <2>2. nread % PIPESIZE \in 0..(PIPESIZE - 1)
      BY <2>1, DivMod
    <2> QED BY <2>2 DEF OpenWhileHeld, TypeOK, ReadByte
  <1>4. TypeOK'
    <2>1. i' = [i EXCEPT ![r] = @ + 1] /\ i[r] < n[r] /\ pc[r] = "copy"
          /\ UNCHANGED <<nwrite, data, readopen, writeopen, lock, fd, killed, pc, n>>
      BY DEF ReadByte
    <2>2. TypeOK /\ r \in User
      BY DEF OpenWhileHeld, User
    <2>3. i' \in [User -> Nat] /\ \A u \in User : i'[u] <= n[u] /\ (pc[u] = "user" => i'[u] = 0)
      BY <2>1, <2>2, SMTT(30) DEF TypeOK
    <2> QED BY <1>1, <1>3, <2>1, <2>2, <2>3 DEF TypeOK
  <1>5. OpenWhileHeld'
    BY <1>4 DEF OpenWhileHeld, ReadByte
  <1>6. LockInv'
    BY DEF LockInv, ReadByte
  <1>7. WaitInv'
    BY PipeAssumption, SMTT(30) DEF OpenWhileHeld, TypeOK, LockInv, WaitInv, WritePc, ReadPc, User, ReadByte
  <1> QED BY <1>2, <1>5, <1>6, <1>7

\* piperead() returns, having woken the writers.
LEMMA ReadEndInv ==
  ASSUME PipeInv, NEW r \in Reader, ReadEnd(r)
  PROVE  PipeInv'
  <1> USE DEF PipeInv
  <1>1. nread' \in 0..(UMAX - 1) /\ (Count <= PIPESIZE)'
    <2>1. CASE UNCHANGED nread
      BY <2>1 DEF OpenWhileHeld, TypeOK, ReadEnd, Count
    <2>2. CASE ~Empty /\ nread' = Incr(nread)
      <3>1. Count' = Count - 1 /\ nread' \in 0..(UMAX - 1)
        BY <2>2, TakeCount DEF OpenWhileHeld, ReadEnd
      <3> QED BY <3>1, RingFacts, SMTT(30) DEF OpenWhileHeld
    <2> QED BY <2>1, <2>2 DEF ReadEnd
  <1>2. TypeOK'
    BY <1>1, SMTT(30) DEF OpenWhileHeld, TypeOK, Labels, User, ReadEnd, WakeGoto, Return
  <1>3. OpenWhileHeld'
    BY <1>2 DEF OpenWhileHeld, TypeOK, User, ReadEnd, WakeGoto, Return
  <1>4. LockInv'
    BY PipeAssumption DEF OpenWhileHeld, TypeOK, LockInv, WritePc, ReadPc, User, ReadEnd, WakeGoto, Return
  <1>5. WaitInv'
    <2>1. \A w \in Writer : pc'[w] \notin {"write_sleep", "asleep"}
      BY PipeAssumption DEF OpenWhileHeld, TypeOK, LockInv, WritePc, ReadPc, User, ReadEnd, WakeGoto
    <2>2. \A q \in Reader : pc'[q] \in {"read_sleep", "asleep"} => pc[q] = "asleep"
      BY PipeAssumption DEF OpenWhileHeld, TypeOK, LockInv, WritePc, ReadPc, User, ReadEnd, WakeGoto
    <2>3. \A w \in Writer : pc[w] # "write"
      BY PipeAssumption DEF OpenWhileHeld, TypeOK, LockInv, WritePc, ReadPc, User, ReadEnd
    <2>4. \A q \in Reader : pc'[q] # "read_sleep"
      BY PipeAssumption DEF OpenWhileHeld, TypeOK, LockInv, WritePc, ReadPc, User, ReadEnd, WakeGoto
    <2>5. Empty => Empty'
      BY DEF Empty, ReadEnd
    <2> QED BY <2>1, <2>2, <2>3, <2>4, <2>5 DEF WaitInv, ReadEnd
  <1> QED BY <1>1, <1>3, <1>4, <1>5

\* fileclose(), and pipeclose() for the last file of an end.
LEMMA CloseInv ==
  ASSUME PipeInv, NEW u \in User, Close(u)
  PROVE  PipeInv'
  <1> USE DEF PipeInv
  <1>1. TypeOK'
    BY DEF OpenWhileHeld, TypeOK, Labels, User, Close, WakeGoto
  <1>2. OpenWhileHeld'
    <2>1. fd' = fd \ {u} /\ u \in fd /\ pc[u] = "user" /\ \A v \in User : pc[v] # "user" => v \in fd
      BY DEF Close, OpenWhileHeld
    <2>2. \A v \in User : pc'[v] # "user" => pc[v] # "user" /\ v # u
      BY <2>1 DEF OpenWhileHeld, TypeOK, Close, WakeGoto
    <2>3. \A v \in User : pc'[v] # "user" => v \in fd'
      BY <2>1, <2>2
    <2>4. /\ (readopen <=> fd \cap Reader # {}) /\ (writeopen <=> fd \cap Writer # {})
          /\ u \in Reader <=> u \notin Writer
      BY PipeAssumption DEF OpenWhileHeld, User
    <2>5. CASE ~LastClose(u)
      <3>1. readopen' = readopen /\ writeopen' = writeopen /\ fd \cap Side(u) # {u}
        BY <2>5 DEF Close, LastClose
      <3>2. (fd' \cap Reader # {} <=> fd \cap Reader # {}) /\ (fd' \cap Writer # {} <=> fd \cap Writer # {})
        BY <2>1, <2>4, <3>1 DEF Side
      <3> QED BY <1>1, <2>3, <2>4, <3>1, <3>2 DEF OpenWhileHeld
    <2>6. CASE LastClose(u)
      <3>1. /\ readopen' = (readopen /\ u \notin Reader) /\ writeopen' = (writeopen /\ u \notin Writer)
            /\ fd \cap Side(u) = {u}
        BY <2>6 DEF Close, LastClose
      <3>2. CASE u \in Reader
        <4>1. fd' \cap Reader = {} /\ fd' \cap Writer = fd \cap Writer
          BY <2>1, <2>4, <3>1, <3>2 DEF Side
        <4> QED BY <1>1, <2>3, <2>4, <3>1, <3>2, <4>1 DEF OpenWhileHeld
      <3>3. CASE u \in Writer
        <4>1. fd' \cap Writer = {} /\ fd' \cap Reader = fd \cap Reader
          BY <2>1, <2>4, <3>1, <3>3 DEF Side
        <4> QED BY <1>1, <2>3, <2>4, <3>1, <3>3, <4>1 DEF OpenWhileHeld
      <3> QED BY <3>2, <3>3 DEF User
    <2> QED BY <2>5, <2>6
  <1>3. LockInv'
    BY PipeAssumption, SMTT(30) DEF OpenWhileHeld, TypeOK, LockInv, WritePc, ReadPc, User, Close, WakeGoto
  <1>4. WaitInv'
    <2>1. pc \in [User -> Labels] /\ pc' \in [User -> Labels]
      BY <1>1 DEF OpenWhileHeld, TypeOK
    <2>2. (Full' <=> Full) /\ (Empty' <=> Empty) /\ killed' = killed
      BY DEF Full, Empty, Close
    <2>3. CASE ~LastClose(u)
      BY <2>2, <2>3, SMTT(30) DEF WaitInv, Close
    <2>4. CASE LastClose(u) /\ lock = Nobody
      <3>1. \A v \in User : pc[v] \notin WritePc \cup ReadPc
        BY <2>4, PipeAssumption DEF LockInv, User
      <3>2. \A v \in User : pc'[v] \in {"write_sleep", "read_sleep", "asleep"} =>
               pc[v] = "asleep" /\ v \in Side(u) /\ v # u
        BY <2>1, <2>4, <3>1 DEF Close, WakeGoto, WritePc, ReadPc
      <3>3. \A v \in Side(u) : v # u => v \notin fd
        BY <2>4 DEF LastClose
      <3>4. \A v \in User : pc'[v] \notin {"write_sleep", "read_sleep", "asleep"}
        BY <3>2, <3>3 DEF OpenWhileHeld
      <3> QED BY <3>4 DEF WaitInv, User
    <2> QED BY <2>3, <2>4 DEF Close
  <1>5. (Count <= PIPESIZE)'
    BY DEF Count, Close
  <1> QED BY <1>2, <1>3, <1>4, <1>5
-----------------------------------------------------------------------------
\* pipealloc() establishes the invariant.
LEMMA InitPipe == Init => PipeInv
  <1> SUFFICES ASSUME Init PROVE PipeInv
    OBVIOUS
  <1>1. TypeOK
    BY PipeAssumption, SMTT(30) DEF Init, TypeOK, Labels
  <1>2. OpenWhileHeld
    BY <1>1, PipeAssumption DEF Init, OpenWhileHeld, User
  <1>3. LockInv /\ WaitInv
    BY PipeAssumption DEF Init, LockInv, WaitInv, WritePc, ReadPc, User
  <1>4. Count <= PIPESIZE
    BY <1>1, FullIs, PipeAssumption, SMTT(30) DEF Init, Empty
  <1> QED BY <1>2, <1>3, <1>4 DEF PipeInv

\* Every step preserves it.
LEMMA NextPipe == PipeInv /\ [Next]_vars => PipeInv'
  <1> SUFFICES ASSUME PipeInv, [Next]_vars PROVE PipeInv'
    OBVIOUS
  <1>1. CASE UNCHANGED vars
    BY <1>1 DEF PipeInv, OpenWhileHeld, TypeOK, LockInv, WaitInv, Count, Empty, Full, vars, pipeVars
  <1>2. ASSUME NEW u \in User, AcquireLock(u) \/ Sleep(u) \/ Close(u) PROVE PipeInv'
    BY <1>2, AcquireLockInv, SleepInv, CloseInv
  <1>3. ASSUME NEW u \in User, NEW k \in ReadSizes \cup WriteSizes, Call(u, k) PROVE PipeInv'
    BY <1>3, CallInv, PipeAssumption
  <1>4. ASSUME NEW w \in Writer, Write(w) PROVE PipeInv'
    BY <1>4, WriteEndInv, WriteErrorInv, WriteFullInv, WriteByteInv DEF Write
  <1>5. ASSUME NEW r \in Reader, Read(r) PROVE PipeInv'
    BY <1>5, ReadKilledInv, ReadEmptyInv, ReadReadyInv, ReadByteInv, ReadEndInv DEF Read
  <1>6. ASSUME NEW u \in Killable, Kill(u) PROVE PipeInv'
    BY <1>6, KillInv, PipeAssumption DEF User
  <1> QED BY <1>1, <1>2, <1>3, <1>4, <1>5, <1>6 DEF Next, User

\* The ends are open exactly as long as they are held, only the holder of
\* pi->lock is inside a call, the ring never holds more than PIPESIZE bytes,
\* and a process asleep in pipewrite() or piperead() has reason to be.
THEOREM PipeInvariant == Spec => []PipeInv
  BY InitPipe, NextPipe, PTL DEF Spec

\* Nobody is left asleep on a pipe that it could use, whatever the number of
\* readers and writers, and whoever is killed.
THEOREM NoStranding == Spec => []NobodyStranded
  <1>1. PipeInv => NobodyStranded
    <2> SUFFICES ASSUME PipeInv, lock = Nobody
                 PROVE  /\ \A r \in Reader : pc[r] = "asleep" =>
                              (Empty /\ writeopen) \/ \E w \in Writer : killed[w]
                        /\ \A w \in Writer : pc[w] = "asleep" => Full /\ readopen
      BY DEF NobodyStranded, ReaderNotStranded, WriterNotStranded
    <2>1. \A u \in User : pc[u] \notin WritePc \cup ReadPc
      BY PipeAssumption DEF PipeInv, LockInv, User
    <2> QED BY <2>1 DEF PipeInv, WaitInv, WritePc, ReadPc, User
  <1> QED BY <1>1, PipeInvariant, PTL
-----------------------------------------------------------------------------
(* The ring is a FIFO.                                                     *)

\* The empty ring.
LEMMA InitRefines == Init => Queue!Init
  <1> SUFFICES ASSUME Init PROVE Queue!Init
    OBVIOUS
  <1>1. TypeOK /\ nread = nwrite
    BY InitPipe DEF PipeInv, OpenWhileHeld, Init
  <1>2. Contents = <<>>
    BY <1>1, RingFacts, SliceEmpty, SMTT(30)
  <1> QED BY <1>2 DEF Init, Queue!Init

\* The length of the queue.
LEMMA ContentsLen ==
  TypeOK => Contents \in Seq(Byte \cup {NoByte}) /\ Len(Contents) = Count /\ (Contents = <<>> <=> Empty)
  <1> SUFFICES ASSUME TypeOK
               PROVE Contents \in Seq(Byte \cup {NoByte}) /\ Len(Contents) = Count /\ (Contents = <<>> <=> Empty)
    OBVIOUS
  <1>1. Contents \in Seq(Byte \cup {NoByte}) /\ Len(Contents) = Count
    BY RingFacts, SliceIs, SMTT(30)
  <1>2. Contents = <<>> <=> Empty
    BY RingFacts, SliceEmpty, SMTT(30) DEF Empty
  <1> QED BY <1>1, <1>2

\* A byte written is appended.
LEMMA WriteByteRefines ==
  ASSUME PipeInv, NEW w \in Writer, NEW b \in Byte, WriteByte(w, b)
  PROVE  Queue!Put(b)
  <1>1. TypeOK /\ Count <= PIPESIZE /\ ~Full
    BY DEF PipeInv, OpenWhileHeld, WriteByte
  <1>2. Count + 1 <= PIPESIZE /\ Count \in Nat /\ PIPESIZE \in Nat /\ UMAX \in Nat /\ PIPESIZE < UMAX
    BY <1>1, PutCount, RingFacts, PipeAssumption DEF WriteByte
  <1>3. Count < PIPESIZE /\ Count + 1 < UMAX
    BY <1>2, SMTT(30)
  <1>4. data' = RingPut(data, PIPESIZE, nwrite, b) /\ nwrite' = RingNext(UMAX, nwrite) /\ nread' = nread
    BY DEF WriteByte, RingPut, RingNext, Incr
  <1>5. RingSlice(RingPut(data, PIPESIZE, nwrite, b), PIPESIZE, UMAX, nread, RingNext(UMAX, nwrite))
           = Append(RingSlice(data, PIPESIZE, UMAX, nread, nwrite), b)
    <2> DEFINE Bytes == Byte \cup {NoByte}
    <2>1. b \in Bytes
      OBVIOUS
    <2>2. Dist(UMAX, nread, nwrite) < PIPESIZE /\ Dist(UMAX, nread, nwrite) + 1 < UMAX
      BY <1>1, <1>3, RingFacts
    <2>3. /\ IsRing(PIPESIZE, UMAX) /\ nread \in Index(UMAX) /\ nwrite \in Index(UMAX)
          /\ data \in Buffers(PIPESIZE, Bytes)
      BY <1>1, RingFacts
    <2> HIDE DEF Bytes
    <2> QED BY <2>1, <2>2, <2>3, SliceAppend, SMTT(30)
  <1>6. Contents' = RingSlice(data', PIPESIZE, UMAX, nread', nwrite')
    BY DEF Contents, Count, RingSlice
  <1>7. Contents' = Append(Contents, b)
    BY <1>1, <1>4, <1>5, <1>6, RingFacts
  <1>8. Len(Contents) < PIPESIZE
    BY <1>1, <1>3, ContentsLen
  <1> QED BY <1>7, <1>8 DEF Queue!Put, WriteByte

\* A byte taken is the oldest.
LEMMA TakeRefines ==
  ASSUME TypeOK, ~Empty, nread' = Incr(nread), UNCHANGED <<nwrite, data>>
  PROVE  /\ Contents # <<>> /\ Contents' = Tail(Contents)
         /\ Head(Contents) = data[nread % PIPESIZE]
  <1>1. nread # nwrite
    BY DEF Empty
  <1>2. /\ Head(RingSlice(data, PIPESIZE, UMAX, nread, nwrite)) = data[nread % PIPESIZE]
        /\ RingSlice(data, PIPESIZE, UMAX, RingNext(UMAX, nread), nwrite)
              = Tail(RingSlice(data, PIPESIZE, UMAX, nread, nwrite))
    BY <1>1, RingFacts, SliceTail
  <1>3. Contents' = RingSlice(data, PIPESIZE, UMAX, RingNext(UMAX, nread), nwrite)
    BY DEF RingNext, Contents, Count, RingSlice, Incr
  <1>4. Contents # <<>>
    BY ContentsLen
  <1> QED BY <1>2, <1>3, <1>4, RingFacts

\* Every step of the pipe is a step of the queue, or changes none of it.
LEMMA NextRefines == PipeInv /\ [Next]_vars => [Queue!Next]_<<Contents, out>>
  <1> SUFFICES ASSUME PipeInv, [Next]_vars PROVE Queue!Next \/ UNCHANGED <<Contents, out>>
    OBVIOUS
  <1>1. TypeOK
    BY DEF PipeInv, OpenWhileHeld
  <1>2. UNCHANGED <<nread, nwrite, data, out>> => UNCHANGED <<Contents, out>>
    BY DEF Contents, Count
  <1>3. CASE UNCHANGED vars
    BY <1>2, <1>3 DEF vars, pipeVars
  <1>4. ASSUME NEW u \in User, AcquireLock(u) \/ Sleep(u) \/ Close(u)
        PROVE  UNCHANGED <<nread, nwrite, data, out>>
    BY <1>4 DEF AcquireLock, Sleep, Close, pipeVars
  <1>5. ASSUME NEW u \in User, NEW k, Call(u, k)
        PROVE  UNCHANGED <<nread, nwrite, data, out>>
    BY <1>5 DEF Call, pipeVars
  <1>6. ASSUME NEW w \in Writer, Write(w)
        PROVE  Queue!Next \/ UNCHANGED <<Contents, out>>
    <2>1. CASE WriteEnd(w) \/ WriteError(w) \/ WriteFull(w)
      BY <1>2, <2>1 DEF WriteEnd, WriteError, WriteFull, pipeVars
    <2>2. ASSUME NEW b \in Byte, WriteByte(w, b) PROVE Queue!Next
      BY <2>2, WriteByteRefines DEF Queue!Next
    <2> QED BY <1>6, <2>1, <2>2 DEF Write
  <1>7. ASSUME NEW r \in Reader, Read(r)
        PROVE  Queue!Next \/ UNCHANGED <<Contents, out>>
    <2>1. CASE ReadKilled(r) \/ ReadEmpty(r) \/ ReadReady(r)
      BY <1>2, <2>1 DEF ReadKilled, ReadEmpty, ReadReady, pipeVars
    <2>2. CASE ReadByte(r)
      <3>1. /\ Contents # <<>> /\ Contents' = Tail(Contents)
            /\ Head(Contents) = data[nread % PIPESIZE]
        BY <1>1, <2>2, TakeRefines DEF ReadByte
      <3> QED BY <2>2, <3>1 DEF ReadByte, Queue!Next, Queue!Deliver
    <2>3. CASE ReadEnd(r)
      <3>1. CASE UNCHANGED <<nread, out>>
        BY <1>2, <2>3, <3>1 DEF ReadEnd
      <3>2. CASE ~Empty /\ nread' = Incr(nread) /\ out' = NoByte
        <4>1. Contents # <<>> /\ Contents' = Tail(Contents)
          BY <1>1, <2>3, <3>2, TakeRefines DEF ReadEnd
        <4> QED BY <3>2, <4>1 DEF Queue!Next, Queue!Lose
      <3> QED BY <2>3, <3>1, <3>2 DEF ReadEnd
    <2> QED BY <1>7, <2>1, <2>2, <2>3 DEF Read
  <1>8. ASSUME NEW u \in Killable, Kill(u)
        PROVE  UNCHANGED <<nread, nwrite, data, out>>
    BY <1>8 DEF Kill, pipeVars
  <1> QED BY <1>2, <1>3, <1>4, <1>5, <1>6, <1>7, <1>8 DEF Next, User

\* The ring with its two wrapping counters is a FIFO of at most PIPESIZE
\* bytes: pipewrite() appends, piperead() takes the oldest byte, and nothing
\* else touches what is in the pipe.
THEOREM PipeIsFifo == Spec => IsFifo
  <1>1. Init => Queue!Init
    BY InitRefines
  <1>2. PipeInv /\ [Next]_vars => [Queue!Next]_<<Contents, out>>
    BY NextRefines
  <1> QED BY <1>1, <1>2, PipeInvariant, PTL DEF Spec, IsFifo, Queue!Spec
=============================================================================
