----------------------------- MODULE UartProofs -----------------------------
(***************************************************************************)
(* Proofs about module Uart, for every number of writers and of echoing    *)
(* CPUs, size of the ring and width of its counters: the device's FIFO is  *)
(* not overrun, and what is written reaches the wire in order.             *)
(***************************************************************************)
EXTENDS Uart, RingLemmas, FiniteSetTheorems

\* Most leaves are first-order and go to Zenon; the others name the SMT solver.
USE ZenonT(30)

Bytes == Byte \cup {NoByte}

\* The transmit buffer as a ring: UartAssumption and the types give what the
\* lemmas on rings ask for.
LEMMA RingFacts ==
  TypeOK => /\ IsRing(UART_TX_BUF_SIZE, UMAX) /\ UART_TX_BUF_SIZE \in Nat \ {0}
            /\ UMAX \in Nat \ {0} /\ UART_TX_BUF_SIZE < UMAX
            /\ uart_tx_r \in Index(UMAX) /\ uart_tx_w \in Index(UMAX)
            /\ uart_tx_buf \in Buffers(UART_TX_BUF_SIZE, Bytes)
            /\ Buffered = RingSlice(uart_tx_buf, UART_TX_BUF_SIZE, UMAX, uart_tx_r, uart_tx_w)
  <1> SUFFICES ASSUME TypeOK
               PROVE  /\ IsRing(UART_TX_BUF_SIZE, UMAX) /\ UART_TX_BUF_SIZE \in Nat \ {0}
                      /\ UMAX \in Nat \ {0} /\ UART_TX_BUF_SIZE < UMAX
                      /\ uart_tx_r \in Index(UMAX) /\ uart_tx_w \in Index(UMAX)
                      /\ uart_tx_buf \in Buffers(UART_TX_BUF_SIZE, Bytes)
                      /\ Buffered = RingSlice(uart_tx_buf, UART_TX_BUF_SIZE, UMAX, uart_tx_r, uart_tx_w)
    OBVIOUS
  <1>1. IsRing(UART_TX_BUF_SIZE, UMAX) /\ UART_TX_BUF_SIZE \in Nat \ {0}
        /\ UMAX \in Nat \ {0} /\ UART_TX_BUF_SIZE < UMAX
    BY UartAssumption, SMTT(30) DEF IsRing
  <1>2. uart_tx_r \in Index(UMAX) /\ uart_tx_w \in Index(UMAX)
    BY DEF TypeOK, Index
  <1>3. uart_tx_buf \in Buffers(UART_TX_BUF_SIZE, Bytes)
    BY DEF TypeOK, Buffers, Bytes
  <1>4. Buffered = RingSlice(uart_tx_buf, UART_TX_BUF_SIZE, UMAX, uart_tx_r, uart_tx_w)
    BY DEF Buffered, RingSlice
  <1> QED BY <1>1, <1>2, <1>3, <1>4

\* The length of the queue in the ring, and what the tests of uartputc() and
\* uartstart() say of it.
LEMMA BufferedIs ==
  TypeOK => /\ Buffered \in Seq(Bytes) /\ Len(Buffered) = Dist(UMAX, uart_tx_r, uart_tx_w)
            /\ Full <=> Len(Buffered) = UART_TX_BUF_SIZE
            /\ Buffered = <<>> <=> uart_tx_r = uart_tx_w
  <1> SUFFICES ASSUME TypeOK
               PROVE  /\ Buffered \in Seq(Bytes) /\ Len(Buffered) = Dist(UMAX, uart_tx_r, uart_tx_w)
                      /\ Full <=> Len(Buffered) = UART_TX_BUF_SIZE
                      /\ Buffered = <<>> <=> uart_tx_r = uart_tx_w
    OBVIOUS
  <1>1. Buffered \in Seq(Bytes) /\ Len(Buffered) = Dist(UMAX, uart_tx_r, uart_tx_w)
    BY RingFacts, SliceIs, SMTT(30)
  <1>2. Buffered = <<>> <=> uart_tx_r = uart_tx_w
    BY RingFacts, SliceEmpty, SMTT(30)
  <1>3. /\ uart_tx_r \in 0..(UMAX - 1) /\ uart_tx_w \in 0..(UMAX - 1)
        /\ UART_TX_BUF_SIZE \in Nat /\ UMAX \in Nat /\ UART_TX_BUF_SIZE < UMAX
    BY RingFacts DEF TypeOK
  <1>4. Full <=> Dist(UMAX, uart_tx_r, uart_tx_w) = UART_TX_BUF_SIZE
    BY <1>3, FullDist DEF Full
  <1> QED BY <1>1, <1>2, <1>4

\* uartputc() adds a byte at the end.
LEMMA PutBuffered ==
  ASSUME TypeOK, Len(Buffered) <= UART_TX_BUF_SIZE, ~Full, NEW x \in Byte,
         uart_tx_buf' = [uart_tx_buf EXCEPT ![uart_tx_w % UART_TX_BUF_SIZE] = x],
         uart_tx_w' = Incr(uart_tx_w), uart_tx_r' = uart_tx_r
  PROVE  /\ Buffered' = Append(Buffered, x) /\ Len(Buffered) < UART_TX_BUF_SIZE
         /\ uart_tx_w' \in 0..(UMAX - 1)
         /\ uart_tx_buf' \in [0..(UART_TX_BUF_SIZE - 1) -> Byte \cup {NoByte}]
  <1>1. /\ IsRing(UART_TX_BUF_SIZE, UMAX) /\ UART_TX_BUF_SIZE \in Nat \ {0}
        /\ UMAX \in Nat \ {0} /\ UART_TX_BUF_SIZE < UMAX
        /\ uart_tx_r \in Index(UMAX) /\ uart_tx_w \in Index(UMAX)
        /\ uart_tx_buf \in Buffers(UART_TX_BUF_SIZE, Bytes)
    BY RingFacts
  <1>2. Dist(UMAX, uart_tx_r, uart_tx_w) = Len(Buffered) /\ Len(Buffered) \in Nat
        /\ Len(Buffered) # UART_TX_BUF_SIZE
    BY BufferedIs, SMTT(30)
  <1>3. Len(Buffered) < UART_TX_BUF_SIZE /\ Len(Buffered) + 1 < UMAX
    BY <1>1, <1>2, SMTT(30)
  <1>4. x \in Bytes
    BY DEF Bytes
  <1>5. RingSlice(RingPut(uart_tx_buf, UART_TX_BUF_SIZE, uart_tx_w, x), UART_TX_BUF_SIZE, UMAX,
                  uart_tx_r, RingNext(UMAX, uart_tx_w))
           = Append(RingSlice(uart_tx_buf, UART_TX_BUF_SIZE, UMAX, uart_tx_r, uart_tx_w), x)
    BY <1>1, <1>2, <1>3, <1>4, SliceAppend, SMTT(30)
  <1>6. Buffered' = RingSlice(uart_tx_buf', UART_TX_BUF_SIZE, UMAX, uart_tx_r', uart_tx_w')
    BY DEF Buffered, RingSlice
  <1>7. uart_tx_buf' = RingPut(uart_tx_buf, UART_TX_BUF_SIZE, uart_tx_w, x)
        /\ uart_tx_w' = RingNext(UMAX, uart_tx_w)
    BY DEF RingPut, RingNext, Incr
  <1>8. Buffered' = Append(Buffered, x)
    BY <1>5, <1>6, <1>7, RingFacts
  <1>9. uart_tx_w \in 0..(UMAX - 1)
    BY DEF TypeOK
  <1>10. uart_tx_w' \in 0..(UMAX - 1)
    BY <1>1, <1>9, IncrIs DEF Incr
  <1>11. uart_tx_buf' \in [0..(UART_TX_BUF_SIZE - 1) -> Byte \cup {NoByte}]
    BY DEF TypeOK
  <1> QED BY <1>3, <1>8, <1>10, <1>11

\* uartstart() takes the oldest byte.
LEMMA TakeBuffered ==
  ASSUME TypeOK, uart_tx_w # uart_tx_r, uart_tx_r' = Incr(uart_tx_r), UNCHANGED <<uart_tx_buf, uart_tx_w>>
  PROVE  /\ Buffered # <<>> /\ Buffered' = Tail(Buffered)
         /\ Head(Buffered) = uart_tx_buf[uart_tx_r % UART_TX_BUF_SIZE]
         /\ uart_tx_r' \in 0..(UMAX - 1)
  <1>1. /\ Head(RingSlice(uart_tx_buf, UART_TX_BUF_SIZE, UMAX, uart_tx_r, uart_tx_w))
              = uart_tx_buf[uart_tx_r % UART_TX_BUF_SIZE]
        /\ RingSlice(uart_tx_buf, UART_TX_BUF_SIZE, UMAX, RingNext(UMAX, uart_tx_r), uart_tx_w)
              = Tail(RingSlice(uart_tx_buf, UART_TX_BUF_SIZE, UMAX, uart_tx_r, uart_tx_w))
    BY RingFacts, SliceTail
  <1>2. Buffered' = RingSlice(uart_tx_buf, UART_TX_BUF_SIZE, UMAX, RingNext(UMAX, uart_tx_r), uart_tx_w)
    BY DEF RingNext, Buffered, RingSlice, Incr
  <1>3. Buffered # <<>>
    BY BufferedIs
  <1>4. uart_tx_r \in 0..(UMAX - 1) /\ UMAX \in Nat \ {0}
    BY RingFacts DEF TypeOK
  <1>5. uart_tx_r' \in 0..(UMAX - 1)
    BY <1>4, IncrIs DEF Incr
  <1> QED BY <1>1, <1>2, <1>3, <1>5, RingFacts
-----------------------------------------------------------------------------
(* Counting those who are about to write THR.                              *)

\* A set of echoing CPUs and one more thread.
LEMMA CrowdBound ==
  ASSUME NEW S, NEW l, S \subseteq Echoer \cup {l}
  PROVE  IsFiniteSet(S) /\ Cardinality(S) \in Nat /\ Cardinality(Echoer) \in Nat
         /\ Cardinality(S) <= Cardinality(Echoer) + 1
  <1>1. IsFiniteSet(Echoer) /\ Cardinality(Echoer) \in Nat
    BY UartAssumption, FS_CardinalityType
  <1>2. IsFiniteSet(Echoer \cup {l}) /\ Cardinality(Echoer \cup {l}) <= Cardinality(Echoer) + 1
        /\ Cardinality(Echoer \cup {l}) \in Nat
    BY <1>1, FS_AddElement, FS_CardinalityType, SMTT(30)
  <1>3. IsFiniteSet(S) /\ Cardinality(S) <= Cardinality(Echoer \cup {l})
    BY <1>2, FS_Subset
  <1>4. Cardinality(S) \in Nat
    BY <1>3, FS_CardinalityType
  <1> QED BY <1>1, <1>2, <1>3, <1>4, SMTT(30)

\* Only the holder of uart_tx_lock and echoing CPUs are.
LEMMA SendingIs ==
  ASSUME LockInv
  PROVE  Sending \subseteq Echoer \cup {lock}
  BY DEF LockInv, Sending

\* The same in the next state.
LEMMA SendingNext ==
  ASSUME LockInv'
  PROVE  Sending' \subseteq Echoer \cup {lock'}
  BY DEF LockInv, Sending

\* Whoever writes THR no longer counts, and the byte does.
LEMMA SentOne ==
  ASSUME UartInv, NEW u \in Sending, Sending' = Sending \ {u}, NEW x \in Byte \cup EchoByte,
         thr' = Append(thr, x)
  PROVE  (Len(thr) + Cardinality(Sending) <= Cardinality(Echoer) + 1)'
         /\ thr' \in Seq(Byte \cup EchoByte)
  <1>1. IsFiniteSet(Sending) /\ Cardinality(Sending) \in Nat
    BY SendingIs, CrowdBound DEF UartInv
  <1>2. Cardinality(Sending \ {u}) = Cardinality(Sending) - 1
    BY <1>1, FS_RemoveElement
  <1>3. thr \in Seq(Byte \cup EchoByte) /\ Len(thr) \in Nat
    BY SMTT(30) DEF UartInv, TypeOK
  <1>4. thr' \in Seq(Byte \cup EchoByte) /\ Len(thr') = Len(thr) + 1
    BY <1>3, AppendIs
  <1> QED BY <1>1, <1>2, <1>3, <1>4, SMTT(30) DEF UartInv

\* Whoever finds the device empty.
LEMMA SeenEmpty ==
  ASSUME LockInv', thr' = <<>>
  PROVE  (Len(thr) + Cardinality(Sending) <= Cardinality(Echoer) + 1)'
  <1>1. Cardinality(Sending') \in Nat /\ Cardinality(Sending') <= Cardinality(Echoer) + 1
        /\ Cardinality(Echoer) \in Nat
    BY SendingNext, CrowdBound
  <1>2. Len(thr') = 0
    OBVIOUS
  <1> QED BY <1>1, <1>2, SMTT(30)
-----------------------------------------------------------------------------
(* Steps that leave the ring and the device alone.                         *)

\* They keep what is said of the ring and of the device, if nobody goes to
\* sleep and everybody's hand is right.
LEMMA QuietStep ==
  ASSUME UartInv, UNCHANGED <<ring, thr, line>>, irq' \in BOOLEAN, TypeOK', LockInv',
         \A u \in Writer : pc'[u] \in {"acquire", "put", "asleep"} => c'[u] \in Byte,
         \A u \in Writer : pc'[u] = "asleep" => pc[u] = "asleep" \/ Full,
         \A u \in Sender : pc'[u] = "send" => pc[u] = "send" /\ c'[u] = c[u],
         \A e \in Echoer : pc'[e] = pc[e] /\ c'[e] = c[e]
  PROVE  UartInv'
  <1>1. InDevice' = InDevice /\ Buffered' = Buffered /\ (Full' <=> Full)
    BY DEF InDevice, Buffered, Full, ring
  <1>2. InHand' \subseteq InHand /\ \A u \in InHand' : c'[u] = c[u]
    BY DEF InHand
  <1>3. HandInv'
    BY <1>1, <1>2 DEF UartInv, HandInv
  <1>4. RingInv'
    BY <1>1 DEF UartInv, RingInv
  <1>5. Sending' \subseteq Sending
    BY DEF Sending
  <1>6. Cardinality(Sending') <= Cardinality(Sending) /\ Cardinality(Sending') \in Nat
        /\ Cardinality(Sending) \in Nat /\ Cardinality(Echoer) \in Nat
    <2>1. IsFiniteSet(Sending) /\ Cardinality(Sending) \in Nat /\ Cardinality(Echoer) \in Nat
      BY SendingIs, CrowdBound DEF UartInv
    <2>2. Cardinality(Sending') \in Nat
      BY SendingNext, CrowdBound
    <2> QED BY <1>5, <2>1, <2>2, FS_Subset
  <1>7. Len(thr) \in Nat /\ thr' = thr
    BY SMTT(30) DEF UartInv, TypeOK
  <1>8. (Len(thr) + Cardinality(Sending) <= Cardinality(Echoer) + 1)'
    BY <1>6, <1>7, SMTT(30) DEF UartInv
  <1> QED BY <1>3, <1>4, <1>8 DEF UartInv

\* uartputc() is called.
LEMMA PutCallInv ==
  ASSUME UartInv, NEW u \in Writer, NEW x \in Byte, PutCall(u, x)
  PROVE  UartInv'
  <1>1. TypeOK /\ u \in Sender /\ u \notin Echoer
    BY UartAssumption DEF UartInv, Sender
  <1>2. TypeOK'
    BY <1>1 DEF TypeOK, PutCall, Goto, ring, Labels
  <1>3. /\ pc'[u] = "acquire" /\ c'[u] = x /\ pc[u] = "idle" /\ lock' = lock
        /\ \A v \in Sender \cup Echoer : v # u => pc'[v] = pc[v] /\ c'[v] = c[v]
    BY <1>1 DEF TypeOK, PutCall, Goto
  <1>4. LockInv'
    BY <1>1, <1>3 DEF UartInv, LockInv
  <1>5. \A v \in Writer : pc'[v] \in {"acquire", "put", "asleep"} => c'[v] \in Byte
    BY <1>3 DEF UartInv, HandInv, Sender
  <1>6. UNCHANGED <<ring, thr, line>> /\ irq' \in BOOLEAN
    BY <1>1 DEF PutCall, TypeOK
  <1> QED BY <1>1, <1>2, <1>3, <1>4, <1>5, <1>6, QuietStep DEF Sender

\* acquire(&uart_tx_lock), on entry or on the way out of sleep().
LEMMA AcquireLockInv ==
  ASSUME UartInv, NEW u \in Writer, AcquireLock(u)
  PROVE  UartInv'
  <1>1. TypeOK /\ u \in Sender /\ u \notin Echoer
    BY UartAssumption DEF UartInv, Sender
  <1>2. TypeOK'
    BY <1>1 DEF TypeOK, AcquireLock, Goto, ring, Labels
  <1>3. /\ pc'[u] = "put" /\ c' = c /\ pc[u] = "acquire" /\ lock = Nobody /\ lock' = u
        /\ \A v \in Sender \cup Echoer : v # u => pc'[v] = pc[v]
    BY <1>1 DEF TypeOK, AcquireLock, Goto
  <1>4. LockInv'
    BY <1>1, <1>3, UartAssumption DEF UartInv, LockInv, Sender
  <1>5. \A v \in Writer : pc'[v] \in {"acquire", "put", "asleep"} => c'[v] \in Byte
    BY <1>3 DEF UartInv, HandInv, Sender
  <1>6. UNCHANGED <<ring, thr, line>> /\ irq' \in BOOLEAN
    BY <1>1 DEF AcquireLock, TypeOK
  <1> QED BY <1>1, <1>2, <1>3, <1>4, <1>5, <1>6, QuietStep DEF Sender

\* uartputc() finds the ring full.
LEMMA PutSleepInv ==
  ASSUME UartInv, NEW u \in Writer, PutSleep(u)
  PROVE  UartInv'
  <1>1. TypeOK /\ u \in Sender /\ u \notin Echoer
    BY UartAssumption DEF UartInv, Sender
  <1>2. TypeOK'
    BY <1>1 DEF TypeOK, PutSleep, Goto, ring, Labels
  <1>3. /\ pc'[u] = "asleep" /\ c' = c /\ pc[u] = "put" /\ lock' = Nobody /\ Full
        /\ \A v \in Sender \cup Echoer : v # u => pc'[v] = pc[v]
    BY <1>1 DEF TypeOK, PutSleep, Goto
  <1>4. LockInv'
    BY <1>1, <1>3, UartAssumption DEF UartInv, LockInv, Sender
  <1>5. \A v \in Writer : pc'[v] \in {"acquire", "put", "asleep"} => c'[v] \in Byte
    BY <1>3 DEF UartInv, HandInv, Sender
  <1>6. UNCHANGED <<ring, thr, line>> /\ irq' \in BOOLEAN
    BY <1>1 DEF PutSleep, TypeOK
  <1> QED BY <1>1, <1>2, <1>3, <1>4, <1>5, <1>6, QuietStep DEF Sender

\* kill() of a process asleep in uartputc().
LEMMA KillInv ==
  ASSUME UartInv, NEW u \in Writer, Kill(u)
  PROVE  UartInv'
  <1>1. TypeOK /\ u \in Sender /\ u \notin Echoer
    BY UartAssumption DEF UartInv, Sender
  <1>2. TypeOK'
    BY <1>1 DEF TypeOK, Kill, Goto, ring, Labels
  <1>3. /\ pc'[u] = "acquire" /\ c' = c /\ pc[u] = "asleep" /\ lock' = lock
        /\ \A v \in Sender \cup Echoer : v # u => pc'[v] = pc[v]
    BY <1>1 DEF TypeOK, Kill, Goto
  <1>4. LockInv'
    BY <1>1, <1>3 DEF UartInv, LockInv
  <1>5. \A v \in Writer : pc'[v] \in {"acquire", "put", "asleep"} => c'[v] \in Byte
    BY <1>3 DEF UartInv, HandInv, Sender
  <1>6. UNCHANGED <<ring, thr, line>> /\ irq' \in BOOLEAN
    BY <1>1 DEF Kill, TypeOK
  <1> QED BY <1>1, <1>2, <1>3, <1>4, <1>5, <1>6, QuietStep DEF Sender

\* uartstart() returns.
LEMMA StartReturnInv ==
  ASSUME UartInv, NEW u \in Sender, StartReturn(u)
  PROVE  UartInv'
  <1>1. TypeOK /\ u \notin Echoer
    BY UartAssumption DEF UartInv, Sender
  <1>2. TypeOK'
    BY <1>1 DEF TypeOK, StartReturn, Goto, ring, Labels
  <1>3. /\ pc'[u] = "idle" /\ c' = c /\ pc[u] = "start" /\ lock' = Nobody
        /\ \A v \in Sender \cup Echoer : v # u => pc'[v] = pc[v]
    BY <1>1 DEF TypeOK, StartReturn, Goto
  <1>4. LockInv'
    BY <1>1, <1>3, UartAssumption DEF UartInv, LockInv, Sender
  <1>5. \A v \in Writer : pc'[v] \in {"acquire", "put", "asleep"} => c'[v] \in Byte
    BY <1>3 DEF UartInv, HandInv, Sender
  <1>6. UNCHANGED <<ring, thr, line>> /\ irq' \in BOOLEAN
    BY <1>1 DEF StartReturn, TypeOK
  <1> QED BY <1>1, <1>2, <1>3, <1>4, <1>5, <1>6, QuietStep DEF Sender

\* uartintr() takes uart_tx_lock.
LEMMA UartIntrInv ==
  ASSUME UartInv, UartIntr
  PROVE  UartInv'
  <1>1. TypeOK /\ Intr \in Sender /\ Intr \notin Echoer /\ Intr \notin Writer
    BY UartAssumption DEF UartInv, Sender
  <1>2. TypeOK'
    BY <1>1 DEF TypeOK, UartIntr, Goto, ring, Labels
  <1>3. /\ pc'[Intr] = "start" /\ c' = c /\ pc[Intr] = "idle" /\ lock = Nobody /\ lock' = Intr
        /\ \A v \in Sender \cup Echoer : v # Intr => pc'[v] = pc[v]
    BY <1>1 DEF TypeOK, UartIntr, Goto
  <1>4. LockInv'
    BY <1>1, <1>3, UartAssumption DEF UartInv, LockInv, Sender
  <1>5. \A v \in Writer : pc'[v] \in {"acquire", "put", "asleep"} => c'[v] \in Byte
    BY <1>1, <1>3 DEF UartInv, HandInv, Sender
  <1>6. UNCHANGED <<ring, thr, line>> /\ irq' \in BOOLEAN
    BY <1>1 DEF UartIntr, TypeOK
  <1> QED BY <1>1, <1>2, <1>3, <1>4, <1>5, <1>6, QuietStep DEF Sender
-----------------------------------------------------------------------------
(* Steps that change the ring or the device.                               *)

\* uartputc() puts a byte into the ring.
LEMMA PutByteInv ==
  ASSUME UartInv, NEW u \in Writer, PutByte(u)
  PROVE  UartInv'
  <1>1. TypeOK /\ u \in Sender /\ u \notin Echoer /\ c[u] \in Byte /\ Len(Buffered) <= UART_TX_BUF_SIZE
    BY UartAssumption DEF UartInv, Sender, HandInv, RingInv, PutByte
  <1>2. /\ Buffered' = Append(Buffered, c[u]) /\ Len(Buffered) < UART_TX_BUF_SIZE
        /\ uart_tx_w' \in 0..(UMAX - 1)
        /\ uart_tx_buf' \in [0..(UART_TX_BUF_SIZE - 1) -> Byte \cup {NoByte}]
    BY <1>1, PutBuffered DEF PutByte
  <1>3. TypeOK'
    BY <1>1, <1>2 DEF TypeOK, PutByte, Goto, Labels
  <1>4. /\ pc'[u] = "start" /\ pc[u] = "put" /\ lock' = lock /\ ~Full
        /\ \A v \in Sender \cup Echoer : v # u => pc'[v] = pc[v] /\ c'[v] = c[v]
    BY <1>1 DEF TypeOK, PutByte, Goto
  <1>5. LockInv'
    BY <1>1, <1>4 DEF UartInv, LockInv
  <1>6. InDevice' = InDevice /\ InHand' = InHand /\ Sending' = Sending /\ thr' = thr
    BY <1>1, <1>4 DEF InDevice, InHand, Sending, PutByte
  <1>7. HandInv'
    BY <1>1, <1>4, <1>6 DEF UartInv, HandInv, InHand, Sender
  <1>8. RingInv'
    <2>1. Buffered \in Seq(Byte) /\ \A v \in Writer : pc[v] # "asleep"
      BY <1>4 DEF UartInv, RingInv
    <2>2. Buffered' \in Seq(Byte) /\ Len(Buffered') = Len(Buffered) + 1
      BY <1>1, <1>2, <2>1, AppendIs
    <2>3. UART_TX_BUF_SIZE \in Nat /\ Len(Buffered) \in Nat
      BY <2>1, UartAssumption, SMTT(30)
    <2>4. \A v \in Writer : pc'[v] # "asleep"
      BY <1>4, <2>1 DEF Sender
    <2> QED BY <1>2, <2>2, <2>3, <2>4, SMTT(30) DEF RingInv
  <1> QED BY <1>3, <1>5, <1>6, <1>7, <1>8 DEF UartInv

\* uartstart() takes a byte, the device being empty, and wakes the writers.
LEMMA StartTakeInv ==
  ASSUME UartInv, NEW u \in Sender, StartTake(u)
  PROVE  UartInv'
  <1>1. TypeOK /\ u \notin Echoer /\ Buffered \in Seq(Byte) /\ Len(Buffered) <= UART_TX_BUF_SIZE
    BY UartAssumption DEF UartInv, Sender, RingInv
  <1>2. /\ Buffered # <<>> /\ Buffered' = Tail(Buffered)
        /\ Head(Buffered) = uart_tx_buf[uart_tx_r % UART_TX_BUF_SIZE]
        /\ uart_tx_r' \in 0..(UMAX - 1)
    BY <1>1, TakeBuffered DEF StartTake
  <1>3. Head(Buffered) \in Byte
    BY <1>1, <1>2, SMTT(30)
  <1>4. c' = [c EXCEPT ![u] = Head(Buffered)] /\ thr = <<>>
        /\ UNCHANGED <<uart_tx_buf, uart_tx_w, lock, thr, irq, line>>
    BY <1>2 DEF StartTake
  <1>5. /\ pc'[u] = "send" /\ pc[u] = "start" /\ c'[u] = Head(Buffered)
        /\ pc' \in [Sender \cup Echoer -> Labels]
        /\ \A v \in Sender \cup Echoer : v # u =>
              pc'[v] = (IF pc[v] = "asleep" THEN "acquire" ELSE pc[v]) /\ c'[v] = c[v]
    BY <1>1, <1>4 DEF TypeOK, StartTake, WakeSend, Labels
  <1>6. TypeOK'
    BY <1>1, <1>2, <1>3, <1>4, <1>5 DEF TypeOK
  <1>7. LockInv'
    BY <1>4, <1>5 DEF UartInv, LockInv
  <1>8. InDevice' = {} /\ InHand' = {u}
    <2>1. InDevice' = {}
      BY <1>4, SMTT(30) DEF InDevice
    <2>2. \A v \in Sender : v # u => pc[v] # "send"
      BY <1>5 DEF UartInv, LockInv
    <2> QED BY <1>5, <2>1, <2>2 DEF InHand
  <1>9. HandInv'
    BY <1>1, <1>3, <1>5, <1>8 DEF UartInv, HandInv, Sender
  <1>10. RingInv'
    <2>1. Buffered' \in Seq(Byte) /\ Len(Buffered') = Len(Buffered) - 1 /\ Len(Buffered) \in Nat
      BY <1>1, <1>2, TailIs, SMTT(30)
    <2>2. Len(Buffered') <= UART_TX_BUF_SIZE
      BY <1>1, <2>1, UartAssumption, SMTT(30)
    <2>3. \A v \in Writer : pc'[v] # "asleep"
      BY <1>5 DEF Sender
    <2> QED BY <2>1, <2>2, <2>3 DEF RingInv
  <1> QED BY <1>4, <1>6, <1>7, <1>9, <1>10, SeenEmpty DEF UartInv

\* Appending to the device's FIFO.
LEMMA DeviceAppend ==
  ASSUME thr \in Seq(Byte \cup EchoByte), NEW x \in Byte \cup EchoByte, thr' = Append(thr, x)
  PROVE  InDevice' = InDevice \cup (IF x \in Byte THEN {Len(thr) + 1} ELSE {})
         /\ \A k \in InDevice : thr'[k] = thr[k]
  <1>1. /\ thr' \in Seq(Byte \cup EchoByte) /\ Len(thr') = Len(thr) + 1 /\ Len(thr) \in Nat
        /\ \A k \in 1..Len(thr) : thr'[k] = thr[k]
        /\ thr'[Len(thr) + 1] = x
    BY AppendIs, SMTT(30)
  <1>2. \A k : k \in 1..Len(thr') <=> k \in 1..Len(thr) \/ k = Len(thr) + 1
    BY <1>1, SMTT(30)
  <1> QED BY <1>1, <1>2 DEF InDevice

\* uartstart() writes THR.
LEMMA StartSendInv ==
  ASSUME UartInv, NEW u \in Sender, StartSend(u)
  PROVE  UartInv'
  <1>1. TypeOK /\ u \notin Echoer /\ u \in InHand /\ c[u] \in Byte /\ InDevice = {}
    BY UartAssumption DEF UartInv, Sender, HandInv, InHand, StartSend
  <1>2. /\ pc'[u] = "start" /\ pc[u] = "send" /\ thr' = Append(thr, c[u])
        /\ UNCHANGED <<ring, lock, irq, line>>
        /\ c' = [c EXCEPT ![u] = NoByte] /\ pc' = [pc EXCEPT ![u] = "start"]
        /\ \A v \in Sender \cup Echoer : v # u => pc'[v] = pc[v] /\ c'[v] = c[v]
    BY <1>1 DEF TypeOK, StartSend, Goto
  <1>3. u \in Sending /\ Sending' = Sending \ {u}
    BY <1>2 DEF Sending
  <1>4. (Len(thr) + Cardinality(Sending) <= Cardinality(Echoer) + 1)'
        /\ thr' \in Seq(Byte \cup EchoByte)
    BY <1>1, <1>2, <1>3, SentOne
  <1>5. TypeOK'
    BY <1>1, <1>2, <1>4 DEF TypeOK, Labels, ring
  <1>6. LockInv'
    BY <1>2 DEF UartInv, LockInv
  <1>7. InDevice' = {Len(thr) + 1}
    BY <1>1, <1>2, DeviceAppend DEF TypeOK
  <1>8. InHand' = {}
    <2>1. \A v \in Sender : v # u => pc[v] # "send"
      BY <1>2 DEF UartInv, LockInv
    <2> QED BY <1>2, <2>1 DEF InHand
  <1>9. HandInv'
    BY <1>1, <1>2, <1>7, <1>8 DEF UartInv, HandInv, Sender
  <1>10. RingInv'
    BY <1>1, <1>2 DEF UartInv, RingInv, Buffered, Full, ring, Sender
  <1> QED BY <1>4, <1>5, <1>6, <1>9, <1>10 DEF UartInv

\* uartputc_sync() has found the device empty.
LEMMA SyncWaitInv ==
  ASSUME UartInv, NEW e \in Echoer, NEW x \in EchoByte, SyncWait(e, x)
  PROVE  UartInv'
  <1>1. TypeOK /\ e \notin Sender
    BY UartAssumption DEF UartInv, Sender
  <1>2. /\ pc'[e] = "send" /\ c'[e] = x /\ thr = <<>>
        /\ UNCHANGED <<ring, lock, thr, irq, line>>
        /\ \A v \in Sender \cup Echoer : v # e => pc'[v] = pc[v] /\ c'[v] = c[v]
    BY <1>1 DEF TypeOK, SyncWait, Goto
  <1>3. TypeOK'
    BY <1>1 DEF TypeOK, SyncWait, Goto, ring, Labels
  <1>4. LockInv'
    BY <1>1, <1>2 DEF UartInv, LockInv
  <1>5. InDevice' = InDevice /\ InHand' = InHand
    BY <1>1, <1>2 DEF InDevice, InHand
  <1>6. HandInv'
    BY <1>1, <1>2, <1>5 DEF UartInv, HandInv, InHand, Sender
  <1>7. RingInv'
    BY <1>1, <1>2 DEF UartInv, RingInv, Buffered, Full, ring, Sender
  <1> QED BY <1>2, <1>3, <1>4, <1>6, <1>7, SeenEmpty DEF UartInv

\* uartputc_sync() writes THR.
LEMMA SyncSendInv ==
  ASSUME UartInv, NEW e \in Echoer, SyncSend(e)
  PROVE  UartInv'
  <1>1. TypeOK /\ e \notin Sender /\ c[e] \in EchoByte /\ c[e] \notin Byte
    BY UartAssumption DEF UartInv, Sender, HandInv, SyncSend
  <1>2. /\ pc'[e] = "idle" /\ pc[e] = "send" /\ thr' = Append(thr, c[e])
        /\ UNCHANGED <<ring, lock, irq, line>>
        /\ c' = [c EXCEPT ![e] = NoByte] /\ pc' = [pc EXCEPT ![e] = "idle"]
        /\ \A v \in Sender \cup Echoer : v # e => pc'[v] = pc[v] /\ c'[v] = c[v]
    BY <1>1 DEF TypeOK, SyncSend, Goto
  <1>3. e \in Sending /\ Sending' = Sending \ {e}
    BY <1>2 DEF Sending
  <1>4. (Len(thr) + Cardinality(Sending) <= Cardinality(Echoer) + 1)'
        /\ thr' \in Seq(Byte \cup EchoByte)
    BY <1>1, <1>2, <1>3, SentOne
  <1>5. TypeOK'
    BY <1>1, <1>2, <1>4 DEF TypeOK, Labels, ring
  <1>6. LockInv'
    BY <1>1, <1>2 DEF UartInv, LockInv
  <1>7. InDevice' = InDevice /\ InHand' = InHand
    <2>1. InDevice' = InDevice
      BY <1>1, <1>2, DeviceAppend DEF TypeOK
    <2> QED BY <1>1, <1>2, <2>1 DEF InHand
  <1>8. HandInv'
    BY <1>1, <1>2, <1>7 DEF UartInv, HandInv, InHand, Sender
  <1>9. RingInv'
    BY <1>1, <1>2 DEF UartInv, RingInv, Buffered, Full, ring, Sender
  <1> QED BY <1>4, <1>5, <1>6, <1>8, <1>9 DEF UartInv

\* The device's FIFO without its oldest byte.
LEMMA DeviceTail ==
  ASSUME thr \in Seq(Byte \cup EchoByte), thr # <<>>, thr' = Tail(thr)
  PROVE  /\ \A k \in InDevice' : k + 1 \in InDevice /\ thr'[k] = thr[k + 1]
         /\ \A k \in InDevice : k # 1 => k - 1 \in InDevice'
         /\ 1 \in InDevice <=> Head(thr) \in Byte
  <1>1. /\ thr' \in Seq(Byte \cup EchoByte) /\ Len(thr') = Len(thr) - 1
        /\ Len(thr) \in Nat \ {0} /\ Head(thr) = thr[1]
        /\ \A k \in 1..(Len(thr) - 1) : thr'[k] = thr[k + 1]
    BY TailIs, SMTT(30)
  <1>2. \A k \in InDevice' : k + 1 \in InDevice /\ thr'[k] = thr[k + 1]
    BY <1>1, SMTT(30) DEF InDevice
  <1>3. \A k \in InDevice : k # 1 => k - 1 \in InDevice'
    BY <1>1, SMTT(30) DEF InDevice
  <1>4. 1 \in InDevice <=> Head(thr) \in Byte
    BY <1>1, SMTT(30) DEF InDevice
  <1> QED BY <1>2, <1>3, <1>4

\* The device sends a byte.
LEMMA TransmitInv ==
  ASSUME UartInv, Transmit
  PROVE  UartInv'
  <1>1. TypeOK /\ thr \in Seq(Byte \cup EchoByte) /\ thr # <<>>
    BY DEF UartInv, TypeOK, Transmit
  <1>2. thr' = Tail(thr) /\ UNCHANGED <<ring, lock, pc, c>>
    BY DEF Transmit
  <1>3. thr' \in Seq(Byte \cup EchoByte) /\ Len(thr') = Len(thr) - 1 /\ Len(thr) \in Nat
    BY <1>1, <1>2, TailIs, SMTT(30)
  <1>4. TypeOK'
    <2>1. line' \in Byte \cup {NoByte} /\ irq' \in BOOLEAN
      BY <1>1 DEF TypeOK, Transmit
    <2> QED BY <1>1, <1>2, <1>3, <2>1 DEF TypeOK, ring
  <1>5. LockInv' /\ InHand' = InHand /\ Sending' = Sending
    BY <1>2 DEF UartInv, LockInv, InHand, Sending
  <1>6. \A k \in InDevice' : k \in Int /\ k + 1 \in InDevice
    <2>1. \A k \in InDevice' : k + 1 \in InDevice
      BY <1>1, <1>2, DeviceTail
    <2>2. \A k \in InDevice' : k \in Int
      BY SMTT(30) DEF InDevice
    <2> QED BY <2>1, <2>2
  <1>7. HandInv'
    <2>1. \A j, k \in InDevice' : j = k
      <3> SUFFICES ASSUME NEW j \in InDevice', NEW k \in InDevice' PROVE j = k
        OBVIOUS
      <3>1. j + 1 = k + 1 /\ j \in Int /\ k \in Int
        BY <1>6 DEF UartInv, HandInv
      <3> QED BY <3>1, SMTT(30)
    <2>2. InDevice = {} => InDevice' = {}
      BY <1>6
    <2> QED BY <1>2, <1>5, <2>1, <2>2 DEF UartInv, HandInv
  <1>8. RingInv'
    BY <1>2 DEF UartInv, RingInv, Buffered, Full, ring
  <1>9. Cardinality(Sending) \in Nat /\ Cardinality(Echoer) \in Nat
    BY SendingIs, CrowdBound DEF UartInv
  <1>10. (Len(thr) + Cardinality(Sending) <= Cardinality(Echoer) + 1)'
    BY <1>3, <1>5, <1>9, SMTT(30) DEF UartInv
  <1> QED BY <1>4, <1>5, <1>7, <1>8, <1>10 DEF UartInv
-----------------------------------------------------------------------------
\* uartinit() establishes the invariant.
LEMMA InitUart == Init => UartInv
  <1> SUFFICES ASSUME Init PROVE UartInv
    OBVIOUS
  <1>1. TypeOK
    BY UartAssumption, SMTT(30) DEF Init, TypeOK, Labels
  <1>2. LockInv
    BY UartAssumption DEF Init, LockInv, Sender
  <1>3. InDevice = {} /\ InHand = {} /\ Sending = {}
    BY SMTT(30) DEF Init, InDevice, InHand, Sending
  <1>4. HandInv
    BY <1>3 DEF Init, HandInv, Sender
  <1>5. Buffered = <<>>
    BY <1>1, BufferedIs DEF Init
  <1>6. RingInv
    BY <1>5, UartAssumption, SMTT(30) DEF Init, RingInv, Sender
  <1>7. Len(thr) + Cardinality(Sending) <= Cardinality(Echoer) + 1
    <2>1. Cardinality(Sending) = 0 /\ Cardinality(Echoer) \in Nat
      BY <1>3, FS_EmptySet, FS_CardinalityType, UartAssumption
    <2> QED BY <2>1, SMTT(30) DEF Init
  <1> QED BY <1>1, <1>2, <1>4, <1>6, <1>7 DEF UartInv

\* Every step of a process, of the handler, of echo and of the device
\* preserves it.
LEMMA NextUart == UartInv /\ [Next]_vars => UartInv'
  <1> SUFFICES ASSUME UartInv, [Next]_vars PROVE UartInv'
    OBVIOUS
  <1>1. CASE UNCHANGED vars
    BY <1>1 DEF UartInv, TypeOK, LockInv, HandInv, RingInv, InDevice, InHand, Sending, Buffered, Full, vars, ring
  <1>2. ASSUME NEW u \in Writer,
               (\E x \in Byte : PutCall(u, x)) \/ AcquireLock(u) \/ Put(u) \/ Kill(u)
        PROVE  UartInv'
    BY <1>2, PutCallInv, AcquireLockInv, PutSleepInv, PutByteInv, KillInv DEF Put
  <1>3. ASSUME NEW u \in Sender, Start(u) PROVE UartInv'
    BY <1>3, StartReturnInv, StartTakeInv, StartSendInv DEF Start
  <1>4. ASSUME NEW e \in Echoer, (\E x \in EchoByte : SyncWait(e, x)) \/ SyncSend(e)
        PROVE  UartInv'
    BY <1>4, SyncWaitInv, SyncSendInv
  <1> QED BY <1>1, <1>2, <1>3, <1>4, UartIntrInv, TransmitInv DEF Next

\* uart_tx_lock is held where the code says, uartstart() and the device have
\* at most one byte of write() between them, nobody sleeps in uartputc() while
\* the ring has room, and the writes of THR under way are counted.
THEOREM UartInvariant == Spec => []UartInv
  BY InitUart, NextUart, PTL DEF Spec

\* Although LSR is tested and THR written without excluding echo on other
\* CPUs, a device with room for one byte per echoing CPU and one of
\* uartstart() is never overrun.
THEOREM DeviceNotOverrun == Spec => []NoOverrun
  <1>1. ASSUME UartInv, Cardinality(Echoer) < FIFO_DEPTH PROVE Len(thr) <= FIFO_DEPTH
    <2>1. Cardinality(Sending) \in Nat /\ Cardinality(Echoer) \in Nat
      BY <1>1, SendingIs, CrowdBound DEF UartInv
    <2>2. Len(thr) \in Nat
      BY <1>1, SMTT(30) DEF UartInv, TypeOK
    <2>3. FIFO_DEPTH \in Nat
      BY UartAssumption
    <2> QED BY <1>1, <2>1, <2>2, <2>3, SMTT(30) DEF UartInv
  <1>2. UartInv => NoOverrun
    BY <1>1 DEF UartInv, NoOverrun
  <1> QED BY <1>2, UartInvariant, PTL
-----------------------------------------------------------------------------
(* What is written reaches the wire in order.                              *)

\* The part of Pending that has left the ring.
Sent ==
    (IF InDevice # {} THEN <<thr[CHOOSE k \in InDevice : TRUE]>> ELSE <<>>)
    \o (IF InHand # {} THEN <<c[CHOOSE u \in InHand : TRUE]>> ELSE <<>>)

\* A byte in the hand of uartstart().
LEMMA SentFromHand ==
  ASSUME NEW u, InHand = {u}, InDevice = {}
  PROVE  Sent = <<c[u]>>
  <1>1. (CHOOSE v \in InHand : TRUE) = u
    OBVIOUS
  <1>2. Sent = <<>> \o <<c[u]>>
    BY <1>1 DEF Sent
  <1> QED BY <1>2, SMTT(30)

\* The same in the next state.
LEMMA SentFromHandNext ==
  ASSUME NEW u, InHand' = {u}, InDevice' = {}
  PROVE  Sent' = <<c'[u]>>
  <1>1. (CHOOSE v \in InHand' : TRUE) = u
    OBVIOUS
  <1>2. Sent' = <<>> \o <<c'[u]>>
    BY <1>1 DEF Sent
  <1> QED BY <1>2, SMTT(30)

\* A byte in the device.
LEMMA SentFromDevice ==
  ASSUME NEW k, InDevice = {k}, InHand = {}
  PROVE  Sent = <<thr[k]>>
  <1>1. (CHOOSE j \in InDevice : TRUE) = k
    OBVIOUS
  <1>2. Sent = <<thr[k]>> \o <<>>
    BY <1>1 DEF Sent
  <1> QED BY <1>2, SMTT(30)

\* The same in the next state.
LEMMA SentFromDeviceNext ==
  ASSUME NEW k, InDevice' = {k}, InHand' = {}
  PROVE  Sent' = <<thr'[k]>>
  <1>1. (CHOOSE j \in InDevice' : TRUE) = k
    OBVIOUS
  <1>2. Sent' = <<thr'[k]>> \o <<>>
    BY <1>1 DEF Sent
  <1> QED BY <1>2, SMTT(30)

\* Neither.
LEMMA SentNothing ==
  /\ InDevice = {} /\ InHand = {} => Sent = <<>>
  /\ InDevice' = {} /\ InHand' = {} => Sent' = <<>>
  BY SMTT(30) DEF Sent

\* There are no other cases.
LEMMA SentCases ==
  ASSUME UartInv
  PROVE  \/ InDevice = {} /\ InHand = {} /\ Sent = <<>>
         \/ \E u \in Sender : InDevice = {} /\ InHand = {u} /\ Sent = <<c[u]>> /\ c[u] \in Byte
         \/ \E k \in 1..Len(thr) : InDevice = {k} /\ InHand = {} /\ Sent = <<thr[k]>> /\ thr[k] \in Byte
  <1>1. /\ \A u, v \in InHand : u = v
        /\ \A u \in InHand : u \in Sender /\ c[u] \in Byte /\ InDevice = {}
        /\ \A j, k \in InDevice : j = k
        /\ \A k \in InDevice : k \in 1..Len(thr) /\ thr[k] \in Byte
    BY DEF UartInv, LockInv, HandInv, InHand, InDevice
  <1>2. CASE InHand # {}
    <2>1. PICK u \in InHand : TRUE
      BY <1>2
    <2>2. InHand = {u} /\ InDevice = {} /\ u \in Sender /\ c[u] \in Byte
      BY <1>1, <2>1
    <2> QED BY <2>2, SentFromHand
  <1>3. CASE InHand = {} /\ InDevice # {}
    <2>1. PICK k \in InDevice : TRUE
      BY <1>3
    <2>2. InDevice = {k} /\ k \in 1..Len(thr) /\ thr[k] \in Byte
      BY <1>1, <2>1
    <2> QED BY <1>3, <2>2, SentFromDevice
  <1>4. CASE InHand = {} /\ InDevice = {}
    BY <1>4, SentNothing
  <1> QED BY <1>2, <1>3, <1>4

\* A sequence of at most one byte and the ring behind it.
LEMMA PendingIs ==
  ASSUME UartInv
  PROVE  /\ Pending = Sent \o Buffered /\ Pending' = Sent' \o Buffered'
         /\ Sent \in Seq(Byte) /\ Len(Sent) <= 1 /\ Len(Sent) \in Nat /\ Buffered \in Seq(Byte)
  <1>1. Pending = Sent \o Buffered /\ Pending' = Sent' \o Buffered'
    BY DEF Pending, Sent
  <1>2. Sent = <<>> \/ \E b \in Byte : Sent = <<b>>
    BY SentCases
  <1>3. Sent \in Seq(Byte) /\ Len(Sent) <= 1 /\ Len(Sent) \in Nat
    <2>1. CASE Sent = <<>>
      BY <2>1, SMTT(30)
    <2>2. ASSUME NEW b \in Byte, Sent = <<b>>
          PROVE  Sent \in Seq(Byte) /\ Len(Sent) <= 1 /\ Len(Sent) \in Nat
      <3>1. Sent \in Seq(Byte) /\ Len(Sent) = 1
        BY <2>2, SMTT(30)
      <3> QED BY <3>1, SMTT(30)
    <2> QED BY <1>2, <2>1, <2>2
  <1> QED BY <1>1, <1>3 DEF UartInv, RingInv

\* The first byte of a sequence put in front of the rest.
LEMMA ConcatFront ==
  ASSUME NEW S, NEW t \in Seq(S)
  PROVE  /\ <<>> \o t = t
         /\ \A x \in S : <<x>> \o t # <<>> /\ Head(<<x>> \o t) = x /\ Tail(<<x>> \o t) = t
         /\ t # <<>> => <<Head(t)>> \o Tail(t) = t
  BY SMTT(30)

\* Nothing is written yet.
LEMMA InitRefines == Init => Wire!Init
  <1> SUFFICES ASSUME Init PROVE Wire!Init
    OBVIOUS
  <1>1. UartInv
    BY InitUart
  <1>2. InDevice = {} /\ InHand = {}
    BY SMTT(30) DEF Init, InDevice, InHand
  <1>3. Buffered = <<>>
    BY <1>1, BufferedIs DEF Init, UartInv
  <1>4. Pending = <<>>
    BY <1>1, <1>2, <1>3, PendingIs, SentNothing, SMTT(30)
  <1> QED BY <1>4 DEF Init, Wire!Init

\* A byte put into the ring is appended.
LEMMA PutByteRefines ==
  ASSUME UartInv, NEW u \in Writer, PutByte(u)
  PROVE  Wire!Put(c[u]) /\ c[u] \in Byte
  <1>1. TypeOK /\ u \in Sender /\ c[u] \in Byte /\ Len(Buffered) <= UART_TX_BUF_SIZE
        /\ Buffered \in Seq(Byte)
    BY UartAssumption DEF UartInv, Sender, HandInv, RingInv, PutByte
  <1>2. Buffered' = Append(Buffered, c[u]) /\ Len(Buffered) < UART_TX_BUF_SIZE
    BY <1>1, PutBuffered DEF PutByte
  <1>3. /\ pc'[u] = "start" /\ pc[u] = "put" /\ thr' = thr
        /\ \A v \in Sender \cup Echoer : v # u => pc'[v] = pc[v] /\ c'[v] = c[v]
    BY <1>1 DEF TypeOK, PutByte, Goto
  <1>4. InHand = {} /\ InHand' = {} /\ InDevice' = InDevice
    <2>1. \A v \in Sender : v # u => pc[v] # "send"
      BY <1>1, <1>3 DEF UartInv, LockInv
    <2> QED BY <1>3, <2>1 DEF InHand, InDevice
  <1>5. Sent' = Sent
    BY <1>3, <1>4, SMTT(30) DEF Sent
  <1>6. Sent \in Seq(Byte) /\ Len(Sent) <= 1 /\ Len(Sent) \in Nat
    BY PendingIs
  <1>7. Pending' = Append(Pending, c[u]) /\ Len(Pending) = Len(Sent) + Len(Buffered)
    <2>1. Pending = Sent \o Buffered /\ Pending' = Sent \o Append(Buffered, c[u])
      BY <1>2, <1>5, PendingIs
    <2>2. /\ Sent \o Append(Buffered, c[u]) = Append(Sent \o Buffered, c[u])
          /\ Len(Sent \o Buffered) = Len(Sent) + Len(Buffered)
      BY <1>1, <1>6, ConcatAppend
    <2> QED BY <2>1, <2>2
  <1>8. Len(Pending) < UART_TX_BUF_SIZE + 1
    BY <1>1, <1>2, <1>6, <1>7, UartAssumption, SMTT(30)
  <1> QED BY <1>1, <1>7, <1>8 DEF Wire!Put, PutByte

\* uartstart() moves the oldest byte of the ring to its hand.
LEMMA StartTakeRefines ==
  ASSUME UartInv, NEW u \in Sender, StartTake(u)
  PROVE  UNCHANGED <<Pending, line>>
  <1>1. TypeOK /\ Buffered \in Seq(Byte)
    BY DEF UartInv, RingInv
  <1>2. /\ Buffered # <<>> /\ Buffered' = Tail(Buffered)
        /\ Head(Buffered) = uart_tx_buf[uart_tx_r % UART_TX_BUF_SIZE]
    BY <1>1, TakeBuffered DEF StartTake
  <1>3. /\ c'[u] = Head(Buffered) /\ pc'[u] = "send" /\ thr = <<>> /\ thr' = <<>> /\ pc[u] = "start"
        /\ \A v \in Sender : v # u => pc'[v] = (IF pc[v] = "asleep" THEN "acquire" ELSE pc[v])
    BY <1>1, <1>2 DEF TypeOK, StartTake, WakeSend
  <1>4. \A v \in Sender : v # u => pc[v] # "send"
    BY <1>3 DEF UartInv, LockInv
  <1>5. InDevice = {} /\ InDevice' = {} /\ InHand = {} /\ InHand' = {u}
    BY <1>3, <1>4, SMTT(30) DEF InDevice, InHand
  <1>6. Sent = <<>> /\ Sent' = <<Head(Buffered)>>
    BY <1>3, <1>5, SentNothing, SentFromHandNext
  <1>7. Pending = Buffered /\ Pending' = <<Head(Buffered)>> \o Tail(Buffered)
    BY <1>1, <1>2, <1>6, PendingIs, ConcatFront
  <1>8. Pending' = Pending
    BY <1>1, <1>2, <1>7, ConcatFront
  <1> QED BY <1>8 DEF StartTake

\* uartstart() moves the byte in its hand to the device.
LEMMA StartSendRefines ==
  ASSUME UartInv, NEW u \in Sender, StartSend(u)
  PROVE  UNCHANGED <<Pending, line>>
  <1>1. TypeOK /\ u \in InHand /\ c[u] \in Byte /\ InDevice = {} /\ thr \in Seq(Byte \cup EchoByte)
    BY DEF UartInv, TypeOK, HandInv, InHand, StartSend
  <1>2. /\ pc'[u] = "start" /\ pc[u] = "send" /\ thr' = Append(thr, c[u])
        /\ \A v \in Sender : v # u => pc'[v] = pc[v]
    BY <1>1 DEF TypeOK, StartSend, Goto
  <1>3. \A v \in Sender : v # u => pc[v] # "send"
    BY <1>2 DEF UartInv, LockInv
  <1>4. InHand = {u} /\ InHand' = {}
    BY <1>2, <1>3 DEF InHand
  <1>5. InDevice' = {Len(thr) + 1} /\ thr'[Len(thr) + 1] = c[u]
    <2>1. c[u] \in Byte \cup EchoByte
      BY <1>1
    <2>2. thr'[Len(thr) + 1] = c[u]
      BY <1>1, <1>2, <2>1, AppendIs
    <2> QED BY <1>1, <1>2, <2>1, <2>2, DeviceAppend
  <1>6. Sent = <<c[u]>> /\ Sent' = <<c[u]>>
    BY <1>1, <1>4, <1>5, SentFromHand, SentFromDeviceNext
  <1>7. Buffered' = Buffered /\ line' = line
    BY DEF Buffered, StartSend, ring
  <1> QED BY <1>6, <1>7, PendingIs

\* uartputc_sync() adds no byte of write().
LEMMA SyncSendRefines ==
  ASSUME UartInv, NEW e \in Echoer, SyncSend(e)
  PROVE  UNCHANGED <<Pending, line>>
  <1>1. TypeOK /\ e \notin Sender /\ c[e] \in EchoByte /\ c[e] \notin Byte /\ thr \in Seq(Byte \cup EchoByte)
    BY UartAssumption DEF UartInv, TypeOK, Sender, HandInv, SyncSend
  <1>2. thr' = Append(thr, c[e]) /\ \A v \in Sender : pc'[v] = pc[v] /\ c'[v] = c[v]
    BY <1>1 DEF TypeOK, SyncSend, Goto
  <1>3. InDevice' = InDevice /\ \A k \in InDevice : thr'[k] = thr[k]
    BY <1>1, <1>2, DeviceAppend
  <1>4. InHand' = InHand /\ \A u \in InHand : c'[u] = c[u]
    BY <1>2 DEF InHand
  <1>5. Sent' = Sent
    BY <1>3, <1>4, SMTT(30) DEF Sent
  <1>6. Buffered' = Buffered /\ line' = line
    BY DEF Buffered, SyncSend, ring
  <1> QED BY <1>5, <1>6, PendingIs

\* The device sends the oldest byte, or a byte of echo.
LEMMA TransmitRefines ==
  ASSUME UartInv, Transmit
  PROVE  Wire!Deliver \/ UNCHANGED <<Pending, line>>
  <1>1. TypeOK /\ thr \in Seq(Byte \cup EchoByte) /\ thr # <<>>
    BY DEF UartInv, TypeOK, Transmit
  <1>2. thr' = Tail(thr) /\ UNCHANGED <<ring, lock, pc, c>>
    BY DEF Transmit
  <1>3. /\ \A k \in InDevice' : k + 1 \in InDevice /\ thr'[k] = thr[k + 1]
        /\ \A k \in InDevice : k # 1 => k - 1 \in InDevice'
        /\ 1 \in InDevice <=> Head(thr) \in Byte
    BY <1>1, <1>2, DeviceTail
  <1>4. Buffered' = Buffered /\ InHand' = InHand
    BY <1>2 DEF Buffered, InHand, ring
  <1>5. Head(thr) = thr[1]
    BY <1>1, TailIs
  <1>6. CASE Head(thr) \in Byte
    <2>1. InDevice = {1} /\ InHand = {}
      BY <1>3, <1>6 DEF UartInv, HandInv
    <2>2. InDevice' = {}
      <3> SUFFICES ASSUME NEW k \in InDevice' PROVE FALSE
        OBVIOUS
      <3>1. k + 1 = 1 /\ k \in 1..Len(thr')
        BY <1>3, <2>1 DEF InDevice
      <3> QED BY <3>1, SMTT(30)
    <2>3. Sent = <<Head(thr)>> /\ Sent' = <<>>
      BY <1>4, <1>5, <2>1, <2>2, SentFromDevice, SentNothing
    <2>4. Pending = <<Head(thr)>> \o Buffered /\ Pending' = <<>> \o Buffered /\ Buffered \in Seq(Byte)
      BY <1>4, <2>3, PendingIs
    <2>5. Pending # <<>> /\ Head(Pending) = Head(thr) /\ Pending' = Tail(Pending)
      BY <1>6, <2>4, ConcatFront
    <2>6. line' = Head(thr)
      BY <1>6 DEF Transmit
    <2> QED BY <2>5, <2>6 DEF Wire!Deliver
  <1>7. CASE Head(thr) \notin Byte
    <2>1. line' = line
      BY <1>7 DEF Transmit
    <2>2. Sent' = Sent
      <3>1. CASE InDevice = {}
        <4>1. InDevice' = {}
          BY <1>3, <3>1
        <4> QED BY <1>2, <1>4, <3>1, <4>1, SMTT(30) DEF Sent
      <3>2. CASE InDevice # {}
        <4>1. PICK k \in InDevice : TRUE
          BY <3>2
        <4>2. InDevice = {k} /\ InHand = {} /\ k # 1 /\ k \in Int
          BY <1>3, <1>7, <4>1, SMTT(30) DEF UartInv, HandInv, InDevice
        <4>3. k - 1 \in InDevice' /\ thr'[k - 1] = thr[k]
          BY <1>3, <4>1, <4>2
        <4>4. \A j \in InDevice' : j + 1 = k /\ j \in Int
          <5> SUFFICES ASSUME NEW j \in InDevice' PROVE j + 1 = k /\ j \in Int
            OBVIOUS
          <5>1. j + 1 \in InDevice /\ j \in 1..Len(thr')
            BY <1>3 DEF InDevice
          <5>2. j \in Int
            BY <5>1, SMTT(30)
          <5> QED BY <4>2, <5>1, <5>2
        <4>5. InDevice' = {k - 1}
          BY <4>2, <4>3, <4>4, SMTT(30)
        <4> QED BY <1>4, <4>2, <4>3, <4>5, SentFromDevice, SentFromDeviceNext
      <3> QED BY <3>1, <3>2
    <2> QED BY <1>4, <2>1, <2>2, PendingIs
  <1> QED BY <1>6, <1>7

\* Every step is a step of the queue, or changes none of it.
LEMMA NextRefines == UartInv /\ [Next]_vars => [Wire!Next]_<<Pending, line>>
  <1> SUFFICES ASSUME UartInv, [Next]_vars PROVE Wire!Next \/ UNCHANGED <<Pending, line>>
    OBVIOUS
  <1>1. ASSUME UNCHANGED <<ring, thr, line>>, InHand' = InHand, \A u \in InHand : c'[u] = c[u]
        PROVE  UNCHANGED <<Pending, line>>
    <2>1. InDevice' = InDevice /\ Buffered' = Buffered
      BY <1>1 DEF InDevice, Buffered, ring
    <2>2. Sent' = Sent
      BY <1>1, <2>1, SMTT(30) DEF Sent
    <2> QED BY <1>1, <2>1, <2>2, PendingIs
  <1>2. CASE UNCHANGED vars
    BY <1>1, <1>2 DEF vars, InHand
  <1>3. ASSUME NEW u \in Writer,
               (\E x \in Byte : PutCall(u, x)) \/ AcquireLock(u) \/ PutSleep(u) \/ Kill(u)
        PROVE  UNCHANGED <<Pending, line>>
    <2>1. u \in Sender /\ pc \in [Sender \cup Echoer -> Labels]
          /\ c \in [Sender \cup Echoer -> Byte \cup EchoByte \cup {NoByte}]
      BY DEF Sender, UartInv, TypeOK
    <2>2. /\ UNCHANGED <<ring, thr, line>> /\ pc[u] # "send" /\ pc'[u] # "send"
          /\ \A v \in Sender : v # u => pc'[v] = pc[v] /\ c'[v] = c[v]
      BY <1>3, <2>1 DEF PutCall, AcquireLock, PutSleep, Kill, Goto
    <2> QED BY <1>1, <2>1, <2>2 DEF InHand
  <1>4. ASSUME NEW u \in Writer, PutByte(u) PROVE Wire!Next
    BY <1>4, PutByteRefines DEF Wire!Next
  <1>5. ASSUME NEW u \in Sender, StartReturn(u) PROVE UNCHANGED <<Pending, line>>
    <2>1. /\ UNCHANGED <<ring, thr, line, c>> /\ pc[u] # "send" /\ pc'[u] # "send"
          /\ \A v \in Sender : v # u => pc'[v] = pc[v]
      BY <1>5 DEF UartInv, TypeOK, StartReturn, Goto
    <2> QED BY <1>1, <2>1 DEF InHand
  <1>6. ASSUME NEW e \in Echoer, NEW x \in EchoByte, SyncWait(e, x) PROVE UNCHANGED <<Pending, line>>
    <2>1. e \notin Sender
      BY UartAssumption DEF Sender
    <2>2. UNCHANGED <<ring, thr, line>> /\ \A v \in Sender : pc'[v] = pc[v] /\ c'[v] = c[v]
      BY <1>6, <2>1 DEF UartInv, TypeOK, SyncWait, Goto
    <2> QED BY <1>1, <2>2 DEF InHand
  <1>7. CASE UartIntr
    <2>1. /\ UNCHANGED <<ring, thr, line, c>> /\ pc[Intr] # "send" /\ pc'[Intr] # "send"
          /\ \A v \in Sender : v # Intr => pc'[v] = pc[v]
      BY <1>7 DEF UartInv, TypeOK, UartIntr, Goto, Sender
    <2> QED BY <1>1, <2>1 DEF InHand
  <1>8. CASE Transmit
    BY <1>8, TransmitRefines DEF Wire!Next
  <1> QED BY <1>2, <1>3, <1>4, <1>5, <1>6, <1>7, <1>8, StartTakeRefines, StartSendRefines,
             SyncSendRefines DEF Next, Put, Start

\* Every byte uartputc() puts into the ring reaches the wire once and in
\* order, whatever writers, the handler, echo and the device do: uart.c
\* implements a queue with room for the ring and one byte.
THEOREM WrittenInOrder == Spec => OutputIsFifo
  <1>1. Init => Wire!Init
    BY InitRefines
  <1>2. UartInv /\ [Next]_vars => [Wire!Next]_<<Pending, line>>
    BY NextRefines
  <1> QED BY <1>1, <1>2, UartInvariant, PTL DEF Spec, OutputIsFifo, Wire!Spec
=============================================================================
