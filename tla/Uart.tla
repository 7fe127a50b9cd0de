-------------------------------- MODULE Uart --------------------------------
(***************************************************************************)
(* Console output, kernel/uart.c: processes in uartputc() fill a ring that *)
(* uartstart() empties into the transmit holding register, called from     *)
(* uartputc() and from the interrupt handler under uart_tx_lock; and       *)
(* uartputc_sync(), which echoes and prints without that lock.             *)
(*                                                                         *)
(* uartinit() enables the device's FIFO: LSR_TX_IDLE is set when it is     *)
(* empty, a write of THR adds a byte, and the device interrupts when it    *)
(* has sent the last one.                                                  *)
(***************************************************************************)
EXTENDS Integers, Sequences, FiniteSets

CONSTANTS
    Writer,              \* processes in consolewrite() -> uartputc()
    Echoer,              \* CPUs in consputc() -> uartputc_sync()
    Intr,                \* the thread of uartintr()
    Nobody,
    Byte, EchoByte,      \* told apart to follow the bytes of write()
    NoByte,
    FIFO_DEPTH,          \* bytes the device can hold (16 in a 16550)
    UART_TX_BUF_SIZE,
    UMAX                 \* modulus of uart_tx_w and uart_tx_r (2^64 in the code)

ASSUME UartAssumption ==
    /\ Intr \notin Writer /\ Nobody \notin Writer \cup {Intr}
    /\ Echoer \cap (Writer \cup {Intr}) = {} /\ IsFiniteSet(Echoer)
    /\ NoByte \notin Byte /\ Byte \cap EchoByte = {}
    /\ FIFO_DEPTH \in Nat
    /\ UART_TX_BUF_SIZE \in Nat \ {0} /\ UMAX \in Nat
    /\ UMAX > UART_TX_BUF_SIZE /\ UMAX % UART_TX_BUF_SIZE = 0

Sender == Writer \cup {Intr}

VARIABLES
    uart_tx_buf, uart_tx_w, uart_tx_r, lock,
    thr, irq,          \* the UART: bytes to transmit, interrupt pending
    line,              \* the last byte of write() on the wire
    pc, c              \* each thread, and the byte it has in hand

ring == <<uart_tx_buf, uart_tx_w, uart_tx_r>>
vars == <<ring, lock, thr, irq, line, pc, c>>

Labels == {"idle", "acquire", "put", "asleep", "start", "send"}

Init ==
    /\ uart_tx_buf = [j \in 0..(UART_TX_BUF_SIZE - 1) |-> NoByte]
    /\ uart_tx_w = 0 /\ uart_tx_r = 0
    /\ lock = Nobody
    /\ thr = <<>> /\ irq = FALSE /\ line = NoByte
    /\ pc = [u \in Sender \cup Echoer |-> "idle"]
    /\ c = [u \in Sender \cup Echoer |-> NoByte]

Goto(u, l) == pc' = [pc EXCEPT ![u] = l]

Incr(x) == (x + 1) % UMAX
-----------------------------------------------------------------------------
(* uartputc()                                                              *)

\* mutant: one entry too many
FullLate == uart_tx_w = (uart_tx_r + UART_TX_BUF_SIZE + 1) % UMAX

Full == uart_tx_w = (uart_tx_r + UART_TX_BUF_SIZE) % UMAX

PutCall(u, x) ==
    /\ pc[u] = "idle"
    /\ c' = [c EXCEPT ![u] = x]
    /\ Goto(u, "acquire")
    /\ UNCHANGED <<ring, lock, thr, irq, line>>

AcquireLock(u) ==
    /\ pc[u] = "acquire" /\ lock = Nobody
    /\ lock' = u
    /\ Goto(u, "put")
    /\ UNCHANGED <<ring, thr, irq, line, c>>

PutSleep(u) ==
    /\ pc[u] = "put" /\ Full
    /\ lock' = Nobody
    /\ Goto(u, "asleep")
    /\ UNCHANGED <<ring, thr, irq, line, c>>

\* mutant: uartstart() is not called
PutByteOnly(u) ==
    /\ pc[u] = "put" /\ ~Full
    /\ uart_tx_buf' = [uart_tx_buf EXCEPT ![uart_tx_w % UART_TX_BUF_SIZE] = c[u]]
    /\ uart_tx_w' = Incr(uart_tx_w)
    /\ c' = [c EXCEPT ![u] = NoByte]
    /\ lock' = Nobody
    /\ Goto(u, "idle")
    /\ UNCHANGED <<uart_tx_r, thr, irq, line>>

PutByte(u) ==
    /\ pc[u] = "put" /\ ~Full
    /\ uart_tx_buf' = [uart_tx_buf EXCEPT ![uart_tx_w % UART_TX_BUF_SIZE] = c[u]]
    /\ uart_tx_w' = Incr(uart_tx_w)
    /\ c' = [c EXCEPT ![u] = NoByte]
    /\ Goto(u, "start")
    /\ UNCHANGED <<uart_tx_r, lock, thr, irq, line>>

\* kill() makes a sleeping process runnable: it tests again.
Kill(u) ==
    /\ pc[u] = "asleep"
    /\ Goto(u, "acquire")
    /\ UNCHANGED <<ring, lock, thr, irq, line, c>>
-----------------------------------------------------------------------------
(* uartstart(), in the hands of u                                          *)

\* Nothing to send or the register is full: return, release uart_tx_lock.
StartReturn(u) ==
    /\ pc[u] = "start"
    /\ uart_tx_w = uart_tx_r \/ thr # <<>>
    /\ lock' = Nobody
    /\ Goto(u, "idle")
    /\ UNCHANGED <<ring, thr, irq, line, c>>

\* wakeup(&uart_tx_r)
WakeSend(u) ==
    pc' = [v \in DOMAIN pc |-> IF v = u THEN "send"
                               ELSE IF pc[v] = "asleep" THEN "acquire" ELSE pc[v]]

StartTake(u) ==
    /\ pc[u] = "start"
    /\ uart_tx_w # uart_tx_r /\ thr = <<>>
    /\ c' = [c EXCEPT ![u] = uart_tx_buf[uart_tx_r % UART_TX_BUF_SIZE]]
    /\ uart_tx_r' = Incr(uart_tx_r)
    /\ WakeSend(u)
    /\ UNCHANGED <<uart_tx_buf, uart_tx_w, lock, thr, irq, line>>

\* WriteReg(THR, c)
StartSend(u) ==
    /\ pc[u] = "send"
    /\ thr' = Append(thr, c[u])
    /\ c' = [c EXCEPT ![u] = NoByte]
    /\ Goto(u, "start")
    /\ UNCHANGED <<ring, lock, irq, line>>

\* uartintr(), its input part done (module Console).
UartIntr ==
    /\ irq /\ pc[Intr] = "idle" /\ lock = Nobody
    /\ irq' = FALSE
    /\ lock' = Intr
    /\ Goto(Intr, "start")
    /\ UNCHANGED <<ring, thr, line, c>>
-----------------------------------------------------------------------------
(* uartputc_sync() and the device                                          *)

\* mutant: the status register is not read
SyncWaitBlind(e, x) ==
    /\ pc[e] = "idle"
    /\ c' = [c EXCEPT ![e] = x]
    /\ Goto(e, "send")
    /\ UNCHANGED <<ring, lock, thr, irq, line>>

SyncWait(e, x) ==
    /\ pc[e] = "idle" /\ thr = <<>>
    /\ c' = [c EXCEPT ![e] = x]
    /\ Goto(e, "send")
    /\ UNCHANGED <<ring, lock, thr, irq, line>>

SyncSend(e) ==
    /\ pc[e] = "send"
    /\ thr' = Append(thr, c[e])
    /\ c' = [c EXCEPT ![e] = NoByte]
    /\ Goto(e, "idle")
    /\ UNCHANGED <<ring, lock, irq, line>>

\* The UART sends a byte; it interrupts when there is none left.
Transmit ==
    /\ thr # <<>>
    /\ line' = IF Head(thr) \in Byte THEN Head(thr) ELSE line
    /\ thr' = Tail(thr)
    /\ irq' = (irq \/ Len(thr) = 1)
    /\ UNCHANGED <<ring, lock, pc, c>>
-----------------------------------------------------------------------------
Start(u) == StartReturn(u) \/ StartTake(u) \/ StartSend(u)

Put(u) == PutSleep(u) \/ PutByte(u)

Next ==
    \/ \E u \in Writer : (\E x \in Byte : PutCall(u, x)) \/ AcquireLock(u) \/ Put(u) \/ Kill(u)
    \/ \E u \in Sender : Start(u)
    \/ \E e \in Echoer : (\E x \in EchoByte : SyncWait(e, x)) \/ SyncSend(e)
    \/ UartIntr
    \/ Transmit

Spec == Init /\ [][Next]_vars
-----------------------------------------------------------------------------
TypeOK ==
    /\ uart_tx_buf \in [0..(UART_TX_BUF_SIZE - 1) -> Byte \cup {NoByte}]
    /\ uart_tx_w \in 0..(UMAX - 1) /\ uart_tx_r \in 0..(UMAX - 1)
    /\ lock \in Sender \cup {Nobody}
    /\ thr \in Seq(Byte \cup EchoByte) /\ line \in Byte \cup {NoByte}
    /\ irq \in BOOLEAN
    /\ pc \in [Sender \cup Echoer -> Labels]
    /\ c \in [Sender \cup Echoer -> Byte \cup EchoByte \cup {NoByte}]

Buffered ==
    [k \in 1..((uart_tx_w - uart_tx_r) % UMAX) |->
        uart_tx_buf[(uart_tx_r + k - 1) % UART_TX_BUF_SIZE]]

\* Where the device has bytes of write(), and who is in uartstart() between
\* taking a byte and writing THR.
InDevice == {k \in 1..Len(thr) : thr[k] \in Byte}
InHand == {u \in Sender : pc[u] = "send"}

\* Bytes of write() not yet on the wire: in the device, in the hand of
\* uartstart(), in the ring.  uartstart() takes a byte when the device is
\* empty, so the first two have one between them.
Pending ==
    (IF InDevice # {} THEN <<thr[CHOOSE k \in InDevice : TRUE]>> ELSE <<>>)
    \o (IF InHand # {} THEN <<c[CHOOSE u \in InHand : TRUE]>> ELSE <<>>)
    \o Buffered

Wire == INSTANCE Fifo WITH queue <- Pending, out <- line,
                           Capacity <- UART_TX_BUF_SIZE + 1, MayLose <- FALSE

\* Whatever writers, interrupt handler, echo and device do, every byte
\* uartputc() puts in the buffer reaches the wire once and in order.
OutputIsFifo == Wire!Spec

\* Each CPU tests LSR and writes THR without excluding the others ("we cannot
\* give it another byte" when it is full): at most one byte per echoing CPU
\* and one of uartstart() meet in the device, so a FIFO with room for these
\* is never overrun; and all variables have their types.
NoOverrun == TypeOK /\ (Cardinality(Echoer) < FIFO_DEPTH => Len(thr) <= FIFO_DEPTH)
-----------------------------------------------------------------------------
(* What makes the two properties above hold (module UartProofs).           *)

\* uart_tx_lock is held by whoever is in uartputc() or uartstart().
LockInv == \A u \in Sender : lock = u <=> pc[u] \in {"put", "start", "send"}

\* What everybody has in hand; uartstart() and the device have one byte of
\* write() between them.
HandInv ==
    /\ \A u \in Writer : pc[u] \in {"acquire", "put", "asleep"} => c[u] \in Byte
    /\ \A u \in InHand : c[u] \in Byte /\ InDevice = {}
    /\ \A j, k \in InDevice : j = k
    /\ \A e \in Echoer : pc[e] = "idle" \/ (pc[e] = "send" /\ c[e] \in EchoByte)

\* The ring holds bytes of write(), no more than fit, and nobody sleeps in
\* uartputc() unless it is full.
RingInv ==
    /\ Buffered \in Seq(Byte) /\ Len(Buffered) <= UART_TX_BUF_SIZE
    /\ \A u \in Writer : pc[u] = "asleep" => Full

\* Those who have seen the device empty and have not yet written to it.
Sending == {u \in Sender \cup Echoer : pc[u] = "send"}

\* The inductive invariant: also, the bytes in the device and the writes of
\* THR still to come are no more than the echoing CPUs and one.
UartInv ==
    /\ TypeOK /\ LockInv /\ HandInv /\ RingInv
    /\ Len(thr) + Cardinality(Sending) <= Cardinality(Echoer) + 1
-----------------------------------------------------------------------------
\* The UART sends, interrupts are taken, and a thread in the kernel goes on.
Fairness ==
    /\ WF_vars(Transmit) /\ SF_vars(UartIntr)
    /\ \A u \in Sender : WF_vars(Start(u))
    /\ \A u \in Writer : WF_vars(Put(u)) /\ SF_vars(AcquireLock(u))
    /\ \A e \in Echoer : WF_vars(SyncSend(e))

FairSpec == Spec /\ Fairness

EchoStops == <>[][\A e \in Echoer : pc[e] = "send" \/ pc'[e] # "send"]_vars

\* The buffer is drained, unless echo takes the device again and again: its
\* oldest byte is sent in the end, because uartstart() stops only when the
\* device is busy and "it will interrupt when it's ready for a new byte".
TxProgress ==
    EchoStops => \A x \in 0..(UMAX - 1) :
        (uart_tx_r = x /\ uart_tx_w # uart_tx_r) ~> (uart_tx_r # x)

\* A process blocked in uartputc() is woken when there is room.
PutIsWoken ==
    EchoStops => \A u \in Writer : pc[u] = "asleep" ~> pc[u] # "asleep"

\* Output goes on: the bytes of the buffer and the processes that wait for it.
OutputProgress == TxProgress /\ PutIsWoken
=============================================================================
