------------------------------ MODULE SerialTx ------------------------------
(***************************************************************************)
(* The transmit side of src/kernel/serial.c: the ring buffer filled by     *)
(* SER_write, drained by hardware_write from SER_write and from the IRQ 4  *)
(* handler, against a 16550 UART whose one interrupt line is latched by    *)
(* its edges in the PIC.                                                   *)
(*                                                                         *)
(* SER_write runs with interrupts disabled, so it is one step; the handler *)
(* runs with them disabled too (interrupt gates), but the UART does not    *)
(* wait for either, so the handler is one step per access to the UART.     *)
(* SER_init can be interrupted by a key, whose handler prints: it is split *)
(* where such a write, or the UART, can tell the difference.               *)
(***************************************************************************)
EXTENDS Integers, Sequences

CONSTANTS
    BuffSize,    \* BUFF_SIZE
    EarlyChars,  \* characters printed before SER_init
    FifoSize,    \* depth of the UART transmit FIFO
    ErrChars,    \* length of the line error message
    FaultChars,  \* length of the message about a faulty port
    MaxWrite,    \* bound: longest write
    MaxOffered,  \* bound: bytes offered to SER_write
    MaxErrors    \* bound: receive line errors

ASSUME SerialAssumption ==
    /\ BuffSize \in Nat \ {0}
    /\ EarlyChars \in Nat /\ EarlyChars > BuffSize
    /\ FifoSize \in Nat /\ FifoSize >= 2
    /\ ErrChars \in Nat \ {0} /\ FaultChars \in Nat \ {0}
    /\ MaxWrite \in Nat /\ MaxOffered \in Nat /\ MaxErrors \in Nat

Slots == 0 .. BuffSize - 1

Stale == 0   \* what an unwritten slot of buff holds; written bytes are not 0

VARIABLES
    port,                \* how far SER_init is, and what it made of the port
    early,               \* characters printed before it
    buff, producer, consumer, count, tx_busy,    \* state
    fifo,                \* bytes in the UART transmit FIFO
    thre, line_status,   \* the UART's two pending interrupt conditions
    irr,                 \* IRQ 4 is latched in the PIC
    h,                   \* where serial_interrupt_handler is
    left,                \* characters of an error message still to print
    offered, errors,     \* counters behind the bounds
    stream,              \* history: the bytes put in the ring, in order
    handed               \* history: the bytes written to the UART, in order

ring == <<buff, producer, consumer, count, tx_busy>>
uart == <<fifo, thre, line_status, irr>>
handler == <<h, left>>
history == <<stream, handed>>
vars == <<port, early, ring, uart, handler, offered, errors, history>>

Init ==
    /\ port = "early" /\ early = 0
    /\ buff = [s \in Slots |-> Stale]
    /\ producer = 0 /\ consumer = 0 /\ count = 0 /\ tx_busy = FALSE
    /\ fifo = 0 /\ thre = FALSE /\ line_status = FALSE /\ irr = FALSE
    /\ h = "none" /\ left = 0
    /\ offered = 0 /\ errors = 0
    /\ stream = << >> /\ handed = << >>

Wrap(p) == IF p >= BuffSize THEN p - BuffSize ELSE p

\* SER_init has found the port faulty: it prints so, and returns.
GivenUp(p) == p \in {"faulty", "unusable"}

\* The line carries both conditions, once they are enabled; the PIC latches its
\* rising edges.
Line(p, transmitter, receiver) == p = "working" /\ (transmitter \/ receiver)

Latch == irr' = (irr \/ (~Line(port, thre, line_status) /\ Line(port', thre', line_status')))

-----------------------------------------------------------------------------
(* SER_write and hardware_write.                                           *)

\* Mistakes: the consumer moves before its byte is read, and a byte is written
\* although the transmitter is busy.
HardwareWriteNext(b, n, busy) ==
    IF ~busy /\ n > 0
    THEN /\ tx_busy' = TRUE
         /\ consumer' = Wrap(consumer + 1)
         /\ count' = n - 1
         /\ handed' = Append(handed, b[Wrap(consumer + 1)])
         /\ fifo' = fifo + 1
         /\ thre' = FALSE
    ELSE /\ tx_busy' = busy
         /\ count' = n
         /\ UNCHANGED <<consumer, handed, fifo, thre>>

HardwareWriteBusy(b, n, busy) ==
    IF n > 0
    THEN /\ tx_busy' = TRUE
         /\ consumer' = Wrap(consumer + 1)
         /\ count' = n - 1
         /\ handed' = Append(handed, b[consumer])
         /\ fifo' = fifo + 1
         /\ thre' = FALSE
    ELSE /\ tx_busy' = busy
         /\ count' = n
         /\ UNCHANGED <<consumer, handed, fifo, thre>>

\* hardware_write on a ring with contents b, n bytes and the given tx_busy: one
\* byte goes to the UART, which drops its transmitter interrupt.
HardwareWrite(b, n, busy) ==
    IF ~busy /\ n > 0
    THEN /\ tx_busy' = TRUE
         /\ consumer' = Wrap(consumer + 1)
         /\ count' = n - 1
         /\ handed' = Append(handed, b[consumer])
         /\ fifo' = fifo + 1
         /\ thre' = FALSE
    ELSE /\ tx_busy' = busy
         /\ count' = n
         /\ UNCHANGED <<consumer, handed, fifo, thre>>

\* A mistake of one after the wrap.
AheadMinusOne(s) == IF s >= producer THEN s - producer ELSE s + BuffSize - producer - 1

\* How far slot s is ahead of the producer.
Ahead(s) == IF s >= producer THEN s - producer ELSE s + BuffSize - producer

\* A mistake: an idle transmitter is not started.
SerWriteNoStart(bytes) ==
    LET free == BuffSize - count
        n == IF free >= Len(bytes) THEN Len(bytes) ELSE free
    IN  /\ buff' = [s \in Slots |-> IF Ahead(s) < n THEN bytes[Ahead(s) + 1] ELSE buff[s]]
        /\ producer' = Wrap(producer + n)
        /\ stream' = stream \o SubSeq(bytes, 1, n)
        /\ count' = count + n
        /\ UNCHANGED <<consumer, tx_busy, handed, uart>>

\* As many of the bytes as fit go into the ring, and one may go on at once.
\* The result, the number that fit, is ignored by every caller.
SerWrite(bytes) ==
    LET free == BuffSize - count
        n == IF free >= Len(bytes) THEN Len(bytes) ELSE free
        filled == [s \in Slots |-> IF Ahead(s) < n THEN bytes[Ahead(s) + 1] ELSE buff[s]]
    IN  /\ buff' = filled
        /\ producer' = Wrap(producer + n)
        /\ stream' = stream \o SubSeq(bytes, 1, n)
        /\ HardwareWrite(filled, count + n, tx_busy)
        /\ UNCHANGED <<line_status, irr>>

\* Bytes are told apart by numbering them as they are offered.
Fresh(n) == [i \in 1 .. n |-> offered + i]

\* The kernel prints, or the handler of a key, a character at a time, which it
\* also does in the middle of SER_init.  The messages about errors are PrintFault
\* and PrintError below.
Write ==
    /\ port # "early"
    /\ h = "none"
    /\ \E n \in 1 .. MaxWrite :
          /\ port \notin {"working", "unusable"} => n = 1
          /\ offered + n <= MaxOffered
          /\ SerWrite(Fresh(n))
          /\ offered' = offered + n
    /\ UNCHANGED <<port, early, handler, errors>>

-----------------------------------------------------------------------------
(* Before and during SER_init.                                             *)

\* printk already calls SER_write: the ring pointers are null and the port
\* base is 0, so the characters go nowhere, but count and tx_busy move.
EarlyWrite ==
    /\ port = "early"
    /\ early < EarlyChars
    /\ early' = early + 1
    /\ tx_busy' = TRUE
    /\ count' = IF tx_busy /\ count < BuffSize THEN count + 1 ELSE count
    /\ UNCHANGED <<port, buff, producer, consumer, uart, handler, offered, errors, history>>

\* A mistake: count is reset as well, so the first character goes on at once.
SerResetCount ==
    /\ port = "early"
    /\ early = EarlyChars
    /\ port' = "setup"
    /\ producer' = 0 /\ consumer' = 0 /\ tx_busy' = FALSE
    /\ count' = 0
    /\ stream' = << >>
    /\ UNCHANGED <<early, buff, uart, handler, offered, errors, handed>>

\* SER_init resets the pointers and tx_busy but not count: the slots it still
\* covers are part of the stream.
SerReset ==
    /\ port = "early"
    /\ early = EarlyChars
    /\ port' = "setup"
    /\ producer' = 0 /\ consumer' = 0 /\ tx_busy' = FALSE
    /\ stream' = [i \in 1 .. count |-> Stale]
    /\ UNCHANGED <<early, buff, count, uart, handler, offered, errors, handed>>

\* The FIFO is cleared, with what a key may have sent, and in loopback the test
\* byte is written.
SerTest ==
    /\ port = "setup"
    /\ port' = "test"
    /\ fifo' = 1
    /\ UNCHANGED <<early, ring, thre, line_status, irr, handler, offered, errors, history>>

\* A mistake: the transmitter interrupt is not among those enabled.
SerEnableSilent ==
    /\ port = "test"
    /\ fifo = 0 \/ (fifo = 1 /\ tx_busy)
    /\ port' = "working"
    /\ thre' = FALSE
    /\ UNCHANGED line_status
    /\ Latch
    /\ UNCHANGED <<early, ring, fifo, handler, offered, errors, history>>

\* The test byte came back, so what is still in the FIFO is a key's.  Enabling
\* the transmitter interrupt with an empty FIFO raises it at once.  Line 4 has
\* been unmasked by IRQ_init already.
SerEnable ==
    /\ port = "test"
    /\ fifo = 0 \/ (fifo = 1 /\ tx_busy)
    /\ port' = "working"
    /\ thre' = (fifo = 0)
    /\ UNCHANGED line_status
    /\ Latch
    /\ UNCHANGED <<early, ring, fifo, handler, offered, errors, history>>

\* Another byte was read: a key's, one received before, none yet, or that of a
\* broken chip.  The interrupts stay disabled.
SerFaulty ==
    /\ port = "test"
    /\ port' = "faulty"
    /\ left' = FaultChars
    /\ UNCHANGED <<early, ring, uart, h, offered, errors, history>>

\* printk says so to that port, one character at a time, and SER_init returns.
PrintFault ==
    /\ port = "faulty"
    /\ SerWrite(Fresh(1))
    /\ offered' = offered + 1
    /\ left' = left - 1
    /\ port' = IF left = 1 THEN "unusable" ELSE "faulty"
    /\ UNCHANGED <<early, h, errors>>

SerInit == SerReset \/ SerTest \/ SerEnable \/ SerFaulty \/ PrintFault

-----------------------------------------------------------------------------
(* The UART and its line.                                                  *)

\* The FIFO sends a byte, in loopback to the receiver; the transmitter interrupt,
\* if enabled, is raised as it runs empty.
Send ==
    /\ fifo > 0
    /\ fifo' = fifo - 1
    /\ thre' = (thre \/ (fifo = 1 /\ port = "working"))
    /\ UNCHANGED <<port, early, ring, line_status, handler, offered, errors, history>>
    /\ Latch

\* A break or a framing, parity or overrun error on the receive side, which is
\* cut off in loopback.
LineError ==
    /\ port \notin {"test", "faulty", "unusable"}
    /\ errors < MaxErrors
    /\ errors' = errors + 1
    /\ line_status' = TRUE
    /\ UNCHANGED <<port, early, ring, thre, fifo, handler, offered, history>>
    /\ Latch

-----------------------------------------------------------------------------
(* serial_interrupt_handler, called from interrupt_handler for vector 36.  *)

Interrupt ==
    /\ irr
    /\ h = "none"
    /\ irr' = FALSE
    /\ h' = "iir"
    /\ UNCHANGED <<port, early, ring, fifo, thre, line_status, left, offered, errors, history>>

\* The identification register names one source, line status first; reading it
\* as transmitter empty clears that condition.
ReadIir ==
    /\ h = "iir"
    /\ h' = IF line_status THEN "line" ELSE IF thre THEN "first" ELSE "eoi"
    /\ thre' = (thre /\ line_status)
    /\ UNCHANGED <<port, early, ring, fifo, line_status, irr, left, offered, errors, history>>

\* Reading the line status register clears its condition; printk follows.
ReadLsr ==
    /\ h = "line"
    /\ line_status' = FALSE
    /\ h' = "error"
    /\ left' = ErrChars
    /\ UNCHANGED <<port, early, ring, fifo, thre, irr, offered, errors, history>>

\* printk writes its message one character at a time.
PrintError ==
    /\ h = "error"
    /\ SerWrite(Fresh(1))
    /\ offered' = offered + 1
    /\ left' = left - 1
    /\ h' = IF left = 1 THEN "eoi" ELSE "error"
    /\ UNCHANGED <<port, early, errors>>

\* A mistake: the handler does not clear tx_busy.
TransmitBusy(from, to) ==
    /\ h = from
    /\ h' = to
    /\ HardwareWrite(buff, count, tx_busy)
    /\ UNCHANGED <<port, early, buff, producer, line_status, irr, left, offered, errors, stream>>

\* The transmitter branch of the switch, and the same again after it.
Transmit(from, to) ==
    /\ h = from
    /\ h' = to
    /\ HardwareWrite(buff, count, FALSE)
    /\ UNCHANGED <<port, early, buff, producer, line_status, irr, left, offered, errors, stream>>

First == Transmit("first", "second")
Second == Transmit("second", "eoi")

\* PIC_sendEOI and the return from the interrupt.
Eoi ==
    /\ h = "eoi"
    /\ h' = "none"
    /\ UNCHANGED <<port, early, ring, uart, left, offered, errors, history>>

HandlerStep == ReadIir \/ ReadLsr \/ PrintError \/ First \/ Second \/ Eoi

Next ==
    \/ EarlyWrite \/ SerInit \/ Write
    \/ Send \/ LineError
    \/ Interrupt \/ HandlerStep

Spec == Init /\ [][Next]_vars

\* The boot code and the handler are straight-line code, the UART keeps its
\* clock, and the processor takes a latched interrupt since it is disabled only
\* inside SER_write and the handlers.  Nobody has to write, or to cause errors.
FairSpec ==
    /\ Spec
    /\ WF_vars(EarlyWrite \/ SerInit)
    /\ WF_vars(Send)
    /\ WF_vars(Interrupt)
    /\ WF_vars(HandlerStep)

-----------------------------------------------------------------------------
(* Properties.                                                             *)

TypeOK ==
    /\ port \in {"early", "setup", "test", "working", "faulty", "unusable"}
    /\ early \in 0 .. EarlyChars
    /\ buff \in [Slots -> Nat]
    /\ producer \in Slots /\ consumer \in Slots
    /\ count \in 0 .. BuffSize
    /\ tx_busy \in BOOLEAN
    /\ fifo \in Nat
    /\ thre \in BOOLEAN /\ line_status \in BOOLEAN /\ irr \in BOOLEAN
    /\ h \in {"none", "iir", "line", "error", "first", "second", "eoi"}
    /\ left \in Nat
    /\ offered \in Nat /\ errors \in Nat
    /\ stream \in Seq(Nat) /\ handed \in Seq(Nat)

\* The ring holds exactly the bytes put in and not yet handed to the UART, in
\* order, also across the wrap of either pointer, although SER_init left count
\* as the early writes had it, and whoever prints while it runs.
RingConsistent ==
    port # "early" =>
       /\ producer = Wrap(consumer + count)
       /\ Len(stream) = Len(handed) + count
       /\ \A i \in 1 .. count : buff[Wrap(consumer + i - 1)] = stream[Len(handed) + i]

\* The UART is given the bytes in the order they were put in, each once, by
\* writers and handler together.
SentInOrder ==
    /\ Len(handed) <= Len(stream)
    /\ \A i \in 1 .. Len(handed) : handed[i] = stream[i]

\* The handler writes two bytes per interrupt and SER_write one more whenever
\* it finds tx_busy clear, neither looking at the line status: the UART FIFO is
\* still never overrun, not even one of two bytes.
NoOverrun == fifo <= FifoSize

\* What a key makes SER_write send before SER_init has enabled the interrupts
\* ends in the divisor latch, the cleared FIFO or the loopback.  It is one of the
\* stale bytes, and only one: none of the text goes there, and later none goes to
\* a port that is given up.
SetUpSendsNoText ==
    port # "working" => Len(handed) <= 1 /\ \A i \in 1 .. Len(handed) : handed[i] = Stale

\* If the port has passed its test and there was no line error, waiting bytes
\* always have something coming that will move them: the handler, or a byte in
\* the FIFO whose departure raises it.
NoLostWakeup ==
    port = "working" /\ errors = 0 /\ count > 0 /\ h = "none" => fifo > 0 \/ (thre /\ irr)

-----------------------------------------------------------------------------
(* The inductive invariant behind them.                                    *)

\* Until SER_init nothing is in the ring, and count has followed the early
\* characters up to its limit.
EarlyState ==
    port = "early" =>
       /\ producer = 0 /\ consumer = 0
       /\ buff = [s \in Slots |-> Stale]
       /\ fifo = 0
       /\ stream = << >> /\ handed = << >>
       /\ early = 0 => count = 0 /\ ~tx_busy
       /\ early > 0 => tx_busy /\ count = IF early - 1 < BuffSize THEN early - 1 ELSE BuffSize

\* As long as the interrupts are disabled nobody clears tx_busy, so after one
\* byte nothing more is sent.  The stream begins with stale bytes.
SetUpState ==
    /\ port # "working" =>
          /\ ~thre /\ ~irr /\ h = "none"
          /\ port # "early" => Len(handed) = IF tx_busy THEN 1 ELSE 0
    /\ port # "early" => Len(stream) > 0 /\ stream[1] = Stale

\* A pending transmitter interrupt means an empty FIFO, and tx_busy bounds what
\* the FIFO holds except between the two writes of the handler.
FifoState ==
    /\ fifo <= 2
    /\ thre => fifo = 0
    /\ h = "first" => fifo = 0
    /\ h = "second" => fifo <= 1
    /\ ~tx_busy /\ h \notin {"first", "second"} => fifo <= 1

\* Without line errors, and with the interrupts enabled, a pending transmitter
\* interrupt is latched or about to be read, and both waiting bytes and tx_busy
\* mean that one is to come.
WakeState ==
    /\ errors = 0 => ~line_status /\ h \notin {"line", "error"}
    /\ port = "working" /\ errors = 0 =>
          /\ thre => irr \/ h = "iir"
          /\ (tx_busy \/ count > 0) /\ h \notin {"first", "second"} => fifo > 0 \/ thre

\* While a message about an error is printed, some of it is left.
MessageLeft == h = "error" \/ port = "faulty" => left > 0

SerialInv ==
    /\ TypeOK
    /\ EarlyState
    /\ SetUpState
    /\ RingConsistent
    /\ SentInOrder
    /\ FifoState
    /\ WakeState
    /\ MessageLeft

-----------------------------------------------------------------------------
(* Progress.                                                               *)

\* Every byte put in the ring is handed to the UART and leaves it, as long as
\* there is no line error, and unless the port was found faulty.  (What SER_init
\* clears from the FIFO counts as gone: a stale byte, see SetUpSendsNoText.)
EverythingSentWithoutErrors ==
    \A n \in 1 .. BuffSize + MaxOffered :
       Len(stream) >= n ~> GivenUp(port) \/ errors > 0 \/ Len(handed) - fifo >= n

\* Every byte put in the ring of a port that was not found faulty is handed to
\* the UART and leaves it (README.md:10, "producer-consumer buffer").
EverythingSent ==
    \A n \in 1 .. BuffSize + MaxOffered :
       Len(stream) >= n ~> GivenUp(port) \/ Len(handed) - fifo >= n
=============================================================================
