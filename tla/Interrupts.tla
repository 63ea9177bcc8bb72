----------------------------- MODULE Interrupts -----------------------------
(***************************************************************************)
(* src/kernel/interrupts.c and src/arch/x86_64/isr.asm: how kmain sets up  *)
(* the interrupt table and the controllers, what the processor pushes and  *)
(* the entry stubs add, and what interrupt_handler does for each vector.   *)
(*                                                                         *)
(* Between any two steps devices raise and drop their lines, the processor *)
(* is sent a non-maskable interrupt, or the kernel's code makes an         *)
(* exception.                                                              *)
(***************************************************************************)
EXTENDS Pic, Sequences, FiniteSets

CONSTANTS
    Devices,     \* the lines that have a device
    Firmware,    \* the masks the firmware may leave in the controllers
    Exceptions,  \* the exceptions that may happen
    MaxEvents    \* bound: lines raised, and exceptions

Vectors == 0 .. 255
Nmi == 2
DoubleFault == 8
PageFault == 14
\* Exceptions that return to the instruction that made them, page faults aside.
Faults == {0, 5, 6, 7, 10, 11, 12, 13, 16, 17, 19, 21}

ASSUME InterruptsAssumption ==
    /\ Devices \subseteq Lines \ {Cascade}
    /\ \A m \in Firmware : m \subseteq Lines
    /\ Exceptions \subseteq Faults \cup {1, Nmi, 3, 4, DoubleFault, 9, PageFault, 15, 18, 20}
    /\ MaxEvents \in Nat

VARIABLES
    pc,       \* how far kmain is
    value,    \* the masks it has read
    base,     \* the vectors of lines 0 and 8
    loaded,   \* lidt has been executed
    table,    \* the lines with a handler in irq_table
    flag,     \* the interrupt flag of the processor
    stack,    \* the interrupts and exceptions being handled, innermost first
    fault,    \* the exception the instruction of kmain at hand makes, or NoFault
    halted,   \* cli and hlt for ever
    ghost,    \* the spurious requests, 7 and 15
    events,   \* counter behind the bound
    firm      \* history: the masks the firmware left

kernel == <<pc, value, base, loaded, table>>
cpu == <<flag, stack, fault, halted>>
vars == <<pic, kernel, cpu, ghost, events, firm>>

NoFault == -1
NoLine == -1

Init ==
    /\ firm \in Firmware /\ imr = firm
    /\ level \in SUBSET Devices /\ irr = level /\ isr = {}
    /\ pc = 1 /\ value = {} /\ base = [master |-> 8, slave |-> 112]
    /\ loaded = FALSE /\ table = {}
    /\ flag = FALSE /\ stack = << >> /\ fault = NoFault /\ halted = FALSE
    /\ ghost = {} /\ events = 0

-----------------------------------------------------------------------------
(* The processor, the gates and the entry stubs.                           *)

\* A mistake: trap gates, through which the interrupt flag stays set.
GateTrap(v) == [int_no |-> IF v < 48 THEN v ELSE 255, clears |-> v < 32]

\* idt_init: a stub per vector below 48 and one for all others, all of them
\* behind gates of type 0x8E.
Gate(v) == [int_no |-> IF v < 48 THEN v ELSE 255, clears |-> TRUE]

\* The words on the stack when isr_common starts: the processor's, with its
\* error code, and those of ISR_NO_ERR or ISR_ERR.
CpuPushes(v) == IF v \in {8, 10, 11, 12, 13, 14, 17, 21} THEN 6 ELSE 5

StubPushes(v) == IF v \in {8, 10, 11, 12, 13, 14, 17, 21, 30} THEN 1 ELSE 2

\* isr_common removes two words, and iretq takes five.
CommonPops == 7

\* Through the gate of vector v, for request i, which has set bits in isr.
Enter(v, i, bits) ==
    /\ stack' = <<[int_no |-> Gate(v).int_no, line |-> i, bits |-> bits, at |-> "body",
                   flag |-> flag, words |-> CpuPushes(v) + StubPushes(v)]>> \o stack
    /\ flag' = (flag /\ ~Gate(v).clears)
    /\ UNCHANGED halted

Vector(i) == IF i \in Slave THEN base.slave + i - 8 ELSE base.master + i

\* The processor takes the request of the highest priority.
Interrupt(i) ==
    /\ flag /\ ~halted
    /\ Highest(i)
    /\ Acknowledge(i)
    /\ Enter(Vector(i), i, InService(i))
    /\ UNCHANGED <<kernel, fault, ghost, events, firm>>

\* A request that was withdrawn when the processor asked for its vector: the
\* controller answers with its last line and marks nothing as in service, but a
\* spurious answer of the second one leaves line 2 in service in the first.
Spurious(i) ==
    /\ flag /\ ~halted
    /\ i \in ghost
    /\ ghost' = ghost \ {i}
    /\ isr' = isr \cup (InService(i) \ {i})
    /\ Enter(Vector(i), i, InService(i) \ {i})
    /\ UNCHANGED <<level, imr, irr, kernel, fault, events, firm>>

\* A non-maskable interrupt is taken anywhere but in its own handler.
TakeNmi ==
    /\ Nmi \in Exceptions /\ events < MaxEvents
    /\ loaded /\ ~halted
    /\ \A n \in 1 .. Len(stack) : stack[n].int_no # Nmi
    /\ events' = events + 1
    /\ Enter(Nmi, NoLine, {})
    /\ UNCHANGED <<pic, kernel, fault, ghost, firm>>

Running == stack = << >> /\ fault = NoFault /\ ~halted

\* The instruction kmain is at makes an exception.
Exception(v) ==
    /\ v # Nmi
    /\ loaded /\ Running
    /\ events < MaxEvents
    /\ events' = events + 1
    /\ Enter(v, NoLine, {})
    /\ fault' = IF v \in Faults THEN v ELSE NoFault
    /\ UNCHANGED <<pic, kernel, ghost, firm>>

\* The same instruction once more.  The processor looks for interrupts first.
FaultAgain ==
    /\ stack = << >> /\ fault # NoFault /\ ~halted
    /\ ~(flag /\ \E i \in irr : Requested(i))
    /\ Enter(fault, NoLine, {})
    /\ UNCHANGED <<pic, kernel, fault, ghost, events, firm>>

-----------------------------------------------------------------------------
(* interrupt_handler and PIC_sendEOI.                                      *)

top == Head(stack)
Go(step) == stack' = <<[top EXCEPT !.at = step]>> \o Tail(stack)

\* A mistake: the second controller is told nothing.
AfterBodyMasterOnly(irq) == "eoi1"

\* PIC_sendEOI(irq): the second controller first, if it is one of its lines.
AfterBody(irq) == IF irq >= 8 THEN "eoi2" ELSE "eoi1"

\* Vectors 32 to 47.  kb_interrupt_handler, or the drain that stands for it,
\* reads the byte behind line 1; serial_interrupt_handler serves one condition
\* behind line 4, which may not be the only one.  Nobody serves other devices.
HardwareBody ==
    /\ stack # << >> /\ top.at = "body" /\ top.int_no \in 32 .. 47
    /\ LET irq == top.int_no - 32
       IN  /\ \/ irq \in {1, 4} /\ irq \in level /\ Lower(irq)
              \/ ~(irq = 1 /\ irq \in level) /\ UNCHANGED pic
           /\ Go(AfterBody(irq))
    /\ UNCHANGED <<kernel, flag, fault, halted, ghost, events, firm>>

\* Other exceptions print a line; a double fault halts, and so does a page
\* fault that page_fault_handler does not repair.
ExceptionBody ==
    /\ stack # << >> /\ top.at = "body" /\ top.int_no \notin 32 .. 47
    /\ \/ /\ top.int_no # DoubleFault
          /\ Go("iret")
          /\ UNCHANGED halted
       \/ /\ top.int_no \in {DoubleFault, PageFault}
          /\ halted' = TRUE
          /\ UNCHANGED stack
    /\ UNCHANGED <<pic, kernel, flag, fault, ghost, events, firm>>

EoiSlave ==
    /\ stack # << >> /\ top.at = "eoi2"
    /\ Eoi(Slave)
    /\ Go("eoi1")
    /\ UNCHANGED <<kernel, flag, fault, halted, ghost, events, firm>>

EoiMaster ==
    /\ stack # << >> /\ top.at = "eoi1"
    /\ Eoi(Master)
    /\ Go("iret")
    /\ UNCHANGED <<kernel, flag, fault, halted, ghost, events, firm>>

\* A mistake: the flag is left as the gate has it.
IretFlagless ==
    /\ stack # << >> /\ top.at = "iret" /\ top.words = CommonPops
    /\ stack' = Tail(stack)
    /\ UNCHANGED <<pic, kernel, flag, fault, halted, ghost, events, firm>>

\* isr_common: back to where the processor was, with the flag it had there.
Iret ==
    /\ stack # << >> /\ top.at = "iret" /\ top.words = CommonPops
    /\ stack' = Tail(stack)
    /\ flag' = top.flag
    /\ UNCHANGED <<pic, kernel, fault, halted, ghost, events, firm>>

-----------------------------------------------------------------------------
(* kmain as far as it touches interrupts.                                  *)

\* Each step is an instruction and the line it is for.

\* Mistakes: interrupts are enabled before the controllers are remapped, and
\* before the serial port has its handler.
IRQ_initStiFirst ==
    << <<"idt_init", 0>>, <<"sti", 0>>,
       <<"save", 0>>, <<"icw1", 0>>, <<"offsets", 0>>, <<"restore", 0>>,
       <<"handler", 1>>, <<"inb", 1>>, <<"clear", 1>>,
       <<"handler", 4>>, <<"inb", 4>>, <<"clear", 4>> >>

IRQ_initLateHandler ==
    << <<"idt_init", 0>>,
       <<"save", 0>>, <<"icw1", 0>>, <<"offsets", 0>>, <<"restore", 0>>,
       <<"handler", 1>>, <<"inb", 1>>, <<"clear", 1>>,
       <<"inb", 4>>, <<"clear", 4>>,
       <<"sti", 0>>, <<"handler", 4>> >>

\* idt_init, the four steps of PIC_remap, then IRQ_set_handler and
\* IRQ_clear_mask for lines 1 and 4.
IRQ_init ==
    << <<"idt_init", 0>>,
       <<"save", 0>>, <<"icw1", 0>>, <<"offsets", 0>>, <<"restore", 0>>,
       <<"handler", 1>>, <<"inb", 1>>, <<"clear", 1>>,
       <<"handler", 4>>, <<"inb", 4>>, <<"clear", 4>>,
       <<"sti", 0>> >>

\* The test of the port, and IRQ_clear_mask of its line, which is reached when
\* the port passes.
SER_init == << <<"port", 4>>, <<"inb", 4>>, <<"clear", 4>> >>

\* kb_init runs between IRQ_set_mask and IRQ_clear_mask of line 1.
kmain ==
    IRQ_init \o SER_init \o << <<"inb", 1>>, <<"set", 1>>, <<"inb", 1>>, <<"clear", 1>> >>

At(op) == Running /\ pc <= Len(kmain) /\ kmain[pc][1] = op
arg == kmain[pc][2]
Side(i) == IF i < 8 THEN Master ELSE Slave
Advance == pc' = pc + 1 /\ UNCHANGED <<cpu, ghost, events, firm>>

IdtInit == At("idt_init") /\ loaded' = TRUE /\ Advance /\ UNCHANGED <<pic, value, base, table>>
Save == At("save") /\ value' = imr /\ Advance /\ UNCHANGED <<pic, base, loaded, table>>

\* ICW1 clears the masks, the requests and what is in service; a line that is
\* high stays so without being latched.
Icw1 ==
    /\ At("icw1")
    /\ imr' = {} /\ irr' = {} /\ isr' = {}
    /\ Advance
    /\ UNCHANGED <<level, value, base, loaded, table>>

\* A mistake: the two vectors are exchanged.
OffsetsSwapped ==
    /\ At("offsets")
    /\ base' = [master |-> 40, slave |-> 32]
    /\ Advance
    /\ UNCHANGED <<pic, value, loaded, table>>

Offsets ==
    /\ At("offsets")
    /\ base' = [master |-> 32, slave |-> 40]
    /\ Advance
    /\ UNCHANGED <<pic, value, loaded, table>>

Restore ==
    /\ At("restore")
    /\ imr' = value
    /\ Advance
    /\ UNCHANGED <<level, irr, isr, value, base, loaded, table>>

SetHandler ==
    /\ At("handler")
    /\ table' = table \cup {arg}
    /\ Advance
    /\ UNCHANGED <<pic, value, base, loaded>>

Sti ==
    /\ At("sti")
    /\ flag' = TRUE
    /\ pc' = pc + 1
    /\ UNCHANGED <<pic, value, base, loaded, table, stack, fault, halted, ghost, events, firm>>

\* IRQ_set_mask and IRQ_clear_mask read the port and write it back.
ReadMask ==
    /\ At("inb")
    /\ value' = imr \cap Side(arg)
    /\ Advance
    /\ UNCHANGED <<pic, base, loaded, table>>

WriteMask ==
    /\ At("set") \/ At("clear")
    /\ imr' = (imr \ Side(arg)) \cup IF At("set") THEN value \cup {arg} ELSE value \ {arg}
    /\ Advance
    /\ UNCHANGED <<level, irr, isr, value, base, loaded, table>>

\* SER_init returns from the test of a faulty port.
TestPort ==
    /\ At("port")
    /\ pc' \in {pc + 1, pc + Len(SER_init)}
    /\ UNCHANGED <<pic, value, base, loaded, table, cpu, ghost, events, firm>>

-----------------------------------------------------------------------------
(* The devices.                                                            *)

RaiseLine(i) ==
    /\ events < MaxEvents
    /\ i \notin level
    /\ events' = events + 1
    /\ Raise(i)
    /\ UNCHANGED <<kernel, cpu, ghost, firm>>

\* The timer's line falls by itself, others when a poll, SER_write or the
\* device withdraws the reason.  A request that is forgotten while the
\* processor is being asked to take it turns into a spurious one.
DropLine(i) ==
    /\ i \in level
    /\ Lower(i)
    /\ ghost' \in {ghost, ghost \cup {IF i \in Slave THEN 15 ELSE 7}}
    /\ ghost' # ghost => flag /\ Requested(i) /\ i \notin irr'
    /\ UNCHANGED <<kernel, cpu, events, firm>>

Handler == HardwareBody \/ ExceptionBody \/ EoiSlave \/ EoiMaster \/ Iret
Boot ==
    \/ IdtInit \/ Save \/ Icw1 \/ Offsets \/ Restore
    \/ SetHandler \/ Sti \/ TestPort \/ ReadMask \/ WriteMask

Next ==
    \/ Boot \/ FaultAgain \/ TakeNmi
    \/ \E i \in irr : Interrupt(i)
    \/ \E i \in ghost : Spurious(i)
    \/ \E v \in Exceptions : Exception(v)
    \/ ~halted /\ Handler
    \/ \E i \in Devices : RaiseLine(i) \/ DropLine(i)

Spec == Init /\ [][Next]_vars

\* The processor goes on with what it is doing, and takes an interrupt when it
\* can.  No device has to do anything.
FairSpec ==
    /\ Spec
    /\ WF_vars(Boot)
    /\ WF_vars(\E i \in irr : Interrupt(i))
    /\ WF_vars(FaultAgain)
    /\ WF_vars(~halted /\ Handler)

-----------------------------------------------------------------------------
(* Properties.                                                             *)

Frames == {stack[n] : n \in 1 .. Len(stack)}
Hardware == {n \in 1 .. Len(stack) : stack[n].line # NoLine}

TypeOK ==
    /\ level \subseteq Lines /\ imr \subseteq Lines /\ irr \subseteq Lines /\ isr \subseteq Lines
    /\ pc \in 1 .. Len(kmain) + 1 /\ value \subseteq Lines
    /\ base \in {[master |-> 8, slave |-> 112], [master |-> 32, slave |-> 40]}
    /\ loaded \in BOOLEAN /\ table \subseteq Lines
    /\ flag \in BOOLEAN /\ halted \in BOOLEAN
    /\ stack \in Seq([int_no : Vectors, line : Lines \cup {NoLine}, bits : SUBSET Lines,
                      flag : BOOLEAN, at : {"body", "eoi2", "eoi1", "iret"}, words : Nat])
    /\ fault \in Faults \cup {NoFault}
    /\ ghost \subseteq {7, 15} /\ events \in 0 .. MaxEvents /\ firm \subseteq Lines

\* The static variables of the handlers and of what they call are safe from
\* other handlers: one hardware interrupt is handled at a time, whatever else
\* is latched, and only a non-maskable interrupt comes on top.
OneHandlerAtATime ==
    /\ Cardinality(Hardware) <= 1
    /\ flag => Hardware = {}

\* What the end of interrupt commands still owe the controllers for a frame.
Owed(f) ==
    CASE f.at = "iret" -> {}
      [] f.at = "eoi1" -> f.bits \cap Master
      [] OTHER -> f.bits

\* A bit is in service exactly as long as its interrupt is being handled: no
\* end of interrupt goes missing, which would block all lines below, and none
\* ends another interrupt, also when the request was spurious.
InServiceWhileHandled == isr = UNION {Owed(f) : f \in Frames}

\* Every line is handled as the line it is, and never as an exception, and
\* every return finds the stack as the processor left it.
HandledAsWhatItIs ==
    \A f \in Frames :
       /\ f.words = CommonPops
       /\ f.line # NoLine => f.int_no = 32 + f.line
       /\ f.line = NoLine => f.int_no < 32

\* Only lines that the firmware had enabled are handled, and the two of the
\* kernel, which have their handlers by then.
OnlyExpectedLines ==
    \A f \in Frames :
       f.line \notin {NoLine, 7, 15} =>
          IF f.line \in {1, 4} THEN f.line \in table ELSE f.line \notin firm

\* A request that is not masked is taken, or its device withdraws it, even if
\* kmain is caught in an exception that repeats for ever, and whatever spurious
\* and non-maskable interrupts come in between.
RequestsAreTaken ==
    \A i \in Devices :
       i \in irr \ imr /\ (i \in Slave => Cascade \notin imr) /\ pc > Len(kmain)
          ~> i \notin irr \/ halted
=============================================================================
