-------------------------------- MODULE Boot --------------------------------
(***************************************************************************)
(* kmain from SER_init to the end of kb_init (src/kernel/kernel.c): the    *)
(* UART, the PS/2 controller and the keyboard are set up one access at a   *)
(* time, while interrupts are enabled, line 1 is unmasked for most of it,  *)
(* and the user may be typing.                                             *)
(*                                                                         *)
(* Polling loops are steps that wait.  Nothing else writes to the          *)
(* controller, so waiting to write and writing are one step; a byte that   *)
(* was polled for may be read by kb_interrupt_handler before it is read,   *)
(* so waiting for it and reading it are two.                               *)
(***************************************************************************)
EXTENDS Pic, Sequences

CONSTANTS
    Configs,     \* the configurations the firmware may leave in the controller
    MaxKeys,     \* bound: key events
    MaxResends,  \* bound: bytes the keyboard asks to be sent again
    MaxInput     \* bound: characters received by the UART

Bits == {"int1", "int2", "sys", "off1", "off2", "xlat"}

ASSUME BootAssumption ==
    /\ Configs \subseteq SUBSET Bits
    /\ MaxKeys \in Nat /\ MaxResends \in Nat /\ MaxInput \in Nat

VARIABLES
    pc,                      \* the next instruction of kmain
    value,                   \* the mask register as IRQ_set_mask has read it
    got,                     \* the byte ps2_init has read
    uart,                    \* the registers of the UART, and its receive FIFO
    tx_busy,                 \* state.tx_busy; the ring is full of stale zeros
    working,                 \* the UART has passed its test
    ibf, obf, data,          \* the controller: byte written to it, byte for us?, that byte
    config, expects,         \* its configuration; the next byte written is it
    answers,                 \* it interrupts for its own answers with its port disabled
    out, argument, alive,    \* the keyboard: bytes to send, command it has half of
    holding, brk,            \* the key is down; a break code is being translated
    h,                       \* where kb_interrupt_handler is
    awaiting_break_code,     \* static flag of that handler
    keys, resends, inputs,   \* counters behind the bounds
    hit,                     \* history: the window a stale byte was written in
    firmware,                \* history: config at the start
    early, stolen, refused,  \* history: a key event before the end of kb_init,
                             \* an answer was read by the handler, no reset
    misread                  \* history: bytes taken wrongly after kb_init

thread == <<pc, value, got>>
serial == <<uart, tx_busy, working, inputs, hit>>
controller == <<ibf, obf, data, config, expects, answers>>
keyboard == <<out, argument, alive, holding, brk, keys, resends, early, refused>>
handler == <<h, awaiting_break_code, stolen, misread>>
vars == <<pic, thread, serial, controller, keyboard, handler, firmware>>

\* Bytes, named by what they are.  A key that is pressed and the same key that
\* is released have the same code, and differ by the byte F0 in between.
Byte(c) == [code |-> c, bits |-> {}]
None == Byte("none")
Codes == {"none", "FA", "AA", "FC", "FE", "F0", "make", "break", "released", "config"}

Init ==
    /\ pc = 1 /\ value = {} /\ got = None
    /\ uart = [ier |-> "?", lcr |-> "8n1", mcr |-> "normal", divisor |-> "?", rx |-> << >>]
    /\ tx_busy = TRUE /\ working = FALSE
    /\ ibf = << >> /\ expects = FALSE /\ answers \in BOOLEAN
    /\ config \in Configs /\ firmware = config
    /\ obf \in BOOLEAN /\ data = IF obf THEN Byte("make") ELSE None
    /\ level = IF obf /\ "int1" \in config THEN {1} ELSE {}
    /\ imr = {} /\ irr = {} /\ isr = {}
    /\ out = << >> /\ argument = "none" /\ alive = TRUE /\ holding = obf /\ brk = FALSE
    /\ h = "none" /\ awaiting_break_code = FALSE
    /\ keys = 0 /\ resends = 0 /\ inputs = 0 /\ hit = "none"
    /\ early = obf /\ stolen = FALSE /\ refused = FALSE /\ misread = 0

-----------------------------------------------------------------------------
(* What kmain does, an instruction at a time.                              *)

outb(reg, val) == << <<"outb", reg, val>> >>
command(c) == << <<"command", c>> >>
ps2_write_data(c) == << <<"write", c>> >>
ps2_read_data == << <<"poll">>, <<"read">> >>
answer_ignored == << <<"poll">>, <<"skip">> >>

Divisor == <<"outb", "data", "1">>
LatchOff == <<"outb", "lcr", "8n1">>
Loopback == <<"outb", "mcr", "loop">>
TestByte == <<"outb", "data", "AE">>

\* Mistakes: the latch is closed after the test, and loopback is not left.
SER_initLatchOpen ==
    << <<"reset">> >> \o outb("ier", "off") \o outb("lcr", "dlab") \o <<Divisor>>
    \o outb("ier", "off") \o outb("fcr", "clear") \o outb("mcr", "normal")
    \o <<Loopback>> \o <<TestByte>> \o << <<"check">> >> \o <<LatchOff>>
    \o outb("mcr", "normal") \o outb("ier", "on") \o << <<"initialized">> >>

SER_initLooping ==
    << <<"reset">> >> \o outb("ier", "off") \o outb("lcr", "dlab") \o <<Divisor>>
    \o outb("ier", "off") \o <<LatchOff>> \o outb("fcr", "clear") \o outb("mcr", "normal")
    \o <<Loopback>> \o <<TestByte>> \o << <<"check">> >>
    \o outb("ier", "on") \o << <<"initialized">> >>

SER_init ==
    << <<"reset">> >> \o outb("ier", "off") \o outb("lcr", "dlab") \o <<Divisor>>
    \o outb("ier", "off") \o <<LatchOff>> \o outb("fcr", "clear") \o outb("mcr", "normal")
    \o <<Loopback>> \o <<TestByte>> \o << <<"check">> >>
    \o outb("mcr", "normal") \o outb("ier", "on") \o << <<"initialized">> >>

\* A mistake: what is in the buffer already is not flushed.
ps2_initUnflushed ==
    command("AD") \o command("A7")
    \o command("20") \o ps2_read_data \o command("60") \o << <<"write", "config">> >>
    \o command("AE")

ps2_init ==
    command("AD") \o command("A7") \o << <<"flush">>, <<"discard">> >>
    \o command("20") \o ps2_read_data \o command("60") \o << <<"write", "config">> >>
    \o command("AE")

\* A mistake: the bit is cleared.
IRQ_set_maskInverted == << <<"inb">>, <<"clear">> >>

IRQ_set_mask == << <<"inb">>, <<"set">> >>
IRQ_clear_mask == << <<"inb">>, <<"clear">> >>

kb_init ==
    ps2_write_data("FF") \o answer_ignored \o << <<"poll">>, <<"test">> >>
    \o ps2_write_data("F0") \o answer_ignored \o ps2_write_data("02") \o answer_ignored
    \o ps2_write_data("F4") \o answer_ignored
    \o ps2_write_data("F3") \o answer_ignored \o ps2_write_data("4A") \o answer_ignored

kmain == SER_init \o ps2_init \o IRQ_set_mask \o kb_init \o IRQ_clear_mask

Index(instr) == CHOOSE n \in 1 .. Len(kmain) : kmain[n] = instr
KbInitStart == Len(SER_init \o ps2_init \o IRQ_set_mask) + 1
KbInitEnd == KbInitStart + Len(kb_init)
Booted == pc = Len(kmain) + 1

At(op) == h = "none" /\ ~Booted /\ kmain[pc][1] = op
Goto(n) == pc' = n
Step == Goto(pc + 1)

-----------------------------------------------------------------------------
(* The UART.                                                               *)

\* Offsets 0 and 1 are the divisor latch while DLAB is set; in loopback what
\* is sent is received.  Enabling the FIFOs clears them unless they were.
Written(u, reg, val) ==
    CASE reg = "data" /\ u.lcr = "dlab" -> {[u EXCEPT !.divisor = val]}
      [] reg = "data" /\ u.lcr # "dlab" ->
            {IF u.mcr = "loop" THEN [u EXCEPT !.rx = Append(@, val)] ELSE u}
      [] reg = "ier" -> {IF u.lcr = "dlab" THEN u ELSE [u EXCEPT !.ier = val]}
      [] reg = "lcr" -> {[u EXCEPT !.lcr = val]}
      [] reg = "mcr" -> {[u EXCEPT !.mcr = val]}
      [] reg = "fcr" -> {u, [u EXCEPT !.rx = << >>]}

Between(a, b) == Index(a) < pc /\ pc <= Index(b)
Window ==
    CASE Between(Divisor, LatchOff) -> "latch"
      [] Between(Loopback, TestByte) -> "test"
      [] OTHER -> "none"

\* A character with the ring full: nothing is stored, but hardware_write sends
\* the oldest byte, a zero, unless it has been told that the transmitter is busy.
SER_write ==
    IF tx_busy THEN UNCHANGED <<uart, tx_busy, hit>>
    ELSE uart' \in Written(uart, "data", "0") /\ tx_busy' = TRUE /\ hit' = Window

SerReset ==
    /\ At("reset")
    /\ tx_busy' = FALSE
    /\ Step
    /\ UNCHANGED <<pic, value, got, uart, working, inputs, hit, controller, keyboard, handler, firmware>>

Outb ==
    /\ At("outb")
    /\ uart' \in Written(uart, kmain[pc][2], kmain[pc][3])
    /\ Step
    /\ UNCHANGED <<pic, value, got, tx_busy, working, inputs, hit, controller, keyboard, handler, firmware>>

\* The received byte is compared with the one sent; if it is another one,
\* SER_init prints so and returns.
Check ==
    /\ At("check")
    /\ LET ok == uart.rx # << >> /\ Head(uart.rx) = "AE"
       IN  IF ok THEN Step /\ UNCHANGED <<uart, tx_busy, hit>>
                 ELSE Goto(Len(SER_init) + 1) /\ SER_write
    /\ UNCHANGED <<pic, value, got, working, inputs, controller, keyboard, handler, firmware>>

\* The transmitter's interrupts, which come from here on, are left out.
Initialized ==
    /\ At("initialized")
    /\ working' = TRUE
    /\ SER_write
    /\ Step
    /\ UNCHANGED <<pic, value, got, inputs, controller, keyboard, handler, firmware>>

\* A character is received on the line; nobody looks at later ones.
Receive ==
    /\ inputs < MaxInput
    /\ pc <= Index(Loopback)
    /\ inputs' = inputs + 1
    /\ uart' = [uart EXCEPT !.rx = Append(@, "input")]
    /\ UNCHANGED <<pic, thread, tx_busy, working, hit, controller, keyboard, handler, firmware>>

-----------------------------------------------------------------------------
(* The controller's side of an access.  Line 1 is high while a byte waits   *)
(* and is to interrupt.                                                    *)

Line(full, cfg) ==
    IF full /\ "int1" \in cfg /\ (answers \/ "off1" \notin cfg) THEN Raise(1)
    ELSE IF 1 \in level THEN Lower(1) ELSE UNCHANGED pic

\* The byte stays readable after it has been taken, until the next one.
TakeByte == obf' = FALSE /\ Line(FALSE, config) /\ UNCHANGED data

Command ==
    /\ At("command")
    /\ ibf = << >>
    /\ ibf' = <<"command", Byte(kmain[pc][2])>>
    /\ Step
    /\ UNCHANGED <<pic, value, got, serial, obf, data, config, expects, answers, keyboard, handler, firmware>>

\* A mistake: translation is left as the firmware had it.
NewConfigTranslating(old) == [code |-> "config", bits |-> (old \cup {"int1", "off2"}) \ {"off1", "int2"}]

NewConfig(old) == [code |-> "config", bits |-> (old \cup {"int1", "off2"}) \ {"off1", "int2", "xlat"}]

Write ==
    /\ At("write")
    /\ ibf = << >>
    /\ ibf' = <<"data", IF kmain[pc][2] = "config" THEN NewConfig(got.bits) ELSE Byte(kmain[pc][2])>>
    /\ Step
    /\ UNCHANGED <<pic, value, got, serial, obf, data, config, expects, answers, keyboard, handler, firmware>>

Poll ==
    /\ At("poll")
    /\ obf
    /\ Step
    /\ UNCHANGED <<pic, value, got, serial, controller, keyboard, handler, firmware>>

Read ==
    /\ At("read")
    /\ got' = data
    /\ TakeByte
    /\ Step
    /\ UNCHANGED <<value, serial, ibf, config, expects, answers, keyboard, handler, firmware>>

Skip ==
    /\ At("skip")
    /\ TakeByte
    /\ Step
    /\ UNCHANGED <<value, got, serial, ibf, config, expects, answers, keyboard, handler, firmware>>

\* A mistake: a failed test is not noticed.
TestUntilPassed ==
    /\ At("test")
    /\ TakeByte
    /\ Goto(IF data.code = "AA" THEN pc + 1 ELSE pc - 1)
    /\ UNCHANGED <<value, got, serial, ibf, config, expects, answers, keyboard, handler, firmware>>

\* The loop that waits for the result of the self-test.
Test ==
    /\ At("test")
    /\ TakeByte
    /\ Goto(CASE data.code = "AA" -> pc + 1
              [] data.code = "FC" -> KbInitEnd
              [] OTHER -> pc - 1)
    /\ UNCHANGED <<value, got, serial, ibf, config, expects, answers, keyboard, handler, firmware>>

\* The loop that empties the buffer, in two steps per byte.
Flush ==
    /\ At("flush")
    /\ Goto(IF obf THEN pc + 1 ELSE pc + 2)
    /\ UNCHANGED <<pic, value, got, serial, controller, keyboard, handler, firmware>>

Discard ==
    /\ At("discard")
    /\ TakeByte
    /\ Goto(pc - 1)
    /\ UNCHANGED <<value, got, serial, ibf, config, expects, answers, keyboard, handler, firmware>>

ReadMask ==
    /\ At("inb")
    /\ value' = imr
    /\ Step
    /\ UNCHANGED <<pic, got, serial, controller, keyboard, handler, firmware>>

WriteMask ==
    /\ At("set") \/ At("clear")
    /\ imr' = IF At("set") THEN value \cup {1} ELSE value \ {1}
    /\ Step
    /\ UNCHANGED <<level, irr, isr, value, got, serial, controller, keyboard, handler, firmware>>

Thread ==
    \/ SerReset \/ Outb \/ Check \/ Initialized
    \/ Command \/ Write \/ Poll \/ Read \/ Skip \/ Test \/ Flush \/ Discard
    \/ ReadMask \/ WriteMask

-----------------------------------------------------------------------------
(* The controller and the keyboard.                                        *)

\* A command of the controller.
Obey ==
    /\ ibf # << >> /\ ibf[1] = "command"
    /\ ibf[2].code = "20" => ~obf
    /\ ibf' = << >>
    /\ LET c == ibf[2].code
       IN  /\ config' = CASE c = "AD" -> config \cup {"off1"}
                          [] c = "AE" -> config \ {"off1"}
                          [] c = "A7" -> config \cup {"off2"}
                          [] OTHER -> config
           /\ expects' = (c = "60")
           /\ obf' = (obf \/ c = "20")
           /\ data' = IF c = "20" THEN [code |-> "config", bits |-> config] ELSE data
    /\ Line(obf', config')
    /\ UNCHANGED <<thread, serial, answers, keyboard, handler, firmware>>

Configure ==
    /\ ibf # << >> /\ ibf[1] = "data" /\ expects
    /\ ibf' = << >> /\ expects' = FALSE
    /\ config' = ibf[2].bits
    /\ Line(obf, config')
    /\ UNCHANGED <<thread, serial, obf, data, answers, keyboard, handler, firmware>>

\* Any other byte goes to the keyboard, which may ask for it again.  A reset
\* forgets what was to be sent; the argument of a command is acknowledged too,
\* and one without its command is refused.
Deliver ==
    /\ ibf # << >> /\ ibf[1] = "data" /\ ~expects
    /\ ibf' = << >>
    /\ LET c == ibf[2].code
       IN  \/ /\ resends < MaxResends
              /\ resends' = resends + 1
              /\ out' = Append(out, Byte("FE"))
              /\ refused' = (refused \/ c = "FF")
              /\ UNCHANGED <<argument, alive>>
           \/ /\ c = "FF"
              /\ alive' \in {TRUE, FALSE}
              /\ out' = <<Byte("FA"), Byte(IF alive' THEN "AA" ELSE "FC")>>
              /\ argument' = "none"
              /\ UNCHANGED <<resends, refused>>
           \/ /\ c # "FF"
              /\ out' = Append(out, Byte(IF c \in {"02", "4A"} /\ argument = "none" THEN "FE" ELSE "FA"))
              /\ argument' = IF c \in {"F0", "F3"} THEN c ELSE "none"
              /\ UNCHANGED <<resends, refused, alive>>
    /\ UNCHANGED <<pic, thread, serial, obf, data, config, expects, answers, holding, brk, keys, early,
                   handler, firmware>>

\* The keyboard sends a byte, if its port is enabled and the buffer is empty.
\* Translation turns F0 and a code into one byte.
Send ==
    /\ out # << >> /\ ~obf /\ "off1" \notin config
    /\ out' = Tail(out)
    /\ LET b == Head(out)
           swallowed == "xlat" \in config /\ b.code = "F0"
       IN  /\ brk' = swallowed
           /\ obf' = ~swallowed
           /\ data' = IF swallowed THEN data ELSE IF brk THEN Byte("released") ELSE b
           /\ Line(obf', config)
    /\ UNCHANGED <<thread, serial, ibf, config, expects, answers, argument, alive, holding, keys, resends,
                   early, refused, handler, firmware>>

\* The user presses the key, or releases it.
Key ==
    /\ keys < MaxKeys /\ alive
    /\ keys' = keys + 1
    /\ holding' = ~holding
    /\ out' = out \o (IF holding THEN <<Byte("F0"), Byte("break")>> ELSE <<Byte("make")>>)
    /\ early' = (early \/ pc < KbInitEnd)
    /\ UNCHANGED <<pic, thread, serial, controller, argument, alive, brk, resends, refused, handler, firmware>>

-----------------------------------------------------------------------------
(* kb_interrupt_handler, for bytes that are not extended.                  *)

Interrupt ==
    /\ h = "none" /\ Highest(1)
    /\ Acknowledge(1)
    /\ h' = "status"
    /\ UNCHANGED <<thread, serial, controller, keyboard, awaiting_break_code, stolen, misread, firmware>>

KbStatus ==
    /\ h = "status"
    /\ h' = IF obf THEN "read" ELSE "eoi"
    /\ UNCHANGED <<pic, thread, serial, controller, keyboard, awaiting_break_code, stolen, misread, firmware>>

\* A mistake: the flag is not cleared by the key it was set for.
NextAwaitingSticky(code) == awaiting_break_code \/ code = "F0"

NextAwaiting(code) == code = "F0"

KbRead ==
    /\ h = "read"
    /\ h' = "eoi"
    /\ TakeByte
    /\ LET code == data.code
           prints == ~awaiting_break_code /\ code \in {"make", "break"}
       IN  /\ awaiting_break_code' = NextAwaiting(code)
           /\ IF prints THEN SER_write ELSE UNCHANGED <<uart, tx_busy, hit>>
           /\ stolen' = (stolen \/ code = "config")
           /\ misread' = IF Booted /\ code \in {"make", "break"} /\ prints # (code = "make")
                         THEN misread + 1 ELSE misread
    /\ UNCHANGED <<thread, working, inputs, ibf, config, expects, answers, keyboard, firmware>>

\* A mistake: the controller is not told.
KbEoiForgotten ==
    /\ h = "eoi"
    /\ h' = "none"
    /\ UNCHANGED <<pic, thread, serial, controller, keyboard, awaiting_break_code, stolen, misread, firmware>>

KbEoi ==
    /\ h = "eoi"
    /\ h' = "none"
    /\ Eoi(Master)
    /\ UNCHANGED <<thread, serial, controller, keyboard, awaiting_break_code, stolen, misread, firmware>>

Handler == KbStatus \/ KbRead \/ KbEoi

Next ==
    \/ Thread
    \/ Receive
    \/ Obey \/ Configure \/ Deliver \/ Send \/ Key
    \/ Interrupt \/ Handler

Spec == Init /\ [][Next]_vars

\* Straight-line code goes on, the processor takes interrupts between its
\* instructions, and controller and keyboard do what they are told in the end.
\* Nobody has to type.
FairSpec ==
    /\ Spec
    /\ WF_vars(Thread)
    /\ WF_vars(Obey \/ Configure \/ Deliver)
    /\ WF_vars(Send)
    /\ WF_vars(Interrupt)
    /\ WF_vars(Handler)

-----------------------------------------------------------------------------
(* Properties.                                                             *)

TypeOK ==
    /\ pc \in 1 .. Len(kmain) + 1 /\ value \subseteq {1}
    /\ got.code \in Codes /\ got.bits \subseteq Bits
    /\ uart.rx \in Seq({"0", "AE", "input"}) /\ uart.divisor \in {"?", "0", "1"}
    /\ ibf = << >> \/ ibf[1] \in {"command", "data"}
    /\ data.code \in Codes /\ data.bits \subseteq Bits /\ config \subseteq Bits
    /\ \A n \in 1 .. Len(out) : out[n].code \in Codes \ {"none", "config"}
    /\ argument \in {"none", "F0", "F3"}
    /\ h \in {"none", "status", "read", "eoi"}
    /\ {tx_busy, working, obf, expects, answers, alive, holding, brk, awaiting_break_code,
        early, stolen, refused} \subseteq BOOLEAN
    /\ misread \in Nat

\* After SER_init the UART is set up as it says, whoever types in the middle
\* of it, but for two windows: a key while the divisor is set and its latch is
\* open takes the baud rate away, and one before the test byte, or a character
\* that was received earlier, makes the port look faulty, and it stays unused.
SerialSetUp ==
    pc > Len(SER_init) =>
       /\ uart.lcr = "8n1"
       /\ uart.divisor = IF hit = "latch" THEN "0" ELSE "1"
       /\ ~working => hit = "test" \/ inputs > 0
       /\ working => uart.ier = "on" /\ uart.mcr = "normal"

\* Whatever was in the buffer, and whatever the handler read meanwhile, the
\* byte that ps2_init changes is the configuration: the bits it does not
\* mention are as the firmware left them.
ConfigAsIntended ==
    pc >= KbInitStart /\ (pc > KbInitStart + 1 \/ ibf = << >>) =>
       config = (firmware \cup {"int1", "off2"}) \ {"off1", "int2", "xlat"}

\* While kb_init polls for answers the handler does not run: none is started
\* before line 1 is masked and finished after it.
KbInitUndisturbed == pc \in KbInitStart .. KbInitEnd - 1 => h = "none"

\* Keys typed during the start leave the decoder out of step by one key at
\* most, whichever of their bytes were flushed, forgotten by the reset, taken
\* for answers or handled; without them nothing is misread.
AtMostOneKeyMisread == misread <= IF early THEN 1 ELSE 0

\* The start ends, whatever is typed, also when the keyboard fails its test or
\* wants bytes again, unless the byte it wants again is the reset, or the
\* handler has read the configuration that ps2_init waits for.
BootEnds == <>(Booted \/ refused \/ stolen)

\* A byte from the keyboard does not wait for ever once the start is over:
\* its edge was latched, masked or not.
KeyboardServed == Booted /\ obf ~> ~obf
=============================================================================
