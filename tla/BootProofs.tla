----------------------------- MODULE BootProofs -----------------------------
(***************************************************************************)
(* What Boot guarantees for all configurations of the firmware and any     *)
(* number of keys, resends and characters: type correctness and the four   *)
(* safety invariants.                                                      *)
(*                                                                         *)
(* The program is a fixed sequence (Program), and most of the inductive    *)
(* invariant says what holds at each of its instructions: of the UART      *)
(* (Port), of the command in progress and the configuration (Setting), and *)
(* of line 1 (Masked).  Stream is about the bytes that are on their way    *)
(* from the keyboard: F0 comes before a break code and before nothing      *)
(* else, and from the end of the reset on, that also holds across the byte *)
(* sent last.  So the decoder can be out of step once, at the beginning    *)
(* (Counted).                                                              *)
(***************************************************************************)
EXTENDS Boot, TLAPS

\* What the variables hold.
UartType == [ier : {"?", "off", "on"}, lcr : {"8n1", "dlab"}, mcr : {"normal", "loop"},
             divisor : {"?", "0", "1"}, rx : Seq({"0", "AE", "input"})]

ByteType == [code : Codes, bits : SUBSET Bits]
Sent == [code : Codes \ {"none", "config"}, bits : SUBSET Bits]

SerialTypes ==
    /\ uart \in UartType /\ tx_busy \in BOOLEAN /\ working \in BOOLEAN
    /\ inputs \in Nat /\ hit \in {"none", "latch", "test"}

ControllerTypes ==
    /\ obf \in BOOLEAN /\ data \in ByteType /\ got \in ByteType
    /\ config \in SUBSET Bits /\ firmware \in SUBSET Bits
    /\ expects \in BOOLEAN /\ answers \in BOOLEAN

KeyboardTypes ==
    /\ out \in Seq(Sent) /\ argument \in {"none", "F0", "F3"}
    /\ alive \in BOOLEAN /\ holding \in BOOLEAN /\ brk \in BOOLEAN
    /\ early \in BOOLEAN /\ refused \in BOOLEAN

HandlerTypes ==
    /\ h \in {"none", "status", "read", "eoi"} /\ awaiting_break_code \in BOOLEAN
    /\ stolen \in BOOLEAN /\ misread \in Nat
    /\ h = "read" => obf

Types ==
    /\ pc \in 1 .. 49 /\ value \in SUBSET {1} /\ imr \in SUBSET {1}
    /\ SerialTypes /\ ControllerTypes /\ KeyboardTypes /\ HandlerTypes

\* The UART at each instruction.  As long as nothing was sent in the test and
\* nothing received, what is received in the test is the byte of the test.
Port ==
    /\ uart.lcr = IF pc \in 4 .. 6 THEN "dlab" ELSE "8n1"
    /\ pc <= 9 => uart.mcr = "normal"
    /\ pc \in 10 .. 12 => uart.mcr = "loop"
    /\ pc \in 13 .. 14 => uart.mcr = "normal"
    /\ pc = 14 => uart.ier = "on"
    /\ pc <= 4 => hit = "none"
    /\ pc > 4 => uart.divisor = IF hit = "latch" THEN "0" ELSE "1"
    /\ hit # "none" => tx_busy
    /\ hit # "test" /\ inputs = 0 =>
          /\ pc <= 10 => uart.rx = << >>
          /\ pc = 11 => uart.rx # << >> /\ Head(uart.rx) = "AE"
    /\ working => pc > 14 /\ uart.ier = "on" /\ uart.mcr = "normal"
    /\ pc > 14 /\ ~working => hit = "test" \/ inputs > 0

\* The configuration with both ports disabled, and the one that is written.
Quiet == firmware \cup {"off1", "off2"}
Intended == (firmware \cup {"int1", "off2"}) \ {"off1", "int2", "xlat"}
ConfigByte(bits) == [code |-> "config", bits |-> bits]
Order(c) == <<"command", Byte(c)>>

ToKeyboard == {<<"data", Byte(c)>> : c \in {"FF", "F0", "02", "F4", "F3", "4A"}}

\* The controller at each instruction: what it was told last, or that it has
\* obeyed, and the configuration.
Setting ==
    /\ expects => pc \in {23, 24}
    /\ pc <= 15 => ibf = << >> /\ config = firmware
    /\ pc = 16 =>
          \/ ibf = Order("AD") /\ config = firmware
          \/ ibf = << >> /\ config = firmware \cup {"off1"}
    /\ pc \in 17 .. 19 =>
          \/ ibf = Order("A7") /\ config = firmware \cup {"off1"}
          \/ ibf = << >> /\ config = Quiet
    /\ pc = 19 => ~obf
    /\ pc \in 20 .. 23 => config = Quiet
    /\ pc = 20 => (ibf = Order("20") /\ ~obf) \/ (ibf = << >> /\ data = ConfigByte(Quiet))
    /\ pc = 21 => ibf = << >> /\ data = ConfigByte(Quiet)
    /\ pc \in 22 .. 23 => got = ConfigByte(Quiet)
    /\ pc = 22 => ibf = << >>
    /\ pc = 23 => (ibf = Order("60") /\ ~expects) \/ (ibf = << >> /\ expects)
    /\ pc = 24 =>
          \/ ibf = <<"data", ConfigByte(Intended)>> /\ expects /\ config = Quiet
          \/ ibf = << >> /\ ~expects /\ config = Intended
    /\ pc > 24 => config = Intended
    /\ pc \in 25 .. 27 => ibf \in {<< >>, Order("AE")}
    /\ pc > 27 => ibf = << >> \/ ibf \in ToKeyboard

\* Line 1 while kb_init runs.
Masked == pc \in 27 .. 48 => 1 \in imr /\ h = "none"

\* The byte that resets the keyboard has not reached it.
Reset == <<"data", Byte("FF")>>
Unreset == pc <= 27 \/ ibf = Reset
Results == {"AA", "FC"}

\* F0 is followed by a break code, and only F0 is.
Paired(w) ==
    /\ w # << >> => w[Len(w)].code # "F0"
    /\ \A i \in 2 .. Len(w) : w[i].code = "break" <=> w[i - 1].code = "F0"
BreakNext == out # << >> /\ out[1].code = "break"

\* The bytes to come, and the one sent last.
Stream ==
    /\ Paired(out)
    /\ brk => out # << >> /\ out[1].code # "F0"
    /\ Unreset => data.code \notin Results /\ \A i \in 1 .. Len(out) : out[i].code \notin Results
    /\ pc >= 32 => ibf # Reset
    /\ pc >= 32 \/ data.code \in Results => ~brk /\ (BreakNext <=> data.code = "F0")

\* The next byte for the handler is taken wrongly if it is from a key.
NextCode == IF obf THEN data.code ELSE IF out = << >> THEN "none" ELSE out[1].code
OutOfStep == awaiting_break_code # (NextCode = "break")
KeyCodes == {"F0", "make", "break"}

\* Bytes misread, and those that may be.
Counted ==
    /\ pc < 47 /\ ~early =>
          /\ ~awaiting_break_code /\ data.code \notin KeyCodes
          /\ \A i \in 1 .. Len(out) : out[i].code \notin KeyCodes
    /\ pc < 49 => misread = 0
    /\ pc >= 47 => misread + (IF OutOfStep THEN 1 ELSE 0) <= IF early THEN 1 ELSE 0

IInv == Types /\ Port /\ Setting /\ Masked /\ Stream /\ Counted

-----------------------------------------------------------------------------
(* The program.                                                            *)

\* kmain, instruction by instruction.
LEMMA Program ==
    /\ Len(kmain) = 48 /\ Len(SER_init) = 14 /\ KbInitStart = 27 /\ KbInitEnd = 47
    /\ kmain[1] = <<"reset">> /\ kmain[2] = <<"outb", "ier", "off">>
    /\ kmain[3] = <<"outb", "lcr", "dlab">> /\ kmain[4] = <<"outb", "data", "1">>
    /\ kmain[5] = <<"outb", "ier", "off">> /\ kmain[6] = <<"outb", "lcr", "8n1">>
    /\ kmain[7] = <<"outb", "fcr", "clear">> /\ kmain[8] = <<"outb", "mcr", "normal">>
    /\ kmain[9] = <<"outb", "mcr", "loop">> /\ kmain[10] = <<"outb", "data", "AE">>
    /\ kmain[11] = <<"check">> /\ kmain[12] = <<"outb", "mcr", "normal">>
    /\ kmain[13] = <<"outb", "ier", "on">> /\ kmain[14] = <<"initialized">>
    /\ kmain[15] = <<"command", "AD">> /\ kmain[16] = <<"command", "A7">>
    /\ kmain[17] = <<"flush">> /\ kmain[18] = <<"discard">>
    /\ kmain[19] = <<"command", "20">> /\ kmain[20] = <<"poll">> /\ kmain[21] = <<"read">>
    /\ kmain[22] = <<"command", "60">> /\ kmain[23] = <<"write", "config">>
    /\ kmain[24] = <<"command", "AE">> /\ kmain[25] = <<"inb">> /\ kmain[26] = <<"set">>
    /\ kmain[27] = <<"write", "FF">> /\ kmain[28] = <<"poll">> /\ kmain[29] = <<"skip">>
    /\ kmain[30] = <<"poll">> /\ kmain[31] = <<"test">> /\ kmain[32] = <<"write", "F0">>
    /\ kmain[33] = <<"poll">> /\ kmain[34] = <<"skip">> /\ kmain[35] = <<"write", "02">>
    /\ kmain[36] = <<"poll">> /\ kmain[37] = <<"skip">> /\ kmain[38] = <<"write", "F4">>
    /\ kmain[39] = <<"poll">> /\ kmain[40] = <<"skip">> /\ kmain[41] = <<"write", "F3">>
    /\ kmain[42] = <<"poll">> /\ kmain[43] = <<"skip">> /\ kmain[44] = <<"write", "4A">>
    /\ kmain[45] = <<"poll">> /\ kmain[46] = <<"skip">> /\ kmain[47] = <<"inb">>
    /\ kmain[48] = <<"clear">>
BY DEF kmain, SER_init, outb, Divisor, LatchOff, Loopback, TestByte, ps2_init, command,
       ps2_read_data, IRQ_set_mask, kb_init, ps2_write_data, answer_ignored,
       IRQ_clear_mask, KbInitStart, KbInitEnd

\* Where its instructions are.
LEMMA Where ==
    ASSUME pc \in 1 .. 49
    PROVE  /\ Booted <=> pc = 49
           /\ At("reset") => pc = 1 /\ h = "none"
           /\ At("outb") => pc \in 2 .. 10 \cup {12, 13} /\ h = "none"
           /\ At("check") => pc = 11 /\ h = "none"
           /\ At("initialized") => pc = 14 /\ h = "none"
           /\ At("command") => pc \in {15, 16, 19, 22, 24} /\ h = "none"
           /\ At("write") => pc \in {23, 27, 32, 35, 38, 41, 44} /\ h = "none"
           /\ At("poll") => pc \in {20, 28, 30, 33, 36, 39, 42, 45} /\ h = "none"
           /\ At("read") => pc = 21 /\ h = "none"
           /\ At("skip") => pc \in {29, 34, 37, 40, 43, 46} /\ h = "none"
           /\ At("test") => pc = 31 /\ h = "none"
           /\ At("flush") => pc = 17 /\ h = "none"
           /\ At("discard") => pc = 18 /\ h = "none"
           /\ At("inb") => pc \in {25, 47} /\ h = "none"
           /\ At("set") => pc = 26 /\ h = "none"
           /\ At("clear") => pc = 48 /\ h = "none"
<1>1. Booted <=> pc = 49
  BY Program DEF Booted
<1>2. ASSUME NEW op, At(op)
      PROVE  pc \in 1 .. 48 /\ kmain[pc][1] = op /\ h = "none"
  BY <1>1, <1>2 DEF At
<1>3. ASSUME NEW n \in 1 .. 48
      PROVE  /\ kmain[n][1] = "reset" => n = 1
             /\ kmain[n][1] = "outb" => n \in 2 .. 10 \cup {12, 13}
             /\ kmain[n][1] = "check" => n = 11
             /\ kmain[n][1] = "initialized" => n = 14
             /\ kmain[n][1] = "command" => n \in {15, 16, 19, 22, 24}
             /\ kmain[n][1] = "write" => n \in {23, 27, 32, 35, 38, 41, 44}
             /\ kmain[n][1] = "poll" => n \in {20, 28, 30, 33, 36, 39, 42, 45}
             /\ kmain[n][1] = "read" => n = 21
             /\ kmain[n][1] = "skip" => n \in {29, 34, 37, 40, 43, 46}
             /\ kmain[n][1] = "test" => n = 31
             /\ kmain[n][1] = "flush" => n = 17
             /\ kmain[n][1] = "discard" => n = 18
             /\ kmain[n][1] = "inb" => n \in {25, 47}
             /\ kmain[n][1] = "set" => n = 26
             /\ kmain[n][1] = "clear" => n = 48
  BY <1>3, Program
<1> QED
  BY <1>1, <1>2, <1>3

\* Where the two windows begin and end.
LEMMA Landmarks ==
    /\ Index(Divisor) = 4 /\ Index(LatchOff) = 6
    /\ Index(Loopback) = 9 /\ Index(TestByte) = 10
<1>1. ASSUME NEW n \in 1 .. 48
      PROVE  /\ kmain[n] = Divisor <=> n = 4
             /\ kmain[n] = LatchOff <=> n = 6
             /\ kmain[n] = Loopback <=> n = 9
             /\ kmain[n] = TestByte <=> n = 10
  BY <1>1, Program DEF Divisor, LatchOff, Loopback, TestByte
<1>2. Len(kmain) = 48
  BY Program
<1> QED
  BY <1>1, <1>2 DEF Index

\* The windows.
LEMMA Windows ==
    ASSUME pc \in 1 .. 49
    PROVE  Window = IF pc \in 5 .. 6 THEN "latch" ELSE IF pc = 10 THEN "test" ELSE "none"
BY Landmarks DEF Window, Between

-----------------------------------------------------------------------------
(* Accesses.                                                               *)

\* The controller's line does not touch the mask.
LEMMA LineKeepsMask ==
    ASSUME NEW full, NEW cfg, Line(full, cfg)
    PROVE  imr' = imr
BY DEF Line, Raise, Lower, pic

\* Taking a byte leaves the byte there.
LEMMA ByteTaken ==
    ASSUME TakeByte
    PROVE  obf' = FALSE /\ data' = data /\ imr' = imr
BY LineKeepsMask DEF TakeByte

\* A register that is written.
LEMMA RegisterTypes ==
    ASSUME NEW u \in UartType, NEW reg, NEW val, NEW v \in Written(u, reg, val),
           \/ reg = "data" /\ val \in {"0", "1"} /\ u.lcr = "dlab"
           \/ reg = "data" /\ val \in {"0", "AE"} /\ u.lcr = "8n1"
           \/ reg = "ier" /\ val \in {"off", "on"}
           \/ reg = "lcr" /\ val \in {"8n1", "dlab"}
           \/ reg = "mcr" /\ val \in {"normal", "loop"}
           \/ reg = "fcr"
    PROVE  v \in UartType
<1>1. u.rx \in Seq({"0", "AE", "input"})
  BY DEF UartType
<1>2. CASE reg = "data" /\ val \in {"0", "1"} /\ u.lcr = "dlab"
  BY <1>2 DEF UartType, Written
<1>3. CASE reg = "data" /\ val \in {"0", "AE"} /\ u.lcr = "8n1"
  <2>1. v = u \/ v = [u EXCEPT !.rx = Append(u.rx, val)]
    BY <1>3 DEF Written
  <2>2. Append(u.rx, val) \in Seq({"0", "AE", "input"})
    BY <1>1, <1>3
  <2> QED
    BY <2>1, <2>2 DEF UartType
<1>4. CASE reg = "ier" /\ val \in {"off", "on"}
  BY <1>4 DEF UartType, Written
<1>5. CASE reg = "lcr" /\ val \in {"8n1", "dlab"}
  BY <1>5 DEF UartType, Written
<1>6. CASE reg = "mcr" /\ val \in {"normal", "loop"}
  BY <1>6 DEF UartType, Written
<1>7. CASE reg = "fcr"
  <2>1. v = u \/ v = [u EXCEPT !.rx = << >>]
    BY <1>7 DEF Written
  <2>2. << >> \in Seq({"0", "AE", "input"})
    OBVIOUS
  <2> QED
    BY <2>1, <2>2 DEF UartType
<1> QED
  BY <1>2, <1>3, <1>4, <1>5, <1>6, <1>7

\* What a character that is printed does to the UART.
LEMMA SerWriteDoes ==
    ASSUME pc \in 1 .. 49, SerialTypes, Port, SER_write
    PROVE  /\ uart' \in UartType /\ tx_busy' = TRUE
           /\ uart'.lcr = uart.lcr /\ uart'.mcr = uart.mcr /\ uart'.ier = uart.ier
           /\ \/ hit' = hit /\ uart' = uart
              \/ /\ hit = "none"
                 /\ hit' = IF pc \in 5 .. 6 THEN "latch" ELSE IF pc = 10 THEN "test" ELSE "none"
                 /\ uart.lcr = "dlab" => uart'.divisor = "0" /\ uart'.rx = uart.rx
                 /\ uart.lcr = "8n1" => uart'.divisor = uart.divisor
                 /\ uart.mcr = "normal" => uart'.rx = uart.rx
                 /\ uart.rx # << >> => uart'.rx # << >> /\ Head(uart'.rx) = Head(uart.rx)
<1>1. uart \in UartType /\ tx_busy \in BOOLEAN /\ uart.lcr \in {"dlab", "8n1"}
      /\ uart.rx \in Seq({"0", "AE", "input"})
  BY DEF SerialTypes, UartType
<1>2. CASE tx_busy
  BY <1>1, <1>2 DEF SER_write
<1>3. CASE ~tx_busy
  <2>1. uart' \in Written(uart, "data", "0") /\ tx_busy' = TRUE /\ hit' = Window /\ hit = "none"
    BY <1>3 DEF SER_write, Port
  <2>2. uart' \in UartType
    BY <1>1, <2>1, RegisterTypes
  <2>3. CASE uart.lcr = "dlab"
    <3>1. uart' = [uart EXCEPT !.divisor = "0"]
      BY <2>1, <2>3 DEF Written
    <3> QED
      BY <1>1, <2>1, <2>2, <2>3, <3>1, Windows DEF UartType
  <2>4. CASE uart.lcr = "8n1"
    <3>1. uart' = IF uart.mcr = "loop" THEN [uart EXCEPT !.rx = Append(uart.rx, "0")] ELSE uart
      BY <2>1, <2>4 DEF Written
    <3>2. uart.rx # << >> => Append(uart.rx, "0") # << >> /\ Head(Append(uart.rx, "0")) = Head(uart.rx)
      BY <1>1
    <3> QED
      BY <1>1, <2>1, <2>2, <2>4, <3>1, <3>2, Windows DEF UartType
  <2> QED
    BY <1>1, <2>3, <2>4
<1> QED
  BY <1>1, <1>2, <1>3

\* Wherever that is, its effect is within bounds, and the window is remembered.
LEMMA AfterSerWrite ==
    ASSUME pc \in 1 .. 49, SerialTypes, Port, SER_write, working' \in BOOLEAN, inputs' = inputs,
           \/ pc' = pc /\ working' = working
           \/ pc = 11 /\ pc' = 15 /\ working' = working /\ (hit' = "test" \/ inputs > 0)
           \/ pc = 14 /\ pc' = 15 /\ working' = TRUE
    PROVE  SerialTypes' /\ Port'
<1> DEFINE W == IF pc \in 5 .. 6 THEN "latch" ELSE IF pc = 10 THEN "test" ELSE "none"
<1>1. /\ uart' \in UartType /\ tx_busy' = TRUE
      /\ uart'.lcr = uart.lcr /\ uart'.mcr = uart.mcr /\ uart'.ier = uart.ier
      /\ \/ hit' = hit /\ uart' = uart
         \/ /\ hit = "none"
            /\ hit' = W
            /\ uart.lcr = "dlab" => uart'.divisor = "0" /\ uart'.rx = uart.rx
            /\ uart.lcr = "8n1" => uart'.divisor = uart.divisor
            /\ uart.mcr = "normal" => uart'.rx = uart.rx
            /\ uart.rx # << >> => uart'.rx # << >> /\ Head(uart'.rx) = Head(uart.rx)
  BY SerWriteDoes
<1>2. SerialTypes'
  BY <1>1 DEF SerialTypes
<1>3. CASE pc' = pc /\ working' = working
  <2>1. CASE hit' = hit /\ uart' = uart
    BY <1>1, <1>2, <1>3, <2>1 DEF Port
  <2>2. CASE hit = "none" /\ hit' = W /\ pc \in 5 .. 6
    <3>1. uart'.divisor = "0" /\ uart'.rx = uart.rx
      BY <1>1, <2>2 DEF Port
    <3> QED
      BY <1>1, <1>2, <1>3, <2>2, <3>1 DEF Port
  <2>3. CASE hit = "none" /\ hit' = W /\ pc \notin 5 .. 6
    <3>1. pc # 4 => uart'.divisor = uart.divisor
      BY <1>1, <2>3 DEF Port
    <3>2. pc < 10 => uart'.rx = uart.rx
      BY <1>1, <2>3 DEF Port
    <3> QED
      BY <1>1, <1>2, <1>3, <2>3, <3>1, <3>2 DEF Port
  <2> QED
    BY <1>1, <2>1, <2>2, <2>3
<1>4. CASE pc = 11 /\ pc' = 15 /\ working' = working /\ (hit' = "test" \/ inputs > 0)
  BY <1>1, <1>2, <1>4 DEF Port
<1>5. CASE pc = 14 /\ pc' = 15 /\ working' = TRUE
  BY <1>1, <1>2, <1>5 DEF Port
<1> QED
  BY <1>2, <1>3, <1>4, <1>5

\* Which registers SER_init writes.
LEMMA OutbDoes ==
    ASSUME pc \in 1 .. 49, Outb
    PROVE  /\ pc' = pc + 1 /\ h = "none"
           /\ \/ pc = 2 /\ uart' \in Written(uart, "ier", "off")
              \/ pc = 3 /\ uart' \in Written(uart, "lcr", "dlab")
              \/ pc = 4 /\ uart' \in Written(uart, "data", "1")
              \/ pc = 5 /\ uart' \in Written(uart, "ier", "off")
              \/ pc = 6 /\ uart' \in Written(uart, "lcr", "8n1")
              \/ pc = 7 /\ uart' \in Written(uart, "fcr", "clear")
              \/ pc = 8 /\ uart' \in Written(uart, "mcr", "normal")
              \/ pc = 9 /\ uart' \in Written(uart, "mcr", "loop")
              \/ pc = 10 /\ uart' \in Written(uart, "data", "AE")
              \/ pc = 12 /\ uart' \in Written(uart, "mcr", "normal")
              \/ pc = 13 /\ uart' \in Written(uart, "ier", "on")
<1>1. pc \in 2 .. 10 \cup {12, 13} /\ h = "none" /\ pc' = pc + 1
      /\ uart' \in Written(uart, kmain[pc][2], kmain[pc][3])
  BY Where DEF Outb, Step, Goto
<1>2. \/ pc = 2 \/ pc = 3 \/ pc = 4 \/ pc = 5 \/ pc = 6 \/ pc = 7 \/ pc = 8 \/ pc = 9 \/ pc = 10
      \/ pc = 12 \/ pc = 13
  BY <1>1
<1> QED
  BY <1>1, <1>2, Program

-----------------------------------------------------------------------------
(* The UART.                                                               *)

\* What SER_init does to the UART, an access at a time.
LEMMA OutbKeepsPort ==
    ASSUME pc \in 1 .. 49, SerialTypes, Port, Outb
    PROVE  SerialTypes' /\ Port'
<1>1. UNCHANGED <<tx_busy, working, inputs, hit>> /\ pc' = pc + 1
  BY OutbDoes DEF Outb
<1>2. uart \in UartType /\ uart.rx \in Seq({"0", "AE", "input"})
  BY DEF SerialTypes, UartType
<1>3. uart.lcr = IF pc \in 4 .. 6 THEN "dlab" ELSE "8n1"
  BY DEF Port
<1>4. CASE pc = 2 /\ uart' \in Written(uart, "ier", "off")
  <2>1. uart' = [uart EXCEPT !.ier = "off"]
    BY <1>3, <1>4 DEF Written
  <2>2. uart' \in UartType
    BY <1>2, <1>4, RegisterTypes
  <2> QED
    BY <1>1, <1>2, <1>4, <2>1, <2>2 DEF SerialTypes, Port, UartType
<1>5. CASE pc = 3 /\ uart' \in Written(uart, "lcr", "dlab")
  <2>1. uart' = [uart EXCEPT !.lcr = "dlab"]
    BY <1>3, <1>5 DEF Written
  <2>2. uart' \in UartType
    BY <1>2, <1>5, RegisterTypes
  <2> QED
    BY <1>1, <1>2, <1>5, <2>1, <2>2 DEF SerialTypes, Port, UartType
<1>6. CASE pc = 4 /\ uart' \in Written(uart, "data", "1")
  <2>1. uart' = [uart EXCEPT !.divisor = "1"]
    BY <1>3, <1>6 DEF Written
  <2>2. uart' \in UartType
    BY <1>2, <1>3, <1>6, RegisterTypes
  <2> QED
    BY <1>1, <1>2, <1>6, <2>1, <2>2 DEF SerialTypes, Port, UartType
<1>7. CASE pc = 5 /\ uart' \in Written(uart, "ier", "off")
  <2>1. uart' = uart
    BY <1>3, <1>7 DEF Written
  <2> QED
    BY <1>1, <1>2, <1>7, <2>1 DEF SerialTypes, Port, UartType
<1>8. CASE pc = 6 /\ uart' \in Written(uart, "lcr", "8n1")
  <2>1. uart' = [uart EXCEPT !.lcr = "8n1"]
    BY <1>3, <1>8 DEF Written
  <2>2. uart' \in UartType
    BY <1>2, <1>8, RegisterTypes
  <2> QED
    BY <1>1, <1>2, <1>8, <2>1, <2>2 DEF SerialTypes, Port, UartType
<1>9. CASE pc = 7 /\ uart' \in Written(uart, "fcr", "clear")
  <2>1. uart' = uart \/ uart' = [uart EXCEPT !.rx = << >>]
    BY <1>9 DEF Written
  <2>2. uart' \in UartType
    BY <1>2, <1>9, RegisterTypes
  <2> QED
    BY <1>1, <1>2, <1>9, <2>1, <2>2 DEF SerialTypes, Port, UartType
<1>10. CASE pc \in {8, 12} /\ uart' \in Written(uart, "mcr", "normal")
  <2>1. uart' = [uart EXCEPT !.mcr = "normal"]
    BY <1>10 DEF Written
  <2>2. uart' \in UartType
    BY <1>2, <1>10, RegisterTypes
  <2> QED
    BY <1>1, <1>2, <1>10, <2>1, <2>2 DEF SerialTypes, Port, UartType
<1>11. CASE pc = 9 /\ uart' \in Written(uart, "mcr", "loop")
  <2>1. uart' = [uart EXCEPT !.mcr = "loop"]
    BY <1>11 DEF Written
  <2>2. uart' \in UartType
    BY <1>2, <1>11, RegisterTypes
  <2> QED
    BY <1>1, <1>2, <1>11, <2>1, <2>2 DEF SerialTypes, Port, UartType
<1>12. CASE pc = 10 /\ uart' \in Written(uart, "data", "AE")
  <2>1. uart.mcr = "loop"
    BY <1>12 DEF Port
  <2>2. uart' = [uart EXCEPT !.rx = Append(uart.rx, "AE")]
    BY <1>3, <1>12, <2>1 DEF Written
  <2>3. uart' \in UartType
    BY <1>2, <1>3, <1>12, RegisterTypes
  <2>4. uart.rx = << >> => Append(uart.rx, "AE") # << >> /\ Head(Append(uart.rx, "AE")) = "AE"
    BY <1>2
  <2> QED
    BY <1>1, <1>2, <1>12, <2>2, <2>3, <2>4 DEF SerialTypes, Port, UartType
<1>13. CASE pc = 13 /\ uart' \in Written(uart, "ier", "on")
  <2>1. uart' = [uart EXCEPT !.ier = "on"]
    BY <1>3, <1>13 DEF Written
  <2>2. uart' \in UartType
    BY <1>2, <1>13, RegisterTypes
  <2> QED
    BY <1>1, <1>2, <1>13, <2>1, <2>2 DEF SerialTypes, Port, UartType
<1> QED
  BY OutbDoes, <1>4, <1>5, <1>6, <1>7, <1>8, <1>9, <1>10, <1>11, <1>12, <1>13

\* The test of the UART, and the end of SER_init.
LEMMA CheckKeepsPort ==
    ASSUME pc \in 1 .. 49, SerialTypes, Port, Check \/ Initialized
    PROVE  SerialTypes' /\ Port'
<1>1. CASE Check
  <2>1. pc = 11 /\ working' = working /\ inputs' = inputs
    BY <1>1, Where DEF Check
  <2>2. CASE uart.rx # << >> /\ Head(uart.rx) = "AE"
    <3>1. pc' = 12 /\ UNCHANGED <<uart, tx_busy, hit>>
      BY <1>1, <2>1, <2>2 DEF Check, Step, Goto
    <3> QED
      BY <2>1, <3>1 DEF SerialTypes, Port
  <2>3. CASE ~(uart.rx # << >> /\ Head(uart.rx) = "AE")
    <3>1. pc' = 15 /\ SER_write
      <4>1. ~At("test") /\ pc' = Len(SER_init) + 1 /\ SER_write
        BY <1>1, <2>1, <2>3, Where DEF Check, Goto
      <4> QED
        BY <4>1, Program
    <3>2. hit = "test" \/ inputs > 0
      BY <2>1, <2>3 DEF Port, SerialTypes
    <3>3. hit # "none" => tx_busy
      BY DEF Port
    <3>4. hit' = "test" \/ inputs > 0
      BY <3>1, <3>2, <3>3 DEF SER_write
    <3>5. ~working
      BY <2>1 DEF Port
    <3> QED
      BY <2>1, <3>1, <3>4, <3>5, AfterSerWrite DEF SerialTypes, Port
  <2> QED
    BY <2>2, <2>3
<1>2. CASE Initialized
  <2>1. pc = 14 /\ pc' = 15 /\ working' = TRUE /\ SER_write /\ inputs' = inputs
    BY <1>2, Where DEF Initialized, Step, Goto
  <2> QED
    BY <2>1, AfterSerWrite DEF Port
<1> QED
  BY <1>1, <1>2

\* Receiving, and printing in the keyboard's handler.
LEMMA OthersKeepPort ==
    ASSUME pc \in 1 .. 49, SerialTypes, Port,
           \/ Receive
           \/ SER_write /\ UNCHANGED <<pc, working, inputs>>
           \/ UNCHANGED <<pc, serial>>
           \/ SerReset
    PROVE  SerialTypes' /\ Port'
<1>1. CASE Receive
  <2>1. /\ uart' = [uart EXCEPT !.rx = Append(uart.rx, "input")] /\ inputs' = inputs + 1
        /\ UNCHANGED <<pc, tx_busy, working, hit>>
    BY <1>1 DEF Receive, thread
  <2>2. uart' \in UartType
    <3>1. uart \in UartType /\ uart.rx \in Seq({"0", "AE", "input"})
      BY DEF SerialTypes, UartType
    <3>2. Append(uart.rx, "input") \in Seq({"0", "AE", "input"})
      BY <3>1
    <3> QED
      BY <2>1, <3>1, <3>2 DEF UartType
  <2>3. inputs' > 0 /\ inputs' \in Nat
    BY <2>1 DEF SerialTypes
  <2> QED
    BY <2>1, <2>2, <2>3 DEF SerialTypes, Port, UartType
<1>2. CASE SER_write /\ UNCHANGED <<pc, working, inputs>>
  BY <1>2, AfterSerWrite DEF SerialTypes, serial
<1>3. CASE UNCHANGED <<pc, serial>>
  BY <1>3 DEF SerialTypes, Port, serial
<1>4. CASE SerReset
  <2>1. pc = 1 /\ pc' = 2 /\ tx_busy' = FALSE /\ UNCHANGED <<uart, working, inputs, hit>>
    BY <1>4, Where DEF SerReset, Step, Goto
  <2>2. SerialTypes'
    BY <2>1 DEF SerialTypes
  <2> QED
    BY <2>1, <2>2 DEF Port
<1> QED
  BY <1>1, <1>2, <1>3, <1>4

-----------------------------------------------------------------------------
(* The controller.                                                         *)

\* What kmain tells it.
LEMMA CommandDoes ==
    ASSUME pc \in 1 .. 49, Command
    PROVE  /\ pc' = pc + 1 /\ ibf = << >> /\ h = "none"
           /\ \/ pc = 15 /\ ibf' = Order("AD")
              \/ pc = 16 /\ ibf' = Order("A7")
              \/ pc = 19 /\ ibf' = Order("20")
              \/ pc = 22 /\ ibf' = Order("60")
              \/ pc = 24 /\ ibf' = Order("AE")
<1>1. pc \in {15, 16, 19, 22, 24} /\ ibf = << >> /\ ibf' = Order(kmain[pc][2]) /\ pc' = pc + 1
      /\ h = "none"
  BY Where DEF Command, Step, Goto, Order
<1>2. /\ kmain[15][2] = "AD" /\ kmain[16][2] = "A7" /\ kmain[19][2] = "20"
      /\ kmain[22][2] = "60" /\ kmain[24][2] = "AE"
  BY Program
<1> QED
  BY <1>1, <1>2

LEMMA WriteDoes ==
    ASSUME pc \in 1 .. 49, Write
    PROVE  /\ pc' = pc + 1 /\ ibf = << >> /\ h = "none"
           /\ \/ pc = 23 /\ ibf' = <<"data", NewConfig(got.bits)>>
              \/ pc = 27 /\ ibf' = Reset
              \/ pc >= 32 /\ pc <= 44 /\ \E c \in {"F0", "02", "F4", "F3", "4A"} : ibf' = <<"data", Byte(c)>>
<1>1. pc \in {23, 27, 32, 35, 38, 41, 44} /\ ibf = << >> /\ pc' = pc + 1 /\ h = "none"
      /\ ibf' = <<"data", IF kmain[pc][2] = "config" THEN NewConfig(got.bits) ELSE Byte(kmain[pc][2])>>
  BY Where DEF Write, Step, Goto
<1>2. /\ kmain[23][2] = "config" /\ kmain[27][2] = "FF" /\ kmain[32][2] = "F0" /\ kmain[35][2] = "02"
      /\ kmain[38][2] = "F4" /\ kmain[41][2] = "F3" /\ kmain[44][2] = "4A"
  BY Program
<1>3. CASE pc = 23
  BY <1>1, <1>2, <1>3
<1>4. CASE pc = 27
  BY <1>1, <1>2, <1>4 DEF Reset
<1>5. CASE pc \in {32, 35, 38, 41, 44}
  <2>1. kmain[pc][2] \in {"F0", "02", "F4", "F3", "4A"}
    BY <1>2, <1>5
  <2> QED
    BY <1>1, <1>5, <2>1
<1> QED
  BY <1>1, <1>3, <1>4, <1>5

\* The steps that take the byte that waits.
Takes == Read \/ Skip \/ Test \/ Discard

LEMMA TakesDoes ==
    ASSUME pc \in 1 .. 49, Takes
    PROVE  /\ obf' = FALSE /\ data' = data /\ imr' = imr /\ h = "none"
           /\ UNCHANGED <<value, serial, ibf, config, expects, answers, keyboard, handler, firmware>>
           /\ \/ pc = 21 /\ pc' = 22 /\ got' = data
              \/ pc = 18 /\ pc' = 17 /\ got' = got
              \/ pc \in {29, 34, 37, 40, 43, 46} /\ pc' = pc + 1 /\ got' = got
              \/ pc = 31 /\ pc' = 30 /\ got' = got
              \/ pc = 31 /\ data.code = "AA" /\ pc' = 32 /\ got' = got
              \/ pc = 31 /\ data.code = "FC" /\ pc' = 47 /\ got' = got
<1>1. CASE Read
  BY <1>1, Where, ByteTaken DEF Read, Step, Goto
<1>2. CASE Skip
  BY <1>2, Where, ByteTaken DEF Skip, Step, Goto
<1>3. CASE Test
  <2>1. pc = 31 /\ h = "none" /\ TakeByte /\ got' = got
        /\ UNCHANGED <<value, serial, ibf, config, expects, answers, keyboard, handler, firmware>>
    BY <1>3, Where DEF Test
  <2>2. \/ data.code = "AA" /\ pc' = 32
        \/ data.code = "FC" /\ pc' = 47
        \/ pc' = 30
    BY <1>3, <2>1, Program DEF Test, Goto
  <2> QED
    BY <2>1, <2>2, ByteTaken
<1>4. CASE Discard
  BY <1>4, Where, ByteTaken DEF Discard, Goto
<1> QED
  BY <1>1, <1>2, <1>3, <1>4 DEF Takes

\* Where kmain is when it speaks to the controller, and then.
LEMMA Places ==
    ASSUME pc \in 1 .. 49, Command \/ Write \/ Takes
    PROVE  pc \in 15 .. 48 /\ pc' \in 15 .. 48 /\ (pc' >= 27 => pc >= 27)
<1>1. CASE Command
  <2>1. pc \in {15, 16, 19, 22, 24} /\ pc' = pc + 1
    BY <1>1, Where DEF Command, Step, Goto
  <2> QED
    BY <2>1
<1>2. CASE Write
  <2>1. pc \in {23, 27, 32, 35, 38, 41, 44} /\ pc' = pc + 1
    BY <1>2, Where DEF Write, Step, Goto
  <2> QED
    BY <2>1
<1>3. CASE Takes
  <2>1. \/ pc = 21 /\ pc' = 22
        \/ pc = 18 /\ pc' = 17
        \/ pc \in {29, 34, 37, 40, 43, 46} /\ pc' = pc + 1
        \/ pc = 31 /\ pc' \in {30, 32, 47}
    BY <1>3, TakesDoes
  <2>2. CASE pc \in {29, 34, 37, 40, 43, 46} /\ pc' = pc + 1
    BY <2>2
  <2>3. CASE pc \in {18, 21, 31} /\ pc' \in {17, 22, 30, 32, 47} /\ (pc # 31 => pc' < 27)
    BY <2>3
  <2> QED
    BY <2>1, <2>2, <2>3
<1> QED
  BY <1>1, <1>2, <1>3

\* After a byte was taken kmain goes on, or goes back to wait for another one.
LEMMA TakesMoves ==
    ASSUME pc \in 1 .. 49, Takes
    PROVE  \/ pc \in {18, 21} /\ pc' \in {17, 22}
           \/ pc \in {29, 34, 37, 40, 43, 46} /\ pc' = pc + 1
           \/ pc = 31 /\ pc' = 30
           \/ pc = 31 /\ data.code \in {"AA", "FC"} /\ pc' \in {32, 47}
<1>1. \/ pc = 21 /\ pc' = 22
      \/ pc = 18 /\ pc' = 17
      \/ pc \in {29, 34, 37, 40, 43, 46} /\ pc' = pc + 1
      \/ pc = 31 /\ pc' = 30
      \/ pc = 31 /\ data.code = "AA" /\ pc' = 32
      \/ pc = 31 /\ data.code = "FC" /\ pc' = 47
  BY TakesDoes
<1> QED
  BY <1>1

\* The other steps of kmain.
Passes == SerReset \/ Outb \/ Check \/ Initialized \/ Poll \/ Flush \/ ReadMask \/ WriteMask

LEMMA PassesDoes ==
    ASSUME pc \in 1 .. 49, Passes
    PROVE  /\ h = "none" /\ UNCHANGED <<got, controller, keyboard, handler, firmware>>
           /\ \/ pc \in 1 .. 14 /\ pc' \in 2 .. 15 /\ imr' = imr /\ value' = value
              \/ pc \in {20, 28, 30, 33, 36, 39, 42, 45} /\ obf /\ pc' = pc + 1 /\ imr' = imr /\ value' = value
              \/ pc = 17 /\ obf /\ pc' = 18 /\ imr' = imr /\ value' = value
              \/ pc = 17 /\ ~obf /\ pc' = 19 /\ imr' = imr /\ value' = value
              \/ pc \in {25, 47} /\ pc' = pc + 1 /\ imr' = imr /\ value' = imr
              \/ pc = 26 /\ pc' = 27 /\ imr' = value \cup {1} /\ value' = value
              \/ pc = 48 /\ pc' = 49 /\ imr' = value \ {1} /\ value' = value
<1>1. CASE SerReset
  BY <1>1, Where DEF SerReset, Step, Goto, pic
<1>2. CASE Outb
  BY <1>2, OutbDoes DEF Outb, pic
<1>3. CASE Check
  BY <1>3, Where, Program DEF Check, Step, Goto, pic
<1>4. CASE Initialized
  BY <1>4, Where DEF Initialized, Step, Goto, pic
<1>5. CASE Poll
  BY <1>5, Where DEF Poll, Step, Goto, pic
<1>6. CASE Flush
  BY <1>6, Where DEF Flush, Goto, pic
<1>7. CASE ReadMask
  BY <1>7, Where DEF ReadMask, Step, Goto, pic
<1>8. CASE WriteMask
  BY <1>8, Where DEF WriteMask, Step, Goto
<1> QED
  BY <1>1, <1>2, <1>3, <1>4, <1>5, <1>6, <1>7, <1>8 DEF Passes

\* The byte of the configuration that ps2_init makes of the one it has read.
LEMMA NewConfiguration ==
    /\ NewConfig(Quiet) = ConfigByte(Intended)
    /\ Quiet \cup {"off2"} = Quiet /\ firmware \cup {"off1"} \cup {"off2"} = Quiet
    /\ Intended \ {"off1"} = Intended /\ "xlat" \notin Intended /\ "off1" \in Quiet
BY DEF NewConfig, Quiet, ConfigByte, Intended

\* What the controller makes of the byte it was told.
LEMMA ObeyDoes ==
    ASSUME NEW c, ibf = Order(c), Obey
    PROVE  /\ ibf' = << >> /\ expects' = (c = "60") /\ imr' = imr
           /\ c = "AD" => config' = config \cup {"off1"}
           /\ c = "A7" => config' = config \cup {"off2"}
           /\ c = "AE" => config' = config \ {"off1"}
           /\ c \notin {"AD", "A7", "AE"} => config' = config
           /\ c = "20" => ~obf /\ obf' /\ data' = ConfigByte(config)
           /\ c # "20" => obf' = (obf \/ FALSE) /\ data' = data
           /\ UNCHANGED <<thread, serial, answers, keyboard, handler, firmware>>
<1>1. ibf # << >> /\ ibf[1] = "command" /\ ibf[2].code = c
  BY DEF Order, Byte
<1> QED
  BY <1>1, LineKeepsMask DEF Obey, ConfigByte

\* The steps that are not the controller's, nor kmain's with the controller.
LEMMA SettingStays ==
    ASSUME Types, Setting, UNCHANGED <<pc, ibf, config, expects, firmware, got>>,
           pc \in 19 .. 21 => data' = data /\ (~obf => ~obf')
    PROVE  Setting'
<1>1. expects \in BOOLEAN /\ obf \in BOOLEAN
  BY DEF Types, ControllerTypes
<1>2. Quiet' = Quiet /\ Intended' = Intended
  BY DEF Quiet, Intended
<1> QED
  BY <1>1, <1>2 DEF Setting

\* The configuration is kept by kmain,
LEMMA KmainKeepsSetting ==
    ASSUME Types, Setting, Thread
    PROVE  Setting'
<1>1. pc \in 1 .. 49 /\ firmware' = firmware /\ expects \in BOOLEAN /\ obf \in BOOLEAN
  BY DEF Types, ControllerTypes, Thread, SerReset, Outb, Check, Initialized, Command, Write, Poll, Read, Skip, Test,
         Flush, Discard, ReadMask, WriteMask
<1>2. Quiet' = Quiet /\ Intended' = Intended
  BY <1>1 DEF Quiet, Intended
<1>3. CASE Command
  <2>1. UNCHANGED <<got, obf, data, config, expects>>
    BY <1>3 DEF Command
  <2>2. /\ pc' = pc + 1 /\ ibf = << >>
        /\ \/ pc = 15 /\ ibf' = Order("AD")
           \/ pc = 16 /\ ibf' = Order("A7")
           \/ pc = 19 /\ ibf' = Order("20")
           \/ pc = 22 /\ ibf' = Order("60")
           \/ pc = 24 /\ ibf' = Order("AE")
    BY <1>1, <1>3, CommandDoes
  <2>3. CASE pc = 15 /\ ibf' = Order("AD")
    BY <1>1, <1>2, <2>1, <2>2, <2>3 DEF Setting
  <2>4. CASE pc = 16 /\ ibf' = Order("A7")
    BY <1>1, <1>2, <2>1, <2>2, <2>4 DEF Setting, Order
  <2>5. CASE pc = 19 /\ ibf' = Order("20")
    BY <1>1, <1>2, <2>1, <2>2, <2>5 DEF Setting, Order
  <2>6. CASE pc = 22 /\ ibf' = Order("60")
    BY <1>1, <1>2, <2>1, <2>2, <2>6 DEF Setting
  <2>7. CASE pc = 24 /\ ibf' = Order("AE")
    BY <1>1, <1>2, <2>1, <2>2, <2>7 DEF Setting, Order
  <2> QED
    BY <2>2, <2>3, <2>4, <2>5, <2>6, <2>7
<1>4. CASE Write
  <2>1. UNCHANGED <<got, obf, data, config, expects>>
    BY <1>4 DEF Write
  <2>2. /\ pc' = pc + 1 /\ ibf = << >>
        /\ \/ pc = 23 /\ ibf' = <<"data", NewConfig(got.bits)>>
           \/ pc = 27 /\ ibf' = Reset
           \/ pc >= 32 /\ pc <= 44 /\ \E c \in {"F0", "02", "F4", "F3", "4A"} : ibf' = <<"data", Byte(c)>>
    BY <1>1, <1>4, WriteDoes
  <2>3. CASE pc = 23 /\ ibf' = <<"data", NewConfig(got.bits)>>
    <3>1. got.bits = Quiet
      BY <2>3 DEF Setting, ConfigByte
    <3>2. ibf' = <<"data", ConfigByte(Intended)>> /\ expects
      BY <2>2, <2>3, <3>1, NewConfiguration DEF Setting, Order
    <3> QED
      BY <1>1, <1>2, <2>1, <2>2, <2>3, <3>2 DEF Setting
  <2>4. CASE pc = 27 /\ ibf' = Reset
    <3>1. ibf' \in ToKeyboard
      BY <2>4 DEF Reset, ToKeyboard
    <3> QED
      BY <1>1, <1>2, <2>1, <2>2, <2>4, <3>1 DEF Setting
  <2>5. CASE pc >= 32 /\ pc <= 44 /\ \E c \in {"F0", "02", "F4", "F3", "4A"} : ibf' = <<"data", Byte(c)>>
    <3>1. ibf' \in ToKeyboard
      BY <2>5 DEF ToKeyboard
    <3> QED
      BY <1>1, <1>2, <2>1, <2>2, <2>5, <3>1 DEF Setting
  <2> QED
    BY <2>2, <2>3, <2>4, <2>5
<1>5. CASE Takes
  <2>1. obf' = FALSE /\ UNCHANGED <<data, ibf, config, expects>>
    BY <1>1, <1>5, TakesDoes
  <2>2. \/ pc = 21 /\ pc' = 22 /\ got' = data
        \/ pc = 18 /\ pc' = 17
        \/ pc \in {29, 31, 34, 37, 40, 43, 46} /\ pc' \in 30 .. 49
    <3>1. \/ pc = 21 /\ pc' = 22 /\ got' = data
          \/ pc = 18 /\ pc' = 17
          \/ pc \in {29, 34, 37, 40, 43, 46} /\ pc' = pc + 1
          \/ pc = 31 /\ pc' \in {30, 32, 47}
      BY <1>1, <1>5, TakesDoes
    <3> QED
      BY <3>1
  <2>3. CASE pc = 21 /\ pc' = 22 /\ got' = data
    BY <1>1, <1>2, <2>1, <2>3 DEF Setting
  <2>4. CASE pc = 18 /\ pc' = 17
    BY <1>1, <1>2, <2>1, <2>4 DEF Setting
  <2>5. CASE pc \in {29, 31, 34, 37, 40, 43, 46} /\ pc' \in 30 .. 49
    BY <1>1, <1>2, <2>1, <2>5 DEF Setting
  <2> QED
    BY <2>2, <2>3, <2>4, <2>5
<1>6. CASE Passes
  <2>1. UNCHANGED <<got, ibf, obf, data, config, expects>>
    BY <1>1, <1>6, PassesDoes DEF controller
  <2>2. \/ pc \in 1 .. 14 /\ pc' \in 2 .. 15
        \/ pc = 20 /\ pc' = 21 /\ obf
        \/ pc \in 28 .. 49 /\ pc' \in 28 .. 49
        \/ pc = 17 /\ pc' = 18
        \/ pc = 17 /\ pc' = 19 /\ ~obf
        \/ pc \in 25 .. 26 /\ pc' = pc + 1
    BY <1>1, <1>6, PassesDoes
  <2>3. CASE pc \in 1 .. 14 /\ pc' \in 2 .. 15
    BY <1>1, <1>2, <2>1, <2>3 DEF Setting
  <2>4. CASE pc = 20 /\ pc' = 21 /\ obf
    BY <1>1, <1>2, <2>1, <2>4 DEF Setting
  <2>5. CASE pc \in 28 .. 49 /\ pc' \in 28 .. 49
    BY <1>1, <1>2, <2>1, <2>5 DEF Setting
  <2>6. CASE pc = 17 /\ pc' = 18
    BY <1>1, <1>2, <2>1, <2>6 DEF Setting
  <2>7. CASE pc = 17 /\ pc' = 19 /\ ~obf
    BY <1>1, <1>2, <2>1, <2>7 DEF Setting
  <2>8. CASE pc \in 25 .. 26 /\ pc' = pc + 1
    BY <1>1, <1>2, <2>1, <2>8 DEF Setting
  <2> QED
    BY <2>2, <2>3, <2>4, <2>5, <2>6, <2>7, <2>8
<1> QED
  BY <1>3, <1>4, <1>5, <1>6 DEF Thread, Takes, Passes

\* and by the controller.
LEMMA ControllerKeepsSetting ==
    ASSUME Types, Setting, Obey \/ Configure \/ Deliver
    PROVE  Setting'
<1>1. /\ pc \in 1 .. 49 /\ UNCHANGED <<pc, got, firmware>>
      /\ expects \in BOOLEAN /\ obf \in BOOLEAN
  BY DEF Types, ControllerTypes, Obey, Configure, Deliver, thread
<1>2. Quiet' = Quiet /\ Intended' = Intended
  BY <1>1 DEF Quiet, Intended
<1>3. CASE Obey
  <2>1. \/ pc = 16 /\ ibf = Order("AD")
        \/ pc \in 17 .. 19 /\ ibf = Order("A7")
        \/ pc = 20 /\ ibf = Order("20")
        \/ pc = 23 /\ ibf = Order("60")
        \/ pc \in 25 .. 27 /\ ibf = Order("AE")
    <3>1. ibf # << >> /\ ibf[1] = "command"
      BY <1>3 DEF Obey
    <3>2. ibf \notin ToKeyboard
      BY <3>1 DEF ToKeyboard
    <3> QED
      BY <1>1, <3>1, <3>2 DEF Setting
  <2>2. CASE pc = 16 /\ ibf = Order("AD")
    <3>1. ibf # << >>
      BY <2>2 DEF Order
    <3>2. ibf' = << >> /\ ~expects' /\ config' = firmware \cup {"off1"}
      BY <1>3, <2>2, <3>1, ObeyDoes DEF Setting
    <3> QED
      BY <1>1, <1>2, <2>2, <3>2 DEF Setting
  <2>3. CASE pc \in 17 .. 19 /\ ibf = Order("A7")
    <3>1. ibf # << >>
      BY <2>3 DEF Order
    <3>2. config = firmware \cup {"off1"}
      BY <2>3, <3>1 DEF Setting
    <3>3. config' = config \cup {"off2"} /\ ibf' = << >> /\ obf' = (obf \/ FALSE) /\ ~expects'
      <4> DEFINE c == "A7"
      <4>1. /\ ibf' = << >> /\ expects' = (c = "60")
            /\ c = "A7" => config' = config \cup {"off2"}
            /\ c # "20" => obf' = (obf \/ FALSE) /\ data' = data
        <5>1. ibf = Order(c)
          BY <2>3
        <5> HIDE DEF c
        <5> QED
          BY <1>3, <5>1, ObeyDoes
      <4> QED
        BY <4>1
    <3>4. config' = Quiet /\ (~obf => ~obf')
      BY <3>2, <3>3, NewConfiguration
    <3> QED
      BY <1>1, <1>2, <2>3, <3>3, <3>4 DEF Setting
  <2>4. CASE pc = 20 /\ ibf = Order("20")
    <3>1. config = Quiet
      BY <2>4 DEF Setting
    <3>2. config' = Quiet /\ ibf' = << >> /\ data' = ConfigByte(Quiet) /\ ~expects'
      BY <1>3, <2>4, <3>1, ObeyDoes
    <3> QED
      BY <1>1, <1>2, <2>4, <3>2 DEF Setting
  <2>5. CASE pc = 23 /\ ibf = Order("60")
    <3>1. config = Quiet /\ got = ConfigByte(Quiet)
      BY <2>5 DEF Setting
    <3>2. config' = Quiet /\ ibf' = << >> /\ expects'
      BY <1>3, <2>5, <3>1, ObeyDoes
    <3> QED
      BY <1>1, <1>2, <2>5, <3>1, <3>2 DEF Setting
  <2>6. CASE pc \in 25 .. 27 /\ ibf = Order("AE")
    <3>1. config = Intended
      BY <2>6 DEF Setting
    <3>2. config' = Intended /\ ibf' = << >> /\ ~expects'
      <4> DEFINE c == "AE"
      <4>1. /\ ibf' = << >> /\ expects' = (c = "60")
            /\ c = "AE" => config' = config \ {"off1"}
        <5>1. ibf = Order(c)
          BY <2>6
        <5> HIDE DEF c
        <5> QED
          BY <1>3, <5>1, ObeyDoes
      <4> QED
        BY <3>1, <4>1, NewConfiguration
    <3> QED
      BY <1>1, <1>2, <2>6, <3>2 DEF Setting
  <2> QED
    BY <2>1, <2>2, <2>3, <2>4, <2>5, <2>6
<1>4. CASE Configure
  <2>1. expects /\ ibf # << >> /\ ibf[1] = "data" /\ ibf' = << >> /\ ~expects' /\ config' = ibf[2].bits
    BY <1>4 DEF Configure
  <2>2. pc = 24 /\ ibf = <<"data", ConfigByte(Intended)>>
    BY <2>1 DEF Setting, Order
  <2>3. config' = Intended
    BY <2>1, <2>2 DEF ConfigByte
  <2> QED
    BY <1>1, <1>2, <2>1, <2>2, <2>3 DEF Setting
<1>5. CASE Deliver
  <2>1. ~expects /\ ibf # << >> /\ ibf[1] = "data" /\ ibf' = << >> /\ UNCHANGED <<config, expects>>
    BY <1>5 DEF Deliver
  <2>2. pc > 27
    BY <1>1, <2>1 DEF Setting, Order
  <2> QED
    BY <1>1, <1>2, <2>1, <2>2 DEF Setting
<1> QED
  BY <1>3, <1>4, <1>5

-----------------------------------------------------------------------------
(* The bytes from the keyboard.                                            *)

\* A byte at the end of a sequence.
LEMMA Appended ==
    ASSUME NEW S, NEW w \in Seq(S), NEW x \in S
    PROVE  /\ Append(w, x) \in Seq(S) /\ Len(Append(w, x)) = Len(w) + 1
           /\ \A i \in 1 .. Len(w) : Append(w, x)[i] = w[i]
           /\ Append(w, x)[Len(w) + 1] = x
OBVIOUS

\* Two of them.
LEMMA AppendedTwo ==
    ASSUME NEW S, NEW w \in Seq(S), NEW x \in S, NEW y \in S
    PROVE  /\ w \o <<x, y>> \in Seq(S) /\ Len(w \o <<x, y>>) = Len(w) + 2
           /\ \A i \in 1 .. Len(w) : (w \o <<x, y>>)[i] = w[i]
           /\ (w \o <<x, y>>)[Len(w) + 1] = x
           /\ (w \o <<x, y>>)[Len(w) + 2] = y
OBVIOUS

\* One taken from the front.
LEMMA Popped ==
    ASSUME NEW S, NEW w \in Seq(S), w # << >>
    PROVE  /\ Head(w) = w[1] /\ w[1] \in S /\ Len(w) \in Nat /\ Len(w) >= 1
           /\ Tail(w) \in Seq(S) /\ Len(Tail(w)) = Len(w) - 1
           /\ \A i \in 1 .. Len(w) - 1 : Tail(w)[i] = w[i + 1]
OBVIOUS

\* What the keyboard sends of its own: anything but key bytes.
LEMMA PairedAnswer ==
    ASSUME NEW w \in Seq(Sent), NEW x \in Sent, Paired(w), x.code \notin {"F0", "break"}
    PROVE  Paired(Append(w, x))
<1>1. /\ Append(w, x) \in Seq(Sent) /\ Len(Append(w, x)) = Len(w) + 1 /\ Len(w) \in Nat
      /\ \A i \in 1 .. Len(w) : Append(w, x)[i] = w[i]
      /\ Append(w, x)[Len(w) + 1] = x
  BY Appended
<1> DEFINE v == Append(w, x)
<1> HIDE DEF v
<1>2. v[Len(v)].code # "F0"
  BY <1>1 DEF v
<1>3. ASSUME NEW i \in 2 .. Len(v)
      PROVE  v[i].code = "break" <=> v[i - 1].code = "F0"
  <2>1. CASE i = Len(w) + 1
    <3>1. w # << >> /\ Len(w) \in 1 .. Len(w) /\ i - 1 = Len(w)
      BY <1>1, <1>3, <2>1 DEF v
    <3>2. v[i - 1] = w[Len(w)] /\ v[i] = x
      BY <1>1, <2>1, <3>1 DEF v
    <3> QED
      BY <3>1, <3>2 DEF Paired
  <2>2. CASE i # Len(w) + 1
    <3>1. i \in 2 .. Len(w) /\ i \in 1 .. Len(w) /\ i - 1 \in 1 .. Len(w)
      BY <1>1, <1>3, <2>2 DEF v
    <3>2. v[i] = w[i] /\ v[i - 1] = w[i - 1]
      BY <1>1, <3>1 DEF v
    <3> QED
      BY <3>1, <3>2 DEF Paired
  <2> QED
    BY <2>1, <2>2
<1> QED
  BY <1>2, <1>3 DEF Paired, v

\* A break code, with the byte before it.
LEMMA PairedBreak ==
    ASSUME NEW w \in Seq(Sent), NEW x \in Sent, NEW y \in Sent, Paired(w),
           x.code = "F0", y.code = "break"
    PROVE  Paired(w \o <<x, y>>)
<1>1. /\ w \o <<x, y>> \in Seq(Sent) /\ Len(w \o <<x, y>>) = Len(w) + 2 /\ Len(w) \in Nat
      /\ \A i \in 1 .. Len(w) : (w \o <<x, y>>)[i] = w[i]
      /\ (w \o <<x, y>>)[Len(w) + 1] = x
      /\ (w \o <<x, y>>)[Len(w) + 2] = y
  BY AppendedTwo
<1> DEFINE v == w \o <<x, y>>
<1> HIDE DEF v
<1>2. v[Len(v)].code # "F0"
  BY <1>1 DEF v
<1>3. ASSUME NEW i \in 2 .. Len(v)
      PROVE  v[i].code = "break" <=> v[i - 1].code = "F0"
  <2>1. CASE i = Len(w) + 2
    <3>1. i - 1 = Len(w) + 1
      BY <1>1, <2>1
    <3> QED
      BY <1>1, <2>1, <3>1 DEF v
  <2>2. CASE i = Len(w) + 1
    <3>1. w # << >> /\ Len(w) \in 1 .. Len(w) /\ i - 1 = Len(w)
      BY <1>1, <1>3, <2>2 DEF v
    <3>2. v[i - 1] = w[Len(w)] /\ v[i] = x
      BY <1>1, <2>2, <3>1 DEF v
    <3> QED
      BY <3>1, <3>2 DEF Paired
  <2>3. CASE i # Len(w) + 1 /\ i # Len(w) + 2
    <3>1. i \in 2 .. Len(w) /\ i \in 1 .. Len(w) /\ i - 1 \in 1 .. Len(w)
      BY <1>1, <1>3, <2>3 DEF v
    <3>2. v[i] = w[i] /\ v[i - 1] = w[i - 1]
      BY <1>1, <3>1 DEF v
    <3> QED
      BY <3>1, <3>2 DEF Paired
  <2> QED
    BY <2>1, <2>2, <2>3
<1> QED
  BY <1>2, <1>3 DEF Paired, v

\* The first byte taken away.
LEMMA PairedRest ==
    ASSUME NEW w \in Seq(Sent), w # << >>, Paired(w)
    PROVE  /\ Paired(Tail(w))
           /\ Tail(w) # << >> /\ Tail(w)[1].code = "break" <=> w[1].code = "F0"
<1>1. /\ Len(w) \in Nat /\ Len(w) >= 1
      /\ Tail(w) \in Seq(Sent) /\ Len(Tail(w)) = Len(w) - 1
      /\ \A i \in 1 .. Len(w) - 1 : Tail(w)[i] = w[i + 1]
  BY Popped
<1> DEFINE v == Tail(w)
<1> HIDE DEF v
<1>2. ASSUME v # << >>
      PROVE  v[Len(v)].code # "F0"
  <2>1. Len(v) \in 1 .. Len(w) - 1 /\ Len(v) + 1 = Len(w)
    BY <1>1, <1>2 DEF v
  <2>2. v[Len(v)] = w[Len(v) + 1]
    BY <1>1, <2>1 DEF v
  <2> QED
    BY <2>1, <2>2 DEF Paired
<1>3. ASSUME NEW i \in 2 .. Len(v)
      PROVE  v[i].code = "break" <=> v[i - 1].code = "F0"
  <2>1. i + 1 \in 2 .. Len(w) /\ i \in 1 .. Len(w) - 1 /\ i - 1 \in 1 .. Len(w) - 1
    BY <1>1, <1>3 DEF v
  <2>2. v[i] = w[i + 1] /\ v[i - 1] = w[(i - 1) + 1] /\ (i - 1) + 1 = (i + 1) - 1
    BY <1>1, <2>1 DEF v
  <2> QED
    BY <2>1, <2>2 DEF Paired
<1>4. v # << >> /\ v[1].code = "break" <=> w[1].code = "F0"
  <2>1. CASE v = << >>
    <3>1. Len(w) = 1
      BY <1>1, <2>1 DEF v
    <3>2. w[1].code # "F0"
      BY <3>1 DEF Paired
    <3> QED
      BY <2>1, <3>2
  <2>2. CASE v # << >>
    <3>1. 1 \in 1 .. Len(w) - 1 /\ 2 \in 2 .. Len(w)
      BY <1>1, <2>2 DEF v
    <3>2. v[1] = w[1 + 1]
      BY <1>1, <3>1 DEF v
    <3>3. v[1] = w[2]
      BY <3>2
    <3>4. w[2].code = "break" <=> w[2 - 1].code = "F0"
      BY <3>1 DEF Paired
    <3>5. 2 - 1 = 1
      OBVIOUS
    <3> QED
      BY <2>2, <3>3, <3>4, <3>5
  <2> QED
    BY <2>1, <2>2
<1> QED
  BY <1>2, <1>3, <1>4 DEF Paired, v

\* What a byte that was written to the keyboard makes of its bytes.
LEMMA DeliverDoes ==
    ASSUME Types, Setting, Deliver
    PROVE  /\ pc > 27 /\ ibf # << >> /\ ibf' = << >> /\ config' = config /\ expects' = expects
           /\ UNCHANGED <<pic, thread, serial, obf, data, answers, brk, early, handler, firmware>>
           /\ alive' \in BOOLEAN /\ refused' \in BOOLEAN /\ argument' \in {"none", "F0", "F3"}
           /\ holding' = holding
           /\ \/ \E b \in Sent : b.code \in {"FE", "FA"} /\ out' = Append(out, b)
              \/ /\ ibf = Reset
                 /\ \E b \in Sent : b.code \in {"AA", "FC"} /\ out' = <<Byte("FA"), b>>
<1>1. /\ ibf # << >> /\ ibf[1] = "data" /\ ~expects /\ ibf' = << >> /\ UNCHANGED <<config, expects>>
      /\ UNCHANGED <<pic, thread, serial, obf, data, answers, brk, early, holding, handler, firmware>>
  BY DEF Deliver
<1>2. pc > 27 /\ ibf \in ToKeyboard
  <2>1. pc \in 1 .. 49
    BY DEF Types
  <2> QED
    BY <1>1, <2>1 DEF Setting, Order
<1>3. PICK c \in {"FF", "F0", "02", "F4", "F3", "4A"} : ibf = <<"data", Byte(c)>>
  BY <1>2 DEF ToKeyboard
<1>4. ibf[2].code = c
  BY <1>3 DEF Byte
<1>5. \A d \in {"FE", "FA", "AA", "FC"} : Byte(d) \in Sent /\ Byte(d).code = d
  BY DEF Byte, Sent, Codes
<1>6. \/ /\ out' = Append(out, Byte("FE"))
         /\ refused' = (refused \/ c = "FF")
         /\ UNCHANGED <<argument, alive>>
      \/ /\ c = "FF"
         /\ alive' \in {TRUE, FALSE}
         /\ out' = <<Byte("FA"), Byte(IF alive' THEN "AA" ELSE "FC")>>
         /\ argument' = "none"
         /\ UNCHANGED refused
      \/ /\ out' = Append(out, Byte(IF c \in {"02", "4A"} /\ argument = "none" THEN "FE" ELSE "FA"))
         /\ argument' = IF c \in {"F0", "F3"} THEN c ELSE "none"
         /\ UNCHANGED <<refused, alive>>
  BY <1>4 DEF Deliver
<1>7. alive \in BOOLEAN /\ refused \in BOOLEAN /\ argument \in {"none", "F0", "F3"}
  BY DEF Types, KeyboardTypes
<1>8. alive' \in BOOLEAN /\ refused' \in BOOLEAN /\ argument' \in {"none", "F0", "F3"}
  BY <1>6, <1>7
<1>9. \/ \E b \in Sent : b.code \in {"FE", "FA"} /\ out' = Append(out, b)
      \/ /\ ibf = Reset
         /\ \E b \in Sent : b.code \in {"AA", "FC"} /\ out' = <<Byte("FA"), b>>
  <2>1. CASE out' = Append(out, Byte("FE"))
    BY <1>5, <2>1
  <2>2. CASE out' = Append(out, Byte(IF c \in {"02", "4A"} /\ argument = "none" THEN "FE" ELSE "FA"))
    <3>1. CASE c \in {"02", "4A"} /\ argument = "none"
      BY <1>5, <2>2, <3>1
    <3>2. CASE ~(c \in {"02", "4A"} /\ argument = "none")
      BY <1>5, <2>2, <3>2
    <3> QED
      BY <3>1, <3>2
  <2>3. CASE c = "FF" /\ out' = <<Byte("FA"), Byte(IF alive' THEN "AA" ELSE "FC")>>
    <3>1. ibf = Reset
      BY <1>3, <2>3 DEF Reset
    <3>2. CASE alive'
      BY <1>5, <2>3, <3>1, <3>2
    <3>3. CASE ~alive'
      BY <1>5, <2>3, <3>1, <3>3
    <3> QED
      BY <3>2, <3>3
  <2> QED
    BY <1>6, <2>1, <2>2, <2>3
<1> QED
  BY <1>1, <1>2, <1>8, <1>9

\* What a key does to them.
LEMMA KeyDoes ==
    ASSUME Types, Key
    PROVE  /\ UNCHANGED <<pic, thread, serial, controller, argument, alive, brk, refused, handler, firmware>>
           /\ holding' \in BOOLEAN /\ early' \in BOOLEAN
           /\ early => early'
           /\ pc < 47 => early'
           /\ pc >= 47 => early' = early
           /\ \/ \E x \in Sent, y \in Sent :
                    x.code = "F0" /\ y.code = "break" /\ out' = out \o <<x, y>>
              \/ \E x \in Sent : x.code = "make" /\ out' = Append(out, x)
<1>1. /\ UNCHANGED <<pic, thread, serial, controller, argument, alive, brk, refused, handler, firmware>>
      /\ holding' = ~holding /\ early' = (early \/ pc < 47)
      /\ out' = out \o (IF holding THEN <<Byte("F0"), Byte("break")>> ELSE <<Byte("make")>>)
  BY Program DEF Key
<1>2. pc \in 1 .. 49 /\ early \in BOOLEAN /\ holding \in BOOLEAN /\ out \in Seq(Sent)
  BY DEF Types, KeyboardTypes
<1>3. \A d \in {"F0", "break", "make"} : Byte(d) \in Sent /\ Byte(d).code = d
  BY DEF Byte, Sent, Codes
<1>4. holding' \in BOOLEAN /\ early' \in BOOLEAN /\ (early => early') /\ (pc < 47 => early')
  BY <1>1, <1>2
<1>5. pc >= 47 => early' = early
  BY <1>1, <1>2
<1>6. \/ \E x \in Sent, y \in Sent :
            x.code = "F0" /\ y.code = "break" /\ out' = out \o <<x, y>>
      \/ \E x \in Sent : x.code = "make" /\ out' = Append(out, x)
  <2>1. CASE holding
    <3>1. out' = out \o <<Byte("F0"), Byte("break")>>
      BY <1>1, <2>1
    <3> QED
      BY <1>3, <3>1
  <2>2. CASE ~holding
    <3>1. out' = out \o <<Byte("make")>> /\ Byte("make") \in Sent
      BY <1>1, <1>3, <2>2
    <3>2. out' = Append(out, Byte("make"))
      BY <1>2, <3>1
    <3> QED
      BY <1>3, <3>2
  <2> QED
    BY <1>2, <2>1, <2>2
<1> QED
  BY <1>1, <1>4, <1>5, <1>6

\* What sending does.
LEMMA SendDoes ==
    ASSUME Types, Send
    PROVE  /\ out # << >> /\ ~obf /\ "off1" \notin config
           /\ out' = Tail(out) /\ imr' = imr
           /\ brk' \in BOOLEAN /\ obf' \in BOOLEAN
           /\ \/ /\ "xlat" \in config /\ out[1].code = "F0"
                 /\ brk' /\ ~obf' /\ data' = data
              \/ /\ "xlat" \notin config \/ out[1].code # "F0"
                 /\ ~brk' /\ obf'
                 /\ brk => data' = Byte("released")
                 /\ ~brk => data' = out[1]
           /\ UNCHANGED <<thread, serial, ibf, config, expects, answers, argument, alive, holding, early,
                          refused, handler, firmware>>
<1>1. out \in Seq(Sent) /\ out # << >> /\ brk \in BOOLEAN
  BY DEF Types, KeyboardTypes, Send
<1>2. Head(out) = out[1]
  BY <1>1, Popped
<1>3. /\ out' = Tail(out) /\ ~obf /\ "off1" \notin config
      /\ brk' = ("xlat" \in config /\ out[1].code = "F0")
      /\ obf' = ~("xlat" \in config /\ out[1].code = "F0")
      /\ data' = IF "xlat" \in config /\ out[1].code = "F0" THEN data
                 ELSE IF brk THEN Byte("released") ELSE out[1]
      /\ imr' = imr
      /\ UNCHANGED <<thread, serial, ibf, config, expects, answers, argument, alive, holding, early,
                     refused, handler, firmware>>
  BY <1>2, LineKeepsMask DEF Send
<1>4. CASE "xlat" \in config /\ out[1].code = "F0"
  BY <1>1, <1>3, <1>4
<1>5. CASE ~("xlat" \in config /\ out[1].code = "F0")
  BY <1>1, <1>3, <1>5
<1> QED
  BY <1>4, <1>5

-----------------------------------------------------------------------------
(* The handler.                                                            *)

\* The byte it reads.
LEMMA KbReadDoes ==
    ASSUME Types, KbRead
    PROVE  /\ h = "read" /\ h' = "eoi" /\ obf /\ obf' = FALSE /\ data' = data /\ imr' = imr
           /\ awaiting_break_code' = (data.code = "F0") /\ stolen' \in BOOLEAN
           /\ misread' = IF /\ pc = 49 /\ data.code \in {"make", "break"}
                            /\ awaiting_break_code <=> data.code = "make"
                         THEN misread + 1 ELSE misread
           /\ SER_write \/ UNCHANGED <<uart, tx_busy, hit>>
           /\ UNCHANGED <<thread, working, inputs, ibf, config, expects, answers, keyboard, firmware>>
<1>1. pc \in 1 .. 49 /\ awaiting_break_code \in BOOLEAN /\ stolen \in BOOLEAN
      /\ (h = "read" => obf)
  BY DEF Types, HandlerTypes
<1>2. Booted <=> pc = 49
  BY <1>1, Where
<1>3. /\ h = "read" /\ h' = "eoi" /\ TakeByte
      /\ awaiting_break_code' = (data.code = "F0")
      /\ stolen' = (stolen \/ data.code = "config")
      /\ UNCHANGED <<thread, working, inputs, ibf, config, expects, answers, keyboard, firmware>>
      /\ SER_write \/ UNCHANGED <<uart, tx_busy, hit>>
  BY DEF KbRead, NextAwaiting
<1>4. misread' = IF /\ pc = 49 /\ data.code \in {"make", "break"}
                    /\ awaiting_break_code <=> data.code = "make"
                 THEN misread + 1 ELSE misread
  <2> DEFINE prints == ~awaiting_break_code /\ data.code \in {"make", "break"}
  <2>1. misread' = IF Booted /\ data.code \in {"make", "break"} /\ prints # (data.code = "make")
                   THEN misread + 1 ELSE misread
    BY DEF KbRead
  <2>2. data.code \in {"make", "break"} =>
           (prints # (data.code = "make") <=> (awaiting_break_code <=> data.code = "make"))
    BY <1>1
  <2> HIDE DEF prints
  <2> QED
    BY <1>2, <2>1, <2>2
<1> QED
  BY <1>1, <1>3, <1>4, ByteTaken

\* The rest of it.
Aside == Interrupt \/ KbStatus \/ KbEoi

LEMMA AsideDoes ==
    ASSUME Types, Aside
    PROVE  /\ imr' = imr /\ h' \in {"none", "status", "read", "eoi"}
           /\ h' = "read" => obf
           /\ h # "none" \/ 1 \notin imr
           /\ UNCHANGED <<thread, serial, controller, keyboard, awaiting_break_code, stolen, misread, firmware>>
<1>1. CASE Interrupt
  BY <1>1 DEF Interrupt, Highest, Requested, Acknowledge
<1>2. CASE KbStatus
  BY <1>2 DEF KbStatus, pic
<1>3. CASE KbEoi
  BY <1>3 DEF KbEoi, Eoi
<1> QED
  BY <1>1, <1>2, <1>3 DEF Aside

-----------------------------------------------------------------------------
(* The invariant is inductive.                                             *)

\* The steps, sorted by what they disturb.
LEMMA Kinds ==
    ASSUME [Next]_vars
    PROVE  \/ Command \/ Write \/ Takes \/ Passes
           \/ Receive \/ Obey \/ Configure \/ Deliver \/ Send \/ Key
           \/ Aside \/ KbRead \/ UNCHANGED vars
BY DEF Next, Thread, Handler, Takes, Passes, Aside

\* The UART,
LEMMA PortKept ==
    ASSUME Types, Port, [Next]_vars
    PROVE  SerialTypes' /\ Port'
<1>1. pc \in 1 .. 49 /\ SerialTypes
  BY DEF Types
<1>2. CASE Outb
  BY <1>1, <1>2, OutbKeepsPort
<1>3. CASE Check \/ Initialized
  BY <1>1, <1>3, CheckKeepsPort
<1>4. CASE Receive \/ SerReset
  BY <1>1, <1>4, OthersKeepPort
<1>5. CASE KbRead
  <2>1. SER_write \/ UNCHANGED <<uart, tx_busy, hit>>
    BY <1>5, KbReadDoes
  <2>2. UNCHANGED <<pc, working, inputs>>
    BY <1>5 DEF KbRead, thread
  <2>3. (SER_write /\ UNCHANGED <<pc, working, inputs>>) \/ UNCHANGED <<pc, serial>>
    BY <2>1, <2>2 DEF serial
  <2> QED
    BY <1>1, <2>3, OthersKeepPort
<1>6. CASE Obey \/ Configure \/ Deliver \/ Send \/ Key \/ Interrupt \/ KbStatus \/ KbEoi \/ UNCHANGED vars
  <2>1. UNCHANGED <<pc, serial>>
    BY <1>6 DEF Obey, Configure, Deliver, Send, Key, Interrupt, KbStatus, KbEoi, vars, thread
  <2> QED
    BY <1>1, <2>1, OthersKeepPort
<1>7. CASE Command \/ Write \/ Poll \/ Read \/ Skip \/ Test \/ Flush \/ Discard \/ ReadMask \/ WriteMask
  <2>1. UNCHANGED serial
    BY <1>7 DEF Command, Write, Poll, Read, Skip, Test, Flush, Discard, ReadMask, WriteMask
  <2>2. pc > 14 /\ pc' > 14
    <3>1. CASE Command \/ Write \/ Read \/ Skip \/ Test \/ Discard
      BY <1>1, <3>1, Places DEF Takes
    <3>4. CASE Poll
      BY <1>1, <3>4, Where DEF Poll, Step, Goto
    <3>5. CASE Flush
      BY <1>1, <3>5, Where DEF Flush, Goto
    <3>6. CASE ReadMask
      BY <1>1, <3>6, Where DEF ReadMask, Step, Goto
    <3>7. CASE WriteMask
      BY <1>1, <3>7, Where DEF WriteMask, Step, Goto
    <3> QED
      BY <1>7, <3>1, <3>4, <3>5, <3>6, <3>7
  <2>3. pc \in Nat /\ pc' \in Nat
    <3>1. pc' \in 1 .. 49
      <4>1. CASE Command \/ Write \/ Read \/ Skip \/ Test \/ Discard
        BY <1>1, <4>1, Places DEF Takes
      <4>4. CASE Poll \/ Flush \/ ReadMask \/ WriteMask
        <5>1. Passes
          BY <4>4 DEF Passes
        <5> QED
          BY <1>1, <5>1, PassesDoes
      <4> QED
        BY <1>7, <4>1, <4>4
    <3> QED
      BY <1>1, <3>1
  <2> QED
    BY <1>1, <2>1, <2>2, <2>3 DEF SerialTypes, Port, serial
<1> QED
  BY <1>2, <1>3, <1>4, <1>5, <1>6, <1>7, Kinds DEF Takes, Passes, Aside

\* line 1,
LEMMA MaskedKept ==
    ASSUME Types, Masked, [Next]_vars
    PROVE  Masked'
<1>1. pc \in 1 .. 49
  BY DEF Types
<1>2. CASE Command \/ Write \/ Takes
  <2>1. h' = h /\ imr' = imr
    BY <1>1, <1>2, TakesDoes DEF Command, Write, pic, handler
  <2>2. pc' \in 27 .. 48 => pc \in 27 .. 48
    BY <1>2, <1>1, Places
  <2> QED
    BY <2>1, <2>2 DEF Masked
<1>5. CASE Passes
  <2>1. h' = h /\ h = "none"
    BY <1>1, <1>5, PassesDoes DEF handler
  <2>2. \/ pc' \notin 27 .. 48
        \/ pc \in 27 .. 48 /\ imr' = imr
        \/ imr' = value \cup {1}
    BY <1>1, <1>5, PassesDoes
  <2> QED
    BY <2>1, <2>2 DEF Masked
<1>6. CASE Aside
  BY <1>6, AsideDoes DEF Masked, thread
<1>7. CASE KbRead
  BY <1>7, KbReadDoes DEF Masked, thread
<1>8. CASE Receive \/ Deliver \/ Key \/ UNCHANGED vars
  BY <1>8 DEF Receive, Deliver, Key, Masked, vars, thread, pic, handler
<1>9. CASE Obey \/ Configure \/ Send
  <2>1. UNCHANGED <<pc, h>> /\ imr' = imr
    BY <1>9, LineKeepsMask DEF Obey, Configure, Send, thread, handler
  <2> QED
    BY <2>1 DEF Masked
<1> QED
  BY <1>2, <1>5, <1>6, <1>7, <1>8, <1>9, Kinds

\* the configuration.
LEMMA SettingKept ==
    ASSUME Types, Setting, [Next]_vars
    PROVE  Setting'
<1>1. pc \in 1 .. 49 /\ expects \in BOOLEAN /\ obf \in BOOLEAN
  BY DEF Types, ControllerTypes
<1>2. CASE Thread
  BY <1>2, KmainKeepsSetting
<1>3. CASE Obey \/ Configure \/ Deliver
  BY <1>3, ControllerKeepsSetting
<1>4. CASE Send
  <2>1. "off1" \notin config /\ UNCHANGED <<pc, ibf, config, expects, firmware, got>>
    BY <1>4, SendDoes DEF thread
  <2>2. pc \notin 19 .. 21
    BY <1>1, <2>1, NewConfiguration DEF Setting
  <2> QED
    BY <2>1, <2>2, SettingStays
<1>5. CASE KbRead
  <2>1. UNCHANGED <<pc, ibf, config, expects, firmware, got>> /\ data' = data /\ obf' = FALSE
    BY <1>5, KbReadDoes DEF thread
  <2> QED
    BY <2>1, SettingStays
<1>6. CASE Receive \/ Key \/ Aside \/ UNCHANGED vars
  <2>1. UNCHANGED <<thread, controller, firmware>>
    BY <1>6, AsideDoes DEF Receive, Key, vars
  <2>2. UNCHANGED <<pc, ibf, config, expects, firmware, got>> /\ data' = data /\ obf' = obf
    BY <2>1 DEF thread, controller
  <2> QED
    BY <2>2, SettingStays
<1> QED
  BY <1>2, <1>3, <1>4, <1>5, <1>6 DEF Next, Handler, Aside

\* Bytes of the controller's and the keyboard's own.
LEMMA OwnBytes ==
    /\ \A bits \in SUBSET Bits : ConfigByte(bits) \in ByteType
    /\ Byte("released") \in ByteType /\ Byte("released").code = "released"
    /\ Sent \subseteq ByteType
    /\ \A b \in Sent : b.code \in Codes \ {"none", "config"}
    /\ firmware \in SUBSET Bits => Intended \in SUBSET Bits
BY DEF ConfigByte, ByteType, Byte, Codes, Sent, Intended, Bits

\* Every variable keeps its type: those of the controller,
LEMMA ControllerTypesKept ==
    ASSUME Types, Setting, [Next]_vars
    PROVE  ControllerTypes'
<1>1. pc \in 1 .. 49 /\ ControllerTypes
  BY DEF Types
<1>2. CASE Command \/ Write \/ Passes \/ Receive \/ Key \/ Aside \/ UNCHANGED vars
  <2>1. UNCHANGED <<got, obf, data, config, firmware, expects, answers>>
    <3>1. CASE Command \/ Write
      BY <3>1 DEF Command, Write
    <3>2. CASE Passes
      BY <1>1, <3>2, PassesDoes DEF controller
    <3>3. CASE Aside
      BY <3>3, AsideDoes DEF controller, thread
    <3>4. CASE Receive \/ Key \/ UNCHANGED vars
      BY <3>4 DEF Receive, Key, vars, controller, thread
    <3> QED
      BY <1>2, <3>1, <3>2, <3>3, <3>4
  <2> QED
    BY <1>1, <2>1 DEF ControllerTypes
<1>3. CASE Takes
  <2>1. obf' = FALSE /\ data' = data /\ got' \in {data, got}
        /\ UNCHANGED <<config, firmware, expects, answers>>
    BY <1>1, <1>3, TakesDoes
  <2> QED
    BY <1>1, <2>1 DEF ControllerTypes
<1>4. CASE Obey
  <2>1. UNCHANGED <<got, firmware, answers>>
    BY <1>4 DEF Obey, thread
  <2>2. /\ config' \in {config \cup {"off1"}, config \ {"off1"}, config \cup {"off2"}, config}
        /\ expects' \in BOOLEAN /\ obf' \in BOOLEAN /\ data' \in {ConfigByte(config), data}
    BY <1>1, <1>4 DEF Obey, ConfigByte, ControllerTypes
  <2>3. config' \in SUBSET Bits
    BY <1>1, <2>2 DEF ControllerTypes, Bits
  <2>4. data' \in ByteType
    BY <1>1, <2>2, OwnBytes DEF ControllerTypes
  <2> QED
    BY <1>1, <2>1, <2>2, <2>3, <2>4 DEF ControllerTypes
<1>5. CASE Configure
  <2>1. /\ expects /\ ibf # << >> /\ ibf[1] = "data" /\ expects' = FALSE /\ config' = ibf[2].bits
        /\ UNCHANGED <<got, obf, data, answers, firmware>>
    BY <1>5 DEF Configure, thread
  <2>2. ibf = <<"data", ConfigByte(Intended)>>
    BY <2>1 DEF Setting, Order
  <2>3. config' = Intended
    BY <2>1, <2>2 DEF ConfigByte
  <2>4. config' \in SUBSET Bits /\ expects' \in BOOLEAN
    BY <1>1, <2>1, <2>3, OwnBytes DEF ControllerTypes
  <2> QED
    BY <1>1, <2>1, <2>4 DEF ControllerTypes
<1>6. CASE Deliver
  BY <1>1, <1>6, DeliverDoes DEF ControllerTypes, thread
<1>7. CASE Send
  <2>1. /\ obf' \in BOOLEAN /\ data' \in {data, Byte("released"), out[1]} /\ out # << >>
        /\ UNCHANGED <<got, config, expects, answers, firmware>>
    BY <1>7, SendDoes DEF thread
  <2>2. out[1] \in Sent
    BY <2>1, Popped DEF Types, KeyboardTypes
  <2>3. data' \in ByteType
    BY <1>1, <2>1, <2>2, OwnBytes DEF ControllerTypes
  <2> QED
    BY <1>1, <2>1, <2>3 DEF ControllerTypes
<1>8. CASE KbRead
  BY <1>1, <1>8, KbReadDoes DEF ControllerTypes, thread
<1> QED
  BY <1>2, <1>3, <1>4, <1>5, <1>6, <1>7, <1>8, Kinds

\* those of the keyboard,
LEMMA KeyboardTypesKept ==
    ASSUME Types, Setting, [Next]_vars
    PROVE  KeyboardTypes'
<1>1. pc \in 1 .. 49 /\ KeyboardTypes
  BY DEF Types
<1>2. CASE Deliver
  <2>1. /\ UNCHANGED <<brk, early, holding>>
        /\ alive' \in BOOLEAN /\ refused' \in BOOLEAN /\ argument' \in {"none", "F0", "F3"}
        /\ \/ \E b \in Sent : b.code \in {"FE", "FA"} /\ out' = Append(out, b)
           \/ \E b \in Sent : b.code \in {"AA", "FC"} /\ out' = <<Byte("FA"), b>>
    BY <1>2, DeliverDoes
  <2>2. Byte("FA") \in Sent
    BY DEF Byte, Sent, Codes
  <2>3. out' \in Seq(Sent)
    <3>1. CASE \E b \in Sent : b.code \in {"FE", "FA"} /\ out' = Append(out, b)
      <4>1. out \in Seq(Sent)
        BY <1>1 DEF KeyboardTypes
      <4> QED
        BY <3>1, <4>1, Appended
    <3>2. CASE \E b \in Sent : b.code \in {"AA", "FC"} /\ out' = <<Byte("FA"), b>>
      <4>1. PICK b \in Sent : out' = <<Byte("FA"), b>>
        BY <3>2
      <4> QED
        BY <2>2, <4>1
    <3> QED
      BY <2>1, <3>1, <3>2
  <2> QED
    BY <1>1, <2>1, <2>3 DEF KeyboardTypes
<1>3. CASE Key
  <2>1. /\ UNCHANGED <<argument, alive, brk, refused>> /\ holding' \in BOOLEAN /\ early' \in BOOLEAN
        /\ \/ \E x \in Sent, y \in Sent :
                 x.code = "F0" /\ y.code = "break" /\ out' = out \o <<x, y>>
           \/ \E x \in Sent : x.code = "make" /\ out' = Append(out, x)
    BY <1>3, KeyDoes
  <2>2. out' \in Seq(Sent)
    <3>1. out \in Seq(Sent)
      BY <1>1 DEF KeyboardTypes
    <3>2. CASE \E x \in Sent : x.code = "make" /\ out' = Append(out, x)
      BY <3>1, <3>2, Appended
    <3>3. ASSUME NEW x \in Sent, NEW y \in Sent, out' = out \o <<x, y>>
          PROVE  out' \in Seq(Sent)
      BY <3>1, <3>3, AppendedTwo
    <3> QED
      BY <2>1, <3>2, <3>3
  <2> QED
    BY <1>1, <2>1, <2>2 DEF KeyboardTypes
<1>4. CASE Send
  <2>1. out' = Tail(out) /\ out # << >> /\ brk' \in BOOLEAN
        /\ UNCHANGED <<argument, alive, holding, early, refused>>
    BY <1>4, SendDoes
  <2>2. out' \in Seq(Sent)
    BY <1>1, <2>1, Popped DEF KeyboardTypes
  <2> QED
    BY <1>1, <2>1, <2>2 DEF KeyboardTypes
<1>5. CASE ~(Deliver \/ Key \/ Send)
  <2>1. UNCHANGED keyboard
    <3>1. CASE Command \/ Write \/ Receive \/ Obey \/ Configure \/ UNCHANGED vars
      BY <3>1 DEF Command, Write, Receive, Obey, Configure, vars
    <3>2. CASE Passes
      BY <1>1, <3>2, PassesDoes
    <3>3. CASE Takes
      BY <1>1, <3>3, TakesDoes
    <3>4. CASE Aside
      BY <3>4, AsideDoes
    <3>5. CASE KbRead
      BY <3>5, KbReadDoes
    <3> QED
      BY <1>5, <3>1, <3>2, <3>3, <3>4, <3>5, Kinds
  <2> QED
    BY <1>1, <2>1 DEF KeyboardTypes, keyboard
<1> QED
  BY <1>2, <1>3, <1>4, <1>5

\* and those of the handler and of kmain.
LEMMA TypesKept ==
    ASSUME Types, Port, Setting, [Next]_vars
    PROVE  Types'
<1>1. pc \in 1 .. 49 /\ value \in SUBSET {1} /\ imr \in SUBSET {1} /\ HandlerTypes
      /\ obf \in BOOLEAN
  BY DEF Types, ControllerTypes
<1>2. SerialTypes' /\ ControllerTypes' /\ KeyboardTypes'
  BY PortKept, ControllerTypesKept, KeyboardTypesKept
<1>3. pc' \in 1 .. 49 /\ value' \in SUBSET {1} /\ imr' \in SUBSET {1}
  <2>1. CASE Command \/ Write \/ Takes
    <3>1. UNCHANGED value /\ imr' = imr
      BY <1>1, <2>1, TakesDoes DEF Command, Write, pic
    <3>2. pc' \in 1 .. 49
      BY <1>1, <2>1, Places
    <3> QED
      BY <1>1, <3>1, <3>2
  <2>2. CASE Passes
    <3>1. pc' \in 1 .. 49
      BY <1>1, <2>2, PassesDoes
    <3>2. value' \in {value, imr} /\ imr' \in {imr, value \cup {1}, value \ {1}}
      BY <1>1, <2>2, PassesDoes
    <3> QED
      BY <1>1, <3>1, <3>2
  <2>3. CASE Receive \/ Deliver \/ Key \/ UNCHANGED vars
    BY <1>1, <2>3 DEF Receive, Deliver, Key, vars, thread, pic
  <2>4. CASE Obey \/ Configure \/ Send
    <3>1. UNCHANGED thread /\ imr' = imr
      BY <2>4, LineKeepsMask DEF Obey, Configure, Send
    <3> QED
      BY <1>1, <3>1 DEF thread
  <2>5. CASE Aside
    BY <1>1, <2>5, AsideDoes DEF thread
  <2>6. CASE KbRead
    BY <1>1, <2>6, KbReadDoes DEF thread
  <2> QED
    BY <2>1, <2>2, <2>3, <2>4, <2>5, <2>6, Kinds
<1>4. HandlerTypes'
  <2>1. CASE Aside
    <3>1. /\ h' \in {"none", "status", "read", "eoi"} /\ (h' = "read" => obf)
          /\ UNCHANGED <<controller, awaiting_break_code, stolen, misread>>
      BY <2>1, AsideDoes
    <3> QED
      BY <1>1, <3>1 DEF HandlerTypes, controller
  <2>2. CASE KbRead
    BY <1>1, <2>2, KbReadDoes DEF HandlerTypes
  <2>3. CASE Takes
    <3>1. h = "none" /\ UNCHANGED handler
      BY <1>1, <2>3, TakesDoes
    <3> QED
      BY <1>1, <3>1 DEF HandlerTypes, handler
  <2>4. CASE Command \/ Write \/ Passes \/ Receive \/ Configure \/ Deliver \/ Key \/ UNCHANGED vars
    <3>1. UNCHANGED handler /\ obf' = obf
      BY <1>1, <2>4, PassesDoes
         DEF Command, Write, Receive, Configure, Deliver, Key, vars, controller
    <3> QED
      BY <1>1, <3>1 DEF HandlerTypes, handler
  <2>5. CASE Obey \/ Send
    <3>1. UNCHANGED handler
      BY <2>5 DEF Obey, Send
    <3>2. obf => obf'
      BY <1>1, <2>5, SendDoes DEF Obey
    <3> QED
      BY <1>1, <3>1, <3>2 DEF HandlerTypes, handler
  <2> QED
    BY <2>1, <2>2, <2>3, <2>4, <2>5, Kinds
<1> QED
  BY <1>2, <1>3, <1>4 DEF Types

\* What the invariant says of the bytes, for any of them.
StreamOf(w, d, b, at, in) ==
    /\ Paired(w)
    /\ b => w # << >> /\ w[1].code # "F0"
    /\ at <= 27 \/ in = Reset =>
          d.code \notin Results /\ \A i \in 1 .. Len(w) : w[i].code \notin Results
    /\ at >= 32 => in # Reset
    /\ at >= 32 \/ d.code \in Results =>
          ~b /\ (w # << >> /\ w[1].code = "break" <=> d.code = "F0")

LEMMA StreamIs == Stream <=> StreamOf(out, data, brk, pc, ibf)
BY DEF Stream, StreamOf, Unreset, BreakNext

\* The first byte when something is appended.
LEMMA FirstAppended ==
    ASSUME NEW S, NEW w \in Seq(S), NEW x \in S
    PROVE  Append(w, x) # << >> /\ Append(w, x)[1] = IF w = << >> THEN x ELSE w[1]
<1>1. /\ Append(w, x) \in Seq(S) /\ Len(Append(w, x)) = Len(w) + 1 /\ Len(w) \in Nat
      /\ \A i \in 1 .. Len(w) : Append(w, x)[i] = w[i]
      /\ Append(w, x)[Len(w) + 1] = x
  BY Appended
<1>2. Append(w, x) # << >>
  BY <1>1
<1>3. CASE w = << >>
  BY <1>1, <1>2, <1>3
<1>4. CASE w # << >>
  <2>1. 1 \in 1 .. Len(w)
    BY <1>1, <1>4
  <2> QED
    BY <1>1, <1>2, <1>4, <2>1
<1> QED
  BY <1>3, <1>4

LEMMA FirstAppendedTwo ==
    ASSUME NEW S, NEW w \in Seq(S), NEW x \in S, NEW y \in S
    PROVE  w \o <<x, y>> # << >> /\ (w \o <<x, y>>)[1] = IF w = << >> THEN x ELSE w[1]
<1>1. /\ w \o <<x, y>> \in Seq(S) /\ Len(w \o <<x, y>>) = Len(w) + 2 /\ Len(w) \in Nat
      /\ \A i \in 1 .. Len(w) : (w \o <<x, y>>)[i] = w[i]
      /\ (w \o <<x, y>>)[Len(w) + 1] = x
  BY AppendedTwo
<1> DEFINE v == w \o <<x, y>>
<1> HIDE DEF v
<1>2. v # << >>
  BY <1>1 DEF v
<1>3. CASE w = << >>
  <2>1. Len(w) = 0
    BY <1>3
  <2> QED
    BY <1>1, <1>2, <1>3, <2>1 DEF v
<1>4. CASE w # << >>
  <2>1. 1 \in 1 .. Len(w)
    BY <1>1, <1>4
  <2> QED
    BY <1>1, <1>2, <1>4, <2>1 DEF v
<1> QED
  BY <1>3, <1>4 DEF v

\* A byte of the keyboard's is appended.
LEMMA StreamAppended ==
    ASSUME NEW w \in Seq(Sent), NEW x \in Sent, NEW d, NEW b, NEW at, NEW in, StreamOf(w, d, b, at, in),
           x.code \notin Results, x.code \notin {"F0", "break"}
    PROVE  StreamOf(Append(w, x), d, b, at, in)
<1>1. /\ Append(w, x) \in Seq(Sent) /\ Len(Append(w, x)) = Len(w) + 1 /\ Len(w) \in Nat
      /\ \A i \in 1 .. Len(w) : Append(w, x)[i] = w[i]
      /\ Append(w, x)[Len(w) + 1] = x
  BY Appended
<1>2. Paired(Append(w, x))
  BY PairedAnswer DEF StreamOf
<1> DEFINE v == Append(w, x)
<1> HIDE DEF v
<1>3. v # << >> /\ v[1] = IF w = << >> THEN x ELSE w[1]
  BY FirstAppended DEF v
<1>4. (\A i \in 1 .. Len(w) : w[i].code \notin Results) => \A i \in 1 .. Len(v) : v[i].code \notin Results
  <2> SUFFICES ASSUME \A i \in 1 .. Len(w) : w[i].code \notin Results, NEW i \in 1 .. Len(v)
               PROVE  v[i].code \notin Results
    OBVIOUS
  <2>1. i \in 1 .. Len(w) \/ i = Len(w) + 1
    BY <1>1 DEF v
  <2> QED
    BY <1>1, <2>1 DEF v
<1>5. v # << >> /\ v[1].code = "break" <=> w # << >> /\ w[1].code = "break"
  BY <1>3
<1>6. b => v # << >> /\ v[1].code # "F0"
  BY <1>3 DEF StreamOf
<1>7. Paired(v)
  BY <1>2 DEF v
<1> QED
  BY <1>4, <1>5, <1>6, <1>7 DEF StreamOf, v

\* A break code is appended.
LEMMA StreamAppendedBreak ==
    ASSUME NEW w \in Seq(Sent), NEW x \in Sent, NEW y \in Sent, NEW d, NEW b, NEW at, NEW in,
           StreamOf(w, d, b, at, in), x.code = "F0", y.code = "break"
    PROVE  StreamOf(w \o <<x, y>>, d, b, at, in)
<1>1. /\ w \o <<x, y>> \in Seq(Sent) /\ Len(w \o <<x, y>>) = Len(w) + 2 /\ Len(w) \in Nat
      /\ \A i \in 1 .. Len(w) : (w \o <<x, y>>)[i] = w[i]
      /\ (w \o <<x, y>>)[Len(w) + 1] = x
      /\ (w \o <<x, y>>)[Len(w) + 2] = y
  BY AppendedTwo
<1>2. Paired(w \o <<x, y>>)
  BY PairedBreak DEF StreamOf
<1> DEFINE v == w \o <<x, y>>
<1> HIDE DEF v
<1>3. v # << >> /\ v[1] = IF w = << >> THEN x ELSE w[1]
  BY FirstAppendedTwo DEF v
<1>4. (\A i \in 1 .. Len(w) : w[i].code \notin Results) => \A i \in 1 .. Len(v) : v[i].code \notin Results
  <2> SUFFICES ASSUME \A i \in 1 .. Len(w) : w[i].code \notin Results, NEW i \in 1 .. Len(v)
               PROVE  v[i].code \notin Results
    OBVIOUS
  <2>1. i \in 1 .. Len(w) \/ i = Len(w) + 1 \/ i = Len(w) + 2
    BY <1>1 DEF v
  <2> QED
    BY <1>1, <2>1 DEF v, Results
<1>5. v # << >> /\ v[1].code = "break" <=> w # << >> /\ w[1].code = "break"
  BY <1>3
<1>6. b => v # << >> /\ v[1].code # "F0"
  BY <1>3 DEF StreamOf
<1>7. Paired(v)
  BY <1>2 DEF v
<1> QED
  BY <1>4, <1>5, <1>6, <1>7 DEF StreamOf, v

\* The bytes to come.
LEMMA StreamKept ==
    ASSUME Types, Setting, Stream, Types', Setting', [Next]_vars
    PROVE  Stream'
<1>1. pc \in 1 .. 49 /\ out \in Seq(Sent) /\ StreamOf(out, data, brk, pc, ibf) /\ brk \in BOOLEAN
  BY StreamIs DEF Types, KeyboardTypes
<1> SUFFICES StreamOf(out, data, brk, pc, ibf)'
  BY StreamIs DEF Stream, StreamOf, Unreset, BreakNext
<1>2. CASE Command \/ Write \/ Takes \/ Passes
  <2>1. UNCHANGED <<out, brk, data>>
    BY <1>1, <1>2, TakesDoes, PassesDoes DEF Command, Write, keyboard, controller
  <2>2. pc' <= 27 \/ ibf' = Reset => pc <= 27 \/ ibf = Reset
    <3>1. CASE Command
      BY <1>1, <3>1, CommandDoes DEF Order, Reset
    <3>2. CASE Write
      <4>1. \A c \in {"F0", "02", "F4", "F3", "4A"} : <<"data", Byte(c)>> # Reset
        BY DEF Reset, Byte
      <4> QED
        BY <1>1, <3>2, <4>1, Places, WriteDoes
    <3>3. CASE Takes
      <4>1. ibf' = ibf
        BY <1>1, <3>3, TakesDoes
      <4>2. pc <= 27 \/ pc' > 27
        BY <1>1, <3>3, TakesMoves
      <4>3. pc' \in 15 .. 48
        BY <1>1, <3>3, Places
      <4> QED
        BY <1>1, <4>1, <4>2, <4>3
    <3>4. CASE Passes
      BY <1>1, <3>4, PassesDoes DEF controller
    <3> QED
      BY <1>2, <3>1, <3>2, <3>3, <3>4
  <2>3. pc' >= 32 => ibf' # Reset /\ (pc >= 32 \/ data.code \in Results)
    <3>1. CASE Command
      BY <1>1, <3>1, CommandDoes
    <3>2. CASE Write
      <4>1. \A c \in {"F0", "02", "F4", "F3", "4A"} : <<"data", Byte(c)>> # Reset
        BY DEF Reset, Byte
      <4> QED
        BY <1>1, <3>2, <4>1, WriteDoes
    <3>3. CASE Takes
      <4>1. ibf' = ibf
        BY <1>1, <3>3, TakesDoes
      <4>2. pc' >= 32 => pc >= 32 \/ (pc = 31 /\ data.code \in Results)
        BY <1>1, <3>3, TakesMoves DEF Results
      <4> QED
        BY <1>1, <4>1, <4>2 DEF StreamOf
    <3>4. CASE Passes
      BY <1>1, <3>4, PassesDoes DEF controller, StreamOf
    <3> QED
      BY <1>2, <3>1, <3>2, <3>3, <3>4
  <2> QED
    BY <1>1, <2>1, <2>2, <2>3 DEF StreamOf
<1>3. CASE Obey
  <2>1. /\ UNCHANGED <<pc, out, brk>> /\ ibf' = << >>
        /\ data' = data \/ data'.code = "config"
    BY <1>3 DEF Obey, thread, keyboard
  <2>2. pc <= 27
    <3>1. ibf # << >> /\ ibf[1] = "command"
      BY <1>3 DEF Obey
    <3>2. ibf \notin ToKeyboard
      BY <3>1 DEF ToKeyboard
    <3> QED
      BY <1>1, <3>1, <3>2 DEF Setting
  <2>3. data'.code \notin Results
    BY <1>1, <2>1, <2>2 DEF StreamOf, Results
  <2>4. ibf' # Reset
    BY <2>1 DEF Reset
  <2> QED
    BY <1>1, <2>1, <2>2, <2>3, <2>4 DEF StreamOf
<1>4. CASE Configure
  <2>1. UNCHANGED <<pc, out, brk, data>> /\ ibf' # Reset
    BY <1>4 DEF Configure, thread, keyboard, Reset
  <2> QED
    BY <1>1, <2>1 DEF StreamOf
<1>5. CASE Deliver
  <2>1. pc > 27 /\ UNCHANGED <<pc, data, brk>> /\ ibf' # Reset
    BY <1>5, DeliverDoes DEF thread, Reset
  <2>2. CASE \E b \in Sent : b.code \in {"FE", "FA"} /\ out' = Append(out, b)
    <3>1. PICK b \in Sent : b.code \in {"FE", "FA"} /\ out' = Append(out, b)
      BY <2>2
    <3>2. StreamOf(out', data, brk, pc, ibf)
      BY <1>1, <3>1, StreamAppended DEF Results
    <3> QED
      BY <2>1, <3>2 DEF StreamOf
  <2>3. CASE ibf = Reset /\ \E b \in Sent : b.code \in {"AA", "FC"} /\ out' = <<Byte("FA"), b>>
    <3>1. PICK b \in Sent : b.code \in {"AA", "FC"} /\ out' = <<Byte("FA"), b>>
      BY <2>3
    <3>2. Len(out') = 2 /\ out'[1].code = "FA" /\ out'[2] = b /\ out' # << >>
      BY <3>1 DEF Byte
    <3>3. Paired(out')
      <4>1. \A i \in 2 .. Len(out') : i = 2 /\ i - 1 = 1
        BY <3>2
      <4>2. \A i \in 2 .. Len(out') : out'[i].code # "break" /\ out'[i - 1].code # "F0"
        BY <3>1, <3>2, <4>1
      <4> QED
        BY <3>1, <3>2, <4>2 DEF Paired
    <3>4. pc < 32 /\ data.code \notin Results
      BY <1>1, <2>3 DEF StreamOf
    <3> QED
      BY <1>1, <2>1, <3>2, <3>3, <3>4 DEF StreamOf
  <2> QED
    BY <1>5, <2>2, <2>3, DeliverDoes
<1>6. CASE Send
  <2>1. /\ out # << >> /\ out' = Tail(out) /\ UNCHANGED <<pc, ibf>>
        /\ \/ /\ "xlat" \in config /\ out[1].code = "F0"
              /\ brk' /\ data' = data
           \/ /\ "xlat" \notin config \/ out[1].code # "F0"
              /\ ~brk'
              /\ brk => data' = Byte("released")
              /\ ~brk => data' = out[1]
    BY <1>6, SendDoes DEF thread
  <2>2. /\ out[1] \in Sent /\ Len(out) \in Nat /\ Len(out) >= 1
        /\ Tail(out) \in Seq(Sent) /\ Len(Tail(out)) = Len(out) - 1
        /\ \A i \in 1 .. Len(out) - 1 : Tail(out)[i] = out[i + 1]
    BY <1>1, <2>1, Popped
  <2>3. Paired(out') /\ (out' # << >> /\ out'[1].code = "break" <=> out[1].code = "F0")
    BY <1>1, <2>1, PairedRest DEF StreamOf
  <2>4. brk' => out' # << >> /\ out'[1].code # "F0"
    BY <2>1, <2>3
  <2>5. Byte("released").code = "released" /\ 1 \in 1 .. Len(out)
    BY <2>2 DEF Byte
  <2>6. pc <= 27 \/ ibf = Reset => data'.code \notin Results /\ \A i \in 1 .. Len(out') : out'[i].code \notin Results
    <3>1. SUFFICES ASSUME pc <= 27 \/ ibf = Reset
                   PROVE  data'.code \notin Results /\ \A i \in 1 .. Len(out') : out'[i].code \notin Results
      OBVIOUS
    <3>2. data.code \notin Results /\ \A i \in 1 .. Len(out) : out[i].code \notin Results
      BY <1>1, <3>1 DEF StreamOf
    <3>3. data'.code \notin Results
      BY <2>1, <2>5, <3>2 DEF Results
    <3>4. ASSUME NEW i \in 1 .. Len(out')
          PROVE  out'[i].code \notin Results
      <4>1. i \in 1 .. Len(out) - 1 /\ i + 1 \in 1 .. Len(out)
        BY <2>1, <2>2
      <4>2. out'[i] = out[i + 1]
        BY <2>1, <2>2, <4>1
      <4> QED
        BY <3>2, <4>1, <4>2
    <3> QED
      BY <3>3, <3>4
  <2>7. pc >= 32 => ibf # Reset
    BY <1>1 DEF StreamOf
  <2>8. ASSUME pc >= 32 \/ data'.code \in Results
        PROVE  ~brk' /\ (out' # << >> /\ out'[1].code = "break" <=> data'.code = "F0")
    <3>1. pc > 27
      <4>1. CASE pc <= 27
        BY <1>1, <2>6, <2>8, <4>1
      <4> QED
        BY <1>1, <4>1
    <3>2. "xlat" \notin config
      BY <1>1, <3>1, NewConfiguration DEF Setting
    <3>3. ~brk' /\ (brk => data'.code = "released") /\ (~brk => data' = out[1])
      BY <2>1, <2>5, <3>2
    <3>4. brk => out[1].code # "F0"
      BY <1>1 DEF StreamOf
    <3> QED
      BY <1>1, <2>3, <3>3, <3>4
  <2> QED
    BY <2>1, <2>3, <2>4, <2>6, <2>7, <2>8 DEF StreamOf
<1>7. CASE Key
  <2>1. UNCHANGED <<pc, data, brk, ibf>>
    BY <1>7, KeyDoes DEF thread, controller
  <2>2. CASE \E x \in Sent : x.code = "make" /\ out' = Append(out, x)
    <3>1. PICK x \in Sent : x.code = "make" /\ out' = Append(out, x)
      BY <2>2
    <3>2. StreamOf(out', data, brk, pc, ibf)
      BY <1>1, <3>1, StreamAppended DEF Results
    <3> QED
      BY <2>1, <3>2
  <2>3. CASE \E x \in Sent, y \in Sent : x.code = "F0" /\ y.code = "break" /\ out' = out \o <<x, y>>
    <3>1. PICK x \in Sent, y \in Sent : x.code = "F0" /\ y.code = "break" /\ out' = out \o <<x, y>>
      BY <2>3
    <3>2. StreamOf(out', data, brk, pc, ibf)
      BY <1>1, <3>1, StreamAppendedBreak
    <3> QED
      BY <2>1, <3>2
  <2> QED
    BY <1>7, <2>2, <2>3, KeyDoes
<1>8. CASE Receive \/ Aside \/ KbRead \/ UNCHANGED vars
  <2>1. UNCHANGED <<pc, out, data, brk, ibf>>
    <3>1. CASE Receive \/ UNCHANGED vars
      BY <3>1 DEF Receive, vars, thread, keyboard, controller
    <3>2. CASE Aside
      BY <3>2, AsideDoes DEF thread, keyboard, controller
    <3>3. CASE KbRead
      BY <3>3, KbReadDoes DEF thread, keyboard
    <3> QED
      BY <1>8, <3>1, <3>2, <3>3
  <2> QED
    BY <1>1, <2>1
<1> QED
  BY <1>2, <1>3, <1>4, <1>5, <1>6, <1>7, <1>8, Kinds

LEMMA PassesMoves ==
    ASSUME pc \in 1 .. 49, Passes
    PROVE  \/ pc \in 1 .. 26 /\ pc' \in 2 .. 27
           \/ pc \in {28, 30, 33, 36, 39, 42, 45} /\ pc' = pc + 1
           \/ pc = 47 /\ pc' = 48
           \/ pc = 48 /\ pc' = 49
<1>1. \/ pc \in 1 .. 14 /\ pc' \in 2 .. 15
      \/ pc \in {20, 28, 30, 33, 36, 39, 42, 45} /\ pc' = pc + 1
      \/ pc = 17 /\ pc' = 18
      \/ pc = 17 /\ pc' = 19
      \/ pc \in {25, 47} /\ pc' = pc + 1
      \/ pc = 26 /\ pc' = 27
      \/ pc = 48 /\ pc' = 49
  BY PassesDoes
<1> QED
  BY <1>1

\* What is taken wrongly.
LEMMA CountedKept ==
    ASSUME IInv, Types', [Next]_vars
    PROVE  Counted'
<1>1. /\ pc \in 1 .. 49 /\ out \in Seq(Sent) /\ misread \in Nat
      /\ early \in BOOLEAN /\ awaiting_break_code \in BOOLEAN /\ obf \in BOOLEAN /\ brk \in BOOLEAN
      /\ pc' \in 1 .. 49
  BY DEF IInv, Types, KeyboardTypes, HandlerTypes, ControllerTypes
<1>2. Types /\ Setting /\ Masked /\ Stream /\ Counted
  BY DEF IInv
<1>3. CASE Command \/ Write \/ Passes
  <2>1. UNCHANGED <<out, data, obf, early, awaiting_break_code, misread>>
    BY <1>1, <1>3, PassesDoes DEF Command, Write, handler, keyboard, controller
  <2>2. (pc' >= 47 => pc >= 47) /\ (pc' < 47 => pc < 47) /\ (pc' < 49 => pc < 49)
    <3>1. CASE Command
      BY <1>1, <3>1, CommandDoes
    <3>2. CASE Write
      BY <1>1, <3>2, WriteDoes
    <3>3. CASE Passes
      BY <1>1, <3>3, PassesMoves
    <3> QED
      BY <1>3, <3>1, <3>2, <3>3
  <2>3. NextCode' = NextCode /\ (OutOfStep' <=> OutOfStep)
    BY <2>1 DEF NextCode, OutOfStep
  <2> QED
    BY <1>1, <1>2, <2>1, <2>2, <2>3 DEF Counted
<1>4. CASE Takes
  <2>1. UNCHANGED <<out, data, early, awaiting_break_code, misread>> /\ obf' = FALSE
    BY <1>1, <1>4, TakesDoes DEF handler, keyboard
  <2>2. pc < 47 /\ pc' < 49
    BY <1>1, <1>4, TakesMoves
  <2>3. ASSUME pc' >= 47
        PROVE  misread' + (IF OutOfStep' THEN 1 ELSE 0) <= IF early' THEN 1 ELSE 0
    <3>1. misread' = 0
      BY <1>1, <1>2, <2>1, <2>2 DEF Counted
    <3>2. CASE early
      BY <2>1, <3>1, <3>2
    <3>3. CASE ~early
      <4>1. awaiting_break_code = FALSE /\ \A i \in 1 .. Len(out) : out[i].code \notin KeyCodes
        BY <1>1, <1>2, <2>2, <3>3 DEF Counted
      <4>2. out # << >> => 1 \in 1 .. Len(out)
        BY <1>1
      <4>3. NextCode' # "break"
        BY <2>1, <4>1, <4>2 DEF NextCode, KeyCodes
      <4>4. ~OutOfStep'
        <5>1. awaiting_break_code' = FALSE /\ (NextCode' = "break") = FALSE
          BY <2>1, <4>1, <4>3
        <5> QED
          BY <5>1 DEF OutOfStep
      <4> QED
        BY <2>1, <3>1, <4>4
    <3> QED
      BY <3>2, <3>3
  <2>4. pc' < 47 /\ ~early' =>
          /\ ~awaiting_break_code' /\ data'.code \notin KeyCodes
          /\ \A i \in 1 .. Len(out') : out'[i].code \notin KeyCodes
    BY <1>2, <2>1, <2>2 DEF Counted
  <2>5. pc' < 49 => misread' = 0
    BY <1>1, <1>2, <2>1, <2>2 DEF Counted
  <2> QED
    BY <2>3, <2>4, <2>5 DEF Counted
<1>5. CASE Receive \/ Configure \/ Aside \/ UNCHANGED vars
  <2>1. UNCHANGED <<pc, out, data, obf, early, awaiting_break_code, misread>>
    BY <1>2, <1>5, AsideDoes DEF Receive, Configure, vars, handler, keyboard, controller, thread
  <2>2. NextCode' = NextCode /\ (OutOfStep' <=> OutOfStep)
    BY <2>1 DEF NextCode, OutOfStep
  <2> QED
    BY <1>1, <1>2, <2>1, <2>2 DEF Counted
<1>6. CASE Obey
  <2>1. /\ UNCHANGED <<pc, out, early, awaiting_break_code, misread>>
        /\ data' = data \/ data'.code = "config"
    BY <1>6 DEF Obey, thread, keyboard, handler
  <2>2. pc <= 27
    <3>1. ibf # << >> /\ ibf[1] = "command"
      BY <1>6 DEF Obey
    <3>2. ibf \notin ToKeyboard
      BY <3>1 DEF ToKeyboard
    <3> QED
      BY <1>1, <1>2, <3>1, <3>2 DEF Setting
  <2>3. data.code \notin KeyCodes => data'.code \notin KeyCodes
    BY <2>1 DEF KeyCodes
  <2> QED
    BY <1>1, <1>2, <2>1, <2>2, <2>3 DEF Counted
<1>7. CASE Deliver
  <2>1. UNCHANGED <<pc, data, obf, early, awaiting_break_code, misread>>
    BY <1>2, <1>7, DeliverDoes DEF thread, handler
  <2>2. CASE \E b \in Sent : b.code \in {"FE", "FA"} /\ out' = Append(out, b)
    <3>1. PICK b \in Sent : b.code \in {"FE", "FA"} /\ out' = Append(out, b)
      BY <2>2
    <3>2. /\ Len(out') = Len(out) + 1 /\ Len(out) \in Nat
          /\ \A i \in 1 .. Len(out) : out'[i] = out[i]
          /\ out'[Len(out) + 1] = b
      BY <1>1, <3>1, Appended
    <3>3. (\A i \in 1 .. Len(out) : out[i].code \notin KeyCodes)
             => \A i \in 1 .. Len(out') : out'[i].code \notin KeyCodes
      <4>1. ASSUME \A i \in 1 .. Len(out) : out[i].code \notin KeyCodes, NEW i \in 1 .. Len(out')
            PROVE  out'[i].code \notin KeyCodes
        <5>1. i \in 1 .. Len(out) \/ i = Len(out) + 1
          BY <3>2
        <5> QED
          BY <3>1, <3>2, <4>1, <5>1 DEF KeyCodes
      <4> QED
        BY <4>1
    <3>4. out' # << >> /\ out'[1] = IF out = << >> THEN b ELSE out[1]
      BY <1>1, <3>1, FirstAppended
    <3>5. OutOfStep' <=> OutOfStep
      BY <2>1, <3>1, <3>4 DEF NextCode, OutOfStep
    <3> QED
      BY <1>1, <1>2, <2>1, <3>3, <3>5 DEF Counted
  <2>3. CASE ibf = Reset /\ \E b \in Sent : b.code \in {"AA", "FC"} /\ out' = <<Byte("FA"), b>>
    <3>1. PICK b \in Sent : b.code \in {"AA", "FC"} /\ out' = <<Byte("FA"), b>>
      BY <2>3
    <3>2. \A i \in 1 .. Len(out') : out'[i].code \notin KeyCodes
      <4>1. Len(out') = 2 /\ out'[1].code = "FA" /\ out'[2] = b
        BY <3>1 DEF Byte
      <4>2. \A i \in 1 .. Len(out') : i = 1 \/ i = 2
        BY <4>1
      <4> QED
        BY <3>1, <4>1, <4>2 DEF KeyCodes
    <3>3. pc < 47
      BY <1>1, <1>2, <2>3 DEF Stream
    <3>4. /\ misread' = 0 /\ pc' < 47
          /\ ~early' => ~awaiting_break_code' /\ data'.code \notin KeyCodes
      BY <1>1, <1>2, <2>1, <3>3 DEF Counted
    <3>5. ~(pc' >= 47)
      BY <1>1, <3>4
    <3> QED
      BY <3>2, <3>4, <3>5 DEF Counted
  <2> QED
    BY <1>2, <1>7, <2>2, <2>3, DeliverDoes
<1>8. CASE Send
  <2>1. /\ out # << >> /\ ~obf /\ out' = Tail(out) /\ UNCHANGED <<pc, early, awaiting_break_code, misread>>
        /\ \/ /\ "xlat" \in config /\ out[1].code = "F0"
              /\ data' = data
           \/ /\ "xlat" \notin config \/ out[1].code # "F0"
              /\ obf'
              /\ brk => data' = Byte("released")
              /\ ~brk => data' = out[1]
    BY <1>2, <1>8, SendDoes DEF thread, handler
  <2>2. /\ Len(out) \in Nat /\ Len(out) >= 1 /\ Len(Tail(out)) = Len(out) - 1
        /\ \A i \in 1 .. Len(out) - 1 : Tail(out)[i] = out[i + 1]
    BY <1>1, <2>1, Popped
  <2>3. CASE pc < 47
    <3>1. ASSUME ~early
          PROVE  /\ ~awaiting_break_code' /\ data'.code \notin KeyCodes
                 /\ \A i \in 1 .. Len(out') : out'[i].code \notin KeyCodes
      <4>1. /\ ~awaiting_break_code /\ data.code \notin KeyCodes
            /\ \A i \in 1 .. Len(out) : out[i].code \notin KeyCodes
        BY <1>2, <2>3, <3>1 DEF Counted
      <4>2. out[1].code \notin KeyCodes
        <5>1. 1 \in 1 .. Len(out)
          BY <2>2
        <5> QED
          BY <4>1, <5>1
      <4>3. data'.code \notin KeyCodes
        BY <2>1, <4>1, <4>2 DEF Byte, KeyCodes
      <4>4. ASSUME NEW i \in 1 .. Len(out')
            PROVE  out'[i].code \notin KeyCodes
        <5>1. i \in 1 .. Len(out) - 1 /\ i + 1 \in 1 .. Len(out)
          BY <2>1, <2>2
        <5>2. out'[i] = out[i + 1]
          BY <2>1, <2>2, <5>1
        <5> QED
          BY <4>1, <5>1, <5>2
      <4> QED
        BY <2>1, <4>1, <4>3, <4>4
    <3>2. misread' = 0
      BY <1>1, <1>2, <2>1, <2>3 DEF Counted
    <3> QED
      BY <1>1, <2>1, <2>3, <3>1, <3>2 DEF Counted
  <2>4. CASE pc >= 47
    <3>1. ~brk /\ "xlat" \notin config
      BY <1>1, <1>2, <2>4, NewConfiguration DEF Stream, Setting
    <3>2. obf' /\ data' = out[1]
      BY <2>1, <3>1
    <3>3. NextCode' = NextCode
      BY <2>1, <3>2 DEF NextCode
    <3>4. OutOfStep' <=> OutOfStep
      BY <2>1, <3>3 DEF OutOfStep
    <3> QED
      BY <1>1, <1>2, <2>1, <2>4, <3>4 DEF Counted
  <2> QED
    BY <1>1, <2>3, <2>4
<1>9. CASE Key
  <2>1. /\ UNCHANGED <<pc, data, obf, awaiting_break_code, misread>> /\ early' \in BOOLEAN
        /\ pc < 47 => early'
        /\ pc >= 47 => early' = early
    BY <1>2, <1>9, KeyDoes DEF thread, controller, handler
  <2>2. NextCode' = "break" <=> NextCode = "break"
    <3>1. CASE \E x \in Sent : x.code = "make" /\ out' = Append(out, x)
      <4>1. PICK x \in Sent : x.code = "make" /\ out' = Append(out, x)
        BY <3>1
      <4>2. out' # << >> /\ out'[1] = IF out = << >> THEN x ELSE out[1]
        BY <1>1, <4>1, FirstAppended
      <4> QED
        BY <2>1, <4>1, <4>2 DEF NextCode
    <3>2. CASE \E x \in Sent, y \in Sent : x.code = "F0" /\ y.code = "break" /\ out' = out \o <<x, y>>
      <4>1. PICK x \in Sent, y \in Sent : x.code = "F0" /\ y.code = "break" /\ out' = out \o <<x, y>>
        BY <3>2
      <4>2. out' # << >> /\ out'[1] = IF out = << >> THEN x ELSE out[1]
        BY <1>1, <4>1, FirstAppendedTwo
      <4> QED
        BY <2>1, <4>1, <4>2 DEF NextCode
    <3> QED
      BY <1>2, <1>9, <3>1, <3>2, KeyDoes
  <2>3. OutOfStep' <=> OutOfStep
    BY <2>1, <2>2 DEF OutOfStep
  <2> QED
    BY <1>1, <1>2, <2>1, <2>3 DEF Counted
<1>10. CASE KbRead
  <2>1. /\ h = "read" /\ obf /\ obf' = FALSE /\ data' = data
        /\ awaiting_break_code' = (data.code = "F0")
        /\ misread' = IF /\ pc = 49 /\ data.code \in {"make", "break"}
                         /\ awaiting_break_code <=> data.code = "make"
                      THEN misread + 1 ELSE misread
        /\ UNCHANGED <<pc, out, early>>
    BY <1>2, <1>10, KbReadDoes DEF thread, keyboard
  <2>2. CASE pc < 47
    <3>1. misread' = 0
      BY <1>1, <1>2, <2>1, <2>2 DEF Counted
    <3>2. ~early => ~awaiting_break_code'
      BY <1>2, <2>1, <2>2 DEF Counted, KeyCodes
    <3> QED
      BY <1>1, <1>2, <2>1, <2>2, <3>1, <3>2 DEF Counted
  <2>3. CASE pc >= 47
    <3>1. pc = 49
      BY <1>1, <1>2, <2>1, <2>3 DEF Masked
    <3>2. BreakNext <=> data.code = "F0"
      BY <1>2, <3>1 DEF Stream
    <3>3. NextCode' = "break" <=> data.code = "F0"
      BY <2>1, <3>2 DEF NextCode, BreakNext
    <3>4. ~OutOfStep'
      BY <2>1, <3>3 DEF OutOfStep
    <3>5. misread' = misread \/ (misread' = misread + 1 /\ OutOfStep)
      <4>1. CASE data.code \in {"make", "break"} /\ (awaiting_break_code <=> data.code = "make")
        <5>1. NextCode = data.code
          BY <2>1 DEF NextCode
        <5>2. OutOfStep
          BY <1>1, <4>1, <5>1 DEF OutOfStep
        <5> QED
          BY <2>1, <3>1, <4>1, <5>2
      <4>2. CASE ~(data.code \in {"make", "break"} /\ (awaiting_break_code <=> data.code = "make"))
        BY <2>1, <4>2
      <4> QED
        BY <4>1, <4>2
    <3>6. misread + (IF OutOfStep THEN 1 ELSE 0) <= IF early THEN 1 ELSE 0
      BY <1>2, <2>3 DEF Counted
    <3> QED
      BY <1>1, <2>1, <3>1, <3>4, <3>5, <3>6 DEF Counted
  <2> QED
    BY <1>1, <2>2, <2>3
<1> QED
  BY <1>3, <1>4, <1>5, <1>6, <1>7, <1>8, <1>9, <1>10, Kinds

\* The start.
LEMMA InitInvariant == Init => IInv
<1> SUFFICES ASSUME Init PROVE IInv
  OBVIOUS
<1>1. /\ pc = 1 /\ value = {} /\ got = None /\ imr = {}
      /\ uart = [ier |-> "?", lcr |-> "8n1", mcr |-> "normal", divisor |-> "?", rx |-> << >>]
      /\ tx_busy = TRUE /\ working = FALSE /\ ibf = << >> /\ expects = FALSE /\ answers \in BOOLEAN
      /\ config \in Configs /\ firmware = config
      /\ obf \in BOOLEAN /\ data = IF obf THEN Byte("make") ELSE None
      /\ out = << >> /\ argument = "none" /\ alive = TRUE /\ holding = obf /\ brk = FALSE
      /\ h = "none" /\ awaiting_break_code = FALSE
      /\ inputs = 0 /\ hit = "none"
      /\ early = obf /\ stolen = FALSE /\ refused = FALSE /\ misread = 0
  BY DEF Init
<1>2. None \in ByteType /\ Byte("make") \in ByteType /\ None.code = "none" /\ Byte("make").code = "make"
  BY DEF None, Byte, ByteType, Codes
<1>3. Types
  <2>1. SerialTypes
    <3>1. << >> \in Seq({"0", "AE", "input"})
      OBVIOUS
    <3> QED
      BY <1>1, <3>1 DEF SerialTypes, UartType
  <2>2. ControllerTypes
    BY <1>1, <1>2, BootAssumption DEF ControllerTypes
  <2>3. KeyboardTypes
    <3>1. << >> \in Seq(Sent)
      OBVIOUS
    <3> QED
      BY <1>1, <3>1 DEF KeyboardTypes
  <2>4. HandlerTypes
    BY <1>1 DEF HandlerTypes
  <2> QED
    BY <1>1, <2>1, <2>2, <2>3, <2>4 DEF Types
<1>4. Port
  BY <1>1 DEF Port
<1>5. Setting /\ Masked
  BY <1>1 DEF Setting, Masked
<1>6. Stream
  <2>1. data.code \notin Results
    BY <1>1, <1>2 DEF Results
  <2>2. Len(out) = 0
    BY <1>1
  <2> QED
    BY <1>1, <2>1, <2>2 DEF Stream, Paired, Unreset
<1>7. Counted
  <2>1. Len(out) = 0
    BY <1>1
  <2> QED
    BY <1>1, <1>2, <2>1 DEF Counted, KeyCodes
<1> QED
  BY <1>3, <1>4, <1>5, <1>6, <1>7 DEF IInv

\* Every step.
LEMMA NextInvariant == IInv /\ [Next]_vars => IInv'
<1> SUFFICES ASSUME IInv, [Next]_vars PROVE IInv'
  OBVIOUS
<1>1. Types /\ Port /\ Setting /\ Masked /\ Stream /\ Counted
  BY DEF IInv
<1>2. Types' /\ Port'
  BY <1>1, TypesKept, PortKept
<1>3. Setting' /\ Masked'
  BY <1>1, SettingKept, MaskedKept
<1>4. Stream' /\ Counted'
  BY <1>1, <1>2, <1>3, StreamKept, CountedKept
<1> QED
  BY <1>2, <1>3, <1>4 DEF IInv

-----------------------------------------------------------------------------
(* Theorems.                                                               *)

\* The inductive invariant holds, whatever is typed and received (SER_init to
\* kb_init).
THEOREM Invariance == Spec => []IInv
<1>1. Init => IInv
  BY InitInvariant
<1>2. IInv /\ [Next]_vars => IInv'
  BY NextInvariant
<1> QED
  BY <1>1, <1>2, PTL DEF Spec

\* Every variable keeps its type (the registers and flags of the UART, the
\* controller, the keyboard and its handler).
THEOREM TypeCorrect == Spec => []TypeOK
<1>1. IInv => TypeOK
  <2> SUFFICES ASSUME Types, Setting PROVE TypeOK
    BY DEF IInv
  <2>1. pc \in 1 .. Len(kmain) + 1 /\ value \subseteq {1}
    BY Program DEF Types
  <2>2. /\ got.code \in Codes /\ got.bits \subseteq Bits
        /\ data.code \in Codes /\ data.bits \subseteq Bits /\ config \subseteq Bits
    BY DEF Types, ControllerTypes, ByteType
  <2>3. uart.rx \in Seq({"0", "AE", "input"}) /\ uart.divisor \in {"?", "0", "1"}
    BY DEF Types, SerialTypes, UartType
  <2>4. ibf = << >> \/ ibf[1] \in {"command", "data"}
    <3>1. \/ ibf = << >>
          \/ \E c \in {"AD", "A7", "20", "60", "AE"} : ibf = Order(c)
          \/ ibf = <<"data", ConfigByte(Intended)>>
          \/ ibf \in ToKeyboard
      <4>1. pc \in 1 .. 15 \/ pc = 16 \/ pc \in 17 .. 19 \/ pc \in 20 .. 22 \/ pc = 23
            \/ pc = 24 \/ pc \in 25 .. 27 \/ pc > 27
        BY DEF Types
      <4>2. CASE pc \in 1 .. 19
        BY <4>1, <4>2 DEF Setting
      <4>3. CASE pc \in 20 .. 27
        BY <4>1, <4>3 DEF Setting
      <4>4. CASE pc > 27
        BY <4>4 DEF Setting
      <4> QED
        BY <4>1, <4>2, <4>3, <4>4
    <3>2. ibf \in ToKeyboard => ibf[1] = "data"
      BY DEF ToKeyboard
    <3> QED
      BY <3>1, <3>2 DEF Order
  <2>5. \A n \in 1 .. Len(out) : out[n].code \in Codes \ {"none", "config"}
    <3>1. \A n \in 1 .. Len(out) : out[n] \in Sent
      BY DEF Types, KeyboardTypes
    <3> QED
      BY <3>1 DEF Sent
  <2>6. argument \in {"none", "F0", "F3"} /\ h \in {"none", "status", "read", "eoi"} /\ misread \in Nat
    BY DEF Types, KeyboardTypes, HandlerTypes
  <2>7. {tx_busy, working, obf, expects, answers, alive, holding, brk, awaiting_break_code,
         early, stolen, refused} \subseteq BOOLEAN
    BY DEF Types, SerialTypes, ControllerTypes, KeyboardTypes, HandlerTypes
  <2> QED
    BY <2>1, <2>2, <2>3, <2>4, <2>5, <2>6, <2>7 DEF TypeOK
<1> QED
  BY <1>1, Invariance, PTL

\* However SER_init is interrupted, the divisor latch is closed after it, its
\* divisor is wrong only if a character was written to the port while the latch
\* was open, and the port is given up only if one was before the test byte or
\* something was received.
THEOREM UartSetUp == Spec => []SerialSetUp
<1>1. IInv => SerialSetUp
  <2> SUFFICES ASSUME Types, Port PROVE SerialSetUp
    BY DEF IInv
  <2>1. pc \in 1 .. 49 /\ Len(SER_init) = 14
    BY Program DEF Types
  <2>2. ASSUME pc > 14
        PROVE  /\ uart.lcr = "8n1"
               /\ uart.divisor = IF hit = "latch" THEN "0" ELSE "1"
               /\ ~working => hit = "test" \/ inputs > 0
               /\ working => uart.ier = "on" /\ uart.mcr = "normal"
    BY <2>1, <2>2 DEF Port
  <2> QED
    BY <2>1, <2>2 DEF SerialSetUp
<1> QED
  BY <1>1, Invariance, PTL

\* ps2_init reads the configuration, not a key or an answer, and writes it back
\* with the bits it means to change and no others changed.
THEOREM Configured == Spec => []ConfigAsIntended
<1>1. IInv => ConfigAsIntended
  <2> SUFFICES ASSUME Types, Setting PROVE ConfigAsIntended
    BY DEF IInv
  <2>1. pc \in 1 .. 49 /\ KbInitStart = 27
    BY Program DEF Types
  <2>2. pc > 24 => config = Intended
    BY DEF Setting
  <2> QED
    BY <2>1, <2>2 DEF ConfigAsIntended, Intended
<1> QED
  BY <1>1, Invariance, PTL

\* kb_interrupt_handler does not run while kb_init polls for the answers of the
\* keyboard: no instance of it spans IRQ_set_mask.
THEOREM Undisturbed == Spec => []KbInitUndisturbed
<1>1. IInv => KbInitUndisturbed
  <2> SUFFICES ASSUME Types, Masked PROVE KbInitUndisturbed
    BY DEF IInv
  <2>1. pc \in 1 .. 49 /\ KbInitStart = 27 /\ KbInitEnd = 47
    BY Program DEF Types
  <2> QED
    BY <2>1 DEF KbInitUndisturbed, Masked
<1> QED
  BY <1>1, Invariance, PTL

\* The decoder of kb_interrupt_handler misreads at most one byte of a key after
\* the start, and none if nothing was typed before the end of kb_init.
THEOREM MisreadOnce == Spec => []AtMostOneKeyMisread
<1>1. IInv => AtMostOneKeyMisread
  <2> SUFFICES ASSUME Types, Counted PROVE AtMostOneKeyMisread
    BY DEF IInv
  <2>1. pc \in 1 .. 49 /\ misread \in Nat
    BY DEF Types, HandlerTypes
  <2>2. CASE pc < 47
    BY <2>1, <2>2 DEF Counted, AtMostOneKeyMisread
  <2>3. CASE pc >= 47
    BY <2>1, <2>3 DEF Counted, AtMostOneKeyMisread
  <2> QED
    BY <2>1, <2>2, <2>3
<1> QED
  BY <1>1, Invariance, PTL

=============================================================================
