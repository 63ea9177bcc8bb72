-------------------------- MODULE InterruptsProofs --------------------------
(***************************************************************************)
(* What Interrupts guarantees for all devices, all masks the firmware may  *)
(* leave and any number of events: type correctness and the four safety    *)
(* invariants.                                                             *)
(*                                                                         *)
(* The heart of it is the shape of the stack: all gates clear the          *)
(* interrupt flag, so there is at most one frame, and on top of it at most *)
(* one of a non-maskable interrupt (Shape).  The rest is how far kmain has *)
(* come by the time interrupts are enabled (Setup, Masks).                 *)
(***************************************************************************)
EXTENDS Interrupts, FiniteSetTheorems, TLAPS

Frame == [int_no : Vectors, line : Lines \cup {NoLine}, bits : SUBSET Lines,
          flag : BOOLEAN, at : {"body", "eoi2", "eoi1", "iret"}, words : Nat]

\* What is in place when.
Setup ==
    /\ flag => pc > 12
    /\ pc > 4 => base = [master |-> 32, slave |-> 40]
    /\ pc > 6 => 1 \in table
    /\ pc > 9 => 4 \in table

\* What the firmware had masked is masked, but while PIC_remap has it in its
\* variables; so has IRQ_set_mask and IRQ_clear_mask.
Others == firm \ {1, 4}
Masks ==
    /\ pc \notin {4, 5} => Others \subseteq imr
    /\ pc \in {3, 4, 5} => Others \subseteq value
    /\ pc \in {8, 11, 15, 17, 19} => Others \cap Master \subseteq value

\* A frame is what Enter made, or what became of it, when kmain is at this
\* instruction and the firmware has left these masks.
FrameOK(f, at, masked) ==
    /\ f.words = CommonPops
    /\ f.flag => at > 12
    /\ f.at = "eoi2" => f.line \in Slave
    /\ f.line = NoLine => f.int_no < 32 /\ f.bits = {} /\ f.at \in {"body", "iret"}
    /\ f.line # NoLine =>
          /\ at > 12
          /\ f.int_no = 32 + f.line
          /\ f.bits \subseteq InService(f.line)
          /\ f.line \notin {7, 15, 1, 4} => f.line \notin masked

Shape ==
    /\ Len(stack) <= 2
    /\ stack # << >> => ~flag
    /\ Len(stack) = 2 => stack[1].int_no = Nmi /\ ~stack[1].flag
    /\ \A n \in 1 .. Len(stack) : FrameOK(stack[n], pc, firm)

Service == \A i : i \in isr <=> \E n \in 1 .. Len(stack) : i \in Owed(stack[n])

IInv == TypeOK /\ Setup /\ Masks /\ Shape /\ Service

-----------------------------------------------------------------------------
(* Lemmas.                                                                 *)

\* How deep a stack may be that is not empty.
LEMMA OneOrTwo ==
    /\ \A n \in Nat : n >= 1 /\ n <= 2 => n = 1 \/ n = 2
    /\ \A n \in Nat, m \in Nat : m = n + 1 /\ m = 2 => n # 0
OBVIOUS

\* The vectors of the lines lie above that of a non-maskable interrupt.
LEMMA NoLineIsNmi == \A i \in Lines : 32 + i # Nmi
BY DEF Nmi, Lines

\* A frame on top of the stack.
LEMMA Pushed ==
    ASSUME NEW S, NEW s \in Seq(S), NEW x \in S
    PROVE  /\ <<x>> \o s \in Seq(S)
           /\ Len(<<x>> \o s) = Len(s) + 1
           /\ (<<x>> \o s)[1] = x
           /\ \A n \in 2 .. Len(s) + 1 : (<<x>> \o s)[n] = s[n - 1]
OBVIOUS

\* The frames under the top one.
LEMMA Popped ==
    ASSUME NEW S, NEW s \in Seq(S), s # << >>
    PROVE  /\ Head(s) = s[1] /\ s[1] \in S
           /\ Len(s) \in Nat /\ Len(s) >= 1
           /\ Tail(s) \in Seq(S)
           /\ Len(Tail(s)) = Len(s) - 1
           /\ \A n \in 1 .. Len(s) - 1 : Tail(s)[n] = s[n + 1]
OBVIOUS

\* Where in kmain its instructions are, and which lines they are for.
LEMMA Program ==
    /\ Len(kmain) = 19
    /\ \A n \in 1 .. 19 :
          /\ kmain[n][1] = "idt_init" => n = 1
          /\ kmain[n][1] = "save" => n = 2
          /\ kmain[n][1] = "icw1" => n = 3
          /\ kmain[n][1] = "offsets" => n = 4
          /\ kmain[n][1] = "restore" => n = 5
          /\ kmain[n][1] = "handler" => n \in {6, 9} /\ kmain[n][2] = (IF n = 6 THEN 1 ELSE 4)
          /\ kmain[n][1] = "sti" => n = 12
          /\ kmain[n][1] = "port" => n = 13
          /\ kmain[n][1] = "inb" => n \in {7, 10, 14, 16, 18} /\ kmain[n][2] \in {1, 4}
          /\ kmain[n][1] = "clear" => n \in {8, 11, 15, 19} /\ kmain[n][2] \in {1, 4}
          /\ kmain[n][1] = "set" => n = 17 /\ kmain[n][2] = 1
<1>1. /\ Len(kmain) = 19
      /\ kmain[1] = <<"idt_init", 0>> /\ kmain[2] = <<"save", 0>> /\ kmain[3] = <<"icw1", 0>>
      /\ kmain[4] = <<"offsets", 0>> /\ kmain[5] = <<"restore", 0>>
      /\ kmain[6] = <<"handler", 1>> /\ kmain[7] = <<"inb", 1>> /\ kmain[8] = <<"clear", 1>>
      /\ kmain[9] = <<"handler", 4>> /\ kmain[10] = <<"inb", 4>> /\ kmain[11] = <<"clear", 4>>
      /\ kmain[12] = <<"sti", 0>> /\ kmain[13] = <<"port", 4>>
      /\ kmain[14] = <<"inb", 4>> /\ kmain[15] = <<"clear", 4>>
      /\ kmain[16] = <<"inb", 1>> /\ kmain[17] = <<"set", 1>>
      /\ kmain[18] = <<"inb", 1>> /\ kmain[19] = <<"clear", 1>>
  BY DEF kmain, IRQ_init, SER_init
<1>2. ASSUME NEW n \in 1 .. 19
      PROVE  \/ n = 1 \/ n = 2 \/ n = 3 \/ n = 4 \/ n = 5 \/ n = 6 \/ n = 7 \/ n = 8 \/ n = 9
             \/ n = 10 \/ n = 11 \/ n = 12 \/ n = 13 \/ n = 14 \/ n = 15 \/ n = 16 \/ n = 17 \/ n = 18
             \/ n = 19
  OBVIOUS
<1>3. ASSUME NEW n \in 1 .. 19
      PROVE  /\ kmain[n][1] = "idt_init" => n = 1
             /\ kmain[n][1] = "save" => n = 2
             /\ kmain[n][1] = "icw1" => n = 3
             /\ kmain[n][1] = "offsets" => n = 4
  BY <1>1, <1>2
<1>4. ASSUME NEW n \in 1 .. 19
      PROVE  /\ kmain[n][1] = "restore" => n = 5
             /\ kmain[n][1] = "handler" => n \in {6, 9} /\ kmain[n][2] = (IF n = 6 THEN 1 ELSE 4)
             /\ kmain[n][1] = "sti" => n = 12
             /\ kmain[n][1] = "port" => n = 13
  BY <1>1, <1>2
<1>5. ASSUME NEW n \in 1 .. 19
      PROVE  /\ kmain[n][1] = "inb" => n \in {7, 10, 14, 16, 18} /\ kmain[n][2] \in {1, 4}
             /\ kmain[n][1] = "clear" => n \in {8, 11, 15, 19} /\ kmain[n][2] \in {1, 4}
             /\ kmain[n][1] = "set" => n = 17 /\ kmain[n][2] = 1
  BY <1>1, <1>2
<1> QED
  BY <1>1, <1>3, <1>4, <1>5

\* The words of a frame add up for every vector in use.
LEMMA Words ==
    ASSUME NEW v \in Vectors, v < 48, v # 30
    PROVE  CpuPushes(v) + StubPushes(v) = CommonPops /\ CpuPushes(v) + StubPushes(v) \in Nat
BY DEF CpuPushes, StubPushes, CommonPops

\* The exceptions come through gates of their own.
LEMMA ExceptionVectors ==
    ASSUME NEW v \in Exceptions
    PROVE  v \in Vectors /\ v < 32 /\ v # 30 /\ Gate(v).int_no = v
BY InterruptsAssumption DEF Faults, Nmi, DoubleFault, PageFault, Vectors, Gate

-----------------------------------------------------------------------------
(* Entry.                                                                  *)

\* What Enter makes of the stack.
LEMMA Entered ==
    ASSUME TypeOK, NEW v \in Vectors, v < 48, v # 30,
           NEW i \in Lines \cup {NoLine}, NEW bits \in SUBSET Lines, Enter(v, i, bits)
    PROVE  /\ stack' \in Seq(Frame) /\ Len(stack') = Len(stack) + 1
           /\ stack'[1] = [int_no |-> v, line |-> i, bits |-> bits, at |-> "body",
                           flag |-> flag, words |-> CommonPops]
           /\ \A n \in 2 .. Len(stack) + 1 : stack'[n] = stack[n - 1]
           /\ flag' = FALSE /\ halted' = halted
<1> DEFINE x == [int_no |-> v, line |-> i, bits |-> bits, at |-> "body",
                 flag |-> flag, words |-> CommonPops]
<1>1. stack \in Seq(Frame) /\ flag \in BOOLEAN
  BY DEF TypeOK, Frame
<1>2. x \in Frame
  BY <1>1 DEF Frame, CommonPops, Vectors
<1>3. stack' = <<x>> \o stack /\ flag' = FALSE /\ halted' = halted
  BY <1>1, Words DEF Enter, Gate
<1> HIDE DEF x
<1>4. /\ <<x>> \o stack \in Seq(Frame) /\ Len(<<x>> \o stack) = Len(stack) + 1
      /\ (<<x>> \o stack)[1] = x
      /\ \A n \in 2 .. Len(stack) + 1 : (<<x>> \o stack)[n] = stack[n - 1]
  BY <1>1, <1>2, Pushed
<1> QED
  BY <1>3, <1>4 DEF x

\* An interrupt or a spurious one, which finds the stack empty.
LEMMA LineStep ==
    ASSUME IInv, NEW i \in Lines, NEW bits \in SUBSET InService(i), flag,
           i \notin {7, 15, 1, 4} => i \notin firm,
           Enter(Vector(i), i, bits), isr' = isr \cup bits,
           level' \in SUBSET Lines, imr' = imr, irr' \in SUBSET Lines, ghost' \in SUBSET {7, 15},
           UNCHANGED <<kernel, fault, events, firm>>
    PROVE  IInv'
<1> USE DEF IInv
<1>1. stack = << >> /\ pc > 12 /\ base = [master |-> 32, slave |-> 40] /\ Len(stack) = 0 /\ pc \in Nat
  BY DEF Shape, Setup, TypeOK
<1>2. Vector(i) = 32 + i /\ Vector(i) \in Vectors /\ Vector(i) < 48 /\ Vector(i) # 30
  BY <1>1 DEF Vector, Lines, Slave, Vectors
<1>3. bits \in SUBSET Lines
  BY DEF InService, Lines, Slave, Cascade
<1>4. /\ stack' \in Seq(Frame) /\ Len(stack') = 1
      /\ stack'[1] = [int_no |-> 32 + i, line |-> i, bits |-> bits, at |-> "body",
                      flag |-> flag, words |-> CommonPops]
      /\ flag' = FALSE /\ halted' = halted
  <2> DEFINE v == Vector(i)
  <2>1. v \in Vectors /\ v < 48 /\ v # 30 /\ Enter(v, i, bits) /\ v = 32 + i
    BY <1>2
  <2> HIDE DEF v
  <2>2. /\ stack' \in Seq(Frame) /\ Len(stack') = Len(stack) + 1
        /\ stack'[1] = [int_no |-> v, line |-> i, bits |-> bits, at |-> "body",
                        flag |-> flag, words |-> CommonPops]
        /\ flag' = FALSE /\ halted' = halted
    BY <2>1, <1>3, Entered
  <2> QED
    BY <1>1, <2>1, <2>2
<1>5. TypeOK'
  BY <1>3, <1>4 DEF TypeOK, Frame, kernel
<1>6. Setup' /\ Masks'
  BY <1>4 DEF Setup, Masks, Others, kernel
<1>7. Shape'
  <2>1. FrameOK(stack'[1], pc', firm')
    BY <1>1, <1>4 DEF FrameOK, kernel, Lines, NoLine
  <2>2. \A n \in 1 .. Len(stack') : n = 1
    BY <1>4
  <2>3. \A n \in 1 .. Len(stack') : FrameOK(stack'[n], pc', firm')
    BY <2>1, <2>2
  <2>4. Len(stack') <= 2 /\ ~flag' /\ Len(stack') # 2
    BY <1>4
  <2> QED
    BY <2>3, <2>4 DEF Shape
<1>8. isr = {}
  BY <1>1 DEF Service
<1>9. Owed(stack[1])' = bits
  BY <1>4 DEF Owed
<1>10. Service'
  <2>1. isr' = bits
    BY <1>8
  <2>2. \A n \in 1 .. Len(stack') : n = 1
    BY <1>4
  <2>3. 1 \in 1 .. Len(stack')
    BY <1>4
  <2> QED
    BY <1>9, <2>1, <2>2, <2>3 DEF Service
<1> QED
  BY <1>5, <1>6, <1>7, <1>10

\* An exception of kmain, or a non-maskable interrupt anywhere but in its own
\* handler.
LEMMA TrapStep ==
    ASSUME IInv, NEW v \in Vectors, v < 32, v # 30,
           \/ stack = << >>
           \/ v = Nmi /\ \A n \in 1 .. Len(stack) : stack[n].int_no # Nmi,
           Enter(v, NoLine, {}),
           fault' \in Faults \cup {NoFault}, events' \in 0 .. MaxEvents,
           UNCHANGED <<pic, kernel, ghost, firm>>
    PROVE  IInv'
<1> USE DEF IInv
<1>1. stack \in Seq(Frame) /\ Len(stack) \in Nat
  BY DEF TypeOK, Frame
<1>2. Len(stack) = 0 \/ (Len(stack) = 1 /\ ~flag /\ v = Nmi)
  <2>1. CASE stack = << >>
    <3>1. Len(stack) = 0
      BY <2>1
    <3> QED
      BY <3>1
  <2>2. CASE stack # << >>
    <3>1. Len(stack) >= 1 /\ Len(stack) <= 2 /\ ~flag
      BY <1>1, <2>2, Popped DEF Shape
    <3>2. v = Nmi /\ stack[1].int_no # Nmi
      BY <1>1, <2>2, <3>1
    <3>3. Len(stack) # 2 /\ Len(stack) \in Nat
      BY <1>1, <3>2 DEF Shape
    <3>4. Len(stack) = 1
      BY <3>1, <3>3, OneOrTwo, Zenon
    <3> QED
      BY <3>1, <3>2, <3>4
  <2> QED
    BY <2>1, <2>2
<1>3. /\ stack' \in Seq(Frame) /\ Len(stack') = Len(stack) + 1
      /\ stack'[1] = [int_no |-> v, line |-> NoLine, bits |-> {}, at |-> "body",
                      flag |-> flag, words |-> CommonPops]
      /\ \A n \in 2 .. Len(stack) + 1 : stack'[n] = stack[n - 1]
      /\ flag' = FALSE /\ halted' = halted
  <2>1. v < 48 /\ NoLine \in Lines \cup {NoLine} /\ {} \in SUBSET Lines
    BY DEF Vectors, Lines
  <2> QED
    BY <2>1, Entered
<1>4. TypeOK'
  BY <1>3 DEF TypeOK, Frame, pic, kernel
<1>5. Setup' /\ Masks'
  BY <1>3 DEF Setup, Masks, Others, pic, kernel
<1>6. Shape'
  <2>1. FrameOK(stack'[1], pc', firm')
    BY <1>3 DEF FrameOK, Setup, kernel, Lines, NoLine, Slave
  <2>2. ASSUME NEW n \in 1 .. Len(stack'), n # 1
        PROVE  FrameOK(stack'[n], pc', firm')
    <3>1. n - 1 \in 1 .. Len(stack) /\ stack'[n] = stack[n - 1]
      BY <1>1, <1>3, <2>2
    <3> QED
      BY <3>1 DEF Shape, kernel
  <2>3. \A n \in 1 .. Len(stack') : FrameOK(stack'[n], pc', firm')
    BY <2>1, <2>2
  <2>4. Len(stack') <= 2 /\ ~flag'
    BY <1>2, <1>3
  <2>5. ASSUME Len(stack') = 2
        PROVE  stack'[1].int_no = Nmi /\ ~stack'[1].flag
    <3>1. v = Nmi /\ ~flag
      <4>1. Len(stack) # 0
        <5>1. Len(stack) \in Nat /\ Len(stack') \in Nat /\ Len(stack') = Len(stack) + 1
          BY <1>1, <1>3
        <5> QED
          BY <2>5, <5>1, OneOrTwo, Zenon
      <4> QED
        BY <1>2, <4>1, Zenon
    <3>2. stack'[1].int_no = v /\ stack'[1].flag = flag
      BY <1>3
    <3> QED
      BY <3>1, <3>2
  <2> QED
    BY <2>3, <2>4, <2>5 DEF Shape
<1>7. Service'
  <2>1. Owed(stack'[1]) = {}
    BY <1>3 DEF Owed
  <2>2. ASSUME NEW i
        PROVE  (\E n \in 1 .. Len(stack) : i \in Owed(stack[n]))
                  <=> \E n \in 1 .. Len(stack') : i \in Owed(stack'[n])
    <3>1. ASSUME NEW n \in 1 .. Len(stack), i \in Owed(stack[n])
          PROVE  \E m \in 1 .. Len(stack') : i \in Owed(stack'[m])
      <4>1. n + 1 \in 2 .. Len(stack) + 1 /\ n + 1 \in 1 .. Len(stack') /\ stack'[n + 1] = stack[n]
        BY <1>1, <1>3
      <4> QED
        BY <3>1, <4>1
    <3>2. ASSUME NEW n \in 1 .. Len(stack'), i \in Owed(stack'[n])
          PROVE  \E m \in 1 .. Len(stack) : i \in Owed(stack[m])
      <4>1. n # 1
        BY <2>1, <3>2
      <4>2. n - 1 \in 1 .. Len(stack) /\ stack'[n] = stack[n - 1]
        BY <1>1, <1>3, <4>1
      <4> QED
        BY <3>2, <4>2
    <3> QED
      BY <3>1, <3>2
  <2>3. isr' = isr
    BY DEF pic
  <2> QED
    BY <2>2, <2>3 DEF Service
<1> QED
  BY <1>4, <1>5, <1>6, <1>7

\* The five ways in.
LEMMA EntryStep ==
    ASSUME IInv,
           \/ \E i \in irr : Interrupt(i)
           \/ \E i \in ghost : Spurious(i)
           \/ TakeNmi
           \/ \E v \in Exceptions : Exception(v)
           \/ FaultAgain
    PROVE  IInv'
<1> USE DEF IInv
<1>1. ASSUME NEW i \in irr, Interrupt(i)
      PROVE  IInv'
  <2>1. i \in Lines /\ InService(i) \in SUBSET InService(i)
    BY DEF TypeOK
  <2>2. i \notin {7, 15, 1, 4} => i \notin firm
    BY <1>1 DEF Interrupt, Highest, Requested, Setup, Masks, Others
  <2>3. level' \in SUBSET Lines /\ irr' \in SUBSET Lines /\ imr' = imr /\ ghost' \in SUBSET {7, 15}
    BY <1>1 DEF Interrupt, Acknowledge, TypeOK
  <2>4. isr' = isr \cup InService(i) /\ UNCHANGED <<kernel, fault, events, firm>>
    BY <1>1 DEF Interrupt, Acknowledge
  <2>5. flag /\ Enter(Vector(i), i, InService(i))
    BY <1>1 DEF Interrupt
  <2> QED
    BY <2>1, <2>2, <2>3, <2>4, <2>5, LineStep
<1>2. ASSUME NEW i \in ghost, Spurious(i)
      PROVE  IInv'
  <2>1. i \in {7, 15} /\ i \in Lines /\ InService(i) \ {i} \in SUBSET InService(i)
    BY DEF TypeOK, Lines
  <2>2. level' \in SUBSET Lines /\ irr' \in SUBSET Lines /\ imr' = imr /\ ghost' \in SUBSET {7, 15}
    BY <1>2 DEF Spurious, TypeOK
  <2>3. isr' = isr \cup (InService(i) \ {i}) /\ UNCHANGED <<kernel, fault, events, firm>>
    BY <1>2 DEF Spurious
  <2>4. flag /\ Enter(Vector(i), i, InService(i) \ {i})
    BY <1>2 DEF Spurious
  <2> QED
    BY <2>1, <2>2, <2>3, <2>4, LineStep
<1>3. CASE TakeNmi
  <2>1. Nmi \in Vectors /\ Nmi < 32 /\ Nmi # 30
    BY DEF Nmi, Vectors
  <2>2. fault' \in Faults \cup {NoFault} /\ events' \in 0 .. MaxEvents
    BY <1>3, InterruptsAssumption DEF TakeNmi, TypeOK
  <2>3. /\ \A n \in 1 .. Len(stack) : stack[n].int_no # Nmi
        /\ Enter(Nmi, NoLine, {}) /\ UNCHANGED <<pic, kernel, ghost, firm>>
    BY <1>3 DEF TakeNmi
  <2> QED
    BY <2>1, <2>2, <2>3, TrapStep
<1>4. ASSUME NEW v \in Exceptions, Exception(v)
      PROVE  IInv'
  <2>1. v \in Vectors /\ v < 32 /\ v # 30
    BY ExceptionVectors
  <2>2. fault' \in Faults \cup {NoFault} /\ events' \in 0 .. MaxEvents
    BY <1>4, InterruptsAssumption DEF Exception, TypeOK
  <2>3. stack = << >> /\ Enter(v, NoLine, {}) /\ UNCHANGED <<pic, kernel, ghost, firm>>
    BY <1>4 DEF Exception, Running
  <2> QED
    BY <2>1, <2>2, <2>3, TrapStep
<1>5. CASE FaultAgain
  <2>1. fault \in Vectors /\ fault < 32 /\ fault # 30
    BY <1>5 DEF FaultAgain, TypeOK, NoFault, Faults, Vectors
  <2>2. fault' \in Faults \cup {NoFault} /\ events' \in 0 .. MaxEvents
    BY <1>5 DEF FaultAgain, TypeOK
  <2>3. stack = << >> /\ Enter(fault, NoLine, {}) /\ UNCHANGED <<pic, kernel, ghost, firm>>
    BY <1>5 DEF FaultAgain
  <2> QED
    BY <2>1, <2>2, <2>3, TrapStep
<1> QED
  BY <1>1, <1>2, <1>3, <1>4, <1>5

-----------------------------------------------------------------------------
(* What the handlers do, and the way back.                                 *)

\* What Go makes of the stack.
LEMMA Gone ==
    ASSUME TypeOK, stack # << >>, NEW step \in {"body", "eoi2", "eoi1", "iret"}, Go(step)
    PROVE  /\ Len(stack) \in Nat /\ Len(stack) >= 1
           /\ stack[1] \in Frame /\ stack' \in Seq(Frame) /\ Len(stack') = Len(stack)
           /\ stack'[1] = [stack[1] EXCEPT !.at = step]
           /\ \A n \in 2 .. Len(stack) : stack'[n] = stack[n]
<1> DEFINE x == [stack[1] EXCEPT !.at = step]
<1> DEFINE s == Tail(stack)
<1>1. stack \in Seq(Frame)
  BY DEF TypeOK, Frame
<1>2. /\ Head(stack) = stack[1] /\ stack[1] \in Frame
      /\ Len(stack) \in Nat /\ Len(stack) >= 1
      /\ s \in Seq(Frame) /\ Len(s) = Len(stack) - 1
      /\ \A n \in 1 .. Len(stack) - 1 : s[n] = stack[n + 1]
  BY <1>1, Popped
<1>3. x \in Frame
  BY <1>2 DEF Frame
<1>4. stack' = <<x>> \o s
  BY <1>2 DEF Go, top
<1> HIDE DEF x, s
<1>5. /\ <<x>> \o s \in Seq(Frame) /\ Len(<<x>> \o s) = Len(s) + 1
      /\ (<<x>> \o s)[1] = x
      /\ \A n \in 2 .. Len(s) + 1 : (<<x>> \o s)[n] = s[n - 1]
  BY <1>2, <1>3, Pushed
<1>6. /\ stack' \in Seq(Frame) /\ Len(stack') = Len(stack) /\ stack'[1] = x
      /\ \A n \in 2 .. Len(stack) : stack'[n] = s[n - 1]
  BY <1>2, <1>4, <1>5
<1>7. ASSUME NEW n \in 2 .. Len(stack)
      PROVE  stack'[n] = stack[n]
  BY <1>2, <1>6
<1> QED
  BY <1>2, <1>6, <1>7 DEF x

\* A step of the handler of the top frame.
LEMMA GoStep ==
    ASSUME IInv, stack # << >>, NEW step \in {"body", "eoi2", "eoi1", "iret"}, Go(step),
           FrameOK([stack[1] EXCEPT !.at = step], pc, firm),
           \A i : i \in isr' <=> \/ i \in Owed([stack[1] EXCEPT !.at = step])
                               \/ \E n \in 2 .. Len(stack) : i \in Owed(stack[n]),
           level' \in SUBSET Lines, imr' = imr, irr' \in SUBSET Lines, isr' \in SUBSET Lines,
           UNCHANGED <<kernel, flag, fault, halted, ghost, events, firm>>
    PROVE  IInv'
<1> USE DEF IInv
<1>1. /\ Len(stack) \in Nat /\ Len(stack) >= 1
      /\ stack[1] \in Frame /\ stack' \in Seq(Frame) /\ Len(stack') = Len(stack)
      /\ stack'[1] = [stack[1] EXCEPT !.at = step]
      /\ \A n \in 2 .. Len(stack) : stack'[n] = stack[n]
  BY Gone
<1>2. TypeOK'
  BY <1>1 DEF TypeOK, Frame, kernel
<1>3. Setup' /\ Masks'
  BY DEF Setup, Masks, Others, kernel
<1>4. Shape'
  <2>1. \A n \in 1 .. Len(stack') : FrameOK(stack'[n], pc', firm')
    <3>1. FrameOK(stack'[1], pc', firm')
      BY <1>1 DEF kernel
    <3>2. ASSUME NEW n \in 1 .. Len(stack'), n # 1
          PROVE  FrameOK(stack'[n], pc', firm')
      <4>1. n \in 1 .. Len(stack) /\ stack'[n] = stack[n]
        BY <1>1, <3>2
      <4> QED
        BY <4>1 DEF Shape, kernel
    <3> QED
      BY <3>1, <3>2
  <2>2. Len(stack') <= 2 /\ ~flag'
    BY <1>1 DEF Shape
  <2>3. stack'[1].int_no = stack[1].int_no /\ stack'[1].flag = stack[1].flag
    BY <1>1 DEF Frame
  <2>4. Len(stack') = 2 => stack'[1].int_no = Nmi /\ ~stack'[1].flag
    BY <1>1, <2>3 DEF Shape
  <2> QED
    BY <2>1, <2>2, <2>4 DEF Shape
<1>5. Service'
  <2>1. ASSUME NEW i
        PROVE  i \in isr' <=> \E n \in 1 .. Len(stack') : i \in Owed(stack'[n])
    <3>1. ASSUME i \in isr'
          PROVE  \E n \in 1 .. Len(stack') : i \in Owed(stack'[n])
      <4>1. CASE i \in Owed([stack[1] EXCEPT !.at = step])
        BY <1>1, <4>1
      <4>2. CASE \E n \in 2 .. Len(stack) : i \in Owed(stack[n])
        BY <1>1, <4>2
      <4> QED
        BY <3>1, <4>1, <4>2
    <3>2. ASSUME NEW n \in 1 .. Len(stack'), i \in Owed(stack'[n])
          PROVE  i \in isr'
      <4>1. CASE n = 1
        BY <1>1, <3>2, <4>1
      <4>2. CASE n # 1
        <5>1. n \in 2 .. Len(stack) /\ stack'[n] = stack[n]
          BY <1>1, <4>2
        <5> QED
          BY <3>2, <5>1
      <4> QED
        BY <4>1, <4>2
    <3> QED
      BY <3>1, <3>2
  <2> QED
    BY <2>1 DEF Service
<1> QED
  BY <1>2, <1>3, <1>4, <1>5

\* The frame of a hardware interrupt is alone, and its bits are those of its
\* line.
LEMMA Alone ==
    ASSUME IInv, stack # << >>, stack[1].line # NoLine
    PROVE  /\ Len(stack) = 1
           /\ stack[1].line \in Lines /\ stack[1].int_no = 32 + stack[1].line
           /\ stack[1].bits \subseteq InService(stack[1].line)
           /\ isr = Owed(stack[1])
<1> USE DEF IInv
<1>1. stack \in Seq(Frame) /\ Len(stack) \in Nat /\ Len(stack) >= 1 /\ stack[1] \in Frame
  <2>1. stack \in Seq(Frame)
    BY DEF TypeOK, Frame
  <2> QED
    BY <2>1, Popped
<1>2. FrameOK(stack[1], pc, firm)
  BY <1>1 DEF Shape
<1>3. stack[1].line \in Lines
  BY <1>1 DEF Frame
<1>4. stack[1].int_no = 32 + stack[1].line /\ stack[1].bits \subseteq InService(stack[1].line)
  BY <1>2 DEF FrameOK
<1>5. Len(stack) = 1
  <2>1. stack[1].int_no # Nmi
    BY <1>3, <1>4 DEF Nmi, Lines
  <2>2. Len(stack) <= 2 /\ Len(stack) # 2
    BY <2>1 DEF Shape
  <2> QED
    BY <1>1, <2>2, OneOrTwo, Zenon
<1>6. isr = Owed(stack[1])
  <2>1. \A n : n \in 1 .. Len(stack) <=> n = 1
    BY <1>5
  <2>2. \A i : i \in isr <=> i \in Owed(stack[1])
    BY <2>1 DEF Service
  <2> QED
    BY <2>2
<1> QED
  BY <1>3, <1>4, <1>5, <1>6

\* The commands that end the interrupt of line i clear its own bits.
LEMMA EoiClears ==
    ASSUME NEW i \in Lines, NEW bits, bits \subseteq InService(i)
    PROVE  /\ isr = bits /\ i \in Slave /\ Eoi(Slave) => isr' = bits \cap Master
           /\ isr = bits \cap Master /\ Eoi(Master) => isr' = {}
           /\ i \notin Slave => bits = bits \cap Master
<1>1. \A j \in Lines : Rank(j) \in Int
  BY DEF Rank, Lines, Slave, Cascade
<1>2. Slave \subseteq Lines /\ Master \subseteq Lines /\ Slave \cap Master = {}
  BY DEF Slave, Master, Lines
<1>3. \A j \in Lines : j \in Slave <=> j \notin Master
  BY DEF Slave, Master, Lines
<1>4. Cascade \in Master /\ Cascade \in Lines
  BY DEF Cascade, Master, Lines
<1>5. bits \subseteq Lines /\ \A j \in bits : j \in Slave => j = i
  BY <1>2, <1>3, <1>4 DEF InService
<1>6. ASSUME isr = bits, i \in Slave, Eoi(Slave)
      PROVE  isr' = bits \cap Master
  <2>1. \A j \in isr \cap Slave, k \in isr \cap Slave : ~(Rank(j) < Rank(k))
    BY <1>1, <1>2, <1>5, <1>6
  <2> QED
    BY <1>3, <1>5, <1>6, <2>1 DEF Eoi
<1>7. ASSUME isr = bits \cap Master, Eoi(Master)
      PROVE  isr' = {}
  <2>1. \A j \in isr, k \in isr : j = k
    BY <1>3, <1>7 DEF InService
  <2>2. \A j \in isr, k \in isr : ~(Rank(j) < Rank(k))
    BY <1>1, <1>2, <1>7, <2>1
  <2> QED
    BY <1>7, <2>2 DEF Eoi
<1>8. ASSUME i \notin Slave
      PROVE  bits = bits \cap Master
  BY <1>3, <1>8 DEF InService
<1> QED
  BY <1>6, <1>7, <1>8

\* Every step of a handler.
LEMMA HandlerStep ==
    ASSUME IInv, ~halted, Handler
    PROVE  IInv'
<1> USE DEF IInv
<1> DEFINE f == stack[1]
<1>1. /\ stack # << >> /\ top = f /\ f \in Frame
      /\ stack \in Seq(Frame) /\ Len(stack) \in Nat /\ Len(stack) >= 1
  <2>1. stack \in Seq(Frame) /\ stack # << >>
    BY DEF TypeOK, Frame, Handler, HardwareBody, ExceptionBody, EoiSlave, EoiMaster, Iret
  <2> QED
    BY <2>1, Popped DEF top
<1>2. FrameOK(f, pc, firm) /\ f.line \in Lines \cup {NoLine}
  BY <1>1 DEF Shape, Frame
<1>3. f.line \in Lines => f.line # NoLine /\ f.int_no \in 32 .. 47
  BY <1>2 DEF FrameOK, Lines, NoLine
<1>4. \A i : i \in isr <=> i \in Owed(f) \/ \E n \in 2 .. Len(stack) : i \in Owed(stack[n])
  <2>1. \A n : n \in 1 .. Len(stack) <=> n = 1 \/ n \in 2 .. Len(stack)
    BY <1>1
  <2> QED
    BY <2>1 DEF Service
<1>5. CASE HardwareBody
  <2> DEFINE step == AfterBody(f.int_no - 32)
  <2>1. f.line # NoLine /\ f.int_no = 32 + f.line /\ f.line \in Lines /\ f.at = "body"
    BY <1>1, <1>2, <1>5 DEF HardwareBody, FrameOK
  <2>2. f.int_no - 32 = f.line
    BY <2>1 DEF Lines
  <2>3. step \in {"body", "eoi2", "eoi1", "iret"} /\ Go(step)
    BY <1>1, <1>5 DEF HardwareBody, AfterBody
  <2>4. step = IF f.line \in Slave THEN "eoi2" ELSE "eoi1"
    BY <2>1, <2>2 DEF AfterBody, Slave, Lines
  <2>5. /\ level' \in SUBSET Lines /\ irr' \in SUBSET Lines /\ imr' = imr /\ isr' = isr
        /\ UNCHANGED <<kernel, flag, fault, halted, ghost, events, firm>>
    BY <1>5 DEF HardwareBody, Lower, pic, TypeOK
  <2> HIDE DEF step
  <2>6. FrameOK([f EXCEPT !.at = step], pc, firm)
    BY <1>1, <1>2, <2>1, <2>4 DEF FrameOK, Frame
  <2>7. Owed([f EXCEPT !.at = step]) = Owed(f)
    <3>1. f.bits \subseteq InService(f.line)
      BY <1>2, <2>1 DEF FrameOK
    <3>2. f.line \notin Slave => f.bits = f.bits \cap Master
      BY <2>1, <3>1, EoiClears
    <3> QED
      BY <1>1, <2>1, <2>4, <3>2 DEF Owed, Frame
  <2> QED
    BY <1>1, <1>4, <2>3, <2>5, <2>6, <2>7, GoStep DEF TypeOK
<1>6. CASE ExceptionBody
  <2>1. f.line = NoLine /\ f.bits = {} /\ f.at = "body"
    BY <1>1, <1>2, <1>3, <1>6 DEF ExceptionBody, FrameOK
  <2>2. CASE Go("iret") /\ UNCHANGED halted
    <3>1. FrameOK([f EXCEPT !.at = "iret"], pc, firm)
      BY <1>1, <1>2, <2>1 DEF FrameOK, Frame
    <3>2. Owed([f EXCEPT !.at = "iret"]) = {} /\ Owed(f) = {}
      BY <1>1, <2>1 DEF Owed, Frame
    <3>3. /\ level' \in SUBSET Lines /\ irr' \in SUBSET Lines /\ imr' = imr
          /\ isr' = isr /\ isr \in SUBSET Lines
          /\ UNCHANGED <<kernel, flag, fault, halted, ghost, events, firm>>
      BY <1>6, <2>2 DEF ExceptionBody, pic, TypeOK
    <3> QED
      BY <1>1, <1>4, <2>2, <3>1, <3>2, <3>3, GoStep
  <2>3. CASE halted' = TRUE /\ UNCHANGED stack
    <3>1. UNCHANGED <<pic, kernel, flag, fault, ghost, events, firm>>
      BY <1>6 DEF ExceptionBody
    <3>2. TypeOK'
      BY <2>3, <3>1 DEF TypeOK, pic, kernel
    <3>3. Setup' /\ Masks'
      BY <3>1 DEF Setup, Masks, Others, pic, kernel
    <3>4. Shape' /\ Service'
      BY <2>3, <3>1 DEF Shape, Service, pic, kernel
    <3> QED
      BY <3>2, <3>3, <3>4
  <2> QED
    BY <1>6, <2>2, <2>3 DEF ExceptionBody
<1>7. CASE EoiSlave
  <2>1. f.at = "eoi2" /\ Eoi(Slave) /\ Go("eoi1")
    BY <1>1, <1>7 DEF EoiSlave
  <2>2. f.line \in Slave /\ f.line # NoLine
    BY <1>2, <2>1 DEF FrameOK, Slave, NoLine
  <2>3. /\ Len(stack) = 1 /\ f.line \in Lines
        /\ f.bits \subseteq InService(f.line) /\ isr = Owed(f)
    BY <1>1, <2>2, Alone
  <2>4. Owed(f) = f.bits /\ Owed([f EXCEPT !.at = "eoi1"]) = f.bits \cap Master
    BY <1>1, <2>1 DEF Owed, Frame
  <2>5. isr' = f.bits \cap Master
    BY <2>1, <2>2, <2>3, <2>4, EoiClears
  <2>6. FrameOK([f EXCEPT !.at = "eoi1"], pc, firm)
    BY <1>1, <1>2, <2>2 DEF FrameOK, Frame
  <2>7. /\ level' \in SUBSET Lines /\ irr' \in SUBSET Lines /\ imr' = imr
        /\ UNCHANGED <<kernel, flag, fault, halted, ghost, events, firm>>
    BY <1>7 DEF EoiSlave, Eoi, TypeOK
  <2>8. isr' \in SUBSET Lines
    BY <2>5 DEF Master, Lines
  <2>9. ~ \E n \in 2 .. Len(stack) : TRUE
    BY <2>3
  <2>10. \A i : i \in isr' <=> \/ i \in Owed([f EXCEPT !.at = "eoi1"])
                                \/ \E n \in 2 .. Len(stack) : i \in Owed(stack[n])
    BY <2>4, <2>5, <2>9
  <2> QED
    BY <1>1, <2>1, <2>6, <2>7, <2>8, <2>10, GoStep
<1>8. CASE EoiMaster
  <2>1. f.at = "eoi1" /\ Eoi(Master) /\ Go("iret")
    BY <1>1, <1>8 DEF EoiMaster
  <2>2. f.line # NoLine
    BY <1>2, <2>1 DEF FrameOK
  <2>3. /\ Len(stack) = 1 /\ f.line \in Lines
        /\ f.bits \subseteq InService(f.line) /\ isr = Owed(f)
    BY <1>1, <2>2, Alone
  <2>4. Owed(f) = f.bits \cap Master /\ Owed([f EXCEPT !.at = "iret"]) = {}
    BY <1>1, <2>1 DEF Owed, Frame
  <2>5. isr' = {}
    BY <2>1, <2>3, <2>4, EoiClears
  <2>6. FrameOK([f EXCEPT !.at = "iret"], pc, firm)
    BY <1>1, <1>2, <2>2 DEF FrameOK, Frame
  <2>7. /\ level' \in SUBSET Lines /\ irr' \in SUBSET Lines /\ imr' = imr
        /\ UNCHANGED <<kernel, flag, fault, halted, ghost, events, firm>>
    BY <1>8 DEF EoiMaster, Eoi, TypeOK
  <2>8. isr' \in SUBSET Lines
    BY <2>5
  <2>9. ~ \E n \in 2 .. Len(stack) : TRUE
    BY <2>3
  <2>10. \A i : i \in isr' <=> \/ i \in Owed([f EXCEPT !.at = "iret"])
                                \/ \E n \in 2 .. Len(stack) : i \in Owed(stack[n])
    BY <2>4, <2>5, <2>9
  <2> QED
    BY <1>1, <2>1, <2>6, <2>7, <2>8, <2>10, GoStep
<1>9. CASE Iret
  <2> DEFINE s == Tail(stack)
  <2>1. f.at = "iret" /\ stack' = s /\ flag' = f.flag
    BY <1>1, <1>9 DEF Iret
  <2>2. UNCHANGED <<pic, kernel, fault, halted, ghost, events, firm>>
    BY <1>9 DEF Iret
  <2>3. /\ s \in Seq(Frame) /\ Len(s) = Len(stack) - 1
        /\ \A n \in 1 .. Len(stack) - 1 : s[n] = stack[n + 1]
    BY <1>1, Popped
  <2> HIDE DEF s
  <2>4. TypeOK'
    BY <1>1, <2>1, <2>2, <2>3 DEF TypeOK, Frame, pic, kernel
  <2>5. Setup' /\ Masks'
    BY <1>2, <2>1, <2>2 DEF Setup, Masks, Others, FrameOK, pic, kernel
  <2>6. ASSUME NEW n \in 1 .. Len(s)
        PROVE  n + 1 \in 2 .. Len(stack) /\ n + 1 \in 1 .. Len(stack) /\ s[n] = stack[n + 1]
    BY <1>1, <2>3
  <2>7. Shape'
    <3>1. Len(stack) <= 2
      BY DEF Shape
    <3>2. Len(s) <= 2
      BY <1>1, <2>3, <3>1
    <3>3. Len(s) # 2
      BY <1>1, <2>3, <3>1
    <3>4. ASSUME s # << >>
          PROVE  ~f.flag
      <4>1. Len(s) \in Nat /\ Len(s) # 0
        BY <2>3, <3>4
      <4>2. Len(stack) # 1
        BY <1>1, <2>3, <4>1
      <4>3. Len(stack) = 2
        BY <1>1, <3>1, <4>2, OneOrTwo, Zenon
      <4> QED
        BY <4>3 DEF Shape
    <3>5. \A n \in 1 .. Len(s) : FrameOK(s[n], pc', firm')
      BY <2>2, <2>6 DEF Shape, kernel
    <3> QED
      BY <2>1, <3>2, <3>3, <3>4, <3>5 DEF Shape
  <2>8. Service'
    <3>1. Owed(f) = {}
      BY <2>1 DEF Owed
    <3>2. ASSUME NEW i
          PROVE  i \in isr <=> \E n \in 1 .. Len(s) : i \in Owed(s[n])
      <4>1. ASSUME NEW n \in 2 .. Len(stack)
            PROVE  n - 1 \in 1 .. Len(s) /\ s[n - 1] = stack[n]
        BY <1>1, <2>3
      <4>2. ASSUME NEW n \in 2 .. Len(stack), i \in Owed(stack[n])
            PROVE  \E m \in 1 .. Len(s) : i \in Owed(s[m])
        BY <4>1, <4>2
      <4>3. ASSUME NEW n \in 1 .. Len(s), i \in Owed(s[n])
            PROVE  \E m \in 2 .. Len(stack) : i \in Owed(stack[m])
        BY <2>6, <4>3
      <4> QED
        BY <1>4, <3>1, <4>2, <4>3
    <3> QED
      BY <2>1, <2>2, <3>2 DEF Service, pic
  <2> QED
    BY <2>4, <2>5, <2>7, <2>8
<1> QED
  BY <1>5, <1>6, <1>7, <1>8, <1>9 DEF Handler

-----------------------------------------------------------------------------
(* kmain and the devices.                                                  *)

\* Every step of kmain.
LEMMA BootStep ==
    ASSUME IInv, Boot
    PROVE  IInv'
<1> USE DEF IInv
<1>1. stack = << >> /\ Len(stack) = 0 /\ isr = {} /\ pc \in 1 .. 19
  <2>1. stack = << >>
    BY DEF Boot, IdtInit, Save, Icw1, Offsets, Restore, SetHandler, Sti, TestPort, ReadMask,
           WriteMask, At, Running
  <2>2. pc \in 1 .. 19
    <3>1. pc <= Len(kmain)
      BY DEF Boot, IdtInit, Save, Icw1, Offsets, Restore, SetHandler, Sti, TestPort,
             ReadMask, WriteMask, At
    <3> QED
      BY <3>1, Program DEF TypeOK
  <2>3. Len(stack) = 0
    BY <2>1
  <2> QED
    BY <2>1, <2>2, <2>3 DEF Service
<1>2. /\ UNCHANGED <<level, stack, fault, halted, ghost, events, firm>>
      /\ isr' = {} /\ irr' \in SUBSET Lines
  <2>1. irr' \in {irr, {}} /\ isr' \in {isr, {}} /\ level' = level
    BY DEF Boot, IdtInit, Save, Icw1, Offsets, Restore, SetHandler, Sti, TestPort,
           ReadMask, WriteMask, pic
  <2>2. UNCHANGED <<stack, fault, halted, ghost, events, firm>>
    BY DEF Boot, IdtInit, Save, Icw1, Offsets, Restore, SetHandler, Sti, TestPort,
           ReadMask, WriteMask, Advance, cpu
  <2> QED
    BY <1>1, <2>1, <2>2 DEF TypeOK
<1>3. pc' = pc + 1 \/ (TestPort /\ pc = 13 /\ pc' = 16)
  <2>1. CASE ~TestPort
    BY <2>1 DEF Boot, IdtInit, Save, Icw1, Offsets, Restore, SetHandler, Sti, ReadMask, WriteMask,
           Advance
  <2>2. CASE TestPort
    <3>1. pc = 13
      <4>1. kmain[pc][1] = "port"
        BY <2>2 DEF TestPort, At
      <4> QED
        BY <1>1, <4>1, Program
    <3>2. Len(SER_init) = 3
      BY DEF SER_init
    <3> QED
      BY <2>2, <3>1, <3>2 DEF TestPort
  <2> QED
    BY <2>1, <2>2
<1>4. Shape' /\ Service'
  BY <1>1, <1>2 DEF Shape, Service
<1>5. pc' \in 1 .. Len(kmain) + 1
  BY <1>1, <1>3, Program
<1>6. SUFFICES /\ imr' \in SUBSET Lines /\ value' \in SUBSET Lines
               /\ base' \in {[master |-> 8, slave |-> 112], [master |-> 32, slave |-> 40]}
               /\ loaded' \in BOOLEAN /\ table' \in SUBSET Lines /\ flag' \in BOOLEAN
               /\ Setup' /\ Masks'
  BY <1>2, <1>4, <1>5 DEF TypeOK
<1>7. Others' = Others /\ Others \subseteq Lines /\ 1 \notin Others /\ 4 \notin Others
  BY <1>2 DEF Others, TypeOK
<1>8. CASE IdtInit
  <2>1. pc = 1
    <3>1. kmain[pc][1] = "idt_init"
      BY <1>8 DEF IdtInit, At
    <3> QED
      BY <1>1, <3>1, Program
  <2> QED
    BY <1>1, <1>7, <1>8, <2>1 DEF IdtInit, Advance, cpu, pic, TypeOK, Setup, Masks
<1>9. CASE Save
  <2>1. pc = 2
    <3>1. kmain[pc][1] = "save"
      BY <1>9 DEF Save, At
    <3> QED
      BY <1>1, <3>1, Program
  <2> QED
    BY <1>1, <1>7, <1>9, <2>1 DEF Save, Advance, cpu, pic, TypeOK, Setup, Masks
<1>10. CASE Icw1
  <2>1. pc = 3
    <3>1. kmain[pc][1] = "icw1"
      BY <1>10 DEF Icw1, At
    <3> QED
      BY <1>1, <3>1, Program
  <2> QED
    BY <1>1, <1>7, <1>10, <2>1 DEF Icw1, Advance, cpu, TypeOK, Setup, Masks
<1>11. CASE Offsets
  <2>1. pc = 4
    <3>1. kmain[pc][1] = "offsets"
      BY <1>11 DEF Offsets, At
    <3> QED
      BY <1>1, <3>1, Program
  <2> QED
    BY <1>1, <1>7, <1>11, <2>1 DEF Offsets, Advance, cpu, pic, TypeOK, Setup, Masks
<1>12. CASE Restore
  <2>1. pc = 5
    <3>1. kmain[pc][1] = "restore"
      BY <1>12 DEF Restore, At
    <3> QED
      BY <1>1, <3>1, Program
  <2> QED
    BY <1>1, <1>7, <1>12, <2>1 DEF Restore, Advance, cpu, TypeOK, Setup, Masks
<1>13. CASE SetHandler
  <2>1. pc \in {6, 9} /\ arg = IF pc = 6 THEN 1 ELSE 4
    <3>1. kmain[pc][1] = "handler"
      BY <1>13 DEF SetHandler, At
    <3> QED
      BY <1>1, <3>1, Program DEF arg
  <2>2. arg \in Lines
    BY <2>1 DEF Lines
  <2> QED
    BY <1>1, <1>7, <1>13, <2>1, <2>2 DEF SetHandler, Advance, cpu, pic, TypeOK, Setup, Masks
<1>14. CASE Sti
  <2>1. pc = 12
    <3>1. kmain[pc][1] = "sti"
      BY <1>14 DEF Sti, At
    <3> QED
      BY <1>1, <3>1, Program
  <2> QED
    BY <1>1, <1>7, <1>14, <2>1 DEF Sti, pic, TypeOK, Setup, Masks
<1>15. CASE TestPort
  <2>1. pc = 13 /\ pc' \in {14, 16}
    <3>1. kmain[pc][1] = "port"
      BY <1>15 DEF TestPort, At
    <3>2. pc = 13
      BY <1>1, <3>1, Program
    <3> QED
      BY <1>3, <3>2
  <2> QED
    BY <1>1, <1>7, <1>15, <2>1 DEF TestPort, cpu, pic, TypeOK, Setup, Masks
<1>16. CASE ReadMask
  <2>1. pc \in {7, 10, 14, 16, 18} /\ Side(arg) = Master
    <3>1. kmain[pc][1] = "inb"
      BY <1>16 DEF ReadMask, At
    <3>2. pc \in {7, 10, 14, 16, 18} /\ kmain[pc][2] \in {1, 4}
      BY <1>1, <3>1, Program
    <3> QED
      BY <3>2 DEF arg, Side
  <2>2. value' = imr \cap Master
    BY <1>16, <2>1 DEF ReadMask
  <2>3. pc' = pc + 1 /\ UNCHANGED <<imr, base, loaded, table, flag>>
    BY <1>16 DEF ReadMask, Advance, cpu, pic
  <2>4. Setup'
    BY <1>1, <2>1, <2>3 DEF Setup
  <2>5. Masks'
    BY <1>1, <1>7, <2>1, <2>2, <2>3 DEF Masks
  <2> QED
    BY <2>2, <2>3, <2>4, <2>5 DEF TypeOK
<1>17. CASE WriteMask
  <2>1. pc \in {8, 11, 15, 17, 19} /\ Side(arg) = Master /\ arg \in {1, 4}
    <3>1. kmain[pc][1] = "set" \/ kmain[pc][1] = "clear"
      BY <1>17 DEF WriteMask, At
    <3>2. pc \in {8, 11, 15, 17, 19} /\ kmain[pc][2] \in {1, 4}
      BY <1>1, <3>1, Program
    <3> QED
      BY <3>2 DEF arg, Side
  <2>2. imr' = (imr \ Master) \cup (value \cup {arg}) \/ imr' = (imr \ Master) \cup (value \ {arg})
    BY <1>17, <2>1 DEF WriteMask
  <2>3. pc' = pc + 1 /\ UNCHANGED <<value, base, loaded, table, flag>>
    BY <1>17 DEF WriteMask, Advance, cpu
  <2>4. Setup'
    BY <1>1, <2>1, <2>3 DEF Setup
  <2>5. Others \subseteq imr /\ Others \cap Master \subseteq value
    BY <2>1 DEF Masks
  <2>6. Others \subseteq imr'
    BY <1>7, <2>1, <2>2, <2>5
  <2>7. Masks'
    BY <1>1, <1>7, <2>1, <2>3, <2>6 DEF Masks
  <2>8. imr' \in SUBSET Lines
    <3>1. imr \in SUBSET Lines /\ value \in SUBSET Lines
      BY DEF TypeOK
    <3>2. arg \in Lines
      BY <2>1 DEF Lines
    <3> QED
      BY <2>2, <3>1, <3>2
  <2> QED
    BY <2>3, <2>4, <2>7, <2>8 DEF TypeOK
<1> QED
  BY <1>8, <1>9, <1>10, <1>11, <1>12, <1>13, <1>14, <1>16, <1>17, <1>15 DEF Boot

\* Devices and stuttering do not touch what the invariant speaks of.
LEMMA DeviceStep ==
    ASSUME IInv, (\E i \in Devices : RaiseLine(i) \/ DropLine(i)) \/ UNCHANGED vars
    PROVE  IInv'
<1> USE DEF IInv
<1>1. UNCHANGED <<imr, isr, kernel, cpu, firm>>
  BY DEF RaiseLine, DropLine, Raise, Lower, vars, pic
<1>2. /\ level' \in SUBSET Lines /\ irr' \in SUBSET Lines
      /\ ghost' \in SUBSET {7, 15} /\ events' \in 0 .. MaxEvents
  <2>1. ASSUME NEW i \in Devices, RaiseLine(i)
        PROVE  <1>2!:
    <3>1. i \in Lines
      BY InterruptsAssumption
    <3> QED
      BY <2>1, <3>1, InterruptsAssumption DEF RaiseLine, Raise, TypeOK
  <2>2. ASSUME NEW i \in Devices, DropLine(i)
        PROVE  <1>2!:
    BY <2>2 DEF DropLine, Lower, TypeOK
  <2>3. CASE UNCHANGED vars
    BY <2>3 DEF vars, pic, TypeOK
  <2> QED
    BY <2>1, <2>2, <2>3
<1>3. TypeOK'
  BY <1>1, <1>2 DEF TypeOK, kernel, cpu
<1>4. Setup' /\ Masks'
  BY <1>1 DEF Setup, Masks, Others, kernel, cpu
<1>5. Shape' /\ Service'
  BY <1>1 DEF Shape, Service, kernel, cpu
<1> QED
  BY <1>3, <1>4, <1>5

-----------------------------------------------------------------------------
(* Theorems.                                                               *)

\* The invariant holds for all devices, masks and exceptions, however often
\* lines rise.
THEOREM Invariance == Spec => []IInv
<1>1. ASSUME Init
      PROVE  IInv
  <2>1. TypeOK
    <3>1. firm \in SUBSET Lines
      BY <1>1, InterruptsAssumption DEF Init
    <3>2. level \in SUBSET Lines
      BY <1>1, InterruptsAssumption DEF Init
    <3>3. pc \in 1 .. Len(kmain) + 1
      BY <1>1, Program DEF Init
    <3>4. stack \in Seq([int_no : Vectors, line : Lines \cup {NoLine}, bits : SUBSET Lines,
                         flag : BOOLEAN, at : {"body", "eoi2", "eoi1", "iret"}, words : Nat])
      BY <1>1 DEF Init
    <3>5. /\ imr \subseteq Lines /\ irr \subseteq Lines /\ isr \subseteq Lines
          /\ value \subseteq Lines /\ table \subseteq Lines
          /\ ghost \subseteq {7, 15} /\ events \in 0 .. MaxEvents
      BY <1>1, <3>1, <3>2, InterruptsAssumption DEF Init
    <3>6. /\ base \in {[master |-> 8, slave |-> 112], [master |-> 32, slave |-> 40]}
          /\ loaded \in BOOLEAN /\ flag \in BOOLEAN /\ halted \in BOOLEAN
          /\ fault \in Faults \cup {NoFault}
      BY <1>1 DEF Init
    <3> QED
      BY <3>1, <3>2, <3>3, <3>4, <3>5, <3>6 DEF TypeOK
  <2>2. Setup /\ Masks
    BY <1>1 DEF Init, Setup, Masks, Others
  <2>3. Len(stack) = 0
    BY <1>1 DEF Init
  <2>4. Shape /\ Service
    BY <1>1, <2>3 DEF Init, Shape, Service
  <2> QED
    BY <2>1, <2>2, <2>4 DEF IInv
<1>2. ASSUME IInv, [Next]_vars
      PROVE  IInv'
  <2>1. CASE Boot
    BY <1>2, <2>1, BootStep
  <2>2. CASE \/ \E i \in irr : Interrupt(i)
             \/ \E i \in ghost : Spurious(i)
             \/ TakeNmi
             \/ \E v \in Exceptions : Exception(v)
             \/ FaultAgain
    BY <1>2, <2>2, EntryStep
  <2>3. CASE ~halted /\ Handler
    BY <1>2, <2>3, HandlerStep
  <2>4. CASE (\E i \in Devices : RaiseLine(i) \/ DropLine(i)) \/ UNCHANGED vars
    BY <1>2, <2>4, DeviceStep
  <2> QED
    BY <1>2, <2>1, <2>2, <2>3, <2>4 DEF Next
<1> QED
  BY <1>1, <1>2, PTL DEF Spec

\* Every variable stays in its type, the stack a stack of frames.
THEOREM TypeCorrect == Spec => []TypeOK
<1>1. IInv => TypeOK
  BY DEF IInv
<1> QED
  BY <1>1, Invariance, PTL

\* Handlers of hardware interrupts do not nest, since every gate clears the
\* interrupt flag and only the return sets it again.
THEOREM NoNesting == Spec => []OneHandlerAtATime
<1>1. ASSUME IInv
      PROVE  OneHandlerAtATime
  <2>1. stack \in Seq(Frame) /\ Len(stack) \in Nat
    BY <1>1 DEF IInv, TypeOK, Frame
  <2>2. ASSUME NEW n \in 1 .. Len(stack), stack[n].line # NoLine
        PROVE  n = Len(stack)
    <3>1. Len(stack) <= 2 /\ (Len(stack) = 2 => stack[1].int_no = Nmi)
      BY <1>1 DEF IInv, Shape
    <3>2. stack[n].int_no = 32 + stack[n].line /\ stack[n].line \in Lines
      <4>1. stack[n] \in Frame
        BY <2>1
      <4>2. FrameOK(stack[n], pc, firm)
        BY <1>1 DEF IInv, Shape
      <4> QED
        BY <2>2, <4>1, <4>2 DEF FrameOK, Frame
    <3>3. stack[n].int_no # Nmi
      BY <3>2, NoLineIsNmi, Zenon
    <3>4. Len(stack) = 1 \/ Len(stack) = 2
      <4>1. Len(stack) >= 1
        BY <2>1
      <4> QED
        BY <2>1, <3>1, <4>1, OneOrTwo, Zenon
    <3>5. CASE Len(stack) = 1
      BY <3>5
    <3>6. CASE Len(stack) = 2
      <4>1. n # 1
        BY <3>1, <3>3, <3>6
      <4> QED
        BY <3>6, <4>1
    <3> QED
      BY <3>4, <3>5, <3>6
  <2>3. Hardware = {} \/ Hardware = {Len(stack)}
    BY <2>2 DEF Hardware
  <2>4. Cardinality(Hardware) <= 1
    <3>1. Cardinality({}) = 0
      BY FS_EmptySet
    <3>2. Cardinality({Len(stack)}) = 1
      BY FS_Singleton, Zenon
    <3>3. Cardinality(Hardware) = 0 \/ Cardinality(Hardware) = 1
      BY <2>3, <3>1, <3>2, Zenon
    <3> QED
      BY <3>3
  <2>5. ASSUME flag
        PROVE  Hardware = {}
    <3>1. stack = << >>
      BY <1>1, <2>5 DEF IInv, Shape
    <3> QED
      BY <3>1 DEF Hardware
  <2> QED
    BY <2>4, <2>5 DEF OneHandlerAtATime
<1> QED
  BY <1>1, Invariance, PTL

\* The controllers have in service what is being handled, as the commands at
\* the end of interrupt_handler clear the bits that the vector set and no
\* others, spurious requests included.
THEOREM EveryEoiIsDue == Spec => []InServiceWhileHandled
<1>1. ASSUME IInv
      PROVE  InServiceWhileHandled
  <2>1. \A i : i \in UNION {Owed(f) : f \in Frames}
               <=> \E n \in 1 .. Len(stack) : i \in Owed(stack[n])
    BY DEF Frames
  <2> QED
    BY <1>1, <2>1 DEF IInv, Service, InServiceWhileHandled
<1> QED
  BY <1>1, Invariance, PTL

\* Vectors mean what the handlers take them for: interrupts are enabled only
\* after PIC_remap, and stubs and isr_common agree on the words on the stack.
THEOREM VectorsMatch == Spec => []HandledAsWhatItIs
<1>1. ASSUME IInv
      PROVE  HandledAsWhatItIs
  BY <1>1 DEF IInv, Shape, FrameOK, HandledAsWhatItIs, Frames
<1> QED
  BY <1>1, Invariance, PTL

\* What the firmware had masked stays masked through PIC_remap, but for the
\* two lines of the kernel, which are in irq_table before sti.
THEOREM OnlyEnabledLines == Spec => []OnlyExpectedLines
<1>1. ASSUME IInv
      PROVE  OnlyExpectedLines
  <2>1. ASSUME NEW n \in 1 .. Len(stack), stack[n].line \notin {NoLine, 7, 15}
        PROVE  IF stack[n].line \in {1, 4} THEN stack[n].line \in table
                                          ELSE stack[n].line \notin firm
    <3>1. FrameOK(stack[n], pc, firm)
      BY <1>1 DEF IInv, Shape
    <3>2. pc > 12 /\ (stack[n].line \notin {7, 15, 1, 4} => stack[n].line \notin firm)
      BY <2>1, <3>1 DEF FrameOK
    <3>3. 1 \in table /\ 4 \in table
      BY <1>1, <3>2 DEF IInv, Setup, TypeOK
    <3> QED
      BY <2>1, <3>2, <3>3
  <2> QED
    BY <2>1 DEF OnlyExpectedLines, Frames
<1> QED
  BY <1>1, Invariance, PTL
=============================================================================
