-------------------------------- MODULE Pic --------------------------------
(***************************************************************************)
(* The two interrupt controllers as src/kernel/interrupts.c sets them up:  *)
(* edge-triggered, fully nested, the second one behind line 2 of the       *)
(* first.  A line that rises is latched in irr, masked or not; if it falls *)
(* before the processor has acknowledged it, some controllers forget it.   *)
(***************************************************************************)
EXTENDS Integers

VARIABLES
    level,   \* the lines that are high
    imr,     \* the lines that are masked
    irr,     \* the lines with a latched request
    isr      \* the lines in service

pic == <<level, imr, irr, isr>>

Lines == 0 .. 15
Master == 0 .. 7
Slave == 8 .. 15
Cascade == 2

\* Priority, 0 first: the second controller comes in between 1 and 3.
Rank(i) == IF i <= Cascade THEN i ELSE IF i \in Slave THEN i - 6 ELSE i + 7

\* What the processor would be asked to take.
Requested(i) ==
    /\ i \in irr \ imr
    /\ i \in Slave => Cascade \notin imr
    /\ \A j \in isr : Rank(i) < Rank(j)

Highest(i) == Requested(i) /\ \A j \in irr : Requested(j) => Rank(i) <= Rank(j)

Raise(i) ==
    /\ level' = level \cup {i}
    /\ irr' = IF i \in level THEN irr ELSE irr \cup {i}
    /\ UNCHANGED <<imr, isr>>

Lower(i) ==
    /\ level' = level \ {i}
    /\ irr' \in {irr, irr \ {i}}
    /\ UNCHANGED <<imr, isr>>

\* The bits in service while request i is handled.
InService(i) == IF i \in Slave THEN {i, Cascade} ELSE {i}

Acknowledge(i) ==
    /\ irr' = irr \ {i}
    /\ isr' = isr \cup InService(i)
    /\ UNCHANGED <<level, imr>>

\* PIC_EOI written to the command port of one side: the bit of the highest
\* priority in service there is cleared, whichever that is.
Eoi(side) ==
    /\ isr' = {i \in isr : i \in side => \E j \in isr \cap side : Rank(j) < Rank(i)}
    /\ UNCHANGED <<level, imr, irr>>
=============================================================================
