---------------------------- MODULE MCInterrupts ----------------------------
(* Firmware and machines for model checking.                               *)
EXTENDS Interrupts

\* Everything but the cascade masked; and the timer, the keyboard, the clock
\* and the mouse left enabled.
Masks == {Lines \ {Cascade}, Lines \ {0, 1, Cascade, 8, 12}}
=============================================================================
