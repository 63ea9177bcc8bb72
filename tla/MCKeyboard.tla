----------------------------- MODULE MCKeyboard -----------------------------
(* Keyboards for model checking.                                           *)
EXTENDS Keyboard

LOCAL Key(c) == [code |-> c, ext |-> FALSE]
LOCAL ExtKey(c) == [code |-> c, ext |-> TRUE]

\* Both shifts, both ctrls, both alts and a key of each kind.
AllKeys == {Key(c) : c \in Codes} \cup {ExtKey(c) : c \in {"ctrl", "alt", "kp8"}}
ShiftsAndA == {Key(c) : c \in {"lshift", "rshift", "a"}}
=============================================================================
