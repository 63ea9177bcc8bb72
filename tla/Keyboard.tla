------------------------------ MODULE Keyboard ------------------------------
(***************************************************************************)
(* kb_interrupt_handler and scancode_to_ascii of src/kernel/drivers.c      *)
(* against a keyboard in scan code set 2: each key event is one to three   *)
(* bytes, the handler is called for one byte at a time, and decodes them   *)
(* with six static flags.                                                  *)
(*                                                                         *)
(* A scan code is named after its unextended key; the same code after the  *)
(* E0 prefix is another key.                                               *)
(***************************************************************************)
EXTENDS Integers, Sequences

CONSTANTS
    Keys,         \* the keys of the keyboard: [code, ext]
    Paired,       \* both keys of a pair (two shifts, ctrls, alts) may be down
    CapsRepeats,  \* the keyboard repeats caps lock while it is held
    MaxEvents     \* bound: key events

ShiftCodes == {"lshift", "rshift"}
Codes == ShiftCodes \cup {"ctrl", "alt", "caps", "a", "1", "space", "kp8", "f1"}

ASSUME KeyboardAssumption ==
    /\ Keys \subseteq [code : Codes, ext : BOOLEAN]
    /\ \A k \in Keys : k.ext => k.code \in {"ctrl", "alt", "kp8"}
    /\ Paired \in BOOLEAN /\ CapsRepeats \in BOOLEAN /\ MaxEvents \in Nat

VARIABLES
    down, last,   \* the keys held, the one pressed last
    caps_on,      \* caps lock as the user has switched it
    events,       \* counter behind the bound
    wire,         \* the bytes sent and not yet read from PS2_DATA
    awaiting_break_code, kb_extended, kb_capslock, kb_shift, kb_ctrl, kb_alt,
    typed,        \* history: what the key presses mean, in order
    printed       \* history: what printk was given

user == <<down, last, caps_on, events, typed>>
flags == <<awaiting_break_code, kb_extended, kb_capslock, kb_shift, kb_ctrl, kb_alt>>
vars == <<user, wire, flags, printed>>

NoKey == [code |-> "none", ext |-> FALSE]
NoChar == ""

Init ==
    /\ down = {} /\ last = NoKey /\ caps_on = FALSE /\ events = 0
    /\ wire = << >>
    /\ awaiting_break_code = FALSE /\ kb_extended = FALSE /\ kb_capslock = FALSE
    /\ kb_shift = FALSE /\ kb_ctrl = FALSE /\ kb_alt = FALSE
    /\ typed = << >> /\ printed = << >>

-----------------------------------------------------------------------------
(* scancode_to_ascii and is_modifier.                                      *)

\* One letter, one key that shift changes, one it does not, a keypad digit that
\* is an arrow when extended, and a key without a character.
scancode_to_ascii(code, extended, capslock, shift) ==
    CASE extended -> IF code = "kp8" THEN "^" ELSE NoChar
      [] ~extended /\ code = "a" -> IF shift # capslock THEN "A" ELSE "a"
      [] ~extended /\ code = "1" -> IF shift THEN "!" ELSE "1"
      [] ~extended /\ code = "space" -> IF shift THEN NoChar ELSE " "
      [] ~extended /\ code = "kp8" -> IF shift THEN NoChar ELSE "8"
      [] OTHER -> NoChar

is_modifier(code) == code \in ShiftCodes \cup {"ctrl", "caps", "alt"}

\* What is printed: the prefix and the character.  Ctrl maps a letter of either
\* case to its control code and back to lower case; what it makes of another
\* character is kept apart as such.
Ctrl(c) == IF c \in {"a", "A"} THEN "a" ELSE "other " \o c

Output(code, extended, capslock, shift, ctrl, alt) ==
    LET c == scancode_to_ascii(code, extended, capslock, shift)
    IN  CASE c = NoChar -> << >>
          [] c # NoChar /\ ctrl /\ ~extended -> << <<"Ctrl+", Ctrl(c)>> >>
          [] c # NoChar /\ ~(ctrl /\ ~extended) /\ alt /\ ~extended -> << <<"Alt+", c>> >>
          [] OTHER -> << <<"", c>> >>

-----------------------------------------------------------------------------
(* The keyboard and its user.                                              *)

Prefix(k) == IF k.ext THEN <<"E0">> ELSE << >>
Group(k) == IF k.code \in ShiftCodes THEN "shift" ELSE k.code

\* What pressing k means with the keys ks down and caps lock as given.
Means(k, ks, caps) ==
    LET Down(g) == \E m \in ks : Group(m) = g
    IN  IF is_modifier(k.code) THEN << >>
        ELSE Output(k.code, k.ext, caps, Down("shift"), Down("ctrl"), Down("alt"))

Send(bytes) == wire' = wire \o bytes

Press(k) ==
    /\ events < MaxEvents
    /\ k \notin down
    /\ Paired \/ ~is_modifier(k.code) \/ \A m \in down : Group(m) # Group(k)
    /\ down' = down \cup {k}
    /\ last' = k
    /\ caps_on' = (caps_on # (k.code = "caps"))
    /\ events' = events + 1
    /\ typed' = typed \o Means(k, down, caps_on)
    /\ Send(Prefix(k) \o <<k.code>>)
    /\ UNCHANGED <<flags, printed>>

\* The key pressed last repeats while it is down.
Repeat ==
    /\ events < MaxEvents
    /\ last \in down
    /\ last.code = "caps" => CapsRepeats
    /\ events' = events + 1
    /\ typed' = typed \o Means(last, down, caps_on)
    /\ Send(Prefix(last) \o <<last.code>>)
    /\ UNCHANGED <<down, last, caps_on, flags, printed>>

Release(k) ==
    /\ events < MaxEvents
    /\ down' = down \ {k}
    /\ events' = events + 1
    /\ Send(Prefix(k) \o <<"F0", k.code>>)
    /\ UNCHANGED <<last, caps_on, typed, flags, printed>>

-----------------------------------------------------------------------------
(* kb_interrupt_handler, called from interrupt_handler for vector 33.      *)

KbExtended ==
    /\ kb_extended' = TRUE
    /\ UNCHANGED <<awaiting_break_code, kb_capslock, kb_shift, kb_ctrl, kb_alt, printed>>

KbRelease ==
    /\ awaiting_break_code' = TRUE
    /\ UNCHANGED <<kb_extended, kb_capslock, kb_shift, kb_ctrl, kb_alt, printed>>

\* Mistakes: the prefix outlives the key it belongs to (kb_polling does this),
\* and a released ctrl stays set.
KbBreakExtended(code) ==
    /\ awaiting_break_code' = FALSE
    /\ kb_shift' = (kb_shift /\ code \notin ShiftCodes)
    /\ kb_ctrl' = (kb_ctrl /\ code # "ctrl")
    /\ kb_alt' = (kb_alt /\ code # "alt")
    /\ UNCHANGED <<kb_extended, kb_capslock, printed>>

KbBreakCtrl(code) ==
    /\ awaiting_break_code' = FALSE
    /\ kb_shift' = (kb_shift /\ code \notin ShiftCodes)
    /\ kb_alt' = (kb_alt /\ code # "alt")
    /\ kb_extended' = FALSE
    /\ UNCHANGED <<kb_ctrl, kb_capslock, printed>>

KbBreak(code) ==
    /\ awaiting_break_code' = FALSE
    /\ kb_shift' = (kb_shift /\ code \notin ShiftCodes)
    /\ kb_ctrl' = (kb_ctrl /\ code # "ctrl")
    /\ kb_alt' = (kb_alt /\ code # "alt")
    /\ kb_extended' = FALSE
    /\ UNCHANGED <<kb_capslock, printed>>

KbMake(code) ==
    /\ kb_capslock' = (kb_capslock # (code = "caps"))
    /\ kb_shift' = (kb_shift \/ code \in ShiftCodes)
    /\ kb_ctrl' = (kb_ctrl \/ code = "ctrl")
    /\ kb_alt' = (kb_alt \/ code = "alt")
    /\ printed' = IF is_modifier(code) THEN printed
                  ELSE printed \o Output(code, kb_extended, kb_capslock, kb_shift, kb_ctrl, kb_alt)
    /\ kb_extended' = FALSE
    /\ UNCHANGED awaiting_break_code

kb_interrupt_handler ==
    /\ wire # << >>
    /\ wire' = Tail(wire)
    /\ LET scancode == Head(wire)
       IN  \/ scancode = "E0" /\ KbExtended
           \/ scancode = "F0" /\ KbRelease
           \/ scancode \notin {"E0", "F0"} /\ awaiting_break_code /\ KbBreak(scancode)
           \/ scancode \notin {"E0", "F0"} /\ ~awaiting_break_code /\ KbMake(scancode)
    /\ UNCHANGED user

Next ==
    \/ \E k \in Keys : Press(k)
    \/ \E k \in down : Release(k)
    \/ Repeat
    \/ kb_interrupt_handler

Spec == Init /\ [][Next]_vars

-----------------------------------------------------------------------------
(* Properties.                                                             *)

Chars == {"a", "A", "1", "!", " ", "8", "^"}
Outputs ==
    ({"", "Alt+"} \X Chars) \cup ({"Ctrl+"} \X ({"a"} \cup {"other " \o c : c \in Chars}))

TypeOK ==
    /\ down \subseteq Keys /\ last \in Keys \cup {NoKey}
    /\ caps_on \in BOOLEAN /\ events \in 0 .. MaxEvents
    /\ wire \in Seq(Codes \cup {"E0", "F0"})
    /\ {awaiting_break_code, kb_extended, kb_capslock, kb_shift, kb_ctrl, kb_alt} \subseteq BOOLEAN
    /\ typed \in Seq(Outputs)
    /\ printed \in Seq(Outputs)

\* Whatever was pressed, repeated and released while bytes were waiting, what
\* has been printed is what was typed so far, and nothing is missing once every
\* byte has been handled: the flags at each make code are those of the keys
\* that were down when it was sent.
PrintedAsTyped ==
    /\ Len(printed) <= Len(typed)
    /\ \A i \in 1 .. Len(printed) : printed[i] = typed[i]
    /\ wire = << >> => Len(printed) = Len(typed)

\* With no byte waiting the decoder is between two keys, and the modifier
\* flags are those of the keys that are down.
DecoderInStep ==
    /\ TypeOK
    /\ wire = << >> =>
       /\ ~awaiting_break_code /\ ~kb_extended
       /\ kb_shift = (\E k \in down : k.code \in ShiftCodes)
       /\ kb_ctrl = (\E k \in down : k.code = "ctrl")
       /\ kb_alt = (\E k \in down : k.code = "alt")
       /\ kb_capslock = caps_on

\* drivers.c:119: "if either (shift is on and caps lock is off) or (shift is
\* off and caps lock is on) then uppercase, otherwise lowercase".
ShiftedIsUppercase ==
    \A i \in 1 .. Len(printed) : typed[i][2] = "A" => printed[i][2] = "A"
=============================================================================
