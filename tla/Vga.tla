--------------------------------- MODULE Vga ---------------------------------
(***************************************************************************)
(* The VGA text driver, src/kernel/vga.c: the cursor, the screen memory    *)
(* and scrolling.  VGA_display_char runs with interrupts disabled, so it   *)
(* is one step whoever calls it: the kernel, or the printk of a handler in *)
(* the middle of a string of the kernel's.  VGA_clear runs once, before    *)
(* kmain enables interrupts.                                               *)
(***************************************************************************)
EXTENDS Integers, Sequences

CONSTANTS
    Width, Height,   \* VGA_WIDTH, VGA_HEIGHT
    TabStop,         \* 8
    Ascii,           \* displayed characters below 0x80
    Latin,           \* displayed characters from 0x80 on
    MaxChars         \* bound: characters displayed

ASSUME SizesAssumption ==
    /\ Width \in Nat \ {0} /\ Height \in Nat \ {0} /\ TabStop \in Nat \ {0}
    /\ MaxChars \in Nat

ASSUME CharsAssumption ==
    /\ {"\n", "\r", "\t"} \cap (Ascii \cup Latin) = {} /\ Ascii \cap Latin = {}
    /\ " " \in Ascii

VARIABLES
    cleared,               \* VGA_clear has run
    cursor_x, cursor_y,
    VGA_MEMORY,            \* [char, color] of each cell, row by row
    shown,                 \* counter behind the bound
    scrolled               \* history: the rows that have left the screen

vars == <<cleared, cursor_x, cursor_y, VGA_MEMORY, shown, scrolled>>

Columns == 0 .. Width - 1
Rows == 0 .. Height - 1

\* "color << 8 | c" with a signed c: from 0x80 on its sign fills the color.  The
\* keyboard driver prints such a c for Ctrl and a digit, as 0x91 for Ctrl and 1.
Cell(c) == [char |-> c, color |-> IF c \in Latin THEN "all ones" ELSE "default"]
Blank == Cell(" ")
BlankRow == [x \in Columns |-> Blank]

\* The boot loader leaves text of its own.
Init ==
    /\ cleared = FALSE
    /\ cursor_x = 0 /\ cursor_y = 0
    /\ \E old \in {Blank, [char |-> "boot", color |-> "other"]} :
          VGA_MEMORY = [y \in Rows |-> [x \in Columns |-> old]]
    /\ shown = 0
    /\ scrolled = << >>

\* A mistake of one: the last line keeps its old text.
VGA_clearShort ==
    /\ ~cleared
    /\ cleared' = TRUE
    /\ VGA_MEMORY' = [y \in Rows |-> IF y < Height - 1 THEN BlankRow ELSE VGA_MEMORY[y]]
    /\ cursor_x' = 0 /\ cursor_y' = 0
    /\ UNCHANGED <<shown, scrolled>>

VGA_clear ==
    /\ ~cleared
    /\ cleared' = TRUE
    /\ VGA_MEMORY' = [y \in Rows |-> BlankRow]
    /\ cursor_x' = 0 /\ cursor_y' = 0
    /\ UNCHANGED <<shown, scrolled>>

\* A mistake: the last line is not cleared.
ScrolledNotCleared(m) == [y \in Rows |-> IF y < Height - 1 THEN m[y + 1] ELSE m[y]]

\* vga_scroll: the lines move up by one and the last is cleared.
Scrolled(m) == [y \in Rows |-> IF y < Height - 1 THEN m[y + 1] ELSE BlankRow]

\* Line wrap of a position.
Wrap(x, y) == IF x >= Width THEN <<0, y + 1>> ELSE <<x, y>>

\* The end of VGA_display_char: memory m with the cursor moved to (x, y), after
\* line wrap and scrolling.
MoveTo(m, x, y) ==
    LET p == Wrap(x, y)
    IN  /\ cursor_x' = p[1]
        /\ IF p[2] >= Height
           THEN /\ VGA_MEMORY' = Scrolled(m)
                /\ cursor_y' = Height - 1
                /\ scrolled' = Append(scrolled, m[0])
           ELSE /\ VGA_MEMORY' = m
                /\ cursor_y' = p[2]
                /\ UNCHANGED scrolled

VGA_display_char(c) ==
    /\ cleared
    /\ shown < MaxChars
    /\ shown' = shown + 1
    /\ CASE c = "\n" -> MoveTo(VGA_MEMORY, 0, cursor_y + 1)
         [] c = "\r" -> MoveTo(VGA_MEMORY, 0, cursor_y)
         [] c = "\t" -> MoveTo(VGA_MEMORY, ((cursor_x + TabStop) \div TabStop) * TabStop, cursor_y)
         [] OTHER -> MoveTo([VGA_MEMORY EXCEPT ![cursor_y][cursor_x] = Cell(c)],
                            cursor_x + 1, cursor_y)
    /\ UNCHANGED cleared

Next == VGA_clear \/ \E c \in Ascii \cup Latin \cup {"\n", "\r", "\t"} : VGA_display_char(c)

Spec == Init /\ [][Next]_vars

-----------------------------------------------------------------------------
(* Properties.                                                             *)

TypeOK ==
    /\ cleared \in BOOLEAN
    /\ cursor_x \in Columns /\ cursor_y \in Rows
    /\ VGA_MEMORY \in [Rows -> [Columns -> [char : Ascii \cup Latin \cup {"boot"},
                                            color : {"default", "all ones", "other"}]]]
    /\ shown \in 0 .. MaxChars
    /\ scrolled \in Seq([Columns -> [char : Ascii \cup Latin,
                                     color : {"default", "all ones"}]])

\* Below the cursor the screen is blank: a new line never shows old text.  The
\* cursor stays on the screen, and a cell takes its color from one place.
BelowIsBlank ==
    /\ TypeOK
    /\ cleared => \A y \in Rows : y > cursor_y => VGA_MEMORY[y] = BlankRow

Page == IF cleared
        THEN scrolled \o [i \in 1 .. cursor_y + 1 |-> VGA_MEMORY[i - 1]]
        ELSE << >>

Paper == INSTANCE Terminal
         WITH rows <- Page, col <- cursor_x, Glyphs <- Ascii \cup Latin

\* What has left the screen and what is on it is the text that was displayed,
\* in order, with no row lost or shown twice by wrapping and scrolling.
TerminalSpec == Paper!Spec
=============================================================================
