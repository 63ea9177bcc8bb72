------------------------------ MODULE Terminal ------------------------------
(***************************************************************************)
(* What the VGA text driver promises: an unbounded page of rows, written   *)
(* at its last row.  The screen of Vga is the tail of that page.           *)
(***************************************************************************)
EXTENDS Integers, Sequences

CONSTANTS
    Width, TabStop,
    Glyphs,    \* characters with a picture
    Blank,     \* an empty cell
    Cell(_)    \* the cell that shows a glyph

VARIABLES
    rows,   \* the page; none before the terminal is switched on
    col     \* the column the next glyph goes to, in the last row

vars == <<rows, col>>

BlankRow == [x \in 0 .. Width - 1 |-> Blank]

Init == rows = << >> /\ col = 0

On == rows = << >> /\ rows' = <<BlankRow>> /\ col' = 0

NewLine(rs) == rows' = Append(rs, BlankRow) /\ col' = 0

\* The column moves on to c, or past the end of row to a new one.
MoveTo(rs, c) == IF c < Width THEN rows' = rs /\ col' = c ELSE NewLine(rs)

Return == rows # << >> /\ col' = 0 /\ UNCHANGED rows
LineFeed == rows # << >> /\ NewLine(rows)
Tab == rows # << >> /\ MoveTo(rows, (col \div TabStop + 1) * TabStop)
Put(c) == rows # << >> /\ MoveTo([rows EXCEPT ![Len(rows)][col] = Cell(c)], col + 1)

Next == On \/ Return \/ LineFeed \/ Tab \/ \E c \in Glyphs : Put(c)

Spec == Init /\ [][Next]_vars
=============================================================================
