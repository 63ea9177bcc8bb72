------------------------------ MODULE VgaProofs ------------------------------
(***************************************************************************)
(* For every screen, tab stop and set of characters: the cursor stays on   *)
(* the screen, nothing is left below it, and the driver implements the     *)
(* terminal with a page that never ends.                                   *)
(***************************************************************************)
EXTENDS Vga, SequenceTheorems, TLAPS

Cells == [char : Ascii \cup Latin, color : {"default", "all ones"}]
Line == [Columns -> Cells]
Screen == [Rows -> Line]

\* Once cleared the screen has no text of the boot loader any more, so that
\* none is scrolled out; before that nothing is displayed.
IInv ==
    /\ BelowIsBlank
    /\ cleared => VGA_MEMORY \in Screen
    /\ ~cleared => scrolled = << >> /\ cursor_x = 0

\* The page made of rows s and of screen m down to line y.
PageOf(s, m, y) == s \o [i \in 1 .. y + 1 |-> m[i - 1]]

\* The two ways a position can be taken up, with memory m: the cursor stays in
\* its line, or goes to a new one.
Stays(m) == VGA_MEMORY' = m /\ cursor_y' = cursor_y /\ UNCHANGED scrolled

GoesDown(m) ==
    \/ /\ cursor_y + 1 < Height
       /\ VGA_MEMORY' = m /\ cursor_y' = cursor_y + 1 /\ UNCHANGED scrolled
    \/ /\ cursor_y = Height - 1
       /\ VGA_MEMORY' = Scrolled(m) /\ cursor_y' = cursor_y
       /\ scrolled' = Append(scrolled, m[0])

-----------------------------------------------------------------------------
(* Cells and positions.                                                    *)

\* Every character is displayed as a cell.
LEMMA CellType == \A c \in Ascii \cup Latin : Cell(c) \in Cells
BY DEF Cell, Cells

\* What is on the screen before it is cleared may be anything else.
LEMMA WiderType ==
    /\ Cells \subseteq [char : Ascii \cup Latin \cup {"boot"},
                        color : {"default", "all ones", "other"}]
    /\ Screen \subseteq [Rows -> [Columns -> [char : Ascii \cup Latin \cup {"boot"},
                                             color : {"default", "all ones", "other"}]]]
<1> DEFINE Wide == [char : Ascii \cup Latin \cup {"boot"}, color : {"default", "all ones", "other"}]
<1>1. Cells \subseteq Wide
  BY DEF Cells
<1> HIDE DEF Wide
<1>2. Line \subseteq [Columns -> Wide]
  BY <1>1 DEF Line
<1>3. Screen \subseteq [Rows -> [Columns -> Wide]]
  BY <1>2 DEF Screen
<1> QED
  BY <1>1, <1>3 DEF Wide

\* A blank row is a row.
LEMMA BlankType == BlankRow \in Line
BY CellType, CharsAssumption DEF Blank, BlankRow, Line

\* The cursor is a pair of numbers.
LEMMA CursorType ==
    ASSUME TypeOK
    PROVE  /\ cursor_x \in Nat /\ cursor_x < Width /\ Width \in Nat
           /\ cursor_y \in Nat /\ cursor_y <= Height - 1 /\ Height \in Nat
<1>1. cursor_x \in Columns /\ cursor_y \in Rows
  BY DEF TypeOK
<1> QED
  BY <1>1, SizesAssumption DEF Columns, Rows

\* A position in the cursor's line, or past its end.
LEMMA MoveOnRow ==
    ASSUME TypeOK, NEW m, NEW x \in Nat, MoveTo(m, x, cursor_y)
    PROVE  IF x < Width THEN cursor_x' = x /\ Stays(m) ELSE cursor_x' = 0 /\ GoesDown(m)
<1>1. cursor_y \in Nat /\ cursor_y <= Height - 1 /\ Height \in Nat /\ Width \in Nat
  BY CursorType
<1>2. CASE x < Width
  <2>1. Wrap(x, cursor_y) = <<x, cursor_y>>
    BY <1>1, <1>2 DEF Wrap
  <2> QED
    BY <1>1, <1>2, <2>1 DEF MoveTo, Stays
<1>3. CASE ~(x < Width)
  <2>1. Wrap(x, cursor_y) = <<0, cursor_y + 1>>
    BY <1>1, <1>3 DEF Wrap
  <2> QED
    BY <1>1, <1>3, <2>1 DEF MoveTo, GoesDown
<1> QED
  BY <1>2, <1>3

\* The start of the next line.
LEMMA MoveDown ==
    ASSUME TypeOK, NEW m, MoveTo(m, 0, cursor_y + 1)
    PROVE  cursor_x' = 0 /\ GoesDown(m)
<1>1. cursor_y \in Nat /\ cursor_y <= Height - 1 /\ Height \in Nat
  BY CursorType
<1>2. Wrap(0, cursor_y + 1) = <<0, cursor_y + 1>>
  BY SizesAssumption DEF Wrap
<1> QED
  BY <1>1, <1>2 DEF MoveTo, GoesDown

\* The next tab stop, as the driver and as the terminal have it.
LEMMA TabStops ==
    ASSUME NEW x \in Nat
    PROVE  /\ ((x + TabStop) \div TabStop) * TabStop \in Nat
           /\ ((x + TabStop) \div TabStop) * TabStop = (x \div TabStop + 1) * TabStop
<1>1. TabStop \in Nat \ {0}
  BY SizesAssumption
<1>2. (x + TabStop) \div TabStop = x \div TabStop + 1 /\ x \div TabStop \in Nat
  BY <1>1
<1> QED
  BY <1>1, <1>2

\* The memory with a character at the cursor.
At(c) == [VGA_MEMORY EXCEPT ![cursor_y][cursor_x] = Cell(c)]
Tab == ((cursor_x + TabStop) \div TabStop) * TabStop

\* What a character does.
LEMMA CharacterCases ==
    ASSUME IInv, NEW c \in Ascii \cup Latin \cup {"\n", "\r", "\t"}, VGA_display_char(c)
    PROVE  \/ cursor_x' = 0 /\ GoesDown(VGA_MEMORY)
           \/ cursor_x' = 0 /\ Stays(VGA_MEMORY)
           \/ Tab < Width /\ cursor_x' = Tab /\ Stays(VGA_MEMORY)
           \/ Tab >= Width /\ cursor_x' = 0 /\ GoesDown(VGA_MEMORY)
           \/ /\ c \in Ascii \cup Latin
              /\ IF cursor_x + 1 < Width THEN cursor_x' = cursor_x + 1 /\ Stays(At(c))
                                         ELSE cursor_x' = 0 /\ GoesDown(At(c))
<1>1. TypeOK /\ cursor_x \in Nat /\ cursor_x + 1 \in Nat /\ Tab \in Nat /\ Width \in Nat \ {0}
  <2>1. TypeOK
    BY DEF IInv, BelowIsBlank
  <2>2. cursor_x \in Nat
    BY <2>1, CursorType
  <2> QED
    BY <2>1, <2>2, TabStops, SizesAssumption DEF Tab
<1>2. CASE c = "\n"
  <2>1. MoveTo(VGA_MEMORY, 0, cursor_y + 1)
    BY <1>2 DEF VGA_display_char
  <2> QED
    BY <1>1, <2>1, MoveDown
<1>3. CASE c = "\r"
  <2>1. MoveTo(VGA_MEMORY, 0, cursor_y)
    BY <1>3 DEF VGA_display_char
  <2> QED
    BY <1>1, <2>1, MoveOnRow
<1>4. CASE c = "\t"
  <2>1. MoveTo(VGA_MEMORY, Tab, cursor_y)
    BY <1>4 DEF VGA_display_char, Tab
  <2> HIDE DEF Tab
  <2>2. IF Tab < Width THEN cursor_x' = Tab /\ Stays(VGA_MEMORY)
                       ELSE cursor_x' = 0 /\ GoesDown(VGA_MEMORY)
    BY <1>1, <2>1, MoveOnRow
  <2> QED
    BY <1>1, <2>2
<1>5. CASE c \notin {"\n", "\r", "\t"}
  <2>1. MoveTo(At(c), cursor_x + 1, cursor_y)
    BY <1>5 DEF VGA_display_char, At
  <2>2. IF cursor_x + 1 < Width THEN cursor_x' = cursor_x + 1 /\ Stays(At(c))
                                ELSE cursor_x' = 0 /\ GoesDown(At(c))
    BY <1>1, <2>1, MoveOnRow
  <2> QED
    BY <1>5, <2>2
<1> QED
  BY <1>2, <1>3, <1>4, <1>5

\* A character at the cursor leaves a screen, blank below the cursor.
LEMMA Written ==
    ASSUME IInv, cleared, NEW c \in Ascii \cup Latin
    PROVE  /\ At(c) \in Screen
           /\ \A y \in Rows : y > cursor_y => At(c)[y] = BlankRow
<1>1. VGA_MEMORY \in Screen /\ cursor_y \in Rows /\ cursor_x \in Columns
  BY DEF IInv, BelowIsBlank, TypeOK
<1>2. Cell(c) \in Cells
  BY CellType
<1>3. At(c) \in Screen
  BY <1>1, <1>2 DEF At, Screen, Line
<1>4. ASSUME NEW y \in Rows, y > cursor_y
      PROVE  At(c)[y] = BlankRow
  <2>1. y # cursor_y /\ VGA_MEMORY[y] = BlankRow
    BY <1>1, <1>4, SizesAssumption DEF IInv, BelowIsBlank, Rows
  <2> QED
    BY <1>1, <2>1 DEF At, Screen
<1> QED
  BY <1>3, <1>4

-----------------------------------------------------------------------------
(* The invariant.                                                          *)

\* Moving the cursor keeps the invariant.
LEMMA MoveKeeps ==
    ASSUME IInv, cleared, cleared' = cleared, shown' \in 0 .. MaxChars,
           NEW m \in Screen, \A y \in Rows : y > cursor_y => m[y] = BlankRow,
           cursor_x' \in Columns,
           Stays(m) \/ GoesDown(m)
    PROVE  IInv'
<1>1. TypeOK /\ cursor_y \in Rows /\ Height \in Nat \ {0} /\ scrolled \in Seq(Line)
  BY SizesAssumption DEF IInv, BelowIsBlank, TypeOK, Line, Cells
<1>2. 0 \in Rows /\ m[0] \in Line
  BY <1>1 DEF Rows, Screen
<1>3. Scrolled(m) \in Screen
  <2>1. \A y \in Rows : y < Height - 1 => y + 1 \in Rows
    BY <1>1 DEF Rows
  <2> QED
    BY <2>1, BlankType DEF Scrolled, Screen
<1>4. cursor_y' \in Rows /\ VGA_MEMORY' \in Screen /\ scrolled' \in Seq(Line)
  BY <1>1, <1>2, <1>3 DEF Stays, GoesDown, Rows
<1>5. ASSUME NEW y \in Rows, y > cursor_y'
      PROVE  VGA_MEMORY'[y] = BlankRow
  <2>1. y \in Int /\ cursor_y \in Int /\ y <= Height - 1 /\ Height \in Int
    BY <1>1 DEF Rows
  <2>2. cursor_y' = cursor_y \/ cursor_y' = cursor_y + 1
    BY DEF Stays, GoesDown
  <2>3. y > cursor_y
    BY <1>5, <2>1, <2>2
  <2>4. CASE VGA_MEMORY' = m
    BY <2>3, <2>4
  <2>5. CASE cursor_y = Height - 1
    BY <2>1, <2>3, <2>5
  <2> QED
    BY <2>4, <2>5 DEF Stays, GoesDown
<1>6. VGA_MEMORY' \in [Rows -> [Columns -> [char : Ascii \cup Latin \cup {"boot"},
                                            color : {"default", "all ones", "other"}]]]
  BY <1>4, WiderType
<1>7. TypeOK'
  BY <1>1, <1>4, <1>6 DEF TypeOK, Line, Cells
<1> QED
  BY <1>4, <1>5, <1>7 DEF IInv, BelowIsBlank

\* The invariant holds for every screen and however much is displayed.
THEOREM Invariance == Spec => []IInv
<1>1. ASSUME Init
      PROVE  IInv
  <2>1. Blank \in Cells
    BY CellType, CharsAssumption DEF Blank
  <2>2. PICK old \in {Blank, [char |-> "boot", color |-> "other"]} :
           VGA_MEMORY = [y \in Rows |-> [x \in Columns |-> old]]
    BY <1>1 DEF Init
  <2>3. old \in [char : Ascii \cup Latin \cup {"boot"}, color : {"default", "all ones", "other"}]
    <3>1. Blank \in [char : Ascii \cup Latin \cup {"boot"}, color : {"default", "all ones", "other"}]
      BY <2>1, WiderType
    <3>2. [char |-> "boot", color |-> "other"]
             \in [char : Ascii \cup Latin \cup {"boot"}, color : {"default", "all ones", "other"}]
      OBVIOUS
    <3> QED
      BY <3>1, <3>2
  <2>4. VGA_MEMORY \in [Rows -> [Columns -> [char : Ascii \cup Latin \cup {"boot"},
                                             color : {"default", "all ones", "other"}]]]
    BY <2>2, <2>3
  <2>5. 0 \in Rows /\ 0 \in Columns /\ 0 \in 0 .. MaxChars
    BY SizesAssumption DEF Rows, Columns
  <2>6. TypeOK
    <3>1. scrolled \in Seq([Columns -> [char : Ascii \cup Latin, color : {"default", "all ones"}]])
      BY <1>1 DEF Init
    <3> QED
      BY <1>1, <2>4, <2>5, <3>1 DEF Init, TypeOK
  <2> QED
    BY <1>1, <2>6 DEF Init, IInv, BelowIsBlank
<1>2. ASSUME IInv, [Next]_vars
      PROVE  IInv'
  <2>1. CASE VGA_clear
    <3>1. 0 \in Rows /\ 0 \in Columns
      BY SizesAssumption DEF Rows, Columns
    <3>2. VGA_MEMORY' = [y \in Rows |-> BlankRow] /\ VGA_MEMORY' \in Screen
      BY <2>1, BlankType DEF VGA_clear, Screen
    <3>3. VGA_MEMORY' \in [Rows -> [Columns -> [char : Ascii \cup Latin \cup {"boot"},
                                                color : {"default", "all ones", "other"}]]]
      BY <3>2, WiderType
    <3>4. TypeOK'
      BY <1>2, <2>1, <3>1, <3>3 DEF VGA_clear, TypeOK, IInv, BelowIsBlank
    <3>5. cleared' = TRUE
      BY <2>1 DEF VGA_clear
    <3> QED
      BY <3>2, <3>4, <3>5 DEF IInv, BelowIsBlank
  <2>2. ASSUME NEW c \in Ascii \cup Latin \cup {"\n", "\r", "\t"}, VGA_display_char(c)
        PROVE  IInv'
    <3>1. cleared /\ cleared' = cleared /\ shown' \in 0 .. MaxChars
      <4>1. cleared /\ shown < MaxChars /\ shown' = shown + 1 /\ cleared' = cleared
        BY <2>2 DEF VGA_display_char
      <4>2. shown \in 0 .. MaxChars
        BY <1>2 DEF IInv, BelowIsBlank, TypeOK
      <4> QED
        BY <4>1, <4>2, SizesAssumption
    <3>2. /\ VGA_MEMORY \in Screen
          /\ \A y \in Rows : y > cursor_y => VGA_MEMORY[y] = BlankRow
      BY <1>2, <3>1 DEF IInv, BelowIsBlank
    <3>3. 0 \in Columns /\ cursor_x \in Nat /\ Tab \in Nat /\ Width \in Nat
      <4>1. cursor_x \in Nat
        BY <1>2, CursorType DEF IInv, BelowIsBlank
      <4> QED
        BY <4>1, TabStops, SizesAssumption DEF Columns, Tab
    <3>4. cursor_x' \in Columns /\ (Stays(VGA_MEMORY) \/ GoesDown(VGA_MEMORY)) => IInv'
      BY <1>2, <3>1, <3>2, MoveKeeps
    <3>5. c \in Ascii \cup Latin /\ cursor_x' \in Columns /\ (Stays(At(c)) \/ GoesDown(At(c))) => IInv'
      <4>1. SUFFICES ASSUME c \in Ascii \cup Latin, cursor_x' \in Columns,
                            Stays(At(c)) \/ GoesDown(At(c))
                     PROVE  IInv'
        OBVIOUS
      <4>2. At(c) \in Screen /\ \A y \in Rows : y > cursor_y => At(c)[y] = BlankRow
        BY <1>2, <3>1, <4>1, Written
      <4> QED
        BY <1>2, <3>1, <4>1, <4>2, MoveKeeps
    <3>6. \A x \in Nat : x < Width => x \in Columns
      BY <3>3 DEF Columns
    <3> HIDE DEF Tab
    <3> QED
      BY <1>2, <2>2, <3>3, <3>4, <3>5, <3>6, CharacterCases
  <2>3. CASE UNCHANGED vars
    BY <1>2, <2>3 DEF vars, IInv, BelowIsBlank, TypeOK
  <2> QED
    BY <1>2, <2>1, <2>2, <2>3 DEF Next
<1> QED
  BY <1>1, <1>2, PTL DEF Spec

\* The cursor is on the screen, and below it the screen is blank.
THEOREM NoOldText == Spec => []BelowIsBlank
<1>1. IInv => BelowIsBlank
  BY DEF IInv
<1> QED
  BY <1>1, Invariance, PTL

-----------------------------------------------------------------------------
(* The terminal.                                                           *)

\* How long a sequence with this domain is.
LEMMA Upto ==
    ASSUME NEW a \in Nat, NEW b \in Nat, 1 .. a = 1 .. b
    PROVE  a = b
<1>1. a \in 1 .. a => a <= b
  OBVIOUS
<1>2. b \in 1 .. b => b <= a
  OBVIOUS
<1> QED
  BY <1>1, <1>2

\* The rows of a page.
LEMMA PageRows ==
    ASSUME NEW s \in Seq(Line), NEW m \in Screen, NEW y \in Rows
    PROVE  /\ PageOf(s, m, y) \in Seq(Line)
           /\ Len(PageOf(s, m, y)) = Len(s) + y + 1
           /\ \A n \in 1 .. Len(s) : PageOf(s, m, y)[n] = s[n]
           /\ \A n \in 0 .. y : PageOf(s, m, y)[Len(s) + 1 + n] = m[n]
<1> DEFINE t == [i \in 1 .. y + 1 |-> m[i - 1]]
<1>1. y \in Nat /\ y + 1 \in Nat /\ Len(s) \in Nat
  BY SizesAssumption DEF Rows
<1>2. \A i \in 1 .. y + 1 : i - 1 \in Rows
  BY <1>1, SizesAssumption DEF Rows
<1>3. t \in [1 .. y + 1 -> Line]
  BY <1>2 DEF Screen
<1>4. \A i \in 1 .. y + 1 : t[i] = m[i - 1]
  OBVIOUS
<1> HIDE DEF t
<1>5. t \in Seq(Line) /\ Len(t) = y + 1
  <2>1. t \in Seq(Line)
    BY <1>1, <1>3, SeqDef
  <2>2. DOMAIN t = 1 .. Len(t) /\ Len(t) \in Nat
    BY <2>1
  <2>3. 1 .. Len(t) = 1 .. y + 1
    BY <1>3, <2>2
  <2> QED
    BY <1>1, <2>1, <2>2, <2>3, Upto
<1>6. PageOf(s, m, y) = s \o t
  BY DEF PageOf, t
<1>7. /\ s \o t \in Seq(Line)
      /\ Len(s \o t) = Len(s) + Len(t)
      /\ \A i \in 1 .. Len(s) + Len(t) : (s \o t)[i] = IF i <= Len(s) THEN s[i] ELSE t[i - Len(s)]
  BY <1>5, ConcatProperties
<1>8. ASSUME NEW n \in 1 .. Len(s)
      PROVE  (s \o t)[n] = s[n]
  BY <1>1, <1>5, <1>7
<1>9. ASSUME NEW n \in 0 .. y
      PROVE  (s \o t)[Len(s) + 1 + n] = m[n]
  <2>1. Len(s) + 1 + n \in 1 .. Len(s) + Len(t) /\ ~(Len(s) + 1 + n <= Len(s))
    BY <1>1, <1>5
  <2>2. Len(s) + 1 + n - Len(s) = n + 1 /\ n + 1 \in 1 .. y + 1 /\ n + 1 - 1 = n
    BY <1>1
  <2>3. (s \o t)[Len(s) + 1 + n] = t[Len(s) + 1 + n - Len(s)]
    BY <1>7, <2>1
  <2> QED
    BY <1>4, <2>2, <2>3
<1> QED
  BY <1>1, <1>5, <1>6, <1>7, <1>8, <1>9

\* A new line of the screen is a new row of the page, whether or not the screen
\* has to be scrolled for it.
LEMMA NewRow ==
    ASSUME IInv, cleared, cleared' = TRUE,
           NEW m \in Screen, \A y \in Rows : y > cursor_y => m[y] = BlankRow,
           GoesDown(m)
    PROVE  Page' = Append(PageOf(scrolled, m, cursor_y), BlankRow)
<1> DEFINE p == PageOf(scrolled, m, cursor_y)
<1> DEFINE q == PageOf(scrolled', VGA_MEMORY', cursor_y')
<1>1. /\ scrolled \in Seq(Line) /\ Len(scrolled) \in Nat
      /\ cursor_y \in Rows /\ cursor_y \in Nat /\ cursor_y <= Height - 1
      /\ Height \in Nat \ {0} /\ 0 \in Rows
  <2>1. TypeOK
    BY DEF IInv, BelowIsBlank
  <2>2. scrolled \in Seq(Line)
    BY <2>1 DEF TypeOK, Line, Cells
  <2>3. cursor_y \in Rows
    BY <2>1 DEF TypeOK
  <2> QED
    BY <2>1, <2>2, <2>3, CursorType, SizesAssumption DEF Rows
<1>2. Page' = q
  BY DEF Page, PageOf
<1>3. /\ p \in Seq(Line) /\ Len(p) = Len(scrolled) + cursor_y + 1
      /\ \A n \in 1 .. Len(scrolled) : p[n] = scrolled[n]
      /\ \A n \in 0 .. cursor_y : p[Len(scrolled) + 1 + n] = m[n]
  BY <1>1, PageRows
<1>4. /\ Append(p, BlankRow) \in Seq(Line) /\ Len(Append(p, BlankRow)) = Len(p) + 1
      /\ \A n \in 1 .. Len(p) : Append(p, BlankRow)[n] = p[n]
      /\ Append(p, BlankRow)[Len(p) + 1] = BlankRow
  BY <1>3, BlankType, AppendProperties
<1>5. SUFFICES q = Append(p, BlankRow)
  BY <1>2
<1> HIDE DEF p
<1>6. CASE cursor_y + 1 < Height /\ VGA_MEMORY' = m /\ cursor_y' = cursor_y + 1 /\ UNCHANGED scrolled
  <2>1. cursor_y + 1 \in Rows /\ m[cursor_y + 1] = BlankRow
    BY <1>1, <1>6 DEF Rows
  <2>2. q = PageOf(scrolled, m, cursor_y + 1)
    BY <1>6
  <2> HIDE DEF q
  <2>3. /\ q \in Seq(Line) /\ Len(q) = Len(scrolled) + (cursor_y + 1) + 1
        /\ \A n \in 1 .. Len(scrolled) : q[n] = scrolled[n]
        /\ \A n \in 0 .. cursor_y + 1 : q[Len(scrolled) + 1 + n] = m[n]
    BY <1>1, <2>1, <2>2, PageRows
  <2>4. Len(q) = Len(Append(p, BlankRow))
    BY <1>1, <1>3, <1>4, <2>3
  <2>5. ASSUME NEW n \in 1 .. Len(q)
        PROVE  q[n] = Append(p, BlankRow)[n]
    <3>1. CASE n \in 1 .. Len(scrolled)
      BY <1>1, <1>3, <1>4, <2>3, <3>1
    <3>2. CASE n = Len(p) + 1
      <4>1. n = Len(scrolled) + 1 + (cursor_y + 1) /\ cursor_y + 1 \in 0 .. cursor_y + 1
        BY <1>1, <1>3, <3>2
      <4> QED
        BY <1>4, <2>1, <2>3, <3>2, <4>1
    <3>3. CASE n \notin 1 .. Len(scrolled) /\ n # Len(p) + 1
      <4> DEFINE k == n - Len(scrolled) - 1
      <4>1. /\ k \in 0 .. cursor_y /\ k \in 0 .. cursor_y + 1 /\ n = Len(scrolled) + 1 + k
            /\ n \in 1 .. Len(p)
        BY <1>1, <1>3, <2>3, <3>3
      <4> HIDE DEF k
      <4> QED
        BY <1>3, <1>4, <2>3, <4>1
    <3> QED
      BY <3>1, <3>2, <3>3
  <2> QED
    BY <1>4, <2>3, <2>4, <2>5, SeqEqual
<1>7. CASE /\ cursor_y = Height - 1 /\ VGA_MEMORY' = Scrolled(m) /\ cursor_y' = cursor_y
           /\ scrolled' = Append(scrolled, m[0])
  <2> DEFINE s == Append(scrolled, m[0])
  <2>0. cursor_y = Height - 1 /\ Len(scrolled) \in Nat
    BY <1>1, <1>7
  <2>1. m[0] \in Line
    BY <1>1 DEF Screen
  <2>2. /\ s \in Seq(Line) /\ Len(s) = Len(scrolled) + 1
        /\ \A n \in 1 .. Len(scrolled) : s[n] = scrolled[n]
        /\ s[Len(scrolled) + 1] = m[0]
    BY <1>1, <2>1, AppendProperties
  <2>3. /\ Scrolled(m) \in Screen
        /\ \A y \in Rows : Scrolled(m)[y] = IF y < Height - 1 THEN m[y + 1] ELSE BlankRow
    <3>1. \A y \in Rows : y < Height - 1 => y + 1 \in Rows
      BY <1>1 DEF Rows
    <3> QED
      BY <3>1, BlankType DEF Scrolled, Screen
  <2>4. q = PageOf(s, Scrolled(m), cursor_y)
    BY <1>7
  <2> HIDE DEF q, s
  <2>5. /\ q \in Seq(Line) /\ Len(q) = Len(s) + cursor_y + 1
        /\ \A n \in 1 .. Len(s) : q[n] = s[n]
        /\ \A n \in 0 .. cursor_y : q[Len(s) + 1 + n] = Scrolled(m)[n]
    <3>1. s \in Seq(Line) /\ Scrolled(m) \in Screen /\ cursor_y \in Rows
      BY <1>1, <2>2, <2>3
    <3> QED
      BY <2>4, <3>1, PageRows
  <2>6. Len(q) = Len(Append(p, BlankRow))
    BY <1>1, <1>3, <1>4, <2>2, <2>5
  <2>7. ASSUME NEW n \in 1 .. Len(q)
        PROVE  q[n] = Append(p, BlankRow)[n]
    <3>1. CASE n \in 1 .. Len(scrolled)
      BY <1>1, <1>3, <1>4, <2>2, <2>5, <3>1
    <3>2. CASE n = Len(scrolled) + 1
      <4>1. n \in 1 .. Len(s) /\ n \in 1 .. Len(p) /\ n = Len(scrolled) + 1 + 0 /\ 0 \in 0 .. cursor_y
        BY <1>1, <1>3, <2>2, <3>2
      <4>2. q[n] = m[0]
        BY <2>2, <2>5, <3>2, <4>1
      <4>3. p[n] = m[0]
        BY <1>3, <4>1
      <4> QED
        BY <1>4, <4>1, <4>2, <4>3
    <3>3. CASE n = Len(p) + 1
      <4>1. n = Len(s) + 1 + cursor_y /\ cursor_y \in 0 .. cursor_y /\ ~(cursor_y < Height - 1)
        <5>1. n = Len(s) + 1 + cursor_y /\ cursor_y \in 0 .. cursor_y
          BY <1>1, <1>3, <2>2, <3>3
        <5>2. ~(cursor_y < Height - 1)
          BY <1>1, <2>0
        <5> QED
          BY <5>1, <5>2
      <4>2. q[n] = BlankRow
        BY <1>1, <2>3, <2>5, <4>1
      <4> QED
        BY <1>4, <3>3, <4>2
    <3>4. CASE n \notin 1 .. Len(scrolled) /\ n # Len(scrolled) + 1 /\ n # Len(p) + 1
      <4> DEFINE k == n - Len(scrolled) - 2
      <4>1. /\ k \in 0 .. cursor_y /\ k + 1 \in 0 .. cursor_y /\ k < Height - 1 /\ k \in Rows
            /\ n = Len(s) + 1 + k /\ n = Len(scrolled) + 1 + (k + 1) /\ n \in 1 .. Len(p)
        <5>1. n \in Nat /\ n > Len(scrolled) + 1 /\ n < Len(scrolled) + cursor_y + 2
          BY <1>1, <1>3, <2>0, <2>2, <2>5, <3>4
        <5>2. k \in Nat /\ k < cursor_y /\ n = Len(scrolled) + 2 + k
          BY <1>1, <2>0, <5>1
        <5> HIDE DEF k
        <5> QED
          BY <1>1, <1>3, <2>0, <2>2, <5>2 DEF Rows
      <4> HIDE DEF k
      <4>2. q[n] = m[k + 1]
        BY <2>3, <2>5, <4>1
      <4>3. p[n] = m[k + 1]
        BY <1>3, <4>1
      <4> QED
        BY <1>4, <4>1, <4>2, <4>3
    <3> QED
      BY <3>1, <3>2, <3>3, <3>4, Zenon
  <2> QED
    BY <1>4, <2>5, <2>6, <2>7, SeqEqual
<1> QED
  BY <1>6, <1>7 DEF GoesDown

\* A character at the cursor is one in the last row of the page.
LEMMA PutOnPage ==
    ASSUME IInv, cleared, NEW c \in Ascii \cup Latin
    PROVE  PageOf(scrolled, At(c), cursor_y) = [Page EXCEPT ![Len(Page)][cursor_x] = Cell(c)]
<1> DEFINE p == PageOf(scrolled, VGA_MEMORY, cursor_y)
<1> DEFINE q == PageOf(scrolled, At(c), cursor_y)
<1> DEFINE e == [VGA_MEMORY[cursor_y] EXCEPT ![cursor_x] = Cell(c)]
<1>1. /\ scrolled \in Seq(Line) /\ Len(scrolled) \in Nat
      /\ cursor_y \in Rows /\ cursor_y \in Nat /\ VGA_MEMORY \in Screen /\ cursor_x \in Columns
  <2>1. TypeOK /\ VGA_MEMORY \in Screen
    BY DEF IInv, BelowIsBlank
  <2>2. scrolled \in Seq(Line)
    BY <2>1 DEF TypeOK, Line, Cells
  <2>3. cursor_y \in Rows /\ cursor_x \in Columns
    BY <2>1 DEF TypeOK
  <2> QED
    BY <2>1, <2>2, <2>3, CursorType
<1>2. Page = p
  BY DEF Page, PageOf
<1>3. /\ p \in Seq(Line) /\ Len(p) = Len(scrolled) + cursor_y + 1
      /\ \A n \in 1 .. Len(scrolled) : p[n] = scrolled[n]
      /\ \A n \in 0 .. cursor_y : p[Len(scrolled) + 1 + n] = VGA_MEMORY[n]
  BY <1>1, PageRows
<1>4. At(c) \in Screen
  BY Written
<1>5. /\ q \in Seq(Line) /\ Len(q) = Len(scrolled) + cursor_y + 1
      /\ \A n \in 1 .. Len(scrolled) : q[n] = scrolled[n]
      /\ \A n \in 0 .. cursor_y : q[Len(scrolled) + 1 + n] = At(c)[n]
  BY <1>1, <1>4, PageRows
<1>6. At(c)[cursor_y] = e /\ \A n \in Rows : n # cursor_y => At(c)[n] = VGA_MEMORY[n]
  BY <1>1 DEF At, Screen
<1>7. e \in Line
  BY <1>1, CellType DEF Screen, Line
<1>8. \A n \in 0 .. cursor_y : n \in Rows
  BY <1>1, SizesAssumption DEF Rows
<1>9. [Page EXCEPT ![Len(Page)][cursor_x] = Cell(c)] = [p EXCEPT ![Len(p)] = e]
  <2>1. p[Len(p)] = VGA_MEMORY[cursor_y]
    <3>1. Len(p) = Len(scrolled) + 1 + cursor_y /\ cursor_y \in 0 .. cursor_y
      BY <1>1, <1>3
    <3> QED
      BY <1>3, <3>1
  <2> HIDE DEF p
  <2> QED
    BY <1>2, <2>1
<1> HIDE DEF p, q, e
<1>10. Len(p) \in 1 .. Len(p)
  BY <1>1, <1>3
<1> DEFINE r == [p EXCEPT ![Len(p)] = e]
<1>11. /\ r \in Seq(Line) /\ Len(r) = Len(p)
       /\ \A j \in 1 .. Len(p) : r[j] = IF j = Len(p) THEN e ELSE p[j]
  BY <1>3, <1>7, <1>10, ExceptSeq
<1> HIDE DEF r
<1>12. ASSUME NEW n \in 1 .. Len(q)
       PROVE  q[n] = r[n]
  <2>1. n \in 1 .. Len(p)
    BY <1>3, <1>5
  <2>2. CASE n \in 1 .. Len(scrolled)
    <3>1. n # Len(p)
      BY <1>1, <1>3, <2>2
    <3> QED
      BY <1>3, <1>5, <1>11, <2>1, <2>2, <3>1
  <2>3. CASE n = Len(p)
    <3>1. n = Len(scrolled) + 1 + cursor_y /\ cursor_y \in 0 .. cursor_y
      BY <1>1, <1>3, <2>3
    <3> QED
      BY <1>5, <1>6, <1>11, <2>1, <2>3, <3>1
  <2>4. CASE n \notin 1 .. Len(scrolled) /\ n # Len(p)
    <3> DEFINE k == n - Len(scrolled) - 1
    <3>1. k \in 0 .. cursor_y /\ k # cursor_y /\ n = Len(scrolled) + 1 + k
      BY <1>1, <1>3, <2>1, <2>4
    <3> HIDE DEF k
    <3>2. q[n] = VGA_MEMORY[k] /\ p[n] = VGA_MEMORY[k]
      BY <1>3, <1>5, <1>6, <1>8, <3>1
    <3> QED
      BY <1>11, <2>1, <2>4, <3>2
  <2> QED
    BY <2>2, <2>3, <2>4
<1>13. q = r
  <2>1. Len(q) = Len(r)
    BY <1>3, <1>5, <1>11
  <2> QED
    BY <1>5, <1>11, <1>12, <2>1, SeqEqual
<1> QED
  BY <1>9, <1>13 DEF q, r

\* The screen, the tail of the text, implements the page without end.
THEOREM Refinement == Spec => TerminalSpec
<1>1. ASSUME Init
      PROVE  Paper!Init
  BY <1>1 DEF Init, Paper!Init, Page
<1>2. Paper!BlankRow = BlankRow
  BY DEF Paper!BlankRow, BlankRow, Columns
<1>3. ASSUME IInv, [Next]_vars
      PROVE  [Paper!Next]_(Paper!vars)
  <2>1. CASE VGA_clear
    <3>1. ~cleared /\ cleared' = TRUE /\ cursor_x' = 0 /\ cursor_y' = 0 /\ scrolled' = << >>
      BY <1>3, <2>1 DEF VGA_clear, IInv
    <3>2. VGA_MEMORY' = [y \in Rows |-> BlankRow] /\ 0 \in Rows
      BY <2>1, SizesAssumption DEF VGA_clear, Rows
    <3>3. VGA_MEMORY'[0] = BlankRow
      BY <3>2
    <3>4. Page' = <<BlankRow>>
      <4>1. [i \in 1 .. 0 + 1 |-> VGA_MEMORY'[i - 1]] = <<BlankRow>>
        BY <3>3
      <4>2. Page' = << >> \o [i \in 1 .. 0 + 1 |-> VGA_MEMORY'[i - 1]]
        BY <3>1 DEF Page
      <4>3. <<BlankRow>> \in Seq(Line)
        BY BlankType
      <4> QED
        BY <4>1, <4>2, <4>3, ConcatEmptySeq
    <3>5. Page = << >>
      BY <3>1 DEF Page
    <3> QED
      BY <1>2, <3>1, <3>4, <3>5 DEF Paper!Next, Paper!On
  <2>2. ASSUME NEW c \in Ascii \cup Latin \cup {"\n", "\r", "\t"}, VGA_display_char(c)
        PROVE  [Paper!Next]_(Paper!vars)
    <3>1. cleared /\ cleared' = TRUE
      BY <1>3, <2>2 DEF VGA_display_char
    <3>2. /\ TypeOK /\ VGA_MEMORY \in Screen /\ scrolled \in Seq(Line) /\ cursor_y \in Rows
          /\ \A y \in Rows : y > cursor_y => VGA_MEMORY[y] = BlankRow
      <4>1. TypeOK
        BY <1>3 DEF IInv, BelowIsBlank
      <4>2. scrolled \in Seq(Line) /\ cursor_y \in Rows
        BY <4>1 DEF TypeOK, Line, Cells
      <4> QED
        BY <1>3, <3>1, <4>1, <4>2 DEF IInv, BelowIsBlank
    <3>3. Page = PageOf(scrolled, VGA_MEMORY, cursor_y)
      BY <3>1 DEF Page, PageOf
    <3>4. Page # << >>
      <4>1. Page \in Seq(Line) /\ Len(Page) = Len(scrolled) + cursor_y + 1
        BY <3>2, <3>3, PageRows
      <4>2. Len(scrolled) \in Nat /\ cursor_y \in Nat
        BY <3>2, CursorType
      <4> QED
        BY <4>1, <4>2
    <3>5. ASSUME NEW m, Stays(m)
          PROVE  Page' = PageOf(scrolled, m, cursor_y)
      BY <3>1, <3>5 DEF Stays, Page, PageOf
    <3>6. ASSUME GoesDown(VGA_MEMORY)
          PROVE  Page' = Append(Page, BlankRow)
      BY <1>3, <3>1, <3>2, <3>3, <3>6, NewRow
    <3>7. CASE cursor_x' = 0 /\ GoesDown(VGA_MEMORY)
      BY <1>2, <3>4, <3>6, <3>7 DEF Paper!Next, Paper!LineFeed, Paper!NewLine
    <3>8. CASE cursor_x' = 0 /\ Stays(VGA_MEMORY)
      BY <3>3, <3>4, <3>5, <3>8 DEF Paper!Next, Paper!Return
    <3>9. Tab = (cursor_x \div TabStop + 1) * TabStop
      BY <3>2, CursorType, TabStops DEF Tab
    <3>10. CASE Tab < Width /\ cursor_x' = Tab /\ Stays(VGA_MEMORY)
      BY <3>3, <3>4, <3>5, <3>9, <3>10 DEF Paper!Next, Paper!Tab, Paper!MoveTo
    <3>11. CASE Tab >= Width /\ cursor_x' = 0 /\ GoesDown(VGA_MEMORY)
      BY <1>2, <3>4, <3>6, <3>7, <3>11 DEF Paper!Next, Paper!LineFeed, Paper!NewLine
    <3>12. CASE /\ c \in Ascii \cup Latin
                /\ IF cursor_x + 1 < Width THEN cursor_x' = cursor_x + 1 /\ Stays(At(c))
                                           ELSE cursor_x' = 0 /\ GoesDown(At(c))
      <4> DEFINE p == [Page EXCEPT ![Len(Page)][cursor_x] = Cell(c)]
      <4>1. PageOf(scrolled, At(c), cursor_y) = p
        BY <1>3, <3>1, <3>12, PutOnPage
      <4>2. At(c) \in Screen /\ \A y \in Rows : y > cursor_y => At(c)[y] = BlankRow
        BY <1>3, <3>1, <3>12, Written
      <4>3. Paper!MoveTo(p, cursor_x + 1)
        <5> HIDE DEF p
        <5>1. CASE cursor_x + 1 < Width
          BY <3>5, <3>12, <4>1, <5>1 DEF Paper!MoveTo
        <5>2. CASE ~(cursor_x + 1 < Width)
          <6>1. cursor_x' = 0 /\ GoesDown(At(c))
            BY <3>12, <5>2
          <6>2. Page' = Append(p, BlankRow)
            BY <1>3, <3>1, <4>1, <4>2, <6>1, NewRow
          <6> QED
            BY <1>2, <5>2, <6>1, <6>2 DEF Paper!MoveTo, Paper!NewLine
        <5> QED
          BY <5>1, <5>2
      <4> QED
        BY <3>4, <3>12, <4>3 DEF Paper!Next, Paper!Put
    <3> HIDE DEF Tab
    <3> QED
      BY <1>3, <2>2, <3>7, <3>8, <3>10, <3>11, <3>12, CharacterCases
  <2>3. CASE UNCHANGED vars
    BY <2>3 DEF vars, Paper!vars, Page
  <2> QED
    BY <1>3, <2>1, <2>2, <2>3 DEF Next
<1> QED
  BY <1>1, <1>3, Invariance, PTL DEF Spec, TerminalSpec, Paper!Spec
=============================================================================
