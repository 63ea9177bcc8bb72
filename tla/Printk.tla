------------------------------- MODULE Printk -------------------------------
(***************************************************************************)
(* printk of src/kernel/printk.c: the format loop, the two conversions     *)
(* that build a numeral in the static print_buf and leave its length in    *)
(* int_len, and the two outputs, which read the numeral at different       *)
(* times.  The kernel calls printk with interrupts enabled; the handlers   *)
(* of the keyboard and of the serial port call it too, with them disabled, *)
(* between any two of its steps.                                           *)
(*                                                                         *)
(* A step of the kernel's printk is a store to print_buf or int_len, a     *)
(* read of a character, or a call of SER_write, which disables interrupts. *)
(***************************************************************************)
EXTENDS Integers, Sequences, SequencesExt

CONSTANTS
    Dec, Hex,                        \* the two bases, 10 and 16
    ShortBits, IntBits, LongBits,    \* the widths of the integer types
    BufLen,                          \* PRINT_BUF_LEN
    Letters,                         \* what strings are made of
    Formats,                         \* what the kernel prints
    Arguments,                       \* arguments the conversions are checked with
    LsrValues,                       \* line status values with an error bit
    MaxCalls,                        \* bound: calls of the kernel
    KeyPrints,                       \* bound: prints of the keyboard handler
    ErrorPrints                      \* bound: prints of the serial handler

NUL == "NUL"

\* An item of a format is "char" (a plain one, %% or %c), "string", or a number
\* with its conversion d, u, x or p, length modifier and argument.
Numbers == {"d", "u", "x", "p"}
Plain == [kind : {"char", "string"}, text : Seq(Letters)]
Number == [kind : Numbers, mod : {"h", "", "l", "q"}, arg : Int]

\* The powers of b, written out since the provers know nothing of b ^ n.
Power(b) ==
    LET power[n \in Nat] == IF n = 0 THEN 1 ELSE b * power[n - 1]
    IN  power

\* No numeral reaches the end of print_buf, so none is cut: one of the widest
\* type leaves space for a sign, if it is decimal, and the end of the string.
ASSUME PrintkAssumption ==
    /\ Dec \in 2 .. 16 /\ Hex \in 2 .. 16 /\ Dec # Hex
    /\ ShortBits \in Nat \ {0} /\ IntBits \in Nat /\ LongBits \in Nat
    /\ ShortBits < IntBits /\ IntBits < LongBits
    /\ BufLen \in Nat \ {0, 1, 2}
    /\ Power(2)[LongBits] <= Power(Dec)[BufLen - 2]
    /\ Power(2)[LongBits] <= Power(Hex)[BufLen - 1]
    /\ NUL \notin Letters
    /\ \A f \in Formats : f \in Seq(Plain \cup Number)
    /\ Arguments \subseteq Int
    /\ LsrValues \subseteq Nat \ {0}
    /\ MaxCalls \in Nat /\ KeyPrints \in Nat /\ ErrorPrints \in Nat

Figures == <<"0", "1", "2", "3", "4", "5", "6", "7", "8", "9", "a", "b", "c", "d", "e", "f">>
Figure(d) == Figures[d + 1]

\* An argument as an unsigned and as a signed integer of the given width.
Unsigned(v, bits) == v % Power(2)[bits]
Twos(v, bits) ==
    LET u == Unsigned(v, bits)
    IN  IF u < Power(2)[bits - 1] THEN u ELSE u - Power(2)[bits]

Bits(mod) ==
    CASE mod = "h" -> ShortBits
      [] mod = "" -> IntBits
      [] mod \in {"l", "q"} -> LongBits

-----------------------------------------------------------------------------
(* What printf prints: the reference.                                      *)

NumDigits(v, b) ==
    CHOOSE n \in 1 .. BufLen : v < Power(b)[n] /\ (n = 1 \/ v >= Power(b)[n - 1])
Numeral(v, b) ==
    LET n == NumDigits(v, b)
    IN  [i \in 1 .. n |-> Figure((v \div Power(b)[n - i]) % b)]
Signed(v, b) == IF v < 0 THEN <<"-">> \o Numeral(-v, b) ELSE Numeral(v, b)

NumberText(it) ==
    CASE it.kind = "d" -> Signed(Twos(it.arg, Bits(it.mod)), Dec)
      [] it.kind = "u" -> Numeral(Unsigned(it.arg, Bits(it.mod)), Dec)
      [] it.kind = "x" -> Numeral(Unsigned(it.arg, Bits(it.mod)), Hex)
      [] it.kind = "p" -> Numeral(Unsigned(it.arg, LongBits), Hex)

Text(it) ==
    CASE it.kind \in {"char", "string"} -> it.text
      [] it.kind \in {"d", "u", "x"} -> NumberText(it)
      [] it.kind = "p" -> <<"0", "x">> \o NumberText(it)

AllText(f) == FlattenSeq([i \in 1 .. Len(f) |-> Text(f[i])])

-----------------------------------------------------------------------------
(* int_to_string and uint_to_string, as the stores they do.                *)

Put(i, c) == [into |-> "print_buf", at |-> i, char |-> c]
SetLen(n) == [into |-> "int_len", at |-> n, char |-> NUL]

\* The digit loops.
count_digits(v, b) ==
    LET count[u \in Nat] == IF u = 0 THEN 0 ELSE 1 + count[u \div b]
    IN  IF v = 0 THEN 1 ELSE count[v]

\* A mistake of one: the place value stops a power early.
PlaceValueShort(v, b) ==
    LET grow[p \in Nat] == IF p < v \div b THEN grow[p * b] ELSE p
    IN  grow[1]

PlaceValue(v, b) ==
    LET grow[p \in Nat] == IF p <= v \div b THEN grow[p * b] ELSE p
    IN  grow[1]

\* Of a pair, the first is what is left of the value and the second its place value.
HighFirst(v, b) ==
    LET digits[up \in Nat \X Nat] ==
           IF up[2] = 0 THEN << >>
           ELSE <<Figure(up[1] \div up[2])>> \o digits[<<up[1] % up[2], up[2] \div b>>]
    IN  digits[<<v, PlaceValue(v, b)>>]

LowFirst(v, b) ==
    LET digits[u \in Nat] == IF u = 0 THEN << >> ELSE <<Figure(u % b)>> \o digits[u \div b]
    IN  digits[v]

Zero == <<Put(0, "0"), Put(1, NUL)>>

\* A mistake: the length leaves out the sign.
int_to_stringUnsigned(value, base) ==
    LET negative == IF value < 0 /\ base = Dec THEN 1 ELSE 0
        u == Unsigned(IF negative = 1 THEN -value ELSE value, LongBits)
        total == count_digits(u, base)
        ds == HighFirst(u, base)
    IN  IF u = 0 THEN Zero
        ELSE <<Put(total + negative, NUL)>>
             \o (IF negative = 1 THEN <<Put(0, "-")>> ELSE << >>)
             \o [i \in 1 .. Len(ds) |-> Put(negative + i - 1, ds[i])]
             \o <<SetLen(total)>>

\* Zero is a case of its own, which leaves int_len alone.
int_to_string(value, base) ==
    LET negative == IF value < 0 /\ base = Dec THEN 1 ELSE 0
        u == Unsigned(IF negative = 1 THEN -value ELSE value, LongBits)
        total == count_digits(u, base) + negative
        ds == HighFirst(u, base)
    IN  IF u = 0 THEN Zero
        ELSE <<Put(total, NUL)>>
             \o (IF negative = 1 THEN <<Put(0, "-")>> ELSE << >>)
             \o [i \in 1 .. Len(ds) |-> Put(negative + i - 1, ds[i])]
             \o <<SetLen(total)>>

\* A mistake: the numeral is not terminated.
uint_to_stringOpen(value, base) ==
    LET n == count_digits(value, base)
        ds == LowFirst(value, base)
    IN  IF value = 0 THEN Zero \o <<SetLen(1)>>
        ELSE <<SetLen(n)>> \o [i \in 1 .. n |-> Put(n - i, ds[i])]

uint_to_string(value, base) ==
    LET n == count_digits(value, base)
        ds == LowFirst(value, base)
    IN  IF value = 0 THEN Zero \o <<SetLen(1)>>
        ELSE <<SetLen(n), Put(n, NUL)>> \o [i \in 1 .. n |-> Put(n - i, ds[i])]

\* The conversion printk picks for a number, with the argument cast as the
\* print_ functions cast it.
Conversion(it) ==
    LET bits == Bits(it.mod)
    IN  CASE it.kind = "d" -> int_to_string(Twos(it.arg, bits), Dec)
          [] it.kind = "u" /\ it.mod \in {"h", ""} -> int_to_string(Unsigned(it.arg, bits), Dec)
          [] it.kind = "u" /\ it.mod \in {"l", "q"} -> uint_to_string(Unsigned(it.arg, bits), Dec)
          [] it.kind = "x" /\ it.mod \in {"h", ""} -> int_to_string(Unsigned(it.arg, bits), Hex)
          [] it.kind = "x" /\ it.mod \in {"l", "q"} -> int_to_string(Twos(it.arg, bits), Hex)
          [] it.kind = "p" -> int_to_string(Twos(it.arg, LongBits), Hex)

-----------------------------------------------------------------------------
VARIABLES
    pc,                  \* "idle", "item", "store", "screen", "length", "serial", "count"
    fmt, item, part,     \* the format being printed, the item and the part it is at
    print_buf, int_len,
    stores,              \* what the conversion has left to store
    pos,                 \* how much of the string the screen has
    length,              \* how much of it strlen has seen
    num_printed,
    calls, keys, errors, \* counters behind the bounds
    asked,               \* history: what the kernel asked for
    screen, serial,      \* history: what the kernel and handlers gave each
    torn                 \* history: a handler printed a number inside the kernel's

callVars == <<fmt, calls, asked>>
placeVars == <<item, part>>
bufVars == <<print_buf, int_len>>
handlerVars == <<keys, errors>>
outVars == <<screen, serial>>
vars == <<pc, callVars, placeVars, bufVars, stores, pos, length, num_printed,
          handlerVars, outVars, torn>>

Init ==
    /\ pc = "idle" /\ fmt = << >> /\ item = 1 /\ part = 1
    /\ print_buf = [i \in 0 .. BufLen - 1 |-> NUL] /\ int_len = 0
    /\ stores = << >> /\ pos = 0 /\ length = 0 /\ num_printed = 0
    /\ calls = 0 /\ keys = 0 /\ errors = 0
    /\ asked = << >>
    /\ screen = [kernel |-> << >>, handlers |-> << >>]
    /\ serial = [kernel |-> << >>, handlers |-> << >>]
    /\ torn = FALSE

\* %p prints "0x" as a string of its own.
Parts(it) ==
    IF it.kind = "p" THEN <<[kind |-> "string", text |-> <<"0", "x">>], it>> ELSE <<it>>
this == Parts(fmt[item])[part]

\* The character at p of the string print_str was given.
Read(p) ==
    CASE this.kind \in Numbers -> print_buf[p]
      [] this.kind \notin Numbers /\ p < Len(this.text) -> this.text[p + 1]
      [] OTHER -> NUL

Call(f) ==
    /\ pc = "idle"
    /\ calls < MaxCalls
    /\ calls' = calls + 1
    /\ fmt' = f
    /\ item' = 1 /\ part' = 1 /\ num_printed' = 0
    /\ asked' = asked \o AllText(f)
    /\ pc' = "item"
    /\ UNCHANGED <<bufVars, stores, pos, length, handlerVars, outVars, torn>>

\* Around the format loop.
Item ==
    /\ pc = "item"
    /\ item <= Len(fmt)
    /\ pos' = 0 /\ length' = 0
    /\ IF this.kind \in Numbers
       THEN pc' = "store" /\ stores' = Conversion(this)
       ELSE pc' = "screen" /\ UNCHANGED stores
    /\ UNCHANGED <<callVars, placeVars, bufVars, num_printed, handlerVars, outVars, torn>>

\* printk returns num_printed.
Return ==
    /\ pc = "item"
    /\ item > Len(fmt)
    /\ pc' = "idle"
    /\ UNCHANGED <<callVars, placeVars, bufVars, stores, pos, length, num_printed,
                   handlerVars, outVars, torn>>

\* The buffer and the length, and what a store makes of them.
memory == [buf |-> print_buf, len |-> int_len]
Stored(m, st) ==
    IF st.into = "int_len" THEN [m EXCEPT !.len = st.at]
    ELSE [m EXCEPT !.buf = [m.buf EXCEPT ![st.at] = st.char]]

Store ==
    /\ pc = "store"
    /\ print_buf' = Stored(memory, Head(stores)).buf
    /\ int_len' = Stored(memory, Head(stores)).len
    /\ stores' = Tail(stores)
    /\ pc' = IF Len(stores) = 1 THEN "screen" ELSE "store"
    /\ UNCHANGED <<callVars, placeVars, pos, length, num_printed, handlerVars, outVars, torn>>

\* VGA_display_str gives the screen one character after the other.
ToScreen ==
    /\ pc = "screen"
    /\ IF Read(pos) = NUL
       THEN pc' = "length" /\ UNCHANGED <<pos, screen>>
       ELSE /\ screen' = [screen EXCEPT !.kernel = Append(@, Read(pos))]
            /\ pos' = pos + 1
            /\ UNCHANGED pc
    /\ UNCHANGED <<callVars, placeVars, bufVars, stores, length, num_printed, handlerVars,
                   serial, torn>>

\* strlen, for SER_write.
StrLen ==
    /\ pc = "length"
    /\ IF Read(length) = NUL
       THEN pc' = "serial" /\ UNCHANGED length
       ELSE length' = length + 1 /\ UNCHANGED pc
    /\ UNCHANGED <<callVars, placeVars, bufVars, stores, pos, num_printed, handlerVars,
                   outVars, torn>>

\* SER_write copies the string with interrupts disabled.
ToSerial ==
    /\ pc = "serial"
    /\ serial' = [serial EXCEPT !.kernel = @ \o [i \in 1 .. length |-> Read(i - 1)]]
    /\ pc' = "count"
    /\ UNCHANGED <<callVars, placeVars, bufVars, stores, pos, length, num_printed,
                   handlerVars, screen, torn>>

\* The number of characters printed; of a number it is what int_len now holds.
Count ==
    /\ pc = "count"
    /\ num_printed' = num_printed + IF this.kind \in Numbers THEN int_len ELSE Len(this.text)
    /\ IF part < Len(Parts(fmt[item]))
       THEN part' = part + 1 /\ UNCHANGED item
       ELSE part' = 1 /\ item' = item + 1
    /\ pc' = "item"
    /\ UNCHANGED <<callVars, bufVars, stores, pos, length, handlerVars, outVars, torn>>

-----------------------------------------------------------------------------
(* The handlers.                                                           *)

HandlerPrints(text) ==
    /\ screen' = [screen EXCEPT !.handlers = @ \o text]
    /\ serial' = [serial EXCEPT !.handlers = @ \o text]

\* kb_interrupt_handler prints characters only.
KeyInterrupt ==
    /\ keys < KeyPrints
    /\ keys' = keys + 1
    /\ \E c \in Letters : HandlerPrints(<<c>>)
    /\ UNCHANGED <<pc, callVars, placeVars, bufVars, stores, pos, length, num_printed,
                   errors, torn>>

\* printk is between the first store of a numeral and the last use of it.
inNumber ==
    pc \in {"store", "screen", "length", "serial", "count"} /\ this.kind \in Numbers

\* serial_interrupt_handler prints "Serial line error: 0x%x", a number.
LineErrorInterrupt ==
    /\ errors < ErrorPrints
    /\ errors' = errors + 1
    /\ \E lsr \in LsrValues :
          LET it == [kind |-> "x", mod |-> "", arg |-> lsr]
              after == FoldLeft(Stored, memory, Conversion(it))
          IN  /\ print_buf' = after.buf
              /\ int_len' = after.len
              /\ HandlerPrints(Text(it))
    /\ torn' = (torn \/ inNumber)
    /\ UNCHANGED <<pc, callVars, placeVars, stores, pos, length, num_printed, keys>>

KernelStep == Item \/ Return \/ Store \/ ToScreen \/ StrLen \/ ToSerial \/ Count

Next ==
    \/ \E f \in Formats : Call(f)
    \/ KernelStep
    \/ KeyInterrupt
    \/ LineErrorInterrupt

Spec == Init /\ [][Next]_vars

-----------------------------------------------------------------------------
(* Properties.                                                             *)

Chars == Range(Figures) \cup {"-", "x"} \cup Letters
Outputs == [kernel : Seq(Chars \cup {NUL}), handlers : Seq(Chars)]

\* A string that is read ends in print_buf, or where its text does, whatever
\* handlers make of it meanwhile.
End == IF this.kind \in Numbers THEN BufLen - 1 ELSE Len(this.text)

TypeOK ==
    /\ pc \in {"idle", "item", "store", "screen", "length", "serial", "count"}
    /\ item \in 1 .. Len(fmt) + 1
    /\ part \in IF item <= Len(fmt) THEN DOMAIN Parts(fmt[item]) ELSE {1}
    /\ print_buf \in [0 .. BufLen - 1 -> Chars \cup {NUL}]
    /\ int_len \in 0 .. BufLen - 1
    /\ (pc = "store") = (stores # << >>)
    /\ pc \in {"screen", "length", "serial", "count"} => pos \in 0 .. End /\ length \in 0 .. End
    /\ num_printed \in Nat
    /\ screen \in Outputs /\ serial \in Outputs

\* Whatever a buffer and length held before, the stores of a conversion leave
\* the numeral printf prints there, of any argument under every conversion and
\* length modifier, and its length, which only a zero may leave alone.
ConversionsAsPrintf ==
    calls = 0 =>
       \A c \in {"d", "u", "x"}, m \in {"h", "", "l", "q"}, a \in Arguments, old \in Letters :
          LET it == [kind |-> c, mod |-> m, arg |-> a]
              before == [buf |-> [i \in 0 .. BufLen - 1 |-> old], len |-> 0]
              after == FoldLeft(Stored, before, Conversion(it))
          IN  /\ \A i \in 1 .. Len(Text(it)) : after.buf[i - 1] = Text(it)[i]
              /\ after.buf[Len(Text(it))] = NUL
              /\ Conversion(it) = Zero \/ after.len = Len(Text(it))

\* README.md:5, "Works like printf": the screen and the serial port are given
\* what printf would print, in order, whatever handlers print in between, and
\* all of it by the time printk returns.
PrintsAsPrintf ==
    /\ IsPrefix(screen.kernel, asked)
    /\ IsPrefix(serial.kernel, asked)
    /\ pc = "idle" => screen.kernel = asked /\ serial.kernel = asked

\* The same as long as no handler prints a number while the kernel does: the
\* keyboard handler may come at any time, and the serial handler leaves nothing
\* in print_buf that a later number could show.
PrintsAsPrintfUnlessTorn == torn \/ PrintsAsPrintf

\* Whether a number of the format is a zero.
HasZero(f) ==
    \E i \in 1 .. Len(f) : f[i].kind \in Numbers /\ Conversion(f[i]) = Zero

\* printk returns the number of characters it printed, of a negative number or
\* one of any width too, unless int_to_string met a zero or a handler printed
\* a number meanwhile.
CountsCharacters ==
    /\ TypeOK
    /\ pc = "idle" /\ ~torn /\ ~HasZero(fmt) => num_printed = Len(AllText(fmt))
=============================================================================
