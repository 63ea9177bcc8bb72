--------------------------- MODULE KeyboardProofs ---------------------------
(***************************************************************************)
(* What Keyboard guarantees for every set of keys and any number of events *)
(* as long as the two keys of a pair are never down together and caps lock *)
(* does not repeat (the run kb_two_shifts shows that this is needed):      *)
(* what is printed is what was typed, and the decoder is in step.          *)
(*                                                                         *)
(* The handler is a function of the decoder's state and a byte (Decode).   *)
(* Bytes are behind on the wire, so the invariant is about what they will  *)
(* do: they lead the decoder from where it is to where the user is         *)
(* (Leads), printing on the way the beginning of what it has printed then. *)
(* A key event adds bytes and moves the place they lead to; the handler    *)
(* takes the first byte, and the first step of the way.                    *)
(***************************************************************************)
EXTENDS Keyboard, TLAPS

\* What may be on the wire, and what the decoder remembers.
Bytes == Codes \cup {"E0", "F0"}

State == [awaiting : BOOLEAN, ext : BOOLEAN, caps : BOOLEAN, shift : BOOLEAN,
          ctrl : BOOLEAN, alt : BOOLEAN, printed : Seq(Outputs)]

\* What kb_interrupt_handler makes of state s and byte b.
Decode(s, b) ==
    CASE b = "E0" -> [s EXCEPT !.ext = TRUE]
      [] b = "F0" -> [s EXCEPT !.awaiting = TRUE]
      [] b \notin {"E0", "F0"} /\ s.awaiting ->
            [awaiting |-> FALSE, ext |-> FALSE, caps |-> s.caps,
             shift |-> s.shift /\ b \notin ShiftCodes,
             ctrl |-> s.ctrl /\ b # "ctrl",
             alt |-> s.alt /\ b # "alt",
             printed |-> s.printed]
      [] OTHER ->
            [awaiting |-> s.awaiting, ext |-> FALSE, caps |-> (s.caps # (b = "caps")),
             shift |-> s.shift \/ b \in ShiftCodes,
             ctrl |-> s.ctrl \/ b = "ctrl",
             alt |-> s.alt \/ b = "alt",
             printed |-> IF is_modifier(b) THEN s.printed
                         ELSE s.printed \o Output(b, s.ext, s.caps, s.shift, s.ctrl, s.alt)]

\* p is the beginning of q.
Begins(p, q) == Len(p) <= Len(q) /\ \A i \in 1 .. Len(p) : p[i] = q[i]

\* The bytes w take the decoder from s to t, and what it prints on the way is
\* the beginning of what it has printed then.
Leads(w, s, t) ==
    \E run \in [0 .. Len(w) -> State] :
       /\ run[0] = s /\ run[Len(w)] = t
       /\ \A i \in 1 .. Len(w) : run[i] = Decode(run[i - 1], w[i])
       /\ \A i \in 0 .. Len(w) : Begins(run[i].printed, t.printed)

\* A key with one of the codes is among ks.
Held(ks, codes) == \E k \in ks : k.code \in codes

\* The decoder between two keys, when the keys ks are down, caps lock is as
\* given and out has been printed.
Between(ks, caps, out) ==
    [awaiting |-> FALSE, ext |-> FALSE, caps |-> caps,
     shift |-> Held(ks, ShiftCodes), ctrl |-> Held(ks, {"ctrl"}), alt |-> Held(ks, {"alt"}),
     printed |-> out]

\* The decoder after the make code of k, and after its break code.
Made(s, k) ==
    IF k.ext THEN Decode(Decode(s, "E0"), k.code) ELSE Decode(s, k.code)

Broken(s, k) ==
    IF k.ext THEN Decode(Decode(Decode(s, "E0"), "F0"), k.code)
             ELSE Decode(Decode(s, "F0"), k.code)

\* What that is between two keys.
AfterMake(k, ks, caps, out) ==
    [awaiting |-> FALSE, ext |-> FALSE, caps |-> (caps # (k.code = "caps")),
     shift |-> Held(ks, ShiftCodes) \/ k.code \in ShiftCodes,
     ctrl |-> Held(ks, {"ctrl"}) \/ k.code = "ctrl",
     alt |-> Held(ks, {"alt"}) \/ k.code = "alt",
     printed |-> out \o Means(k, ks, caps)]

AfterBreak(k, ks, caps, out) ==
    [awaiting |-> FALSE, ext |-> FALSE, caps |-> caps,
     shift |-> Held(ks, ShiftCodes) /\ k.code \notin ShiftCodes,
     ctrl |-> Held(ks, {"ctrl"}) /\ k.code # "ctrl",
     alt |-> Held(ks, {"alt"}) /\ k.code # "alt",
     printed |-> out]

\* Where the decoder is, and where the user is.
Now == [awaiting |-> awaiting_break_code, ext |-> kb_extended, caps |-> kb_capslock,
        shift |-> kb_shift, ctrl |-> kb_ctrl, alt |-> kb_alt, printed |-> printed]

Expected == Between(down, caps_on, typed)

\* Of the keys that set one flag at most one is down.
OneOfAGroup ==
    \A m \in down, n \in down : is_modifier(m.code) /\ Group(m) = Group(n) => m = n

IInv == TypeOK /\ OneOfAGroup /\ Leads(wire, Now, Expected)

-----------------------------------------------------------------------------
(* Sequences.                                                              *)

\* Sequences are equal when their elements are.
LEMMA SameSequence ==
    ASSUME NEW S, NEW x \in Seq(S), NEW y \in Seq(S), Len(x) = Len(y),
           \A i \in 1 .. Len(x) : x[i] = y[i]
   
   
   
    PROVE     x = y
OBVIOUS

\* Two bytes, one before the other.
LEMMA PairBytes ==
    ASSUME NEW S, NEW a \in S, NEW b \in S
   
   
    PROVE    <<a>> \o <<b>> = <<a, b>>
<1> DEFINE x == <<a>> \o <<b>>   y == <<a, b>>
<1>1. x \in Seq(S) /\ Len(x) = 2 /\ y \in Seq(S) /\ Len(y) = 2
  OBVIOUS
<1>3. x[1] = y[1] /\ x[2] = y[2]
  OBVIOUS
<1> HIDE DEF x, y
<1>4. \A i \in 1 .. Len(x) : x[i] = y[i]
  BY <1>1, <1>3
<1> QED BY <1>1, <1>4, SameSequence DEF x, y

\* One byte before two.
LEMMA TripleBytes ==
    ASSUME NEW S, NEW a \in S, NEW b \in S, NEW c \in S
   
   
    PROVE    <<a>> \o <<b, c>> = <<a, b, c>>
<1> DEFINE x == <<a>> \o <<b, c>>   y == <<a, b, c>>
<1>1. x \in Seq(S) /\ Len(x) = 3 /\ y \in Seq(S) /\ Len(y) = 3
  OBVIOUS
<1>3. x[1] = y[1] /\ x[2] = y[2] /\ x[3] = y[3]
  OBVIOUS
<1> HIDE DEF x, y
<1>4. \A i \in 1 .. Len(x) : x[i] = y[i]
  BY <1>1, <1>3
<1> QED BY <1>1, <1>4, SameSequence DEF x, y

\* Two bytes at the end, one after the other.
LEMMA AppendTwo ==
    ASSUME NEW S, NEW w \in Seq(S), NEW a \in S, NEW b \in S
   
   
    PROVE    w \o <<a,b>> = (w \o <<a>>) \o <<b>>
<1> DEFINE x == w \o <<a, b>>   y == (w \o <<a>>) \o <<b>>
<1>1. x \in Seq(S) /\ Len(x) = Len(w) + 2 /\ Len(w) \in Nat
  OBVIOUS
<1>2. y \in Seq(S) /\ Len(y) = Len(w) + 2
  OBVIOUS
<1>3. \A i \in 1 .. Len(w) : x[i] = y[i]
  OBVIOUS
<1>4. x[Len(w) + 1] = y[Len(w) + 1] /\ x[Len(w) + 2] = y[Len(w) + 2]
  OBVIOUS
<1> HIDE DEF x, y
<1>5. \A i \in 1 .. Len(x) : x[i] = y[i]
  BY <1>1, <1>3, <1>4
<1> QED BY <1>1, <1>2, <1>5, SameSequence DEF x, y

\* A character is one of the characters, with whatever is before it.
LEMMA OutputType ==
    ASSUME NEW code, NEW e \in BOOLEAN, NEW c \in BOOLEAN, NEW s \in BOOLEAN,
           NEW ct \in BOOLEAN, NEW a \in BOOLEAN
    PROVE  Output(code, e, c, s, ct, a) \in Seq(Outputs)
<1> DEFINE ch == scancode_to_ascii(code, e, c, s)
<1>1. ch \in Chars \cup {NoChar}
  BY DEF scancode_to_ascii, Chars, NoChar
<1>2. ch # NoChar => ch \in Chars
  BY <1>1
<1>3. ch \in Chars => Ctrl(ch) \in {"a"} \cup {"other " \o x : x \in Chars}
  BY DEF Ctrl
<1>4. ch \in Chars => <<"Ctrl+", Ctrl(ch)>> \in Outputs
  BY <1>3 DEF Outputs
<1>5. ch \in Chars => <<"Alt+", ch>> \in Outputs /\ <<"", ch>> \in Outputs
  BY DEF Outputs
<1>6. Output(code, e, c, s, ct, a) \in
         {<< >>, << <<"Ctrl+", Ctrl(ch)>> >>, << <<"Alt+", ch>> >>, << <<"", ch>> >>}
      /\ (ch = NoChar => Output(code, e, c, s, ct, a) = << >>)
  BY DEF Output
<1> HIDE DEF ch
<1>7. CASE ch = NoChar
  BY <1>6, <1>7
<1>8. \A x \in Outputs : <<x>> \in Seq(Outputs)
  OBVIOUS
<1>9. CASE ch # NoChar
  <2>1. <<"Ctrl+", Ctrl(ch)>> \in Outputs /\ <<"Alt+", ch>> \in Outputs /\ <<"", ch>> \in Outputs
    BY <1>2, <1>4, <1>5, <1>9
  <2>2. /\ << <<"Ctrl+", Ctrl(ch)>> >> \in Seq(Outputs)
        /\ << <<"Alt+", ch>> >> \in Seq(Outputs)
        /\ << <<"", ch>> >> \in Seq(Outputs)
    BY <2>1, <1>8, Zenon
  <2>3. << >> \in Seq(Outputs)
    OBVIOUS
  <2> QED BY <1>6, <2>2, <2>3, Zenon
<1> QED BY <1>7, <1>9

\* So has what a key press means.
LEMMA MeansType ==
    ASSUME NEW k, k.ext \in BOOLEAN, NEW ks, NEW caps \in BOOLEAN
    PROVE  Means(k, ks, caps) \in Seq(Outputs)
<1>1. ASSUME NEW x \in BOOLEAN, NEW y \in BOOLEAN, NEW z \in BOOLEAN
      PROVE  Output(k.code, k.ext, caps, x, y, z) \in Seq(Outputs)
  BY OutputType
<1>2. \A g : (\E m \in ks : Group(m) = g) \in BOOLEAN
  OBVIOUS
<1>3. << >> \in Seq(Outputs)
  OBVIOUS
<1> QED BY <1>1, <1>2, <1>3, Zenon DEF Means

\* What is appended does not disturb a beginning.
LEMMA BeginsLonger ==
    ASSUME NEW p \in Seq(Outputs), NEW q \in Seq(Outputs), NEW r \in Seq(Outputs),
           Begins(p, q)
    PROVE  Begins(p, q \o r)
BY DEF Begins

\* The beginning of a beginning is one.
LEMMA BeginsTrans ==
    ASSUME NEW p \in Seq(Outputs), NEW q \in Seq(Outputs), NEW r \in Seq(Outputs),
           Begins(p, q), Begins(q, r)
    PROVE  Begins(p, r)
<1>1. Len(p) \in Nat /\ Len(q) \in Nat /\ Len(r) \in Nat
  OBVIOUS
<1> QED BY <1>1 DEF Begins

\* A sequence begins itself.
LEMMA BeginsSelf ==
    ASSUME NEW p \in Seq(Outputs)
    PROVE  Begins(p, p)
BY DEF Begins

\* A byte takes the decoder to another of its states and never unprints.
LEMMA DecodeType ==
    ASSUME NEW s \in State, NEW b \in Bytes
    PROVE  Decode(s, b) \in State /\ Begins(s.printed, Decode(s, b).printed)
<1>1. /\ s.awaiting \in BOOLEAN /\ s.ext \in BOOLEAN /\ s.caps \in BOOLEAN
      /\ s.shift \in BOOLEAN /\ s.ctrl \in BOOLEAN /\ s.alt \in BOOLEAN
      /\ s.printed \in Seq(Outputs)
  BY DEF State
<1> DEFINE out == Output(b, s.ext, s.caps, s.shift, s.ctrl, s.alt)
<1>2. out \in Seq(Outputs)
  BY <1>1, OutputType
<1> HIDE DEF out
<1>3. s.printed \o out \in Seq(Outputs) /\ Begins(s.printed, s.printed \o out)
      /\ Begins(s.printed, s.printed)
  BY <1>1, <1>2, BeginsLonger, BeginsSelf
<1>4. CASE b = "E0"
  <2>1. Decode(s, b) = [s EXCEPT !.ext = TRUE]
    BY <1>4 DEF Decode
  <2> QED BY <2>1, <1>3 DEF State
<1>5. CASE b = "F0"
  <2>1. Decode(s, b) = [s EXCEPT !.awaiting = TRUE]
    BY <1>5 DEF Decode
  <2> QED BY <2>1, <1>3 DEF State
<1>6. CASE b \notin {"E0", "F0"} /\ s.awaiting
  BY <1>1, <1>3, <1>6 DEF State, Decode
<1>7. CASE b \notin {"E0", "F0"} /\ ~s.awaiting
  BY <1>1, <1>3, <1>7 DEF State, Decode, out
<1> QED BY <1>4, <1>5, <1>6, <1>7

\* One more byte on the wire.
LEMMA LeadsMore ==
    ASSUME NEW w \in Seq(Bytes), NEW s, NEW t, NEW b \in Bytes, Leads(w, s, t)
    PROVE  Leads(w \o <<b>>, s, Decode(t, b))
<1> DEFINE w2 == w \o <<b>>
           u == Decode(t, b)
<1>1. PICK run \in [0 .. Len(w) -> State] :
         /\ run[0] = s /\ run[Len(w)] = t
         /\ \A i \in 1 .. Len(w) : run[i] = Decode(run[i - 1], w[i])
         /\ \A i \in 0 .. Len(w) : Begins(run[i].printed, t.printed)
  BY DEF Leads
<1>2. /\ Len(w) \in Nat /\ Len(w2) = Len(w) + 1
      /\ \A i \in 1 .. Len(w) : w2[i] = w[i]
      /\ w2[Len(w) + 1] = b
  OBVIOUS
<1>3. t \in State
  BY <1>1, <1>2
<1>4. u \in State /\ Begins(t.printed, u.printed)
  BY <1>3, DecodeType
<1>5. ASSUME NEW i \in 0 .. Len(w)
      PROVE  Begins(run[i].printed, u.printed)
  <2>1. run[i] \in State /\ Begins(run[i].printed, t.printed)
    BY <1>1
  <2>2. /\ run[i].printed \in Seq(Outputs) /\ t.printed \in Seq(Outputs)
        /\ u.printed \in Seq(Outputs)
    BY <2>1, <1>3, <1>4 DEF State
  <2> QED BY <2>1, <2>2, <1>4, BeginsTrans
<1>6. Begins(u.printed, u.printed)
  BY <1>4, BeginsSelf DEF State
<1> DEFINE run2 == [i \in 0 .. Len(w) + 1 |-> IF i = Len(w) + 1 THEN u ELSE run[i]]
<1>7. /\ run2 \in [0 .. Len(w2) -> State]
      /\ run2[0] = s /\ run2[Len(w2)] = u
  BY <1>1, <1>2, <1>4
<1>8. \A i \in 1 .. Len(w2) : run2[i] = Decode(run2[i - 1], w2[i])
  <2> SUFFICES ASSUME NEW i \in 1 .. Len(w2)
               PROVE  run2[i] = Decode(run2[i - 1], w2[i])
    OBVIOUS
  <2>1. CASE i = Len(w) + 1
    <3>1. run2[i] = u /\ run2[i - 1] = t /\ w2[i] = b
      BY <2>1, <1>1, <1>2
    <3> QED BY <3>1
  <2>2. CASE i \in 1 .. Len(w)
    <3>1. run2[i] = run[i] /\ run2[i - 1] = run[i - 1] /\ w2[i] = w[i]
      BY <2>2, <1>2
    <3> QED BY <3>1, <2>2, <1>1
  <2> QED BY <2>1, <2>2, <1>2
<1>9. \A i \in 0 .. Len(w2) : Begins(run2[i].printed, u.printed)
  <2> SUFFICES ASSUME NEW i \in 0 .. Len(w2)
               PROVE  Begins(run2[i].printed, u.printed)
    OBVIOUS
  <2>1. CASE i = Len(w) + 1
    <3>1. run2[i] = u
      BY <2>1, <1>2
    <3> QED BY <3>1, <1>6
  <2>2. CASE i \in 0 .. Len(w)
    <3>1. run2[i] = run[i]
      BY <2>2, <1>2
    <3> QED BY <3>1, <2>2, <1>5
  <2> QED BY <2>1, <2>2, <1>2
<1> HIDE DEF run2, u, w2
<1> QED BY <1>7, <1>8, <1>9 DEF Leads, u, w2

\* The first byte is read.
LEMMA LeadsOn ==
    ASSUME NEW w \in Seq(Bytes), NEW s, NEW t, w # << >>, Leads(w, s, t)
    PROVE  Head(w) \in Bytes /\ Leads(Tail(w), Decode(s, Head(w)), t)
<1>1. PICK run \in [0 .. Len(w) -> State] :
         /\ run[0] = s /\ run[Len(w)] = t
         /\ \A i \in 1 .. Len(w) : run[i] = Decode(run[i - 1], w[i])
         /\ \A i \in 0 .. Len(w) : Begins(run[i].printed, t.printed)
  BY DEF Leads
<1> DEFINE n == Len(w) - 1
           w2 == Tail(w)
           run2 == [i \in 0 .. n |-> run[i + 1]]
<1>2. /\ Len(w) \in Nat /\ Len(w) >= 1 /\ n \in Nat /\ Len(w2) = n
      /\ Head(w) = w[1] /\ w[1] \in Bytes
      /\ \A i \in 1 .. n : w2[i] = w[i + 1]
  OBVIOUS
<1>3. run2[0] = run[1] /\ run[1] = Decode(s, Head(w))
  BY <1>1, <1>2
<1>4. run2 \in [0 .. n -> State] /\ run2[n] = t
  BY <1>1, <1>2
<1>5. \A i \in 1 .. n : run2[i] = Decode(run2[i - 1], w2[i])
  <2> SUFFICES ASSUME NEW i \in 1 .. n
               PROVE  run2[i] = Decode(run2[i - 1], w2[i])
    OBVIOUS
  <2>1. run2[i] = run[i + 1] /\ run2[i - 1] = run[i] /\ w2[i] = w[i + 1]
    BY <1>2
  <2>2. i + 1 \in 1 .. Len(w) /\ (i + 1) - 1 = i
    BY <1>2
  <2>3. run[i + 1] = Decode(run[i], w[i + 1])
    BY <2>2, <1>1
  <2> QED BY <2>1, <2>3
<1>6. \A i \in 0 .. n : Begins(run2[i].printed, t.printed)
  <2> SUFFICES ASSUME NEW i \in 0 .. n
               PROVE  Begins(run2[i].printed, t.printed)
    OBVIOUS
  <2>1. run2[i] = run[i + 1] /\ i + 1 \in 0 .. Len(w)
    BY <1>2
  <2> QED BY <2>1, <1>1
<1> HIDE DEF run2, n, w2
<1> QED BY <1>2, <1>3, <1>4, <1>5, <1>6 DEF Leads, w2

\* With no byte left the decoder has got there.
LEMMA LeadsEmpty ==
    ASSUME NEW s, NEW t
    PROVE  /\ Leads(<< >>, s, t) => s = t
           /\ s \in State => Leads(<< >>, s, s)
<1>1. Len(<< >>) = 0
  OBVIOUS
<1>2. Leads(<< >>, s, t) => s = t
  BY <1>1 DEF Leads
<1>3. ASSUME s \in State PROVE Leads(<< >>, s, s)
  <2> DEFINE run == [i \in 0 .. 0 |-> s]
  <2>1. run \in [0 .. 0 -> State] /\ run[0] = s /\ \A i \in 0 .. 0 : run[i] = s
    BY <1>3
  <2>2. Begins(s.printed, s.printed)
    BY <1>3, BeginsSelf DEF State
  <2> HIDE DEF run
  <2>3. \A i \in 0 .. 0 : Begins(run[i].printed, s.printed)
    BY <2>1, <2>2
  <2>4. \A i \in 1 .. 0 : run[i] = Decode(run[i - 1], << >>[i])
    OBVIOUS
  <2> QED BY <1>1, <2>1, <2>3, <2>4 DEF Leads
<1> QED BY <1>2, <1>3

\* What has been printed is the beginning of what will have been.
LEMMA LeadsBegins ==
    ASSUME NEW w \in Seq(Bytes), NEW s, NEW t, Leads(w, s, t)
    PROVE  s \in State /\ t \in State /\ Begins(s.printed, t.printed)
<1>1. Len(w) \in Nat
  OBVIOUS
<1> QED BY <1>1 DEF Leads

-----------------------------------------------------------------------------
\* Two bytes.
LEMMA LeadsBoth ==
    ASSUME NEW w \in Seq(Bytes), NEW s, NEW t, NEW a \in Bytes, NEW b \in Bytes, Leads(w, s, t)
    PROVE  Leads(w \o <<a, b>>, s, Decode(Decode(t, a), b))
<1>1. w \o <<a>> \in Seq(Bytes) /\ w \o <<a, b>> = (w \o <<a>>) \o <<b>>
  BY AppendTwo
<1>2. Leads(w \o <<a>>, s, Decode(t, a))
  BY LeadsMore
<1> QED BY <1>1, <1>2, LeadsMore

\* Three bytes.
LEMMA LeadsThrice ==
    ASSUME NEW w \in Seq(Bytes), NEW s, NEW t,
           NEW a \in Bytes, NEW b \in Bytes, NEW c \in Bytes, Leads(w, s, t)
    PROVE  Leads(w \o <<a, b, c>>, s, Decode(Decode(Decode(t, a), b), c))
<1>1. w \o <<a, b>> \in Seq(Bytes) /\ w \o <<a, b, c>> = (w \o <<a, b>>) \o <<c>>
  OBVIOUS
<1>2. Leads(w \o <<a, b>>, s, Decode(Decode(t, a), b))
  BY LeadsBoth
<1> QED BY <1>1, <1>2, LeadsMore

\* The make code of k, after its prefix, between two keys.
LEMMA MakeCode ==
    ASSUME NEW k \in Keys, NEW ks \in SUBSET Keys, NEW caps \in BOOLEAN,
           NEW out \in Seq(Outputs)
    PROVE  Made(Between(ks, caps, out), k) = AfterMake(k, ks, caps, out)
<1> DEFINE s == Between(ks, caps, out)
<1>1. k.code \in Codes /\ k.ext \in BOOLEAN /\ k.code \notin {"E0", "F0"}
  BY KeyboardAssumption DEF Codes, ShiftCodes
<1> DEFINE u == IF k.ext THEN Decode(s, "E0") ELSE s
<1>2. u = [awaiting |-> FALSE, ext |-> k.ext, caps |-> caps, shift |-> Held(ks, ShiftCodes),
           ctrl |-> Held(ks, {"ctrl"}), alt |-> Held(ks, {"alt"}), printed |-> out]
  BY <1>1 DEF Decode, Between
<1>3. Means(k, ks, caps) =
        IF is_modifier(k.code) THEN << >>
        ELSE Output(k.code, k.ext, caps, Held(ks, ShiftCodes),
                    Held(ks, {"ctrl"}), Held(ks, {"alt"}))
  <2>1. \A m \in ks : m.code \in Codes
    BY KeyboardAssumption
  <2>2. /\ (\E m \in ks : Group(m) = "shift") = Held(ks, ShiftCodes)
        /\ (\E m \in ks : Group(m) = "ctrl") = Held(ks, {"ctrl"})
        /\ (\E m \in ks : Group(m) = "alt") = Held(ks, {"alt"})
    BY <2>1 DEF Group, Held, Codes, ShiftCodes
  <2> QED BY <2>2, Zenon DEF Means
<1>4. is_modifier(k.code) => out \o Means(k, ks, caps) = out
  BY <1>3
<1> HIDE DEF u
<1>5. Decode(u, k.code)
        = [awaiting |-> FALSE, ext |-> FALSE, caps |-> (caps # (k.code = "caps")),
           shift |-> Held(ks, ShiftCodes) \/ k.code \in ShiftCodes,
           ctrl |-> Held(ks, {"ctrl"}) \/ k.code = "ctrl",
           alt |-> Held(ks, {"alt"}) \/ k.code = "alt",
           printed |-> out \o Means(k, ks, caps)]
  BY <1>1, <1>2, <1>3, <1>4 DEF Decode
<1> QED BY <1>1, <1>5, Zenon DEF u, Made, AfterMake

\* The break code of k, after its prefixes, between two keys.
LEMMA BreakCode ==
    ASSUME NEW k \in Keys, NEW ks \in SUBSET Keys, NEW caps \in BOOLEAN,
           NEW out \in Seq(Outputs)
    PROVE  Broken(Between(ks, caps, out), k) = AfterBreak(k, ks, caps, out)
<1> DEFINE s == Between(ks, caps, out)
<1>1. k.code \in Codes /\ k.ext \in BOOLEAN /\ k.code \notin {"E0", "F0"}
  BY KeyboardAssumption DEF Codes, ShiftCodes
<1> DEFINE u == IF k.ext THEN Decode(Decode(s, "E0"), "F0") ELSE Decode(s, "F0")
<1>2. u = [awaiting |-> TRUE, ext |-> k.ext, caps |-> caps, shift |-> Held(ks, ShiftCodes),
           ctrl |-> Held(ks, {"ctrl"}), alt |-> Held(ks, {"alt"}), printed |-> out]
  BY <1>1 DEF Decode, Between
<1> HIDE DEF u
<1>3. Decode(u, k.code)
        = [awaiting |-> FALSE, ext |-> FALSE, caps |-> caps,
           shift |-> Held(ks, ShiftCodes) /\ k.code \notin ShiftCodes,
           ctrl |-> Held(ks, {"ctrl"}) /\ k.code # "ctrl",
           alt |-> Held(ks, {"alt"}) /\ k.code # "alt",
           printed |-> out]
  BY <1>1, <1>2 DEF Decode
<1> QED BY <1>1, <1>3, Zenon DEF u, Broken, AfterBreak

\* The bytes of a press of k, or of a repeat of it.
LEMMA SendMake ==
    ASSUME NEW k \in Keys, NEW w \in Seq(Bytes), NEW s, NEW t, Leads(w, s, t)
    PROVE  Leads(w \o (Prefix(k) \o <<k.code>>), s, Made(t, k))
<1>1. k.code \in Bytes /\ k.ext \in BOOLEAN /\ "E0" \in Bytes
  BY KeyboardAssumption DEF Bytes
<1>2. CASE k.ext
  <2>1. Prefix(k) \o <<k.code>> = <<"E0", k.code>>
    BY <1>1, <1>2, PairBytes DEF Prefix
  <2> QED BY <1>1, <1>2, <2>1, LeadsBoth DEF Made
<1>3. CASE ~k.ext
  <2>1. Prefix(k) \o <<k.code>> = <<k.code>>
    BY <1>3 DEF Prefix
  <2> QED BY <1>1, <1>3, <2>1, LeadsMore DEF Made
<1> QED BY <1>2, <1>3

\* The bytes of a release of k.
LEMMA SendBreak ==
    ASSUME NEW k \in Keys, NEW w \in Seq(Bytes), NEW s, NEW t, Leads(w, s, t)
    PROVE  Leads(w \o (Prefix(k) \o <<"F0", k.code>>), s, Broken(t, k))
<1>1. k.code \in Bytes /\ k.ext \in BOOLEAN /\ "E0" \in Bytes /\ "F0" \in Bytes
  BY KeyboardAssumption DEF Bytes
<1>2. CASE k.ext
  <2>1. Prefix(k) \o <<"F0", k.code>> = <<"E0", "F0", k.code>>
    BY <1>1, <1>2, TripleBytes DEF Prefix
  <2> QED BY <1>1, <1>2, <2>1, LeadsThrice DEF Broken
<1>3. CASE ~k.ext
  <2>1. Prefix(k) \o <<"F0", k.code>> = <<"F0", k.code>>
    BY <1>3 DEF Prefix
  <2> QED BY <1>1, <1>3, <2>1, LeadsBoth DEF Broken
<1> QED BY <1>2, <1>3

-----------------------------------------------------------------------------
\* The initial state is of its type.
LEMMA InitTypes == Init => TypeOK
<1> SUFFICES ASSUME Init PROVE TypeOK
  OBVIOUS
<1>1. /\ down \subseteq Keys /\ last \in Keys \cup {NoKey}
      /\ caps_on \in BOOLEAN /\ events \in 0 .. MaxEvents
  <2>1. 0 \in 0 .. MaxEvents
    BY KeyboardAssumption
  <2>2. down = {} /\ last = NoKey /\ caps_on = FALSE /\ events = 0
    BY Zenon DEF Init
  <2> QED BY <2>1, <2>2
<1>2. /\ wire \in Seq(Codes \cup {"E0", "F0"})
      /\ typed \in Seq(Outputs) /\ printed \in Seq(Outputs)
  BY DEF Init
<1>3. {awaiting_break_code, kb_extended, kb_capslock, kb_shift, kb_ctrl, kb_alt} \subseteq BOOLEAN
  BY DEF Init
<1> QED BY <1>1, <1>2, <1>3 DEF TypeOK

\* Every variable keeps its type, whatever the keyboard sends.
THEOREM TypeCorrect == Spec => []TypeOK
<1>1. Init => TypeOK
  BY InitTypes
<1>2. TypeOK /\ [Next]_vars => TypeOK'
  <2> SUFFICES ASSUME TypeOK, [Next]_vars
               PROVE  TypeOK'
    OBVIOUS
  <2>1. ASSUME NEW k \in Keys
        PROVE  /\ k.code \in Codes /\ k.ext \in BOOLEAN
               /\ Means(k, down, caps_on) \in Seq(Outputs)
               /\ wire \o (Prefix(k) \o <<k.code>>) \in Seq(Bytes)
               /\ wire \o (Prefix(k) \o <<"F0", k.code>>) \in Seq(Bytes)
    <3>1. k.code \in Codes /\ k.ext \in BOOLEAN
      BY KeyboardAssumption
    <3>2. Means(k, down, caps_on) \in Seq(Outputs)
      BY <3>1, MeansType DEF TypeOK
    <3>3. Prefix(k) \in Seq(Bytes) /\ wire \in Seq(Bytes)
      <4>1. "E0" \in Bytes
        BY DEF Bytes
      <4>2. <<"E0">> \in Seq(Bytes) /\ << >> \in Seq(Bytes)
        BY <4>1
      <4>3. wire \in Seq(Bytes)
        BY DEF Bytes, TypeOK
      <4> QED BY <4>2, <4>3, Zenon DEF Prefix
    <3>4. <<k.code>> \in Seq(Bytes) /\ <<"F0", k.code>> \in Seq(Bytes)
      BY <3>1 DEF Bytes
    <3> QED BY <3>1, <3>2, <3>3, <3>4
  <2>2. ASSUME NEW k \in Keys, Press(k) PROVE TypeOK'
    BY <2>1, <2>2, KeyboardAssumption DEF TypeOK, Press, Send, flags, Bytes
  <2>3. ASSUME NEW k \in down, Release(k) PROVE TypeOK'
    BY <2>1, <2>3, KeyboardAssumption DEF TypeOK, Release, Send, flags, Bytes
  <2>4. ASSUME Repeat PROVE TypeOK'
    BY <2>1, <2>4, KeyboardAssumption DEF TypeOK, Repeat, Send, flags, Bytes
  <2>5. ASSUME kb_interrupt_handler PROVE TypeOK'
    <3>1. /\ Head(wire) \in Bytes /\ Tail(wire) \in Seq(Bytes)
          /\ wire' = Tail(wire)
      BY <2>5 DEF TypeOK, kb_interrupt_handler, Bytes
    <3>2. /\ {awaiting_break_code', kb_extended', kb_capslock', kb_shift', kb_ctrl', kb_alt'}
                \subseteq BOOLEAN
          /\ printed' \in Seq(Outputs)
      <4>1. printed \o Output(Head(wire), kb_extended, kb_capslock, kb_shift, kb_ctrl, kb_alt)
               \in Seq(Outputs)
        BY OutputType DEF TypeOK
      <4>2. ASSUME KbExtended PROVE <3>2
        BY <4>2 DEF KbExtended, TypeOK
      <4>3. ASSUME KbRelease PROVE <3>2
        BY <4>3 DEF KbRelease, TypeOK
      <4>4. ASSUME KbBreak(Head(wire)) PROVE <3>2
        BY <4>4 DEF KbBreak, TypeOK
      <4>5. ASSUME KbMake(Head(wire)) PROVE <3>2
        BY <4>5, <4>1 DEF KbMake, TypeOK
      <4> QED BY <2>5, <4>2, <4>3, <4>4, <4>5 DEF kb_interrupt_handler
    <3> QED BY <2>5, <3>1, <3>2 DEF TypeOK, kb_interrupt_handler, user, Bytes
  <2>6. ASSUME UNCHANGED vars PROVE TypeOK'
    BY <2>6 DEF TypeOK, vars, user, flags
  <2> QED BY <2>2, <2>3, <2>4, <2>5, <2>6 DEF Next
<1> QED BY <1>1, <1>2, PTL DEF Spec

\* The handler is the decoder.
LEMMA HandlerDecodes ==
    ASSUME TypeOK, kb_interrupt_handler
    PROVE  Now' = Decode(Now, Head(wire))
<1>1. /\ awaiting_break_code \in BOOLEAN /\ kb_extended \in BOOLEAN /\ kb_capslock \in BOOLEAN
      /\ kb_shift \in BOOLEAN /\ kb_ctrl \in BOOLEAN /\ kb_alt \in BOOLEAN
  BY DEF TypeOK
<1> DEFINE b == Head(wire)
<1>2. \/ b = "E0" /\ KbExtended
      \/ b = "F0" /\ KbRelease
      \/ b \notin {"E0", "F0"} /\ awaiting_break_code /\ KbBreak(b)
      \/ b \notin {"E0", "F0"} /\ ~awaiting_break_code /\ KbMake(b)
  BY DEF kb_interrupt_handler
<1> SUFFICES Now' = Decode(Now, b)
  OBVIOUS
<1> HIDE DEF b
<1>3. CASE b = "E0" /\ KbExtended
  <2> DEFINE next == [awaiting |-> awaiting_break_code, ext |-> TRUE, caps |-> kb_capslock,
                      shift |-> kb_shift,
                      ctrl |-> kb_ctrl, alt |-> kb_alt,
                      printed |-> printed]
  <2>1. Decode(Now, b) = next
    BY <1>1, <1>3 DEF Now, Decode
  <2>2. Now' = next
    BY <1>1, <1>3, Zenon DEF KbExtended, Now
  <2> QED BY <2>1, <2>2, Zenon
<1>4. CASE b = "F0" /\ KbRelease
  <2> DEFINE next == [awaiting |-> TRUE, ext |-> kb_extended, caps |-> kb_capslock,
                      shift |-> kb_shift,
                      ctrl |-> kb_ctrl, alt |-> kb_alt,
                      printed |-> printed]
  <2>1. Decode(Now, b) = next
    BY <1>1, <1>4 DEF Now, Decode
  <2>2. Now' = next
    BY <1>1, <1>4, Zenon DEF KbRelease, Now
  <2> QED BY <2>1, <2>2, Zenon
<1>5. CASE b \notin {"E0", "F0"} /\ awaiting_break_code /\ KbBreak(b)
  <2> DEFINE next == [awaiting |-> FALSE, ext |-> FALSE, caps |-> kb_capslock,
                      shift |-> kb_shift /\ b \notin ShiftCodes,
                      ctrl |-> kb_ctrl /\ b # "ctrl", alt |-> kb_alt /\ b # "alt",
                      printed |-> printed]
  <2>1. Decode(Now, b) = next
    BY <1>1, <1>5 DEF Now, Decode
  <2>2. Now' = next
    BY <1>1, <1>5, Zenon DEF KbBreak, Now
  <2> QED BY <2>1, <2>2, Zenon
<1>6. CASE b \notin {"E0", "F0"} /\ ~awaiting_break_code /\ KbMake(b)
  <2> DEFINE next == [awaiting |-> awaiting_break_code, ext |-> FALSE,
                      caps |-> (kb_capslock # (b = "caps")),
                      shift |-> kb_shift \/ b \in ShiftCodes,
                      ctrl |-> kb_ctrl \/ b = "ctrl", alt |-> kb_alt \/ b = "alt",
                      printed |-> IF is_modifier(b) THEN printed
                                  ELSE printed \o Output(b, kb_extended, kb_capslock,
                                                         kb_shift, kb_ctrl, kb_alt)]
  <2>1. Decode(Now, b) = next
    BY <1>1, <1>6 DEF Now, Decode
  <2>2. Now' = next
    BY <1>1, <1>6, Zenon DEF KbMake, Now
  <2> QED BY <2>1, <2>2, Zenon
<1> QED BY <1>2, <1>3, <1>4, <1>5, <1>6

\* The decoder between two keys is in one of its states.
LEMMA BetweenType ==
    ASSUME NEW ks, NEW caps \in BOOLEAN, NEW out \in Seq(Outputs)
    PROVE  Between(ks, caps, out) \in State
BY DEF Between, State, Held

\* A press brings the decoder to where the user is.
LEMMA PressLeads ==
    ASSUME IInv, ~Paired, NEW k \in Keys, Press(k)
    PROVE  OneOfAGroup' /\ Leads(wire, Now, Expected)'
<1>1. /\ down \subseteq Keys /\ caps_on \in BOOLEAN /\ typed \in Seq(Outputs)
      /\ wire \in Seq(Bytes) /\ k.code \in Codes
  BY KeyboardAssumption DEF IInv, TypeOK, Bytes
<1>2. OneOfAGroup'
  <2>1. /\ \A m \in down : Group(m) # Group(k) \/ ~is_modifier(k.code)
        /\ \A m \in down' : m \in down \/ m = k
    BY DEF Press
  <2>2. \A m \in down : is_modifier(m.code) /\ Group(m) = Group(k) => is_modifier(k.code)
    BY <1>1, KeyboardAssumption DEF Group, is_modifier, Codes, ShiftCodes
  <2> QED BY <2>1, <2>2, Zenon DEF IInv, OneOfAGroup
<1>3. Expected' = AfterMake(k, down, caps_on, typed)
  <2>1. /\ Held(down', ShiftCodes) = (Held(down, ShiftCodes) \/ k.code \in ShiftCodes)
        /\ Held(down', {"ctrl"}) = (Held(down, {"ctrl"}) \/ k.code = "ctrl")
        /\ Held(down', {"alt"}) = (Held(down, {"alt"}) \/ k.code = "alt")
    BY DEF Press, Held
  <2>2. /\ caps_on' = (caps_on # (k.code = "caps"))
        /\ typed' = typed \o Means(k, down, caps_on)
    BY DEF Press
  <2>3. Expected' = Between(down', caps_on', typed')
    BY DEF Expected, Between
  <2> QED BY <2>1, <2>2, <2>3, Zenon DEF Between, AfterMake
<1>4. Leads(wire', Now, Expected')
  <2>1. wire' = wire \o (Prefix(k) \o <<k.code>>)
    BY DEF Press, Send
  <2>2. Expected = Between(down, caps_on, typed) /\ down \in SUBSET Keys
    BY <1>1 DEF Expected
  <2>3. Expected' = Made(Expected, k)
    BY <1>1, <1>3, <2>2, MakeCode, Zenon
  <2> QED BY <1>1, <2>1, <2>3, SendMake DEF IInv
<1>5. Now' = Now
  BY Zenon DEF Press, flags, Now
<1> QED BY <1>2, <1>4, <1>5

\* So does a repeat: what it sets is set.
LEMMA RepeatLeads ==
    ASSUME IInv, ~CapsRepeats, Repeat
    PROVE  OneOfAGroup' /\ Leads(wire, Now, Expected)'
<1>1. /\ down \subseteq Keys /\ caps_on \in BOOLEAN /\ typed \in Seq(Outputs)
      /\ wire \in Seq(Bytes) /\ last \in Keys /\ last \in down
  BY KeyboardAssumption DEF IInv, TypeOK, Bytes, Repeat
<1>2. OneOfAGroup'
  BY DEF IInv, OneOfAGroup, Repeat
<1>3. Expected' = AfterMake(last, down, caps_on, typed)
  <2>1. /\ Held(down, ShiftCodes) = (Held(down, ShiftCodes) \/ last.code \in ShiftCodes)
        /\ Held(down, {"ctrl"}) = (Held(down, {"ctrl"}) \/ last.code = "ctrl")
        /\ Held(down, {"alt"}) = (Held(down, {"alt"}) \/ last.code = "alt")
    BY <1>1 DEF Held
  <2>2. caps_on = (caps_on # (last.code = "caps"))
    BY <1>1 DEF Repeat
  <2>3. Expected' = Between(down, caps_on, typed \o Means(last, down, caps_on))
    BY Zenon DEF Expected, Repeat, Between
  <2> QED BY <2>1, <2>2, <2>3, Zenon DEF Between, AfterMake
<1>4. Leads(wire', Now, Expected')
  <2>1. wire' = wire \o (Prefix(last) \o <<last.code>>)
    BY DEF Repeat, Send
  <2>2. Expected = Between(down, caps_on, typed) /\ down \in SUBSET Keys
    BY <1>1 DEF Expected
  <2>3. Expected' = Made(Expected, last)
    BY <1>1, <1>3, <2>2, MakeCode, Zenon
  <2> QED BY <1>1, <2>1, <2>3, SendMake DEF IInv
<1>5. Now' = Now
  BY Zenon DEF Repeat, flags, Now
<1> QED BY <1>2, <1>4, <1>5

\* And a release, as no other key of the group is down.
LEMMA ReleaseLeads ==
    ASSUME IInv, NEW k \in down, Release(k)
    PROVE  OneOfAGroup' /\ Leads(wire, Now, Expected)'
<1>1. /\ down \subseteq Keys /\ caps_on \in BOOLEAN /\ typed \in Seq(Outputs)
      /\ wire \in Seq(Bytes) /\ k \in Keys
  BY DEF IInv, TypeOK, Bytes
<1>2. OneOfAGroup'
  BY DEF IInv, OneOfAGroup, Release
<1>3. Expected' = AfterBreak(k, down, caps_on, typed)
  <2>1. /\ Held(down', ShiftCodes) = (Held(down, ShiftCodes) /\ k.code \notin ShiftCodes)
        /\ Held(down', {"ctrl"}) = (Held(down, {"ctrl"}) /\ k.code # "ctrl")
        /\ Held(down', {"alt"}) = (Held(down, {"alt"}) /\ k.code # "alt")
    BY <1>1 DEF Release, Held, IInv, OneOfAGroup, Group, is_modifier, ShiftCodes
  <2>2. Expected' = Between(down', caps_on, typed)
    BY Zenon DEF Expected, Release, Between
  <2> QED BY <2>1, <2>2, Zenon DEF Between, AfterBreak
<1>4. Leads(wire', Now, Expected')
  <2>1. wire' = wire \o (Prefix(k) \o <<"F0", k.code>>)
    BY DEF Release, Send
  <2>2. Expected = Between(down, caps_on, typed) /\ down \in SUBSET Keys
    BY <1>1 DEF Expected
  <2>3. Expected' = Broken(Expected, k)
    BY <1>1, <1>3, <2>2, BreakCode, Zenon
  <2> QED BY <1>1, <2>1, <2>3, SendBreak DEF IInv
<1>5. Now' = Now
  BY Zenon DEF Release, flags, Now
<1> QED BY <1>2, <1>4, <1>5

\* The handler takes one byte of the way.
LEMMA HandlerLeads ==
    ASSUME IInv, kb_interrupt_handler
    PROVE  OneOfAGroup' /\ Leads(wire, Now, Expected)'
<1>1. wire \in Seq(Bytes) /\ wire # << >> /\ wire' = Tail(wire)
  BY DEF IInv, TypeOK, Bytes, kb_interrupt_handler
<1>2. Now' = Decode(Now, Head(wire))
  BY HandlerDecodes DEF IInv
<1>3. OneOfAGroup' /\ Expected' = Expected
  BY Zenon DEF IInv, OneOfAGroup, kb_interrupt_handler, user, Expected, Between
<1>4. Leads(Tail(wire), Decode(Now, Head(wire)), Expected)
  BY <1>1, LeadsOn DEF IInv
<1> QED BY <1>1, <1>2, <1>3, <1>4

\* The inductive invariant: the bytes on the wire lead from where the decoder
\* is to where the user is, whatever is pressed, repeated, released and read.
THEOREM Invariance ==
    ASSUME ~Paired, ~CapsRepeats
    PROVE  Spec => []IInv
<1>1. Init => IInv
  <2> SUFFICES ASSUME Init PROVE IInv
    OBVIOUS
  <2>1. TypeOK
    BY InitTypes
  <2>2. OneOfAGroup
    BY DEF Init, OneOfAGroup
  <2>3. Now = Expected /\ Expected \in State
    <3>1. /\ Held({}, ShiftCodes) = FALSE /\ Held({}, {"ctrl"}) = FALSE
          /\ Held({}, {"alt"}) = FALSE
      BY DEF Held
    <3>2. Expected \in State
      BY <2>1, BetweenType DEF Expected, TypeOK
    <3>3. /\ Now = [awaiting |-> FALSE, ext |-> FALSE, caps |-> FALSE, shift |-> FALSE,
                    ctrl |-> FALSE, alt |-> FALSE, printed |-> << >>]
          /\ Expected = Between({}, FALSE, << >>)
      BY Zenon DEF Init, Now, Expected
    <3> QED BY <3>1, <3>2, <3>3, Zenon DEF Between
  <2> QED BY <2>1, <2>2, <2>3, LeadsEmpty DEF Init, IInv
<1>2. IInv /\ TypeOK' /\ [Next]_vars => IInv'
  <2> SUFFICES ASSUME IInv, TypeOK', [Next]_vars
               PROVE  OneOfAGroup' /\ Leads(wire, Now, Expected)'
    BY DEF IInv
  <2>1. CASE UNCHANGED vars
    <3>1. Now' = Now /\ Expected' = Expected /\ wire' = wire /\ down' = down
      BY <2>1, Zenon DEF vars, user, flags, Now, Expected, Between
    <3> QED BY <3>1 DEF IInv, OneOfAGroup
  <2> QED BY <2>1, PressLeads, ReleaseLeads, RepeatLeads, HandlerLeads DEF Next
<1> QED BY <1>1, <1>2, TypeCorrect, PTL DEF Spec

\* kb_interrupt_handler prints what was typed, in order, and all of it once
\* every byte has been handled.
THEOREM PrintsWhatWasTyped ==
    ASSUME ~Paired, ~CapsRepeats
    PROVE  Spec => []PrintedAsTyped
<1>1. IInv => PrintedAsTyped
  <2> SUFFICES ASSUME IInv PROVE PrintedAsTyped
    OBVIOUS
  <2>1. Now.printed = printed /\ Expected.printed = typed
    BY DEF Now, Expected, Between
  <2>2. Begins(printed, typed)
    BY <2>1, LeadsBegins DEF IInv, TypeOK, Bytes
  <2>3. wire = << >> => printed = typed
    BY <2>1, LeadsEmpty DEF IInv
  <2> QED BY <2>2, <2>3 DEF PrintedAsTyped, Begins
<1> QED BY <1>1, Invariance, PTL

\* With no byte waiting the static flags of kb_interrupt_handler are those of
\* the keys that are down.
THEOREM InStep ==
    ASSUME ~Paired, ~CapsRepeats
    PROVE  Spec => []DecoderInStep
<1>1. IInv => DecoderInStep
  <2> SUFFICES ASSUME IInv, wire = << >>
               PROVE  /\ ~awaiting_break_code /\ ~kb_extended
                      /\ kb_shift = (\E k \in down : k.code \in ShiftCodes)
                      /\ kb_ctrl = (\E k \in down : k.code = "ctrl")
                      /\ kb_alt = (\E k \in down : k.code = "alt")
                      /\ kb_capslock = caps_on
    BY DEF IInv, DecoderInStep
  <2>1. Now = Expected
    BY LeadsEmpty DEF IInv
  <2>2. /\ awaiting_break_code = FALSE /\ kb_extended = FALSE /\ kb_capslock = caps_on
        /\ kb_shift = Held(down, ShiftCodes)
        /\ kb_ctrl = Held(down, {"ctrl"})
        /\ kb_alt = Held(down, {"alt"})
    <3>1. /\ Now.awaiting = Expected.awaiting /\ Now.ext = Expected.ext
          /\ Now.caps = Expected.caps /\ Now.shift = Expected.shift
          /\ Now.ctrl = Expected.ctrl /\ Now.alt = Expected.alt
      BY <2>1
    <3> QED BY <3>1 DEF Now, Expected, Between, IInv, TypeOK
  <2> QED BY <2>2 DEF Held
<1> QED BY <1>1, Invariance, PTL
=============================================================================
