----------------------------- MODULE PrintkProofs -----------------------------
(***************************************************************************)
(* For every base, width, buffer, set of formats and number of calls: each *)
(* conversion stores the numeral that printf prints, in full and ended by  *)
(* a NUL inside print_buf, and printk gives the screen and the serial port *)
(* the text of the formats and returns its length, unless a handler tears  *)
(* a numeral.                                                              *)
(*                                                                         *)
(* The loops of the conversions are recursive functions.  Induction is     *)
(* taken from the well-foundedness of < on Nat, over sets (Least, Induct,  *)
(* Strong), and that a recursion has a solution is proved once for all of  *)
(* them (Recursion), so that each can be unfolded.                         *)
(***************************************************************************)
EXTENDS Printk, SequenceTheorems, WellFoundedInduction, TLAPS

-----------------------------------------------------------------------------
(* Division of natural numbers.                                            *)

\* Quotient and remainder of a natural number.
LEMMA DivMod ==
  ASSUME NEW v \in Nat, NEW b \in Nat \ {0}
  PROVE  /\ v \div b \in Nat /\ v % b \in 0 .. b - 1
         /\ v = b * (v \div b) + (v % b)
  OBVIOUS

\* A positive multiple of b is at least b.
LEMMA MulPos == ASSUME NEW b \in Nat, NEW k \in Nat \ {0} PROVE b * k >= b /\ b * k \in Nat
  OBVIOUS

\* Multiplication distributes, stated since SMT is slow to find it.
LEMMA Distr == ASSUME NEW b \in Int, NEW k \in Int, NEW l \in Int
  PROVE b * k - b * l = b * (k - l) /\ b * (k + l) = b * k + b * l
  OBVIOUS

\* Quotient and remainder are the only ones.
LEMMA DivUnique ==
  ASSUME NEW b \in Nat \ {0}, NEW q \in Nat, NEW r \in 0 .. b - 1
  PROVE  (b * q + r) \div b = q /\ (b * q + r) % b = r
<1> DEFINE v == b * q + r
           p == v \div b
           s == v % b
<1>1. v \in Nat OBVIOUS
<1>2. p \in Nat /\ s \in 0 .. b - 1 /\ v = b * p + s BY <1>1, DivMod
<1> HIDE DEF p, s
<1>3. b * q + r = b * p + s BY <1>2
<1>4. q = p
  <2>1. ASSUME q < p PROVE FALSE
    <3>1. b * (p - q) >= b BY <2>1, <1>2, MulPos
    <3>2. b * (p - q) = r - s BY <1>2, <1>3, Distr
    <3> QED BY <3>1, <3>2, <1>2
  <2>2. ASSUME p < q PROVE FALSE
    <3>1. b * (q - p) >= b BY <2>2, <1>2, MulPos
    <3>2. b * (q - p) = s - r BY <1>2, <1>3, Distr
    <3> QED BY <3>1, <3>2, <1>2
  <2> QED BY <2>1, <2>2, <1>2
<1> QED BY <1>4, <1>3, <1>2 DEF p, s

\* Dividing twice is dividing by the product.
LEMMA DivDiv ==
  ASSUME NEW v \in Nat, NEW b \in Nat \ {0}, NEW p \in Nat \ {0}
  PROVE  (v \div b) \div p = v \div (b * p)
<1> DEFINE w == v \div b
           r == v % b
           x == w \div p
           s == w % p
<1>1. w \in Nat /\ r \in 0 .. b - 1 /\ v = b * w + r BY DivMod
<1>2. x \in Nat /\ s \in 0 .. p - 1 /\ w = p * x + s BY <1>1, DivMod
<1> HIDE DEF w, r, x, s
<1>3. v = (b * p) * x + (b * s + r) BY <1>1, <1>2
<1>4. b * s + r \in 0 .. b * p - 1
  <2>1. b * (p - s) >= b /\ b * s \in Nat BY <1>2, MulPos
  <2>2. b * (p - s) = b * p - b * s BY <1>2
  <2>3. b * p \in Nat /\ b * s + b <= b * p BY <2>1, <2>2, <1>2
  <2> QED BY <2>1, <2>3, <1>1
<1>5. b * p \in Nat \ {0} BY MulPos
<1>6. v \div (b * p) = x BY <1>2, <1>3, <1>4, <1>5, DivUnique
<1> QED BY <1>6 DEF w, x

\* A multiple of the divisor adds to the quotient.
LEMMA DivAdd ==
  ASSUME NEW a \in Nat, NEW p \in Nat \ {0}, NEW x \in Nat
  PROVE (a * p + x) \div p = a + (x \div p)
<1> DEFINE q == x \div p
           r == x % p
<1>1. q \in Nat /\ r \in 0 .. p-1 /\ x = p * q + r BY DivMod
<1> HIDE DEF q, r
<1>2. a * p + x = p * (a + q) + r BY <1>1
<1>3. (a * p + x) \div p = a + q BY <1>1, <1>2, DivUnique
<1> QED BY <1>3 DEF q

\* A multiple of the divisor leaves the remainder.
LEMMA ModAdd ==
  ASSUME NEW a \in Nat, NEW p \in Nat \ {0}, NEW x \in Nat
  PROVE (a * p + x) % p = x % p
<1> DEFINE q == x \div p
           r == x % p
<1>1. q \in Nat /\ r \in 0 .. p-1 /\ x = p * q + r BY DivMod
<1> HIDE DEF q, r
<1>2. a * p + x = p * (a + q) + r BY <1>1
<1>3. (a * p + x) % p = r BY <1>1, <1>2, DivUnique
<1> QED BY <1>3 DEF r

\* Comparing a quotient is comparing with a multiple.
LEMMA DivLess ==
  ASSUME NEW v \in Nat, NEW b \in Nat \ {0}, NEW p \in Nat
  PROVE /\ v < b * p <=> v \div b < p
        /\ p <= v \div b <=> b * p <= v
<1> DEFINE w == v \div b
           r == v % b
<1>1. w \in Nat /\ r \in 0 .. b - 1 /\ v = b * w + r BY DivMod
<1> HIDE DEF w, r
<1>2. CASE w < p
  <2>1. b * (p - w) >= b BY <1>1, <1>2, MulPos
  <2>2. b * (p - w) = b * p - b * w BY <1>1
  <2>3. v < b * p BY <2>1, <2>2, <1>1
  <2> QED BY <2>3, <1>2, <1>1 DEF w
<1>3. CASE p <= w
  <2>1. b * (w - p) \in Nat BY <1>1, <1>3
  <2>2. b * (w - p) = b * w - b * p BY <1>1
  <2>3. b * p <= v BY <2>1, <2>2, <1>1
  <2> QED BY <2>3, <1>3, <1>1 DEF w
<1> QED BY <1>1, <1>2, <1>3

-----------------------------------------------------------------------------
(* Induction, and recursion as an existence of functions.                  *)

\* A nonempty set of natural numbers has a least element; this is where
\* induction comes from, since < is well-founded on Nat.
LEMMA Least ==
  ASSUME NEW T \in SUBSET Nat, T # {}
  PROVE \E x \in T : \A y \in T : x <= y
<1> DEFINE R == OpToRel(<, Nat)
<1>1. PICK x \in T : \A y \in T : <<y, x>> \notin R
  <2>1. IsWellFoundedOn(R, Nat) BY NatLessThanWellFounded
  <2> HIDE DEF R
  <2> QED BY <2>1, WFMin
<1>2. \A y \in T : y < x => <<y, x>> \in R
  BY DEF OpToRel
<1>3. \A y \in T : ~ (y < x)
  <2> HIDE DEF R
  <2> QED BY <1>1, <1>2
<1> HIDE DEF R
<1> QED BY <1>3

\* Induction, over a set in place of a predicate.
LEMMA Induct ==
  ASSUME NEW T, 0 \in T, \A n \in Nat : n \in T => n+1 \in T
  PROVE \A n \in Nat : n \in T
<1>1. SUFFICES ASSUME Nat \ T # {} PROVE FALSE OBVIOUS
<1>2. PICK x \in Nat \ T : \A y \in Nat \ T : x <= y BY <1>1, Least
<1>3. x # 0 /\ x-1 \in Nat /\ x - 1 \in T BY <1>2
<1> QED BY <1>2, <1>3

\* Complete induction, over a set.
LEMMA Strong ==
  ASSUME NEW T, \A n \in Nat : (\A m \in 0 .. n - 1 : m \in T) => n \in T
  PROVE  \A n \in Nat : n \in T
<1>1. SUFFICES ASSUME Nat \ T # {} PROVE FALSE OBVIOUS
<1>2. PICK x \in Nat \ T : \A y \in Nat \ T : x <= y BY <1>1, Least
<1>3. \A m \in 0 .. x - 1 : m \in T BY <1>2
<1> QED BY <1>2, <1>3

\* In x, f is as a recursion says: a value of its own where it stops, else a
\* function of its value at the next place.
Obeys(f, x, Stop, next, base, step) ==
  f[x] = IF x \in Stop THEN base[x] ELSE step[<<x, f[next[x]]>>]

\* A recursion along which a height falls has a solution.
LEMMA Recursion ==
  ASSUME NEW S, NEW V, NEW Stop \in SUBSET S, NEW next \in [S -> S], NEW height \in [S -> Nat],
   \A x \in S \ Stop : height[next[x]] < height[x],
   NEW base \in [S -> V], NEW step \in [S \X V -> V]
  PROVE \E f \in [S -> V] : \A x \in S : Obeys(f, x, Stop, next, base, step)
<1> DEFINE Up(n, f) == \A x \in S : height[x] < n => Obeys(f, x, Stop, next, base, step)
           T == {n \in Nat : \E f \in [S -> V] : Up(n, f)}
<1>1. 0 \in T
  <2>1. Up(0, base) OBVIOUS
  <2> QED BY <2>1
<1>2. ASSUME NEW n \in Nat, n \in T PROVE n + 1 \in T
  <2>1. PICK f \in [S -> V] : Up(n, f) BY <1>2
  <2> DEFINE g == [x \in S |-> IF height[x] < n THEN f[x]
                    ELSE IF x \in Stop THEN base[x] ELSE step[<<x, f[next[x]]>>]]
  <2>2. g \in [S -> V] OBVIOUS
  <2>3. ASSUME NEW x \in S, height[x] < n + 1 PROVE Obeys(g, x, Stop, next, base, step)
    <3>1. CASE x \in Stop
      BY <3>1, <2>1 DEF Obeys
    <3>2. CASE x \notin Stop
      <4>1. /\ next[x] \in S
            /\ height[next[x]] < height[x]
            /\ height[next[x]] \in Nat
            /\ height[x] \in Nat
        BY <3>2
      <4>2. height[next[x]] < n BY <4>1, <2>3
      <4>3. g[next[x]] = f[next[x]] BY <4>1, <4>2
      <4>4. g[x] = step[<<x, f[next[x]]>>] BY <3>2, <2>1 DEF Obeys
      <4> QED BY <3>2, <4>3, <4>4 DEF Obeys
    <3> QED BY <3>1, <3>2
  <2>4. Up(n+1, g) BY <2>3
  <2> HIDE DEF g
  <2> QED BY <2>2, <2>4
<1>3. \A n \in Nat : n \in T
  <2> HIDE DEF T
  <2> QED BY <1>1, <1>2, Induct
<1> DEFINE F == [n \in Nat |-> CHOOSE f \in [S -> V] : Up(n, f)]
<1>4. \A n \in Nat : F[n] \in [S -> V] /\ Up(n, F[n])
  <2> TAKE n \in Nat
  <2>1. \E f \in [S -> V] : Up(n, f) BY <1>3
  <2> HIDE DEF Up
  <2> QED BY <2>1
<1>5. ASSUME NEW n \in Nat, NEW m \in Nat, NEW x \in S, height[x] < n, height[x] < m
      PROVE F[n][x] = F[m][x]
  <2> DEFINE Bad == {h \in Nat : \E y \in S : height[y] = h /\ h < n /\ h < m /\ F[n][y] # F[m][y]}
  <2>1. SUFFICES ASSUME Bad # {} PROVE FALSE
    BY <1>5
  <2>2. PICK h \in Bad : \A k \in Bad : h <= k
    <3>1. Bad \in SUBSET Nat OBVIOUS
    <3> HIDE DEF Bad
    <3> QED BY <3>1, <2>1, Least
  <2>3. PICK y \in S : height[y] = h /\ h < n /\ h < m /\ F[n][y] # F[m][y] BY <2>2
  <2>4. Obeys(F[n], y, Stop, next, base, step) /\ Obeys(F[m], y, Stop, next, base, step)
    <3> HIDE DEF F
    <3> QED BY <1>4, <2>3
  <2> HIDE DEF F
  <2>5. y \notin Stop BY <2>3, <2>4 DEF Obeys
  <2>6. next[y] \in S /\ height[next[y]] \in Nat /\ height[next[y]] < h BY <2>5, <2>3
  <2>7. height[next[y]] \notin Bad BY <2>6, <2>2
  <2>8. F[n][next[y]] = F[m][next[y]] BY <2>7, <2>6, <2>3
  <2> QED BY <2>8, <2>5, <2>4, <2>3 DEF Obeys
<1> HIDE DEF F
<1> DEFINE f == [x \in S |-> F[height[x] + 1][x]]
<1>6. f \in [S -> V] BY <1>4
<1>7. ASSUME NEW x \in S PROVE Obeys(f, x, Stop, next, base, step)
  <2>1. Obeys(F[height[x] + 1], x, Stop, next, base, step)
    BY <1>4
  <2>2. CASE x \in Stop BY <2>1, <2>2 DEF Obeys
  <2>3. CASE x \notin Stop
    <3>1. /\ next[x] \in S
          /\ height[next[x]] \in Nat
          /\ height[x] \in Nat
          /\ height[next[x]] < height[x]
      BY <2>3
    <3>2. F[height[x] + 1][next[x]] = F[height[next[x]] + 1][next[x]]
      BY <3>1, <1>5
    <3> QED BY <2>1, <2>3, <3>1, <3>2 DEF Obeys
  <2> QED BY <2>2, <2>3
<1> QED BY <1>6, <1>7

\* The function Power chooses exists.
LEMMA PowerIs ==
  ASSUME NEW b \in Nat
  PROVE  Power(b) = [n \in Nat |-> IF n = 0 THEN 1 ELSE b * Power(b)[n - 1]]
<1> DEFINE S == Nat
           Stop == {0}
           next == [n \in S |-> IF n = 0 THEN 0 ELSE n - 1]
           height == [n \in S |-> n]
           base == [n \in S |-> 1]
           step == [nr \in S \X S |-> b * nr[2]]
<1>1. PICK f \in [S -> S] : \A x \in S : Obeys(f, x, Stop, next, base, step)
  <2>1. next \in [S -> S] /\ height \in [S -> Nat] /\ base \in [S -> S] OBVIOUS
  <2>2. step \in [S \X S -> S] OBVIOUS
  <2>3. \A x \in S \ Stop : height[next[x]] < height[x] OBVIOUS
  <2>4. Stop \in SUBSET S OBVIOUS
  <2> HIDE DEF S, Stop, next, height, base, step
  <2> QED BY <2>1, <2>2, <2>3, <2>4, Recursion
<1>2. ASSUME NEW n \in Nat PROVE f[n] = IF n = 0 THEN 1 ELSE b * f[n - 1]
  <2>1. CASE n = 0 BY <1>1, <2>1 DEF Obeys
  <2>2. CASE n # 0
    <3>1. n - 1 \in Nat /\ f[n - 1] \in Nat /\ next[n] = n - 1 BY <2>2
    <3>2. f[n] = step[<<n, f[n - 1]>>] BY <1>1, <2>2, <3>1 DEF Obeys
    <3> QED BY <2>2, <3>1, <3>2
  <2> QED BY <2>1, <2>2
<1>3. f = [n \in Nat |-> IF n = 0 THEN 1 ELSE b * f[n - 1]]
  <2> HIDE DEF Stop, next, height, base, step
  <2> QED BY <1>2
<1> QED BY <1>3 DEF Power

\* Powers are positive, and each is b times the one before.
LEMMA PowerNat ==
  ASSUME NEW b \in Nat \ {0}, NEW n \in Nat
  PROVE  /\ Power(b)[n] \in Nat \ {0}
         /\ Power(b)[0] = 1
         /\ Power(b)[n + 1] = b * Power(b)[n]
<1>1. Power(b)[0] = 1 /\ \A k \in Nat : Power(b)[k + 1] = b * Power(b)[k]
  BY PowerIs
<1> DEFINE T == {k \in Nat : Power(b)[k] \in Nat \ {0}}
<1>2. 0 \in T BY <1>1
<1>3. ASSUME NEW k \in Nat, k \in T PROVE k + 1 \in T
  BY <1>1, <1>3, MulPos
<1>4. n \in T
  <2> HIDE DEF T
  <2> QED BY <1>2, <1>3, Induct
<1> QED BY <1>1, <1>4

\* The first power of b is b.
LEMMA PowerOne == ASSUME NEW b \in Nat \ {0} PROVE Power(b)[1] = b
BY PowerNat, 0 + 1 = 1

\* Powers of b do not decrease.
LEMMA PowerGrows ==
  ASSUME NEW b \in Nat \ {0}, NEW m \in Nat, NEW n \in Nat, m <= n
  PROVE  Power(b)[m] <= Power(b)[n]
<1> DEFINE T == {k \in Nat : Power(b)[m] <= Power(b)[m + k]}
<1>1. 0 \in T BY PowerNat
<1>2. ASSUME NEW k \in Nat, k \in T PROVE k + 1 \in T
  <2>1. /\ Power(b)[m + k + 1] = b * Power(b)[m + k]
        /\ Power(b)[m + k] \in Nat \ {0}
        /\ Power(b)[m] \in Nat
    BY PowerNat
  <2>2. b * Power(b)[m + k] >= Power(b)[m + k] BY <2>1
  <2>3. Power(b)[m + (k + 1)] \in Nat /\ m + (k + 1) = m + k + 1 BY PowerNat
  <2> QED BY <1>2, <2>1, <2>2, <2>3
<1>3. n - m \in T
  <2> HIDE DEF T
  <2> QED BY <1>1, <1>2, Induct
<1> QED BY <1>3

\* The smaller power has the smaller exponent.
LEMMA PowerLess ==
  ASSUME NEW b \in Nat \ {0}, NEW m \in Nat, NEW n \in Nat, Power(b)[m] < Power(b)[n]
  PROVE  m < n
BY PowerGrows, PowerNat

\* v has n digits in base b; a zero has one.
IsLength(n, v, b) ==
  n \in Nat \ {0} /\ v < Power(b)[n] /\ (n = 1 \/ Power(b)[n - 1] <= v)

\* A number has one length.
LEMMA LengthUnique ==
  ASSUME NEW b \in Nat \ {0}, NEW v \in Nat, NEW n, NEW m, IsLength(n, v, b), IsLength(m, v, b)
  PROVE  n = m
<1>1. ASSUME NEW i \in Nat \ {0}, NEW j \in Nat \ {0},
             IsLength(i, v, b), IsLength(j, v, b), i < j
  PROVE FALSE
  <2>1. Power(b)[j - 1] <= v /\ v < Power(b)[i] BY <1>1 DEF IsLength
  <2>2. j - 1 \in Nat /\ i <= j - 1 /\ Power(b)[i] <= Power(b)[j - 1] BY <1>1, PowerGrows
  <2>3. Power(b)[j - 1] \in Nat /\ Power(b)[i] \in Nat BY <2>2, PowerNat
  <2> QED BY <2>1, <2>2, <2>3
<1>2. n \in Nat \ {0} /\ m \in Nat \ {0} BY DEF IsLength
<1>3. ~ (n < m) /\ ~ (m < n) BY <1>1, <1>2
<1> QED BY <1>2, <1>3

\* A number below a power has no more digits than its exponent.
LEMMA LengthFits ==
  ASSUME NEW b \in Nat \ {0}, NEW v \in Nat, NEW n, IsLength(n, v, b),
         NEW k \in Nat \ {0}, v < Power(b)[k]
  PROVE  n <= k
<1>1. CASE n = 1 BY <1>1
<1>2. CASE n # 1
  <2>1. n \in Nat \ {0} /\ n - 1 \in Nat /\ Power(b)[n - 1] <= v BY <1>2 DEF IsLength
  <2>2. Power(b)[n - 1] < Power(b)[k] BY <2>1, PowerNat
  <2> QED BY <2>1, <2>2, PowerLess
<1> QED BY <1>1, <1>2

-----------------------------------------------------------------------------
(* count_digits returns the number of digits.                              *)

\* count_digits unfolded: the loop divides until nothing is left.
LEMMA CountIs ==
  ASSUME NEW v \in Nat \ {0}, NEW b \in Nat \ {0, 1}
  PROVE  \E c : /\ count_digits(v, b) = c[v]
                /\ \A u \in Nat : c[u] = IF u = 0 THEN 0 ELSE 1 + c[u \div b]
<1> DEFINE S == Nat
           Stop == {0}
           next == [u \in S |-> u \div b]
           height == [u \in S |-> u]
           base == [u \in S |-> 0]
           step == [ur \in S \X S |-> 1 + ur[2]]
<1>1. PICK f \in [S -> S] : \A x \in S : Obeys(f, x, Stop, next, base, step)
  <2>1. next \in [S -> S] /\ height \in [S -> Nat] /\ base \in [S -> S] BY DivMod
  <2>2. step \in [S \X S -> S] OBVIOUS
  <2>3. \A x \in S \ Stop : height[next[x]] < height[x]
    <3> TAKE x \in S \ Stop
    <3>1. x \div b \in Nat /\ (x < b * x <=> x \div b < x) BY DivMod, DivLess
    <3>2. x < b * x OBVIOUS
    <3> QED BY <3>1, <3>2
  <2>4. Stop \in SUBSET S OBVIOUS
  <2> HIDE DEF S, Stop, next, height, base, step
  <2> QED BY <2>1, <2>2, <2>3, <2>4, Recursion
<1>2. ASSUME NEW u \in Nat PROVE f[u] = IF u = 0 THEN 0 ELSE 1 + f[u \div b]
  <2>1. CASE u = 0 BY <1>1, <2>1 DEF Obeys
  <2>2. CASE u # 0
    <3>1. u \div b \in Nat /\ f[u \div b] \in Nat /\ next[u] = u \div b BY <2>2, DivMod
    <3>2. f[u] = step[<<u, f[u \div b]>>] BY <1>1, <2>2, <3>1 DEF Obeys
    <3> QED BY <2>2, <3>1, <3>2
  <2> QED BY <2>1, <2>2
<1>3. f = [u \in Nat |-> IF u = 0 THEN 0 ELSE 1 + f[u \div b]]
  <2> HIDE DEF Stop, next, height, base, step
  <2> QED BY <1>2
<1> DEFINE c == CHOOSE count : count = [u \in Nat |-> IF u = 0 THEN 0 ELSE 1 + count[u \div b]]
<1>4. c = [u \in Nat |-> IF u = 0 THEN 0 ELSE 1 + c[u \div b]] BY <1>3
<1>5. count_digits(v, b) = c[v] BY DEF count_digits
<1> HIDE DEF c
<1>6. \A u \in Nat : c[u] = IF u = 0 THEN 0 ELSE 1 + c[u \div b] BY <1>4
<1> QED BY <1>5, <1>6

\* Dividing makes smaller.
LEMMA DivLower ==
  ASSUME NEW u \in Nat \ {0}, NEW b \in Nat \ {0, 1}
  PROVE  u \div b \in Nat /\ u \div b < u
<1>1. u \div b \in Nat /\ (u < b * u <=> u \div b < u) BY DivMod, DivLess
<1>2. u < b * u OBVIOUS
<1> QED BY <1>1, <1>2

\* A number has one digit more than its quotient by the base.
LEMMA LengthStep ==
  ASSUME NEW u \in Nat \ {0}, NEW b \in Nat \ {0, 1}, NEW n
  PROVE  /\ u \div b = 0 => IsLength(1, u, b)
         /\ u \div b # 0 /\ IsLength(n, u \div b, b) => IsLength(1 + n, u, b)
<1>0. u \div b \in Nat BY DivMod
<1>1. CASE u \div b = 0
  <2>1. u < b * 1 <=> u \div b < 1 BY DivLess
  <2> QED BY <1>1, <2>1, PowerOne DEF IsLength
<1>2. CASE u \div b # 0 /\ IsLength(n, u \div b, b)
  <2>1. /\ n \in Nat \ {0}
        /\ n - 1 \in Nat
        /\ 1 + n \in Nat \ {0}
        /\ 1 + n # 1
        /\ (1 + n) - 1 = n
        /\ 1 + n = n + 1
    BY <1>2 DEF IsLength
  <2>2. /\ Power(b)[n - 1] \in Nat \ {0}
        /\ Power(b)[n] \in Nat \ {0}
        /\ Power(b)[n + 1] = b * Power(b)[n]
    BY <2>1, PowerNat
  <2>3. u < b * Power(b)[n] BY <1>2, <2>2, DivLess DEF IsLength
  <2>4. Power(b)[n] <= u
    <3>1. CASE n = 1
      <4>1. b * 1 <= u BY <1>0, <1>2, DivLess
      <4> QED BY <3>1, <4>1, PowerOne
    <3>2. CASE n # 1
      <4>1. Power(b)[n - 1] <= u \div b BY <1>2, <3>2 DEF IsLength
      <4>2. b * Power(b)[n - 1] <= u BY <4>1, <2>2, DivLess
      <4>3. Power(b)[(n - 1) + 1] = b * Power(b)[n - 1] BY <2>1, PowerNat
      <4>4. (n - 1) + 1 = n BY <2>1
      <4> QED BY <4>2, <4>3, <4>4
    <3> QED BY <3>1, <3>2
  <2>5. IsLength(1 + n, u, b) BY <2>1, <2>2, <2>3, <2>4 DEF IsLength
  <2> QED BY <2>5, <1>2
<1> QED BY <1>1, <1>2

\* count_digits returns the length, in every base.
LEMMA CountDigits ==
  ASSUME NEW v \in Nat, NEW b \in Nat \ {0, 1}
  PROVE  IsLength(count_digits(v, b), v, b)
<1>1. CASE v = 0
  BY <1>1, PowerOne DEF count_digits, IsLength
<1>2. CASE v # 0
  <2>1. PICK c : /\ count_digits(v, b) = c[v]
                 /\ \A u \in Nat : c[u] = IF u = 0 THEN 0 ELSE 1 + c[u \div b]
    BY <1>2, CountIs
  <2> DEFINE T == {u \in Nat : u # 0 => IsLength(c[u], u, b)}
  <2>2. ASSUME NEW u \in Nat, \A m \in 0 .. u - 1 : m \in T PROVE u \in T
    <3>1. CASE u = 0 BY <3>1
    <3>2. CASE u # 0
      <4>0. u \div b \in Nat /\ u \div b < u BY <3>2, DivLower
      <4>1. c[u] = 1 + c[u \div b] /\ u \div b \in 0 .. u - 1 BY <2>1, <3>2, <4>0
      <4>2. CASE u \div b = 0
        <5>1. c[0] = 0 BY <2>1
        <5>2. c[u] = 1 BY <4>1, <4>2, <5>1
        <5> QED BY <5>2, <4>2, <3>2, LengthStep
      <4>3. CASE u \div b # 0
        <5>1. IsLength(c[u \div b], u \div b, b) BY <2>2, <4>1, <4>3
        <5> HIDE DEF T
        <5>2. IsLength(1 + c[u \div b], u, b) BY <5>1, <4>3, <3>2, LengthStep
        <5> QED BY <5>2, <4>1 DEF T
      <4> QED BY <4>2, <4>3
    <3> QED BY <3>1, <3>2
  <2>3. v \in T
    <3> HIDE DEF T
    <3> QED BY <2>2, Strong
  <2> QED BY <1>2, <2>1, <2>3
<1> QED BY <1>1, <1>2

-----------------------------------------------------------------------------
(* PlaceValue returns the power of the highest digit.                      *)

\* PlaceValue unfolded: the loop multiplies while the power is not above v \div b.
LEMMA PlaceValueIs ==
  ASSUME NEW v \in Nat, NEW b \in Nat \ {0, 1}
  PROVE  \E g : /\ PlaceValue(v, b) = g[1]
                /\ \A p \in Nat : g[p] = IF p <= v \div b THEN g[p * b] ELSE p
<1> DEFINE w == v \div b
           S == Nat
           Stop == {p \in S : p = 0 \/ p > w}
           next == [p \in S |-> p * b]
           height == [p \in S |-> IF p > w THEN 0 ELSE w + 1 - p]
           base == [p \in S |-> p]
           step == [pr \in S \X S |-> pr[2]]
<1>0. w \in Nat BY DivMod
<1>1. PICK f \in [S -> S] : \A x \in S : Obeys(f, x, Stop, next, base, step)
  <2>1. next \in [S -> S] /\ base \in [S -> S] OBVIOUS
  <2>0. height \in [S -> Nat]
    <3> HIDE DEF w
    <3> QED BY <1>0
  <2>2. step \in [S \X S -> S] OBVIOUS
  <2>3. \A x \in S \ Stop : height[next[x]] < height[x]
    <3> HIDE DEF w
    <3> TAKE x \in S \ Stop
    <3>1. x * b > x /\ x * b \in Nat OBVIOUS
    <3> QED BY <3>1, <1>0
  <2>4. Stop \in SUBSET S OBVIOUS
  <2> HIDE DEF S, Stop, next, height, base, step
  <2> QED BY <2>0, <2>1, <2>2, <2>3, <2>4, Recursion
<1>2. ASSUME NEW p \in Nat PROVE f[p] = IF p <= w THEN f[p * b] ELSE p
  <2> HIDE DEF w
  <2>0. f[p] \in Nat /\ (p \in Stop => f[p] = p) BY <1>1 DEF Obeys
  <2>1. CASE p > w
    <3>1. p \in Stop BY <2>1
    <3>2. f[p] = p BY <2>0, <3>1
    <3> QED BY <3>2, <1>0, <2>1
  <2>2. CASE p = 0 BY <1>0, <2>0, <2>2
  <2>3. CASE p # 0 /\ ~ (p > w)
    <3>1. p * b \in Nat /\ f[p * b] \in Nat /\ next[p] = p * b OBVIOUS
    <3>2. f[p] = step[<<p, f[p * b]>>] BY <1>1, <2>3, <3>1 DEF Obeys
    <3> QED BY <1>0, <2>3, <3>1, <3>2
  <2> QED BY <2>1, <2>2, <2>3
<1>3. f = [p \in Nat |-> IF p <= v \div b THEN f[p * b] ELSE p]
  <2> HIDE DEF Stop, next, height, base, step
  <2> QED BY <1>2
<1> DEFINE g == CHOOSE grow : grow = [p \in Nat |-> IF p <= v \div b THEN grow[p * b] ELSE p]
<1>4. g = [p \in Nat |-> IF p <= v \div b THEN g[p * b] ELSE p] BY <1>3
<1>5. PlaceValue(v, b) = g[1] BY DEF PlaceValue
<1> HIDE DEF g
<1>6. \A p \in Nat : g[p] = IF p <= v \div b THEN g[p * b] ELSE p BY <1>4
<1> QED BY <1>5, <1>6

\* The loop ends at the power of the highest digit.
LEMMA PlaceValueRight ==
  ASSUME NEW v \in Nat \ {0}, NEW b \in Nat \ {0, 1}, NEW n, IsLength(n, v, b)
  PROVE  PlaceValue(v, b) = Power(b)[n - 1]
<1>1. PICK g : /\ PlaceValue(v, b) = g[1]
               /\ \A p \in Nat : g[p] = IF p <= v \div b THEN g[p * b] ELSE p
  BY PlaceValueIs
<1>2. n \in Nat \ {0} /\ n - 1 \in Nat /\ v < Power(b)[n] BY DEF IsLength
<1> DEFINE T == {k \in Nat : k <= n - 1 => g[Power(b)[n - 1 - k]] = Power(b)[n - 1]}
<1>3. 0 \in T
  <2> DEFINE p == Power(b)[n - 1]
  <2>1. p \in Nat \ {0} /\ Power(b)[(n - 1) + 1] = b * p BY <1>2, PowerNat
  <2>2. (n - 1) + 1 = n /\ n - 1 - 0 = n - 1 BY <1>2
  <2>3. ~ (b * p <= v) BY <2>1, <2>2, <1>2
  <2> HIDE DEF p
  <2>4. ~ (p <= v \div b) BY <2>1, <2>3, DivLess
  <2>5. g[p] = p BY <1>1, <2>1, <2>4
  <2> QED BY <2>5, <2>2 DEF p
<1>4. ASSUME NEW k \in Nat, k \in T PROVE k + 1 \in T
  <2>1. SUFFICES ASSUME k + 1 <= n - 1 PROVE g[Power(b)[n - 1 - (k + 1)]] = Power(b)[n - 1]
    OBVIOUS
  <2> DEFINE j == n - 1 - (k + 1)
             p == Power(b)[j]
  <2>2. j \in Nat /\ j + 1 = n - 1 - k /\ n # 1 /\ j + 1 <= n - 1 BY <1>2, <2>1
  <2>3. p \in Nat \ {0} /\ Power(b)[j + 1] = b * p BY <2>2, PowerNat
  <2>4. Power(b)[n - 1] <= v /\ Power(b)[n - 1] \in Nat BY <2>2, <1>2, PowerNat DEF IsLength
  <2>5. Power(b)[j + 1] <= Power(b)[n - 1] BY <2>2, <1>2, PowerGrows
  <2>6. b * p <= v /\ b * p \in Nat BY <2>3, <2>4, <2>5
  <2> HIDE DEF p
  <2>7. p <= v \div b BY <2>3, <2>6, DivLess
  <2>8. g[p] = g[p * b] BY <1>1, <2>3, <2>7
  <2>9. p * b = b * p BY <2>3
  <2>10. g[b * p] = Power(b)[n - 1] BY <1>2, <1>4, <2>1, <2>2, <2>3
  <2> QED BY <2>8, <2>9, <2>10 DEF p
<1>5. n - 1 \in T
  <2> HIDE DEF T
  <2> QED BY <1>2, <1>3, <1>4, Induct
<1>6. n - 1 - (n - 1) = 0 BY <1>2
<1> QED BY <1>1, <1>2, <1>5, <1>6, PowerNat

\* A higher power is a multiple of b times a lower one.
LEMMA Shift ==
  ASSUME NEW b \in Nat \ {0, 1}, NEW m \in Nat, NEW k \in Nat, m <= k
  PROVE  \E a \in Nat : Power(b)[k + 1] = (a * b) * Power(b)[m]
<1> DEFINE Q(j) == \E a \in Nat : Power(b)[m + j + 1] = (a * b) * Power(b)[m]
           T == {j \in Nat : Q(j)}
<1>1. 0 \in T
  <2>1. Power(b)[m + 1] = (1 * b) * Power(b)[m] /\ m + 0 + 1 = m + 1 BY PowerNat
  <2> QED BY <2>1
<1>2. ASSUME NEW j \in Nat, j \in T PROVE j + 1 \in T
  <2>1. PICK a \in Nat : Power(b)[m + j + 1] = (a * b) * Power(b)[m] BY <1>2
  <2>2. Power(b)[(m + j + 1) + 1] = b * Power(b)[m + j + 1] /\ Power(b)[m] \in Nat
    BY PowerNat
  <2>3. Power(b)[(m + j + 1) + 1] = ((a * b) * b) * Power(b)[m] BY <2>1, <2>2
  <2>4. m + (j + 1) + 1 = (m + j + 1) + 1 /\ a * b \in Nat OBVIOUS
  <2>5. Power(b)[m + (j + 1) + 1] = ((a * b) * b) * Power(b)[m] BY <2>3, <2>4
  <2>6. Q(j + 1) BY <2>4, <2>5
  <2> HIDE DEF Q
  <2> QED BY <2>6
<1>3. k - m \in T
  <2> HIDE DEF T
  <2> QED BY <1>1, <1>2, Induct
<1>4. m + (k - m) + 1 = k + 1 OBVIOUS
<1> QED BY <1>3, <1>4

\* A remainder by a higher power keeps the lower digits.
LEMMA LowDigit ==
  ASSUME NEW b \in Nat \ {0, 1}, NEW m \in Nat, NEW k \in Nat, m <= k, NEW u \in Nat
  PROVE  ((u % Power(b)[k + 1]) \div Power(b)[m]) % b = (u \div Power(b)[m]) % b
<1> DEFINE p == Power(b)[k + 1]
           w == Power(b)[m]
           q == u \div p
           r == u % p
<1>1. p \in Nat \ {0} /\ w \in Nat \ {0} BY PowerNat
<1>2. PICK a \in Nat : p = (a * b) * w BY Shift
<1> HIDE DEF p, w
<1>3. q \in Nat /\ r \in Nat /\ u = p * q + r BY <1>1, DivMod
<1> HIDE DEF q, r
<1> DEFINE y == q * a
           z == y * b
<1>4. u = z * w + r /\ z \in Nat /\ y \in Nat BY <1>1, <1>2, <1>3
<1> HIDE DEF z
<1>5. u \div w = z + (r \div w)
  <2>0. z \in Nat /\ w \in Nat \ {0} /\ r \in Nat BY <1>1, <1>3, <1>4
  <2>1. (z * w + r) \div w = z + (r \div w) BY <2>0, DivAdd, Zenon
  <2> QED BY <2>1, <1>4
<1>6. r \div w \in Nat BY <1>1, <1>3, DivMod
<1>7. (z + (r \div w)) % b = (r \div w) % b
  <2> HIDE DEF y
  <2> QED BY <1>4, <1>6, ModAdd DEF z
<1> QED BY <1>5, <1>7 DEF p, w, r

-----------------------------------------------------------------------------
(* The loop of uint_to_string: lowest digit first.                         *)

\* What Figure may be given and give.
AnyFigure == {Figure(d) : d \in Nat}

\* A sequence with an element put before it.
LEMMA ConsIs ==
  ASSUME NEW C, NEW x \in C, NEW n \in Nat, NEW s \in [1 .. n -> C]
  PROVE  <<x>> \o s = [i \in 1 .. n + 1 |-> IF i = 1 THEN x ELSE s[i - 1]]
<1>1. s \in Seq(C) /\ Len(s) = n OBVIOUS
<1>2. <<x>> \in Seq(C) /\ Len(<<x>>) = 1 /\ <<x>>[1] = x OBVIOUS
<1>3. <<x>> \o s \in Seq(C) /\ Len(<<x>> \o s) = n + 1 BY <1>1, <1>2
<1>4. ASSUME NEW i \in 1 .. n + 1 PROVE (<<x>> \o s)[i] = IF i = 1 THEN x ELSE s[i - 1]
  BY <1>1, <1>2
<1>5. <<x>> \o s = [i \in 1 .. n + 1 |-> (<<x>> \o s)[i]] BY <1>3
<1> QED BY <1>4, <1>5

\* LowFirst unfolded.
LEMMA LowFirstIs ==
  ASSUME NEW v \in Nat, NEW b \in Nat \ {0, 1}
  PROVE  \E g : /\ LowFirst(v, b) = g[v]
                /\ \A u \in Nat : g[u] = IF u = 0 THEN << >> ELSE <<Figure(u % b)>> \o g[u \div b]
<1> DEFINE S == Nat
           V == Seq(AnyFigure)
           Stop == {0}
           next == [u \in S |-> u \div b]
           height == [u \in S |-> u]
           base == [u \in S |-> << >>]
           step == [ur \in S \X V |-> <<Figure(ur[1] % b)>> \o ur[2]]
<1>0. ASSUME NEW u \in Nat, NEW r \in V PROVE <<Figure(u % b)>> \o r \in V
  <2>1. Figure(u % b) \in AnyFigure BY DivMod DEF AnyFigure
  <2> QED BY <2>1
<1>1. PICK f \in [S -> V] : \A x \in S : Obeys(f, x, Stop, next, base, step)
  <2>1. next \in [S -> S] /\ height \in [S -> Nat] /\ base \in [S -> V] BY DivMod
  <2>2. step \in [S \X V -> V]
    <3>1. ASSUME NEW ur \in S \X V PROVE <<Figure(ur[1] % b)>> \o ur[2] \in V
      BY <1>0
    <3> HIDE DEF V
    <3> QED BY <3>1
  <2>3. \A x \in S \ Stop : height[next[x]] < height[x] BY DivLower
  <2>4. Stop \in SUBSET S OBVIOUS
  <2> HIDE DEF S, V, Stop, next, height, base, step
  <2> QED BY <2>1, <2>2, <2>3, <2>4, Recursion
<1>2. ASSUME NEW u \in Nat
      PROVE  f[u] = IF u = 0 THEN << >> ELSE <<Figure(u % b)>> \o f[u \div b]
  <2>1. CASE u = 0 BY <1>1, <2>1 DEF Obeys
  <2>2. CASE u # 0
    <3> HIDE DEF V
    <3>1. u \div b \in Nat /\ f[u \div b] \in V /\ next[u] = u \div b BY <2>2, DivMod
    <3>2. f[u] = step[<<u, f[u \div b]>>] BY <1>1, <2>2, <3>1 DEF Obeys
    <3> QED BY <2>2, <3>1, <3>2
  <2> QED BY <2>1, <2>2
<1>3. f = [u \in Nat |-> IF u = 0 THEN << >> ELSE <<Figure(u % b)>> \o f[u \div b]]
  <2> HIDE DEF V, Stop, next, height, base, step
  <2> QED BY <1>2
<1> DEFINE g == CHOOSE digits : digits = [u \in Nat |->
                  IF u = 0 THEN << >> ELSE <<Figure(u % b)>> \o digits[u \div b]]
<1>4. g = [u \in Nat |-> IF u = 0 THEN << >> ELSE <<Figure(u % b)>> \o g[u \div b]] BY <1>3
<1>5. LowFirst(v, b) = g[v] BY DEF LowFirst
<1> HIDE DEF g
<1>6. \A u \in Nat : g[u] = IF u = 0 THEN << >> ELSE <<Figure(u % b)>> \o g[u \div b]
  BY <1>4
<1> QED BY <1>5, <1>6

\* Dividing by 1.
LEMMA DivOne == ASSUME NEW u \in Nat PROVE u \div 1 = u OBVIOUS

\* The n lowest digits of u, lowest first.
LowDigits(n, u, b) == [i \in 1 .. n |-> Figure((u \div Power(b)[i - 1]) % b)]

\* The loop of uint_to_string makes the digits from the lowest.
LEMMA LowFirstRight ==
  ASSUME NEW v \in Nat \ {0}, NEW b \in Nat \ {0, 1}, NEW n, IsLength(n, v, b)
  PROVE  LowFirst(v, b) = LowDigits(n, v, b)
<1>1. PICK g : /\ LowFirst(v, b) = g[v]
               /\ \A u \in Nat : g[u] = IF u = 0 THEN << >> ELSE <<Figure(u % b)>> \o g[u \div b]
  BY LowFirstIs
<1> DEFINE Q(u) == u # 0 => g[u] = LowDigits(count_digits(u, b), u, b)
           T == {u \in Nat : Q(u)}
<1>2. ASSUME NEW u \in Nat, \A m \in 0 .. u - 1 : m \in T PROVE u \in T
  <2>1. SUFFICES ASSUME u # 0 PROVE g[u] = LowDigits(count_digits(u, b), u, b) OBVIOUS
  <2> DEFINE w == u \div b
             c == count_digits(u, b)
             m == count_digits(w, b)
             x == Figure(u % b)
  <2>2. w \in Nat /\ w < u /\ x \in AnyFigure BY <2>1, DivLower, DivMod DEF AnyFigure
  <2>3. IsLength(c, u, b) /\ IsLength(m, w, b) BY <2>2, CountDigits
  <2>4. g[u] = <<x>> \o g[w] BY <1>1, <2>1
  <2>5. (u \div Power(b)[0]) % b = u % b BY PowerNat, DivOne
  <2> HIDE DEF w, c, m, x
  <2>6. CASE w = 0
    <3>1. c = 1 BY <2>6, <2>1, <2>3, LengthStep, LengthUnique DEF w
    <3>2. g[u] = <<x>>
      <4>1. g[w] = << >> BY <2>2, <2>6, <1>1
      <4>2. <<x>> \o << >> = <<x>> BY <2>2
      <4> QED BY <4>1, <4>2, <2>4
    <3>3. LowDigits(1, u, b) = <<x>>
      <4>1. LowDigits(1, u, b) = [i \in 1 .. 1 |-> Figure((u \div Power(b)[i - 1]) % b)]
        BY DEF LowDigits
      <4>2. \A i \in 1 .. 1 : i - 1 = 0 OBVIOUS
      <4>3. LowDigits(1, u, b) = [i \in 1 .. 1 |-> x] BY <4>1, <4>2, <2>5 DEF x
      <4> QED BY <4>3
    <3> QED BY <3>1, <3>2, <3>3 DEF c
  <2>7. CASE w # 0
    <3>1. c = 1 + m BY <2>7, <2>1, <2>3, LengthStep, LengthUnique DEF w
    <3>2. g[w] = LowDigits(m, w, b)
      <4>1. w \in T BY <1>2, <2>2
      <4> QED BY <4>1, <2>7 DEF m
    <3>3. m \in Nat \ {0} BY <2>3 DEF IsLength
    <3>4. ASSUME NEW i \in 1 .. m
          PROVE  Figure((w \div Power(b)[i - 1]) % b) = Figure((u \div Power(b)[i]) % b)
      <4>1. i - 1 \in Nat /\ (i - 1) + 1 = i OBVIOUS
      <4>2. Power(b)[i - 1] \in Nat \ {0} /\ Power(b)[i] = b * Power(b)[i - 1]
        BY <4>1, PowerNat
      <4>3. w \div Power(b)[i - 1] = u \div (b * Power(b)[i - 1]) BY <4>2, DivDiv DEF w
      <4> QED BY <4>2, <4>3
    <3>5. LowDigits(m, w, b) = [i \in 1 .. m |-> Figure((u \div Power(b)[i]) % b)]
      BY <3>4 DEF LowDigits
    <3>6. LowDigits(m, w, b) \in [1 .. m -> AnyFigure]
      <4>1. ASSUME NEW i \in 1 .. m PROVE Figure((w \div Power(b)[i - 1]) % b) \in AnyFigure
        <5>1. i - 1 \in Nat /\ Power(b)[i - 1] \in Nat \ {0} BY PowerNat
        <5>2. w \div Power(b)[i - 1] \in Nat BY <5>1, <2>2, DivMod
        <5> DEFINE y == w \div Power(b)[i - 1]
        <5>3. \A k \in Nat : k % b \in Nat BY DivMod
        <5> HIDE DEF y
        <5>4. y % b \in Nat BY <5>2, <5>3 DEF y
        <5> QED BY <5>4 DEF AnyFigure, y
      <4> QED BY <4>1 DEF LowDigits
    <3>7. <<x>> \o LowDigits(m, w, b)
            = [i \in 1 .. m + 1 |-> IF i = 1 THEN x ELSE LowDigits(m, w, b)[i - 1]]
      BY <3>3, <3>6, <2>2, ConsIs
    <3>8. ASSUME NEW i \in 1 .. m + 1
          PROVE  (IF i = 1 THEN x ELSE LowDigits(m, w, b)[i - 1])
                   = Figure((u \div Power(b)[i - 1]) % b)
      <4>1. CASE i = 1 BY <4>1, <2>5 DEF x
      <4>2. CASE i # 1
        <5>1. i - 1 \in 1 .. m BY <4>2, <3>3
        <5> QED BY <5>1, <4>2, <3>5
      <4> QED BY <4>1, <4>2
    <3>9. <<x>> \o LowDigits(m, w, b) = LowDigits(m + 1, u, b)
      BY <3>7, <3>8 DEF LowDigits
    <3> QED BY <3>1, <3>2, <3>3, <3>9, <2>4 DEF c
  <2> QED BY <2>6, <2>7
<1>3. v \in T
  <2> HIDE DEF T
  <2> QED BY <1>2, Strong
<1>4. n = count_digits(v, b) BY CountDigits, LengthUnique
<1> QED BY <1>1, <1>3, <1>4

-----------------------------------------------------------------------------
(* The loop of int_to_string: highest digit first.                         *)

\* Quotient and remainder, as the recursion of HighFirst needs them.
LEMMA DivNat ==
  ASSUME NEW v \in Nat, NEW b \in Nat \ {0}
  PROVE  v \div b \in Nat /\ v % b \in Nat /\ v % b < b
BY DivMod

\* HighFirst unfolded.
LEMMA HighFirstIs ==
  ASSUME NEW v \in Nat, NEW b \in Nat \ {0, 1}
  PROVE  \E g : /\ HighFirst(v, b) = g[<<v, PlaceValue(v, b)>>]
                /\ \A u, p \in Nat : g[<<u, p>>] =
                      IF p = 0 THEN << >> ELSE <<Figure(u \div p)>> \o g[<<u % p, p \div b>>]
<1> DEFINE S == Nat \X Nat
           V == Seq(AnyFigure)
           Stop == {x \in S : x[2] = 0}
           next == [x \in S |-> IF x[2] = 0 THEN x ELSE <<x[1] % x[2], x[2] \div b>>]
           height == [x \in S |-> x[2]]
           base == [x \in S |-> << >>]
           step == [xr \in S \X V |-> IF xr[1][2] = 0 THEN << >>
                                      ELSE <<Figure(xr[1][1] \div xr[1][2])>> \o xr[2]]
<1>0. ASSUME NEW u \in Nat, NEW p \in Nat \ {0}, NEW r \in V
  PROVE <<Figure(u \div p)>> \o r \in V
  <2>1. Figure(u \div p) \in AnyFigure BY DivMod DEF AnyFigure
  <2> QED BY <2>1
<1>1. PICK f \in [S -> V] : \A x \in S : Obeys(f, x, Stop, next, base, step)
  <2>0. next \in [S -> S]
    <3>1. ASSUME NEW x \in S, x[2] # 0 PROVE <<x[1] % x[2], x[2] \div b>> \in S
      <4>1. x[1] \in Nat /\ x[2] \in Nat \ {0} BY <3>1
      <4>2. x[1] % x[2] \in Nat /\ x[2] \div b \in Nat BY <4>1, DivNat
      <4> QED BY <4>2
    <3> HIDE DEF S
    <3> QED BY <3>1
  <2>1. height \in [S -> Nat] /\ base \in [S -> V] OBVIOUS
  <2>2. step \in [S \X V -> V]
    <3>1. ASSUME NEW xr \in S \X V, xr[1][2] # 0
      PROVE <<Figure(xr[1][1] \div xr[1][2])>> \o xr[2] \in V
      BY <1>0, <3>1
    <3>2. << >> \in V OBVIOUS
    <3> HIDE DEF V, S
    <3> QED BY <3>1, <3>2
  <2>3. \A x \in S \ Stop : height[next[x]] < height[x]
    <3> TAKE x \in S \ Stop
    <3>1. x[2] \in Nat \ {0} OBVIOUS
    <3>2. x[2] \div b < x[2] BY <3>1, DivLower
    <3>3. next[x] \in S /\ next[x] = <<x[1] % x[2], x[2] \div b>> BY <2>0, <3>1
    <3>4. height[next[x]] = x[2] \div b /\ height[x] = x[2]
      <4> HIDE DEF next
      <4> QED BY <3>3
    <3> QED BY <3>2, <3>4
  <2>4. Stop \in SUBSET S OBVIOUS
  <2> HIDE DEF S, V, Stop, next, height, base, step
  <2> QED BY <2>0, <2>1, <2>2, <2>3, <2>4, Recursion
<1>2. ASSUME NEW u \in Nat, NEW p \in Nat
      PROVE  f[<<u, p>>] = IF p = 0 THEN << >> ELSE <<Figure(u \div p)>> \o f[<<u % p, p \div b>>]
  <2>0. <<u, p>> \in S OBVIOUS
  <2>1. CASE p = 0 BY <1>1, <2>0, <2>1 DEF Obeys
  <2>2. CASE p # 0
    <3>1. u % p \in Nat /\ p \div b \in Nat BY <2>2, DivMod
    <3>2. <<u % p, p \div b>> \in S /\ next[<<u, p>>] = <<u % p, p \div b>>
      BY <2>0, <2>2, <3>1
    <3>3. f[<<u % p, p \div b>>] \in V BY <3>2
    <3>4. <<u, p>> \notin Stop BY <2>2
    <3> HIDE DEF V
    <3>5. f[<<u, p>>] = step[<<<<u, p>>, f[<<u % p, p \div b>>]>>]
      BY <1>1, <2>0, <3>2, <3>4 DEF Obeys
    <3>6. step[<<<<u, p>>, f[<<u % p, p \div b>>]>>] = <<Figure(u \div p)>> \o f[<<u % p, p \div b>>]
      BY <2>0, <2>2, <3>3
    <3> QED BY <2>2, <3>5, <3>6
  <2> QED BY <2>1, <2>2
<1> HIDE DEF V, Stop, next, height, base, step
<1>3. f = [up \in Nat \X Nat |-> IF up[2] = 0 THEN << >>
             ELSE <<Figure(up[1] \div up[2])>> \o f[<<up[1] % up[2], up[2] \div b>>]]
  <2>1. \A up \in S : f[up] = IF up[2] = 0 THEN << >>
             ELSE <<Figure(up[1] \div up[2])>> \o f[<<up[1] % up[2], up[2] \div b>>]
    <3> TAKE up \in S
    <3>1. PICK u \in Nat, p \in Nat : up = <<u, p>> OBVIOUS
    <3>2. f[<<u, p>>] = IF p = 0 THEN << >> ELSE <<Figure(u \div p)>> \o f[<<u % p, p \div b>>]
      BY <1>2
    <3>3. <<u, p>>[1] = u /\ <<u, p>>[2] = p OBVIOUS
    <3> QED BY <3>1, <3>2, <3>3
  <2> QED BY <2>1
<1> DEFINE g == CHOOSE digits : digits = [up \in Nat \X Nat |-> IF up[2] = 0 THEN << >>
             ELSE <<Figure(up[1] \div up[2])>> \o digits[<<up[1] % up[2], up[2] \div b>>]]
<1>4. g = [up \in Nat \X Nat |-> IF up[2] = 0 THEN << >>
             ELSE <<Figure(up[1] \div up[2])>> \o g[<<up[1] % up[2], up[2] \div b>>]]
  BY <1>3
<1>5. HighFirst(v, b) = g[<<v, PlaceValue(v, b)>>] BY DEF HighFirst
<1> HIDE DEF g
<1>6. \A u, p \in Nat : g[<<u, p>>] =
         IF p = 0 THEN << >> ELSE <<Figure(u \div p)>> \o g[<<u % p, p \div b>>]
  <2> TAKE u, p \in Nat
  <2>1. <<u, p>> \in Nat \X Nat /\ <<u, p>>[1] = u /\ <<u, p>>[2] = p OBVIOUS
  <2> QED BY <1>4, <2>1
<1> QED BY <1>5, <1>6

\* The n lowest digits of u, highest first.
Positional(n, u, b) == [i \in 1 .. n |-> Figure((u \div Power(b)[n - i]) % b)]

\* The figures of a numeral are figures.
LEMMA FigureIs ==
  ASSUME NEW b \in Nat \ {0, 1}, NEW u \in Nat, NEW k \in Nat
  PROVE  Figure((u \div Power(b)[k]) % b) \in AnyFigure
<1> DEFINE y == u \div Power(b)[k]
<1>1. y \in Nat BY PowerNat, DivMod
<1>2. \A j \in Nat : j % b \in Nat BY DivMod
<1> HIDE DEF y
<1>3. y % b \in Nat BY <1>1, <1>2
<1> QED BY <1>3 DEF AnyFigure, y

\* The loop of int_to_string makes the digits from the highest.
LEMMA HighFirstRight ==
  ASSUME NEW v \in Nat \ {0}, NEW b \in Nat \ {0, 1}, NEW n, IsLength(n, v, b)
  PROVE  HighFirst(v, b) = Positional(n, v, b)
<1>1. PICK g : /\ HighFirst(v, b) = g[<<v, PlaceValue(v, b)>>]
               /\ \A u, p \in Nat : g[<<u, p>>] =
                     IF p = 0 THEN << >> ELSE <<Figure(u \div p)>> \o g[<<u % p, p \div b>>]
  BY HighFirstIs
<1> DEFINE Q(k) == \A u \in Nat :
              u < Power(b)[k + 1] => g[<<u, Power(b)[k]>>] = Positional(k + 1, u, b)
           T == {k \in Nat : Q(k)}
<1>2. 0 \in T
  <2>1. SUFFICES ASSUME NEW u \in Nat, u < Power(b)[0 + 1]
    PROVE g[<<u, Power(b)[0]>>] = Positional(0 + 1, u, b)
    OBVIOUS
  <2>2. Power(b)[0] = 1 /\ u < b BY <2>1, PowerNat, PowerOne
  <2>3. u \div 1 = u /\ 1 \div b = 0 /\ u % 1 = 0 OBVIOUS
  <2>4. u % b = u BY <2>2
  <2>5. g[<<0, 0>>] = << >> BY <1>1
  <2>6. g[<<u, 1>>] = <<Figure(u)>> \o << >>
    <3>1. g[<<u, 1>>] = IF 1 = 0 THEN << >> ELSE <<Figure(u \div 1)>> \o g[<<u % 1, 1 \div b>>]
      BY <1>1, 1 \in Nat
    <3>2. g[<<u % 1, 1 \div b>>] = << >> BY <2>3, <2>5
    <3> QED BY <2>3, <3>1, <3>2
  <2>7. Positional(1, u, b) = <<Figure(u)>>
    <3>1. \A i \in 1 .. 1 : 1 - i = 0 OBVIOUS
    <3>2. Positional(1, u, b) = [i \in 1 .. 1 |-> Figure(u)]
      BY <2>2, <2>3, <2>4, <3>1 DEF Positional
    <3> QED BY <3>2
  <2>8. <<Figure(u)>> \o << >> = <<Figure(u)>> OBVIOUS
  <2> QED BY <2>2, <2>6, <2>7, <2>8
<1>3. ASSUME NEW k \in Nat, k \in T PROVE k + 1 \in T
  <2>1. SUFFICES ASSUME NEW u \in Nat, u < Power(b)[(k + 1) + 1]
                 PROVE g[<<u, Power(b)[k + 1]>>] = Positional((k + 1) + 1, u, b)
    OBVIOUS
  <2> DEFINE p == Power(b)[k + 1]
             r == u % p
             x == Figure(u \div p)
             rest == Positional(k + 1, r, b)
  <2>2. p \in Nat \ {0} /\ Power(b)[k] \in Nat \ {0} /\ p = b * Power(b)[k]
        /\ Power(b)[(k + 1) + 1] = b * p BY PowerNat
  <2>3. p \div b = Power(b)[k]
    <3>1. b * Power(b)[k] + 0 = p BY <2>2
    <3> QED BY <3>1, <2>2, DivUnique
  <2>4. r \in Nat /\ r < p /\ u \div p \in Nat
    <3> HIDE DEF p
    <3> QED BY <2>2, DivNat
  <2>5. u \div p < b
    <3>1. u < p * b BY <2>1, <2>2
    <3> QED BY <3>1, <2>2, DivLess
  <2>6. x \in AnyFigure BY <2>4 DEF AnyFigure
  <2>7. g[<<u, p>>] = <<x>> \o g[<<r, Power(b)[k]>>] BY <1>1, <2>2, <2>3
  <2>8. g[<<r, Power(b)[k]>>] = rest BY <1>3, <2>4
  <2>9. rest \in [1 .. k + 1 -> AnyFigure]
    <3> HIDE DEF r
    <3>1. ASSUME NEW i \in 1 .. k + 1
      PROVE Figure((r \div Power(b)[k + 1 - i]) % b) \in AnyFigure
      <4>1. k + 1 - i \in Nat OBVIOUS
      <4> QED BY <4>1, <2>4, FigureIs
    <3> QED BY <3>1 DEF Positional
  <2>10. <<x>> \o rest = [i \in 1 .. (k + 1) + 1 |-> IF i = 1 THEN x ELSE rest[i - 1]]
    <3> HIDE DEF x, rest
    <3> QED BY <2>6, <2>9, ConsIs
  <2>11. ASSUME NEW i \in 1 .. (k + 1) + 1
         PROVE  (IF i = 1 THEN x ELSE rest[i - 1]) = Figure((u \div Power(b)[(k + 1) + 1 - i]) % b)
    <3>1. CASE i = 1
      <4>1. (k + 1) + 1 - i = k + 1 BY <3>1
      <4>2. (u \div p) % b = u \div p
        <5> HIDE DEF p
        <5> QED BY <2>4, <2>5
      <4> QED BY <3>1, <4>1, <4>2
    <3>2. CASE i # 1
      <4> DEFINE m == (k + 1) + 1 - i
      <4>1. i - 1 \in 1 .. k + 1 /\ m \in Nat /\ m <= k /\ m = k + 1 - (i - 1) BY <3>2
      <4>2. rest[i - 1] = Figure((r \div Power(b)[m]) % b)
        <5> HIDE DEF m, r
        <5> QED BY <4>1 DEF Positional
      <4>3. (r \div Power(b)[m]) % b = (u \div Power(b)[m]) % b BY <4>1, LowDigit
      <4> QED BY <3>2, <4>2, <4>3
    <3> QED BY <3>1, <3>2
  <2>12. <<x>> \o rest = Positional((k + 1) + 1, u, b)
    <3> DEFINE e == [i \in 1 .. (k + 1) + 1 |-> IF i = 1 THEN x ELSE rest[i - 1]]
    <3>1. e = [i \in 1 .. (k + 1) + 1 |-> Figure((u \div Power(b)[(k + 1) + 1 - i]) % b)]
      <4> HIDE DEF x, rest
      <4> QED BY <2>11
    <3> HIDE DEF x, rest, e
    <3>2. <<x>> \o rest = e BY <2>10 DEF e
    <3> QED BY <3>1, <3>2 DEF Positional
  <2> QED BY <2>7, <2>8, <2>12
<1>4. n \in Nat \ {0} /\ n - 1 \in Nat /\ (n - 1) + 1 = n /\ v < Power(b)[n] BY DEF IsLength
<1>5. n - 1 \in T
  <2> HIDE DEF T
  <2> QED BY <1>2, <1>3, <1>4, Induct
<1>6. g[<<v, Power(b)[n - 1]>>] = Positional(n, v, b) BY <1>4, <1>5
<1> QED BY <1>1, <1>6, PlaceValueRight

-----------------------------------------------------------------------------
(* What the stores of a conversion have to be.                             *)

\* Quotient and remainder of an integer, as in C casts to unsigned.
LEMMA DivModInt ==
  ASSUME NEW v \in Int, NEW b \in Nat \ {0}
  PROVE  v \div b \in Int /\ v % b \in 0 .. b - 1 /\ v = b * (v \div b) + (v % b)
  OBVIOUS

\* A remainder is its own, also a multiple below.
LEMMA ModUnique ==
  ASSUME NEW b \in Nat \ {0}, NEW r \in 0 .. b - 1
  PROVE  r % b = r /\ (r - b) % b = r
  OBVIOUS

\* The elements of two sequences, one after the other.
LEMMA RangeConcat ==
  ASSUME NEW C, NEW s \in Seq(C), NEW t \in Seq(C)
  PROVE  s \o t \in Seq(C) /\ Range(s \o t) = Range(s) \cup Range(t)
<1>1. s \o t \in Seq(C) /\ Len(s \o t) = Len(s) + Len(t) OBVIOUS
<1>2. /\ DOMAIN s = 1 .. Len(s)
      /\ DOMAIN t = 1 .. Len(t)
      /\ DOMAIN (s \o t) = 1 .. Len(s) + Len(t)
  BY <1>1
<1>3. ASSUME NEW i \in 1 .. Len(s) + Len(t) PROVE (s \o t)[i] \in Range(s) \cup Range(t)
  <2>1. CASE i <= Len(s) BY <1>2, <2>1 DEF Range
  <2>2. CASE i > Len(s)
    <3>1. i - Len(s) \in 1 .. Len(t) /\ (s \o t)[i] = t[i - Len(s)] BY <2>2
    <3> QED BY <3>1, <1>2 DEF Range
  <2> QED BY <2>1, <2>2
<1>4. ASSUME NEW i \in 1 .. Len(s) PROVE s[i] \in Range(s \o t)
  <2>1. i \in 1 .. Len(s) + Len(t) /\ (s \o t)[i] = s[i] OBVIOUS
  <2> QED BY <2>1, <1>2 DEF Range
<1>5. ASSUME NEW i \in 1 .. Len(t) PROVE t[i] \in Range(s \o t)
  <2>1. i + Len(s) \in 1 .. Len(s) + Len(t) /\ (s \o t)[i + Len(s)] = t[i] OBVIOUS
  <2> QED BY <2>1, <1>2 DEF Range
<1> QED BY <1>1, <1>2, <1>3, <1>4, <1>5 DEF Range

\* The character at p of the string W in a buffer.
CharAt(W, p) == IF p = Len(W) THEN NUL ELSE W[p + 1]

\* The stores of W and of the NUL behind it.
Wanted(W) == {Put(p, CharAt(W, p)) : p \in 0 .. Len(W)}

\* The stores a conversion may do: none is outside print_buf.
Stores == [into : {"print_buf", "int_len"}, at : 0 .. BufLen - 1, char : Chars \cup {NUL}]

\* Some order of the stores of W, each the only one to its place, with the
\* length, which only the stores of a zero may leave out.
IsConversion(sts, W) ==
  /\ W \in Seq(Chars) /\ Len(W) \in 1 .. BufLen - 1
  /\ sts \in Seq(Stores) /\ sts # << >>
  /\ Range(sts) = Wanted(W) \cup IF sts = Zero THEN {} ELSE {SetLen(Len(W))}

\* Figures are characters that end no string.
LEMMA FigureChars ==
  ASSUME NEW d \in 0 .. 15
  PROVE  Figure(d) \in Chars /\ Figure(d) # NUL
BY DEF Figure, Figures, Chars, NUL, Range

\* No character of a string is NUL.
LEMMA CharsNotNul == NUL \notin Chars
BY PrintkAssumption DEF Chars, Figures, Range, NUL

\* What the assumption says of the numbers, without what the provers choke on.
LEMMA Sizes ==
  /\ Dec \in Nat \ {0, 1} /\ Hex \in Nat \ {0, 1} /\ Dec <= 16 /\ Hex <= 16 /\ Dec # Hex
  /\ BufLen \in Nat /\ BufLen >= 3
  /\ LongBits \in Nat /\ IntBits \in Nat /\ ShortBits \in Nat \ {0}
  /\ ShortBits < IntBits /\ IntBits < LongBits
  /\ Power(2)[LongBits] <= Power(Dec)[BufLen - 2]
  /\ Power(2)[LongBits] <= Power(Hex)[BufLen - 1]
BY PrintkAssumption

\* The numeral of a number that fits.
LEMMA NumeralIs ==
  ASSUME NEW b \in Nat \ {0, 1}, b <= 16, NEW k \in 1 .. BufLen,
         NEW v \in Nat, v < Power(b)[k], NEW n, IsLength(n, v, b)
  PROVE  /\ n \in 1 .. k
         /\ Numeral(v, b) = Positional(n, v, b)
         /\ Positional(n, v, b) \in [1 .. n -> Chars]
<1>1. BufLen \in Nat /\ k \in Nat \ {0} BY Sizes
<1>2. n \in Nat \ {0} /\ n <= k BY <1>1, LengthFits DEF IsLength
<1>3. ASSUME NEW i \in 1 .. n PROVE Figure((v \div Power(b)[n - i]) % b) \in Chars
  <2> DEFINE y == v \div Power(b)[n - i]
  <2>1. n - i \in Nat BY <1>2
  <2>2. Power(b)[n - i] \in Nat \ {0} BY <2>1, PowerNat
  <2>3. y \in Nat BY <2>2, DivNat
  <2> HIDE DEF y
  <2>4. y % b \in Nat /\ y % b < b BY <2>3, DivNat
  <2>5. y % b \in 0 .. 15 BY <2>4
  <2> QED BY <2>5, FigureChars DEF y
<1>4. Positional(n, v, b) \in [1 .. n -> Chars] BY <1>3 DEF Positional
<1>5. NumDigits(v, b) = n
  <2> DEFINE P(m) == v < Power(b)[m] /\ (m = 1 \/ v >= Power(b)[m - 1])
  <2>1. n \in 1 .. BufLen /\ P(n)
    <3>1. n = 1 \/ Power(b)[n - 1] <= v BY DEF IsLength
    <3>2. n = 1 \/ v >= Power(b)[n - 1]
      <4>1. CASE n = 1 BY <4>1
      <4>2. CASE n # 1
        <5>1. n - 1 \in Nat BY <1>2
        <5>2. Power(b)[n - 1] \in Nat BY <5>1, PowerNat
        <5> QED BY <3>1, <5>2
      <4> QED BY <4>1, <4>2
    <3> QED BY <1>2, <1>1, <3>2 DEF IsLength
  <2>2. ASSUME NEW m \in 1 .. BufLen, P(m) PROVE m = n
    <3>1. m \in Nat \ {0} /\ (m = 1 \/ Power(b)[m - 1] <= v)
      <4>1. CASE m = 1 BY <4>1
      <4>2. CASE m # 1
        <5>1. m - 1 \in Nat BY <4>2, <1>1
        <5>2. Power(b)[m - 1] \in Nat BY <5>1, PowerNat
        <5> QED BY <2>2, <5>2
      <4> QED BY <4>1, <4>2
    <3>2. IsLength(m, v, b) BY <2>2, <3>1 DEF IsLength
    <3> QED BY <3>2, LengthUnique
  <2>3. NumDigits(v, b) = CHOOSE m \in 1 .. BufLen : P(m) BY DEF NumDigits
  <2> HIDE DEF P
  <2> QED BY <2>1, <2>2, <2>3
<1>6. Numeral(v, b) = Positional(n, v, b) BY <1>5 DEF Numeral, Positional
<1> QED BY <1>2, <1>4, <1>6

-----------------------------------------------------------------------------
(* uint_to_string.                                                         *)

\* What lies beyond the widest unsigned type.
Beyond == Power(2)[LongBits]

\* It is positive.
LEMMA BeyondNat == Beyond \in Nat \ {0}
BY Sizes, PowerNat DEF Beyond

\* The element of a sequence of one.
LEMMA RangeOne == ASSUME NEW C, NEW x \in C PROVE <<x>> \in Seq(C) /\ Range(<<x>>) = {x}
BY DEF Range

\* The elements of a sequence of stores.
LEMMA RangeMap ==
  ASSUME NEW n \in Nat, NEW s \in [1 .. n -> Stores]
  PROVE  s \in Seq(Stores) /\ Range(s) = {s[i] : i \in 1 .. n}
BY DEF Range

\* The stores of a zero.
LEMMA ZeroIs ==
  /\ Zero \in Seq(Stores) /\ Zero # << >> /\ Range(Zero) = {Put(0, "0"), Put(1, NUL)}
  /\ \A n : SetLen(n) \notin Range(Zero)
<1>1. Put(0, "0") \in Stores /\ Put(1, NUL) \in Stores
  <2>1. Figure(0) = "0" BY DEF Figure, Figures
  <2>2. "0" \in Chars BY <2>1, FigureChars
  <2> QED BY <2>2, Sizes DEF Put, Stores
<1>2. Zero \in Seq(Stores) /\ Zero # << >> BY <1>1 DEF Zero
<1>3. Range(Zero) = {Put(0, "0"), Put(1, NUL)} BY DEF Zero, Range
<1>4. \A n : SetLen(n) # Put(0, "0") /\ SetLen(n) # Put(1, NUL)
  BY DEF SetLen, Put
<1> QED BY <1>2, <1>3, <1>4

\* The numeral of a zero.
LEMMA ZeroNumeral ==
  ASSUME NEW b \in Nat \ {0, 1}, b <= 16
  PROVE  Numeral(0, b) = <<"0">>
<1>1. IsLength(1, 0, b) /\ 0 < Power(b)[1] BY PowerOne DEF IsLength
<1>2. 1 \in 1 .. BufLen BY Sizes
<1>3. Numeral(0, b) = Positional(1, 0, b) BY <1>1, <1>2, NumeralIs
<1>4. Figure(0) = "0" BY DEF Figure, Figures
<1>5. \A i \in 1 .. 1 : 1 - i = 0 OBVIOUS
<1>6. 0 \div 1 = 0 /\ 0 % b = 0 OBVIOUS
<1>7. Positional(1, 0, b) = [i \in 1 .. 1 |-> "0"]
  BY <1>4, <1>5, <1>6, PowerNat DEF Positional
<1> QED BY <1>3, <1>7

\* Both ways to convert a zero store its numeral.
LEMMA ZeroConversion ==
  /\ IsConversion(Zero, <<"0">>)
  /\ IsConversion(Zero \o <<SetLen(1)>>, <<"0">>)
<1>1. Figure(0) = "0" BY DEF Figure, Figures
<1>2. "0" \in Chars BY <1>1, FigureChars
<1>3. <<"0">> \in Seq(Chars) /\ Len(<<"0">>) = 1 /\ 1 \in 1 .. BufLen - 1 BY <1>2, Sizes
<1>4. Wanted(<<"0">>) = {Put(0, "0"), Put(1, NUL)}
  <2>1. 0 .. Len(<<"0">>) = {0, 1} BY <1>3
  <2>2. CharAt(<<"0">>, 0) = "0" /\ CharAt(<<"0">>, 1) = NUL BY <1>3 DEF CharAt
  <2> QED BY <2>1, <2>2 DEF Wanted
<1>5. IsConversion(Zero, <<"0">>) BY <1>3, <1>4, ZeroIs DEF IsConversion
<1>6. SetLen(1) \in Stores BY Sizes DEF SetLen, Stores
<1> DEFINE t == <<SetLen(1)>>
           s == Zero \o t
<1>7. t \in Seq(Stores) /\ Range(t) = {SetLen(1)} BY <1>6, RangeOne
<1> HIDE DEF t
<1>8. s \in Seq(Stores) /\ Range(s) = Range(Zero) \cup {SetLen(1)}
  BY <1>7, ZeroIs, RangeConcat
<1> HIDE DEF s
<1>9. s # Zero /\ s # << >>
  <2>1. SetLen(1) \in Range(s) BY <1>8
  <2>2. Range(<< >>) = {} BY DEF Range
  <2> QED BY <2>1, <2>2, ZeroIs
<1>10. IsConversion(s, <<"0">>) BY <1>3, <1>4, <1>8, <1>9, ZeroIs DEF IsConversion
<1> QED BY <1>5, <1>10 DEF s, t

\* What has the stores of a numeral, its end and its length is a conversion.
LEMMA ByElements ==
  ASSUME NEW W \in Seq(Chars), Len(W) \in 1 .. BufLen - 1,
         NEW sts \in Seq(Stores), Range(sts) = Wanted(W) \cup {SetLen(Len(W))}
  PROVE  IsConversion(sts, W)
<1>1. SetLen(Len(W)) \in Range(sts) OBVIOUS
<1>2. sts # Zero BY <1>1, ZeroIs
<1>3. sts # << >>
  <2>1. Range(<< >>) = {} BY DEF Range
  <2> QED BY <1>1, <2>1
<1> QED BY <1>2, <1>3 DEF IsConversion

\* The numerals of the widest type leave space for a sign and a NUL.
LEMMA Bounds ==
  ASSUME NEW b \in {Dec, Hex}, NEW v \in Nat, v < Beyond, NEW n, IsLength(n, v, b)
  PROVE  /\ n \in 1 .. BufLen - 1 /\ (b = Dec => n \in 1 .. BufLen - 2)
         /\ b \in Nat \ {0, 1} /\ b <= 16
         /\ Numeral(v, b) = Positional(n, v, b)
         /\ Positional(n, v, b) \in [1 .. n -> Chars]
<1>1. b \in Nat \ {0, 1} /\ b <= 16 BY Sizes
<1>2. CASE b = Dec
  <2>1. v < Power(b)[BufLen - 2]
    <3>1. BufLen - 2 \in Nat /\ Power(b)[BufLen - 2] \in Nat BY <1>1, Sizes, PowerNat
    <3> QED BY <1>2, <3>1, Sizes, BeyondNat DEF Beyond
  <2>2. BufLen - 2 \in 1 .. BufLen BY Sizes
  <2>3. /\ n \in 1 .. BufLen - 2
        /\ Numeral(v, b) = Positional(n, v, b)
        /\ Positional(n, v, b) \in [1 .. n -> Chars]
    BY <1>1, <2>1, <2>2, NumeralIs
  <2> QED BY <1>1, <1>2, <2>3, Sizes
<1>3. CASE b = Hex
  <2>1. v < Power(b)[BufLen - 1]
    <3>1. BufLen - 1 \in Nat /\ Power(b)[BufLen - 1] \in Nat BY <1>1, Sizes, PowerNat
    <3> QED BY <1>3, <3>1, Sizes, BeyondNat DEF Beyond
  <2>2. BufLen - 1 \in 1 .. BufLen BY Sizes
  <2>3. /\ n \in 1 .. BufLen - 1
        /\ Numeral(v, b) = Positional(n, v, b)
        /\ Positional(n, v, b) \in [1 .. n -> Chars]
    BY <1>1, <2>1, <2>2, NumeralIs
  <2> QED BY <1>1, <1>3, <2>3, Sizes
<1> QED BY <1>2, <1>3

\* uint_to_string stores the numeral of its value.
LEMMA UintConversion ==
  ASSUME NEW b \in {Dec, Hex}, NEW v \in Nat, v < Beyond
  PROVE  IsConversion(uint_to_string(v, b), Numeral(v, b))
<1> DEFINE n == count_digits(v, b)
           W == Numeral(v, b)
           ds == LowFirst(v, b)
<1>0. b \in Nat \ {0, 1} /\ b <= 16 BY Sizes
<1>1. IsLength(n, v, b) BY <1>0, CountDigits
<1> HIDE DEF n
<1>2. n \in 1 .. BufLen - 1 /\ W = Positional(n, v, b) /\ W \in [1 .. n -> Chars]
  BY <1>1, Bounds
<1>3. CASE v = 0 BY <1>0, <1>3, ZeroNumeral, ZeroConversion DEF uint_to_string
<1>4. CASE v # 0
  <2> HIDE DEF W, ds
  <2>0. n \in Nat BY <1>2, Sizes
  <2>1. ds = LowDigits(n, v, b) BY <1>0, <1>1, <1>4, LowFirstRight DEF ds
  <2>2. W \in Seq(Chars) /\ Len(W) = n BY <1>2, <2>0
  <2>3. ASSUME NEW i \in 1 .. n PROVE ds[i] = W[n - i + 1]
    <3>1. n - i + 1 \in 1 .. n /\ n - (n - i + 1) = i - 1 BY <2>0
    <3>2. W[n - i + 1] = Figure((v \div Power(b)[n - (n - i + 1)]) % b)
      BY <1>2, <3>1 DEF Positional
    <3>3. ds[i] = Figure((v \div Power(b)[i - 1]) % b) BY <2>1 DEF LowDigits
    <3> QED BY <3>1, <3>2, <3>3
  <2> DEFINE s == [i \in 1 .. n |-> Put(n - i, ds[i])]
             t == <<SetLen(n), Put(n, NUL)>>
  <2>4. uint_to_string(v, b) = t \o s BY <1>4 DEF uint_to_string, n, ds
  <2>5. ASSUME NEW i \in 1 .. n PROVE /\ Put(n - i, ds[i]) = Put(n - i, CharAt(W, n - i))
                                      /\ Put(n - i, ds[i]) \in Stores
    <3>1. n - i \in 0 .. n - 1 /\ n - i # n BY <2>0
    <3>2. CharAt(W, n - i) = W[n - i + 1] BY <2>2, <3>1 DEF CharAt
    <3>3. W[n - i + 1] \in Chars BY <1>2, <2>0
    <3>4. n - i \in 0 .. BufLen - 1 BY <1>2, Sizes
    <3> QED BY <2>3, <3>2, <3>3, <3>4 DEF Put, Stores
  <2>6. s \in Seq(Stores) /\ Range(s) = {Put(n - i, ds[i]) : i \in 1 .. n}
    <3>1. s \in [1 .. n -> Stores] BY <2>5
    <3>2. {s[i] : i \in 1 .. n} = {Put(n - i, ds[i]) : i \in 1 .. n} OBVIOUS
    <3> HIDE DEF s
    <3> QED BY <2>0, <3>1, <3>2, RangeMap
  <2>7. Range(s) = {Put(p, CharAt(W, p)) : p \in 0 .. n - 1}
    <3>1. \A i \in 1 .. n : n - i \in 0 .. n - 1 BY <2>0
    <3>2. \A p \in 0 .. n - 1 : n - p \in 1 .. n /\ n - (n - p) = p BY <2>0
    <3> HIDE DEF s
    <3>3. \A p \in 0 .. n - 1 : Put(p, CharAt(W, p)) = Put(n - (n - p), ds[n - p]) BY <3>2, <2>5
    <3> QED BY <2>5, <2>6, <3>1, <3>2, <3>3
  <2>8. t \in Seq(Stores) /\ Range(t) = {SetLen(n), Put(n, NUL)}
    <3>1. SetLen(n) \in Stores /\ Put(n, NUL) \in Stores
      BY <1>2, Sizes DEF SetLen, Put, Stores
    <3> QED BY <3>1 DEF Range
  <2> HIDE DEF s, t
  <2>9. t \o s \in Seq(Stores) /\ Range(t \o s) = Range(t) \cup Range(s)
    BY <2>6, <2>8, RangeConcat
  <2>10. Wanted(W) = Range(s) \cup {Put(n, NUL)}
    <3>1. CharAt(W, n) = NUL BY <2>2 DEF CharAt
    <3>2. 0 .. Len(W) = 0 .. n - 1 \cup {n} BY <2>0, <2>2
    <3> QED BY <2>7, <3>1, <3>2 DEF Wanted
  <2>11. Range(t \o s) = Wanted(W) \cup {SetLen(Len(W))} BY <2>2, <2>8, <2>9, <2>10
  <2> QED BY <1>2, <2>2, <2>4, <2>9, <2>11, ByElements DEF W
<1> QED BY <1>3, <1>4

-----------------------------------------------------------------------------
(* int_to_string.                                                          *)

\* The stores of int_to_string, given the digits.
LEMMA IntStores ==
  ASSUME NEW n \in Nat \ {0}, NEW neg \in {0, 1}, n + neg <= BufLen - 1,
         NEW ds \in [1 .. n -> Chars], NEW W \in [1 .. n + neg -> Chars],
         neg = 1 => W[1] = "-", \A i \in 1 .. n : W[neg + i] = ds[i]
  PROVE  IsConversion(<<Put(n + neg, NUL)>>
                      \o (IF neg = 1 THEN <<Put(0, "-")>> ELSE << >>)
                      \o [i \in 1 .. Len(ds) |-> Put(neg + i - 1, ds[i])]
                      \o <<SetLen(n + neg)>>, W)
<1> DEFINE t == <<Put(n + neg, NUL)>>
           g == IF neg = 1 THEN <<Put(0, "-")>> ELSE << >>
           s == [i \in 1 .. Len(ds) |-> Put(neg + i - 1, ds[i])]
           e == <<SetLen(n + neg)>>
<1>1. /\ n \in Nat
      /\ W \in Seq(Chars)
      /\ Len(W) = n + neg
      /\ Len(ds) = n
      /\ Len(W) \in 1 .. BufLen - 1
  BY Sizes
<1>2. t \in Seq(Stores) /\ Range(t) = {Put(n + neg, NUL)}
  <2>1. Put(n + neg, NUL) \in Stores BY <1>1, Sizes DEF Put, Stores
  <2> QED BY <2>1, RangeOne
<1>3. e \in Seq(Stores) /\ Range(e) = {SetLen(n + neg)}
  <2>1. SetLen(n + neg) \in Stores BY <1>1, Sizes DEF SetLen, Stores
  <2> QED BY <2>1, RangeOne
<1>4. g \in Seq(Stores) /\ Range(g) = {Put(p, CharAt(W, p)) : p \in 0 .. neg - 1}
  <2>1. CASE neg = 0
    <3>1. g = << >> /\ 0 .. neg - 1 = {} BY <2>1
    <3> QED BY <3>1 DEF Range
  <2>2. CASE neg = 1
    <3>1. 0 .. neg - 1 = {0} /\ 0 # Len(W) /\ CharAt(W, 0) = "-" BY <1>1, <2>2 DEF CharAt
    <3>2. "-" \in Chars BY DEF Chars
    <3>3. Put(0, "-") \in Stores BY <3>2, Sizes DEF Put, Stores
    <3>4. Range(<<Put(0, "-")>>) = {Put(0, "-")} /\ <<Put(0, "-")>> \in Seq(Stores)
      BY <3>3, RangeOne
    <3> QED BY <2>2, <3>1, <3>4
  <2> QED BY <2>1, <2>2
<1>5. ASSUME NEW i \in 1 .. n
      PROVE  /\ Put(neg + i - 1, ds[i]) = Put(neg + i - 1, CharAt(W, neg + i - 1))
             /\ Put(neg + i - 1, ds[i]) \in Stores
  <2>1. /\ neg + i - 1 \in 0 .. BufLen - 1
        /\ neg + i - 1 # Len(W)
        /\ (neg + i - 1) + 1 = neg + i
    BY <1>1, Sizes
  <2>2. CharAt(W, neg + i - 1) = ds[i] BY <2>1 DEF CharAt
  <2> QED BY <2>1, <2>2 DEF Put, Stores
<1>6. s \in Seq(Stores) /\ Range(s) = {Put(neg + i - 1, ds[i]) : i \in 1 .. n}
  <2>1. s \in [1 .. n -> Stores] BY <1>1, <1>5
  <2>2. {s[i] : i \in 1 .. n} = {Put(neg + i - 1, ds[i]) : i \in 1 .. n} BY <1>1
  <2> HIDE DEF s
  <2> QED BY <1>1, <2>1, <2>2, RangeMap
<1>7. Range(s) = {Put(p, CharAt(W, p)) : p \in neg .. n + neg - 1}
  <2>1. \A i \in 1 .. n : neg + i - 1 \in neg .. n + neg - 1 BY <1>1
  <2>2. \A p \in neg .. n + neg - 1 : p - neg + 1 \in 1 .. n /\ neg + (p - neg + 1) - 1 = p
    BY <1>1
  <2> HIDE DEF s
  <2>3. \A p \in neg .. n + neg - 1 :
           Put(p, CharAt(W, p)) = Put(neg + (p - neg + 1) - 1, ds[p - neg + 1])
    BY <2>2, <1>5
  <2> QED BY <1>5, <1>6, <2>1, <2>2, <2>3
<1> HIDE DEF t, g, s, e
<1> DEFINE tg == t \o g
           tgs == tg \o s
<1>8. tg \in Seq(Stores) /\ Range(tg) = Range(t) \cup Range(g) BY <1>2, <1>4, RangeConcat
<1> HIDE DEF tg
<1>9. tgs \in Seq(Stores) /\ Range(tgs) = Range(tg) \cup Range(s) BY <1>6, <1>8, RangeConcat
<1> HIDE DEF tgs
<1>10. tgs \o e \in Seq(Stores) /\ Range(tgs \o e) = Range(tgs) \cup Range(e)
  BY <1>3, <1>9, RangeConcat
<1>11. Wanted(W) = Range(t) \cup Range(g) \cup Range(s)
  <2>1. CharAt(W, n + neg) = NUL BY <1>1 DEF CharAt
  <2>2. 0 .. Len(W) = 0 .. neg - 1 \cup neg .. n + neg - 1 \cup {n + neg} BY <1>1
  <2> QED BY <1>2, <1>4, <1>7, <2>1, <2>2 DEF Wanted
<1>12. IsConversion(tgs \o e, W)
  <2>1. Range(tgs \o e) = Wanted(W) \cup {SetLen(Len(W))}
    BY <1>1, <1>3, <1>8, <1>9, <1>10, <1>11
  <2> QED BY <1>1, <1>10, <2>1, ByElements
<1> QED BY <1>12 DEF t, g, s, e, tg, tgs

\* An unsigned value is below the power of its width.
LEMMA UnsignedIs ==
  /\ \A v \in Int, bits \in Nat : Unsigned(v, bits) \in Nat /\ Unsigned(v, bits) < Power(2)[bits]
  /\ \A v \in Nat : v < Beyond => Unsigned(v, LongBits) = v
<1>1. ASSUME NEW v \in Int, NEW bits \in Nat
      PROVE  Unsigned(v, bits) \in Nat /\ Unsigned(v, bits) < Power(2)[bits]
  <2> DEFINE m == Power(2)[bits]
  <2>1. m \in Nat \ {0} BY PowerNat
  <2>2. v % m \in 0 .. m - 1
    <3> HIDE DEF m
    <3> QED BY <2>1, DivModInt
  <2>3. v % m \in Nat /\ v % m < m
    <3> HIDE DEF m
    <3> QED BY <2>1, <2>2
  <2> QED BY <2>3 DEF Unsigned
<1>2. ASSUME NEW v \in Nat, v < Beyond PROVE Unsigned(v, LongBits) = v
  <2>1. v \in 0 .. Beyond - 1 BY <1>2, BeyondNat
  <2>2. v % Beyond = v BY <2>1, BeyondNat, ModUnique
  <2> QED BY <2>2 DEF Unsigned, Beyond
<1> QED BY <1>1, <1>2

\* int_to_string stores the numeral of its value, signed in decimal.
LEMMA IntConversion ==
  ASSUME NEW value \in Int, NEW base \in {Dec, Hex}, value < 0 /\ base = Dec => -value < Beyond
  PROVE  IsConversion(int_to_string(value, base),
                      IF value < 0 /\ base = Dec THEN <<"-">> \o Numeral(-value, Dec)
                      ELSE Numeral(Unsigned(value, LongBits), base))
<1> DEFINE neg == IF value < 0 /\ base = Dec THEN 1 ELSE 0
           u == Unsigned(IF neg = 1 THEN -value ELSE value, LongBits)
           n == count_digits(u, base)
           ds == HighFirst(u, base)
           N == Numeral(u, base)
           W == IF neg = 1 THEN <<"-">> \o N ELSE N
<1>1. neg \in {0, 1} /\ (neg = 1 <=> value < 0 /\ base = Dec) OBVIOUS
<1>2. /\ u \in Nat /\ u < Beyond
      /\ neg = 1 => u = -value /\ u # 0
      /\ neg = 0 => u = Unsigned(value, LongBits)
  <2>1. CASE neg = 1
    <3>1. -value \in Nat /\ -value < Beyond /\ -value # 0 BY <1>1, <2>1
    <3>2. u = Unsigned(-value, LongBits) BY <2>1
    <3>3. Unsigned(-value, LongBits) = -value BY <3>1, UnsignedIs
    <3> HIDE DEF u, neg
    <3> QED BY <2>1, <3>1, <3>2, <3>3
  <2>2. CASE neg = 0
    <3>1. LongBits \in Nat BY Sizes
    <3>2. u = Unsigned(value, LongBits) BY <2>2
    <3>3. Unsigned(value, LongBits) \in Nat /\ Unsigned(value, LongBits) < Beyond
      BY <3>1, UnsignedIs DEF Beyond
    <3> HIDE DEF u, neg
    <3> QED BY <2>2, <3>2, <3>3
  <2> HIDE DEF neg, u
  <2> QED BY <1>1, <2>1, <2>2
<1>3. W = IF value < 0 /\ base = Dec THEN <<"-">> \o Numeral(-value, Dec)
          ELSE Numeral(Unsigned(value, LongBits), base)
  <2> HIDE DEF neg, u
  <2> QED BY <1>1, <1>2
<1>4. int_to_string(value, base)
        = IF u = 0 THEN Zero
          ELSE <<Put(n + neg, NUL)>>
               \o (IF neg = 1 THEN <<Put(0, "-")>> ELSE << >>)
               \o [i \in 1 .. Len(ds) |-> Put(neg + i - 1, ds[i])]
               \o <<SetLen(n + neg)>>
  BY DEF int_to_string
<1> HIDE DEF neg, u
<1>5. base \in Nat \ {0, 1} /\ base <= 16 BY Sizes
<1>6. IsLength(n, u, base) BY <1>2, <1>5, CountDigits
<1> HIDE DEF n
<1>7. /\ n \in 1 .. BufLen - 1 /\ (base = Dec => n \in 1 .. BufLen - 2)
      /\ N = Positional(n, u, base) /\ N \in [1 .. n -> Chars]
  BY <1>2, <1>6, Bounds
<1>8. n \in Nat \ {0} /\ n + neg <= BufLen - 1 BY <1>1, <1>7, Sizes
<1>9. CASE u = 0
  <2>1. neg = 0 BY <1>1, <1>2, <1>9
  <2>2. W = <<"0">> BY <2>1, <1>5, <1>9, ZeroNumeral
  <2> HIDE DEF W
  <2> QED BY <1>3, <1>4, <1>9, <2>2, ZeroConversion
<1>10. CASE u # 0
  <2>1. ds = N
    <3>1. u \in Nat \ {0} BY <1>2, <1>10
    <3> QED BY <3>1, <1>5, <1>6, <1>7, HighFirstRight
  <2> HIDE DEF ds, N
  <2>2. W \in [1 .. n + neg -> Chars] /\ (neg = 1 => W[1] = "-") /\ \A i \in 1 .. n : W[neg + i] = ds[i]
    <3>1. CASE neg = 0 BY <3>1, <2>1, <1>7, <1>8
    <3>2. CASE neg = 1
      <4>1. "-" \in Chars BY DEF Chars
      <4>2. <<"-">> \o N = [i \in 1 .. n + 1 |-> IF i = 1 THEN "-" ELSE N[i - 1]]
        BY <4>1, <1>7, <1>8, ConsIs
      <4>3. W = [i \in 1 .. n + 1 |-> IF i = 1 THEN "-" ELSE N[i - 1]] BY <3>2, <4>2
      <4> HIDE DEF W
      <4>4. \A i \in 1 .. n + 1 : i # 1 => i - 1 \in 1 .. n BY <1>8
      <4>5. W \in [1 .. n + 1 -> Chars] /\ W[1] = "-" BY <4>1, <4>3, <4>4, <1>7, <1>8
      <4>6. \A i \in 1 .. n : 1 + i \in 1 .. n + 1 /\ 1 + i # 1 /\ (1 + i) - 1 = i BY <1>8
      <4>7. \A i \in 1 .. n : W[1 + i] = N[i] BY <4>3, <4>6
      <4> QED BY <3>2, <4>5, <4>7, <2>1
    <3> QED BY <1>1, <3>1, <3>2
  <2>3. ds \in [1 .. n -> Chars] BY <2>1, <1>7
  <2> HIDE DEF W
  <2>4. IsConversion(<<Put(n + neg, NUL)>>
                      \o (IF neg = 1 THEN <<Put(0, "-")>> ELSE << >>)
                      \o [i \in 1 .. Len(ds) |-> Put(neg + i - 1, ds[i])]
                      \o <<SetLen(n + neg)>>, W)
    BY <1>1, <1>8, <2>2, <2>3, IntStores
  <2> QED BY <1>3, <1>4, <1>10, <2>4
<1> QED BY <1>9, <1>10

-----------------------------------------------------------------------------
(* The casts of the arguments, and every conversion.                       *)

\* No width is above the widest.
LEMMA WidthsGrow ==
  ASSUME NEW bits \in Nat \ {0}, bits <= LongBits
  PROVE  /\ Power(2)[bits] \in Nat \ {0} /\ Power(2)[bits] <= Beyond
         /\ Power(2)[bits - 1] \in Nat \ {0}
         /\ Power(2)[bits] = 2 * Power(2)[bits - 1]
<1>1. bits - 1 \in Nat /\ bits # 0 OBVIOUS
<1>2. Power(2)[bits] = 2 * Power(2)[bits - 1] BY <1>1, PowerIs
<1>3. Power(2)[bits] \in Nat \ {0} /\ Power(2)[bits - 1] \in Nat \ {0} BY <1>1, PowerNat
<1>4. Power(2)[bits] <= Beyond BY Sizes, PowerGrows DEF Beyond
<1> QED BY <1>2, <1>3, <1>4

\* An unsigned value keeps when it is widened.
LEMMA UnsignedFits ==
  ASSUME NEW v \in Int, NEW bits \in Nat \ {0}, bits <= LongBits
  PROVE  /\ Unsigned(v, bits) \in Nat /\ Unsigned(v, bits) < Beyond
         /\ Unsigned(Unsigned(v, bits), LongBits) = Unsigned(v, bits)
<1> DEFINE u == Unsigned(v, bits)
<1>1. u \in Nat /\ u < Power(2)[bits] BY UnsignedIs
<1> HIDE DEF u
<1>2. u < Beyond BY <1>1, WidthsGrow, BeyondNat
<1>3. Unsigned(u, LongBits) = u BY <1>1, <1>2, UnsignedIs
<1> QED BY <1>1, <1>2, <1>3 DEF u

\* A signed value: what its negation, its widening and its bits are.
LEMMA TwosIs ==
  ASSUME NEW v \in Int, NEW bits \in Nat \ {0}, bits <= LongBits
  PROVE  LET t == Twos(v, bits)
         IN  /\ t \in Int
             /\ t < 0 => -t < Beyond
             /\ t >= 0 => t \in Nat /\ Unsigned(t, LongBits) = t
             /\ bits = LongBits => Unsigned(t, LongBits) = Unsigned(v, LongBits)
<1> DEFINE u == Unsigned(v, bits)
           t == Twos(v, bits)
           m == Power(2)[bits]
           h == Power(2)[bits - 1]
<1>1. u \in Nat /\ u < m BY UnsignedIs
<1>2. m \in Nat \ {0} /\ m <= Beyond /\ h \in Nat \ {0} /\ m = 2 * h BY WidthsGrow
<1>3. t = IF u < h THEN u ELSE u - m BY DEF Twos
<1>4. bits = LongBits => m = Beyond /\ u = Unsigned(v, LongBits) BY DEF Beyond
<1>5. u < Beyond /\ Unsigned(u, LongBits) = u BY UnsignedFits
<1>6. Unsigned(u - Beyond, LongBits) = u
  <2> HIDE DEF u
  <2>1. u \in 0 .. Beyond - 1 BY <1>1, <1>5, BeyondNat
  <2>2. (u - Beyond) % Beyond = u BY <2>1, BeyondNat, ModUnique
  <2> QED BY <2>2 DEF Unsigned, Beyond
<1> HIDE DEF u, t, m, h
<1>7. CASE u < h
  <2>1. t = u BY <1>3, <1>7
  <2>2. t \in Int /\ ~(t < 0) /\ t \in Nat BY <2>1, <1>1
  <2> QED BY <1>4, <1>5, <2>1, <2>2 DEF t
<1>8. CASE ~(u < h)
  <2>1. t = u - m BY <1>3, <1>8
  <2>2. t \in Int /\ t < 0 /\ -t < Beyond BY <2>1, <1>1, <1>2, <1>8, BeyondNat
  <2>3. bits = LongBits => Unsigned(t, LongBits) = u BY <1>4, <1>6, <2>1
  <2>4. ~(t >= 0) BY <2>2
  <2> QED BY <1>4, <2>2, <2>3, <2>4 DEF t
<1> QED BY <1>7, <1>8

\* The widths are positive and none is above the widest.
LEMMA WidthsPositive ==
  /\ ShortBits \in Nat \ {0} /\ IntBits \in Nat \ {0} /\ LongBits \in Nat \ {0}
  /\ ShortBits <= LongBits /\ IntBits <= LongBits /\ LongBits <= LongBits
BY Sizes

\* So is the width of every length modifier.
LEMMA BitsAre ==
  ASSUME NEW modifier \in {"h", "", "l", "q"}
  PROVE  /\ Bits(modifier) \in Nat \ {0} /\ Bits(modifier) <= LongBits
         /\ modifier \in {"l", "q"} => Bits(modifier) = LongBits
<1>1. /\ Bits("h") = ShortBits
      /\ Bits("") = IntBits
      /\ Bits("l") = LongBits
      /\ Bits("q") = LongBits
  BY DEF Bits
<1> QED BY <1>1, WidthsPositive

\* The stores of a conversion leave the numeral that printf prints.
LEMMA ConversionRight ==
  ASSUME NEW it \in Number
  PROVE  IsConversion(Conversion(it), NumberText(it))
<1> DEFINE bits == Bits(it.mod)
           t == Twos(it.arg, bits)
           u == Unsigned(it.arg, bits)
<1>1. it.kind \in {"d", "u", "x", "p"} /\ it.mod \in {"h", "", "l", "q"} /\ it.arg \in Int
  BY DEF Number, Numbers
<1>2. bits \in Nat \ {0} /\ bits <= LongBits /\ (it.mod \in {"l", "q"} => bits = LongBits)
  BY <1>1, BitsAre
<1>3. /\ t \in Int
      /\ t < 0 => -t < Beyond
      /\ t >= 0 => t \in Nat /\ Unsigned(t, LongBits) = t
      /\ bits = LongBits => Unsigned(t, LongBits) = Unsigned(it.arg, LongBits)
  <2> HIDE DEF bits
  <2> QED BY <1>1, <1>2, TwosIs
<1>4. u \in Nat /\ u < Beyond /\ Unsigned(u, LongBits) = u
  <2> HIDE DEF bits
  <2> QED BY <1>1, <1>2, UnsignedFits
<1>5. CASE it.kind = "d"
  <2>1. Conversion(it) = int_to_string(t, Dec) BY <1>5 DEF Conversion
  <2>2. NumberText(it) = IF t < 0 THEN <<"-">> \o Numeral(-t, Dec) ELSE Numeral(t, Dec)
    BY <1>5 DEF NumberText, Signed
  <2> HIDE DEF t
  <2>3. IsConversion(int_to_string(t, Dec),
                     IF t < 0 /\ Dec = Dec THEN <<"-">> \o Numeral(-t, Dec)
                     ELSE Numeral(Unsigned(t, LongBits), Dec))
    BY <1>3, IntConversion
  <2>4. ~(t < 0) => Unsigned(t, LongBits) = t BY <1>3
  <2> QED BY <2>1, <2>2, <2>3, <2>4
<1>6. CASE it.kind = "u"
  <2>1. NumberText(it) = Numeral(u, Dec) BY <1>6 DEF NumberText
  <2>2. CASE it.mod \in {"h", ""}
    <3>1. Conversion(it) = int_to_string(u, Dec) BY <1>6, <2>2 DEF Conversion
    <3> HIDE DEF u
    <3>2. ~(u < 0) /\ u \in Int BY <1>4
    <3>3. IsConversion(int_to_string(u, Dec), Numeral(Unsigned(u, LongBits), Dec))
      BY <3>2, IntConversion
    <3> QED BY <1>4, <2>1, <3>1, <3>3
  <2>3. CASE it.mod \in {"l", "q"}
    <3>1. Conversion(it) = uint_to_string(u, Dec) BY <1>6, <2>3 DEF Conversion
    <3> HIDE DEF u
    <3> QED BY <1>4, <2>1, <3>1, UintConversion
  <2> QED BY <1>1, <2>2, <2>3
<1>7. CASE it.kind = "x"
  <2>1. NumberText(it) = Numeral(u, Hex) BY <1>7 DEF NumberText
  <2>2. Hex # Dec BY Sizes
  <2>3. CASE it.mod \in {"h", ""}
    <3>1. Conversion(it) = int_to_string(u, Hex) BY <1>7, <2>3 DEF Conversion
    <3> HIDE DEF u
    <3>2. u \in Int BY <1>4
    <3>3. IsConversion(int_to_string(u, Hex), Numeral(Unsigned(u, LongBits), Hex))
      BY <2>2, <3>2, IntConversion
    <3> QED BY <1>4, <2>1, <3>1, <3>3
  <2>4. CASE it.mod \in {"l", "q"}
    <3>1. Conversion(it) = int_to_string(t, Hex) BY <1>7, <2>4 DEF Conversion
    <3>2. u = Unsigned(it.arg, LongBits) BY <1>2, <2>4
    <3> HIDE DEF u, t
    <3>3. IsConversion(int_to_string(t, Hex), Numeral(Unsigned(t, LongBits), Hex))
      BY <1>3, <2>2, IntConversion
    <3> QED BY <1>2, <1>3, <2>1, <2>4, <3>1, <3>2, <3>3
  <2> QED BY <1>1, <2>3, <2>4
<1>8. CASE it.kind = "p"
  <2> DEFINE w == Twos(it.arg, LongBits)
  <2>1. NumberText(it) = Numeral(Unsigned(it.arg, LongBits), Hex) BY <1>8 DEF NumberText
  <2>2. Conversion(it) = int_to_string(w, Hex) BY <1>8 DEF Conversion
  <2>3. LongBits \in Nat \ {0} /\ LongBits <= LongBits /\ Hex # Dec BY Sizes
  <2>4. w \in Int /\ Unsigned(w, LongBits) = Unsigned(it.arg, LongBits)
    BY <1>1, <2>3, TwosIs
  <2> HIDE DEF w
  <2>5. IsConversion(int_to_string(w, Hex), Numeral(Unsigned(w, LongBits), Hex))
    BY <2>3, <2>4, IntConversion
  <2> QED BY <2>1, <2>2, <2>4, <2>5
<1> QED BY <1>1, <1>5, <1>6, <1>7, <1>8

-----------------------------------------------------------------------------
(* Stores one after the other.                                             *)

\* What print_buf and int_len may hold.
Memories == [buf : [0 .. BufLen - 1 -> Chars \cup {NUL}], len : 0 .. BufLen - 1]

\* A store keeps them so.
LEMMA StoredType ==
  ASSUME NEW m \in Memories, NEW st \in Stores
  PROVE  Stored(m, st) \in Memories
BY DEF Memories, Stores, Stored

\* r[k] is the memory after k of the stores.
IsRun(r, m, sts) ==
  /\ r \in [0 .. Len(sts) -> Memories]
  /\ r[0] = m
  /\ \A i \in 1 .. Len(sts) : r[i] = Stored(r[i - 1], sts[i])

\* FoldLeft takes the stores in their order.
LEMMA FoldIsRun ==
  ASSUME NEW m \in Memories, NEW sts \in Seq(Stores)
  PROVE  \E r : IsRun(r, m, sts) /\ FoldLeft(Stored, m, sts) = r[Len(sts)]
<1> DEFINE n == Len(sts)
           D == 1 .. n
           S == SUBSET D
           V == Memories
           Stop == {{}}
           next == [s \in S |-> IF s = {} THEN {} ELSE s \ {Max(s)}]
           height == [s \in S |-> IF s = {} THEN 0 ELSE Max(s)]
           base == [s \in S |-> m]
           step == [sv \in S \X V |-> IF sv[1] = {} THEN sv[2] ELSE Stored(sv[2], sts[Max(sv[1])])]
<1>1. n \in Nat /\ DOMAIN sts = D OBVIOUS
<1>2. ASSUME NEW s \in S, s # {} PROVE Max(s) \in s /\ \A y \in s : Max(s) >= y
  <2> DEFINE T == {n - y : y \in s}
  <2>1. T \in SUBSET Nat /\ T # {}
    <3>1. \A y \in s : y \in Nat /\ n - y \in Nat BY <1>1
    <3> QED BY <1>2, <3>1
  <2>2. PICK x \in T : \A y \in T : x <= y
    <3> HIDE DEF T
    <3> QED BY <2>1, Least
  <2>3. PICK z \in s : x = n - z BY <2>2
  <2>4. \A y \in s : z >= y
    <3> TAKE y \in s
    <3>1. n - z <= n - y BY <2>2, <2>3
    <3> QED BY <1>1, <3>1
  <2> QED BY <2>4 DEF Max
<1>3. PICK f \in [S -> V] : \A x \in S : Obeys(f, x, Stop, next, base, step)
  <2>1. next \in [S -> S] BY <1>2
  <2>2. height \in [S -> Nat] BY <1>1, <1>2
  <2>3. base \in [S -> V] OBVIOUS
  <2>4. step \in [S \X V -> V]
    <3>1. ASSUME NEW s \in S, NEW v \in V, s # {} PROVE Stored(v, sts[Max(s)]) \in V
      <4>1. Max(s) \in D BY <1>2, <3>1
      <4>2. sts[Max(s)] \in Stores BY <4>1
      <4> QED BY <4>2, StoredType
    <3> QED BY <3>1
  <2>5. ASSUME NEW x \in S \ Stop PROVE height[next[x]] < height[x]
    <3>1. x \in S /\ x # {} /\ Max(x) \in D BY <1>2
    <3>2. CASE x \ {Max(x)} = {} BY <1>1, <1>2, <3>1, <3>2
    <3>3. CASE x \ {Max(x)} # {}
      <4> DEFINE w == x \ {Max(x)}
      <4>1. w \in S /\ Max(w) \in w BY <1>2, <3>3
      <4>2. Max(w) # Max(x) /\ Max(w) \in x BY <4>1
      <4>3. Max(w) < Max(x)
        <5>1. Max(x) >= Max(w) BY <1>2, <3>1, <4>2
        <5>2. Max(w) \in D BY <3>1, <4>2
        <5> HIDE DEF w
        <5> QED BY <1>1, <3>1, <4>2, <5>1, <5>2
      <4>4. height[next[x]] = Max(w) /\ height[x] = Max(x) BY <3>1, <3>3, <4>1
      <4> QED BY <4>3, <4>4
    <3> QED BY <3>2, <3>3
  <2>6. Stop \in SUBSET S OBVIOUS
  <2> HIDE DEF S, V, Stop, next, height, base, step
  <2> QED BY <2>1, <2>2, <2>3, <2>4, <2>5, <2>6, Recursion
<1>4. ASSUME NEW s \in S
      PROVE  f[s] = IF s = {} THEN m ELSE Stored(f[s \ {Max(s)}], sts[Max(s)])
  <2>1. CASE s = {} BY <1>3, <2>1 DEF Obeys
  <2>2. CASE s # {}
    <3>1. s \ {Max(s)} \in S /\ f[s \ {Max(s)}] \in V /\ next[s] = s \ {Max(s)}
      BY <1>3, <2>2
    <3>2. f[s] = step[<<s, f[s \ {Max(s)}]>>] BY <1>3, <2>2, <3>1 DEF Obeys
    <3> QED BY <2>2, <3>1, <3>2
  <2> QED BY <2>1, <2>2
<1> HIDE DEF Stop, next, height, base, step
<1>5. f = [s \in S |-> IF s = {} THEN m ELSE Stored(f[s \ {Max(s)}], sts[Max(s)])]
  BY <1>3, <1>4
<1> DEFINE g == CHOOSE iter : iter =
                    [s \in S |-> IF s = {} THEN m ELSE Stored(iter[s \ {Max(s)}], sts[Max(s)])]
<1>6. g = [s \in S |-> IF s = {} THEN m ELSE Stored(g[s \ {Max(s)}], sts[Max(s)])] BY <1>5
<1>7. FoldLeft(Stored, m, sts) = g[D] BY <1>1 DEF FoldLeft, MapThenFoldSet
<1> HIDE DEF g
<1> DEFINE r == [i \in 0 .. n |-> g[1 .. i]]
<1>8. r[0] = m
  <2>1. 1 .. 0 = {} /\ {} \in S /\ 0 \in 0 .. n BY <1>1
  <2> QED BY <1>6, <2>1
<1>9. ASSUME NEW i \in 1 .. n PROVE r[i] = Stored(r[i - 1], sts[i])
  <2>1. 1 .. i \in S /\ 1 .. i # {} /\ i \in 0 .. n /\ i - 1 \in 0 .. n BY <1>1
  <2>2. Max(1 .. i) = i
    <3>1. i \in 1 .. i /\ \A y \in 1 .. i : y <= i /\ y \in Nat BY <1>1
    <3>2. Max(1 .. i) \in 1 .. i /\ Max(1 .. i) >= i BY <1>2, <2>1, <3>1
    <3> QED BY <3>1, <3>2
  <2>3. (1 .. i) \ {i} = 1 .. i - 1 BY <1>1
  <2> QED BY <1>6, <2>1, <2>2, <2>3
<1>10. \A i \in Nat : i \in {k \in Nat : k <= n => r[k] \in Memories}
  <2> DEFINE T == {k \in Nat : k <= n => r[k] \in Memories}
  <2>1. 0 \in T BY <1>8
  <2>2. ASSUME NEW k \in Nat, k \in T PROVE k + 1 \in T
    <3>1. SUFFICES ASSUME k + 1 <= n PROVE r[k + 1] \in Memories OBVIOUS
    <3>2. k + 1 \in 1 .. n /\ (k + 1) - 1 = k /\ r[k] \in Memories BY <1>1, <2>2, <3>1
    <3>3. sts[k + 1] \in Stores BY <3>2
    <3>4. r[k + 1] = Stored(r[k], sts[k + 1]) BY <1>9, <3>2
    <3> HIDE DEF r
    <3> QED BY <3>2, <3>3, <3>4, StoredType
  <2>3. \A i \in Nat : i \in T
    <3> HIDE DEF T
    <3> QED BY <2>1, <2>2, Induct
  <2> HIDE DEF r
  <2> QED BY <2>3
<1>11. r \in [0 .. n -> Memories]
  <2>1. \A i \in 0 .. n : r[i] \in Memories
    <3> HIDE DEF r
    <3> QED BY <1>1, <1>10
  <2> QED BY <2>1
<1>12. r[n] = g[D] BY <1>1
<1> HIDE DEF r
<1> QED BY <1>7, <1>8, <1>9, <1>11, <1>12 DEF IsRun

-----------------------------------------------------------------------------
(* The inductive invariant.                                                *)

\* What a format is made of.
Items == Plain \cup Number

\* The string print_str is given for a part.
String(x) == IF x.kind \in Numbers THEN NumberText(x) ELSE x.text

\* The text of format f from item i on; what follows part p of item i; and
\* what is ahead when that part is about to be printed.
Left(f, i) == FlattenSeq([j \in 1 .. Len(f) + 1 - i |-> Text(f[i + j - 1])])

After(f, i, p) == (IF p < Len(Parts(f[i])) THEN NumberText(f[i]) ELSE << >>) \o Left(f, i + 1)

Ahead(f, i, p) == IF i <= Len(f) THEN String(Parts(f[i])[p]) \o After(f, i, p) ELSE << >>

\* The stores put nothing but NUL at the end of print_buf.
Ended(sts) ==
  \A st \in Range(sts) : st.into = "print_buf" /\ st.at = BufLen - 1 => st.char = NUL

\* What holds even once a handler has torn a numeral: print_buf ends in a NUL,
\* so that no reader leaves it.
TypeInv ==
  /\ pc \in {"idle", "item", "store", "screen", "length", "serial", "count"}
  /\ fmt \in Seq(Items) /\ item \in 1 .. Len(fmt) + 1
  /\ part \in IF item <= Len(fmt) THEN DOMAIN Parts(fmt[item]) ELSE {1}
  /\ pc \in {"store", "screen", "length", "serial", "count"} => item <= Len(fmt)
  /\ pc = "store" => this.kind \in Numbers
  /\ memory \in Memories /\ print_buf[BufLen - 1] = NUL
  /\ stores \in Seq(Stores) /\ Ended(stores) /\ ((pc = "store") = (stores # << >>))
  /\ pc \in {"screen", "length", "serial", "count"} => pos \in 0 .. End /\ length \in 0 .. End
  /\ pc = "store" => pos = 0
  /\ pc \in {"store", "screen"} => length = 0
  /\ num_printed \in Nat
  /\ asked \in Seq(Chars) /\ screen \in Outputs /\ serial \in Outputs

\* A numeral W is being stored, with todo still to do: each character and the
\* length are right, or the store that makes them right is still to come.
Pending(m, W, todo, zero) ==
  /\ todo \subseteq Wanted(W) \cup {SetLen(Len(W))}
  /\ \A q \in 0 .. Len(W) : m.buf[q] = CharAt(W, q) \/ Put(q, CharAt(W, q)) \in todo
  /\ m.len = Len(W) \/ SetLen(Len(W)) \in todo \/ zero

NumberInv ==
  pc \in {"store", "screen", "length", "serial", "count"} /\ this.kind \in Numbers =>
    Pending(memory, NumberText(this), Range(stores), Conversion(this) = Zero)

\* What the kernel has still to give the screen and the serial port.
ScreenLeft ==
  CASE pc = "idle" -> << >>
    [] pc \in {"item", "store"} -> Ahead(fmt, item, part)
    [] pc = "screen" -> SubSeq(String(this), pos + 1, Len(String(this))) \o After(fmt, item, part)
    [] pc \in {"length", "serial", "count"} -> After(fmt, item, part)

SerialLeft ==
  CASE pc = "idle" -> << >>
    [] pc \in {"item", "store", "screen", "length", "serial"} -> Ahead(fmt, item, part)
    [] pc = "count" -> After(fmt, item, part)

\* What each was given and what is left for it are what was asked for.
OutputInv ==
  /\ screen.kernel \o ScreenLeft = asked
  /\ serial.kernel \o SerialLeft = asked
  /\ pc = "screen" => pos <= Len(String(this))
  /\ pc = "length" => length <= Len(String(this))
  /\ pc \in {"serial", "count"} => length = Len(String(this))

\* What was counted and the length of what is ahead are the length of the text.
CountInv ==
  ~HasZero(fmt) =>
    num_printed + (IF pc = "idle" THEN 0 ELSE Len(Ahead(fmt, item, part))) = Len(AllText(fmt))

Good == NumberInv /\ OutputInv /\ CountInv

IInv == TypeInv /\ (~torn => Good)

-----------------------------------------------------------------------------
(* Texts one after the other.                                              *)

\* f[k] is the first k of the sequences one after the other.
IsFlat(f, C, n, s) ==
  /\ f \in [1 .. n -> Seq(C)]
  /\ f[1] = s[1]
  /\ \A i \in 2 .. n : f[i] = f[i - 1] \o s[i]
  /\ FlattenSeq(s) = f[n]

\* FlattenSeq unfolded.
LEMMA FlattenIs ==
  ASSUME NEW C, NEW n \in Nat \ {0}, NEW s \in [1 .. n -> Seq(C)]
  PROVE  \E f : IsFlat(f, C, n, s)
<1> DEFINE S == 1 .. n
           V == Seq(C)
           Stop == {1}
           next == [i \in S |-> IF i = 1 THEN 1 ELSE i - 1]
           height == [i \in S |-> i]
           base == [i \in S |-> s[i]]
           step == [ir \in S \X V |-> ir[2] \o s[ir[1]]]
<1>1. PICK f \in [S -> V] : \A i \in S : Obeys(f, i, Stop, next, base, step)
  <2>1. next \in [S -> S] /\ height \in [S -> Nat] /\ base \in [S -> V] OBVIOUS
  <2>2. step \in [S \X V -> V] OBVIOUS
  <2>3. \A i \in S \ Stop : height[next[i]] < height[i] OBVIOUS
  <2>4. Stop \in SUBSET S OBVIOUS
  <2> HIDE DEF S, V, Stop, next, height, base, step
  <2> QED BY <2>1, <2>2, <2>3, <2>4, Recursion
<1>2. ASSUME NEW i \in S PROVE f[i] = IF i = 1 THEN s[i] ELSE f[i - 1] \o s[i]
  <2>1. CASE i = 1 BY <1>1, <2>1 DEF Obeys
  <2>2. CASE i # 1
    <3>1. i - 1 \in S /\ f[i - 1] \in V /\ next[i] = i - 1 BY <2>2
    <3>2. f[i] = step[<<i, f[i - 1]>>] BY <1>1, <2>2, <3>1 DEF Obeys
    <3> QED BY <2>2, <3>1, <3>2
  <2> QED BY <2>1, <2>2
<1> HIDE DEF Stop, next, height, base, step
<1>3. f = [i \in S |-> IF i = 1 THEN s[i] ELSE f[i - 1] \o s[i]] BY <1>2
<1> DEFINE g == CHOOSE flatten : flatten = [i \in S |-> IF i = 1 THEN s[i] ELSE flatten[i - 1] \o s[i]]
<1>4. g = [i \in S |-> IF i = 1 THEN s[i] ELSE g[i - 1] \o s[i]] BY <1>3
<1>5. Len(s) = n /\ n # 0 OBVIOUS
<1>6. FlattenSeq(s) = g[n] BY <1>5 DEF FlattenSeq
<1> HIDE DEF g
<1>7. g[1] = s[1] /\ \A i \in 2 .. n : g[i] = g[i - 1] \o s[i]
  <2>1. 1 \in S /\ \A i \in 2 .. n : i \in S /\ i # 1 OBVIOUS
  <2>2. \A i \in S : g[i] = IF i = 1 THEN s[i] ELSE g[i - 1] \o s[i] BY <1>4
  <2> QED BY <2>1, <2>2, Zenon
<1>8. g \in [S -> V]
  <2> DEFINE T == {i \in Nat : i + 1 <= n => g[i + 1] \in V}
  <2>1. 0 \in T BY <1>7
  <2>2. ASSUME NEW i \in Nat, i \in T PROVE i + 1 \in T
    <3>1. SUFFICES ASSUME (i + 1) + 1 <= n PROVE g[(i + 1) + 1] \in V OBVIOUS
    <3>2. g[i + 1] \in V BY <2>2, <3>1
    <3>3. (i + 1) + 1 \in 2 .. n /\ ((i + 1) + 1) - 1 = i + 1 BY <3>1
    <3>4. s[(i + 1) + 1] \in V BY <3>3
    <3>5. g[(i + 1) + 1] = g[i + 1] \o s[(i + 1) + 1] BY <1>7, <3>3
    <3> QED BY <3>2, <3>4, <3>5, ConcatProperties
  <2>3. \A i \in Nat : i \in T
    <3> HIDE DEF T
    <3> QED BY <2>1, <2>2, Induct
  <2>4. \A i \in S : i - 1 \in Nat /\ (i - 1) + 1 = i OBVIOUS
  <2>5. \A i \in S : g[i] \in V
    <3> TAKE i \in S
    <3>1. i - 1 \in T /\ (i - 1) + 1 = i /\ i <= n
      <4> HIDE DEF T
      <4> QED BY <2>3, <2>4
    <3> QED BY <3>1
  <2> QED BY <1>4, <2>5
<1> QED BY <1>6, <1>7, <1>8 DEF IsFlat

\* Flattening nothing gives nothing.
LEMMA FlattenEmpty == ASSUME NEW s, s = << >> PROVE FlattenSeq(s) = << >>
BY DEF FlattenSeq

\* Flattening starts with the first of the sequences.
LEMMA FlattenFirst ==
  ASSUME NEW C, NEW n \in Nat \ {0}, NEW s \in [1 .. n -> Seq(C)],
         NEW t \in [1 .. n - 1 -> Seq(C)], \A j \in 1 .. n - 1 : t[j] = s[j + 1]
  PROVE  /\ FlattenSeq(s) \in Seq(C) /\ FlattenSeq(t) \in Seq(C)
         /\ FlattenSeq(s) = s[1] \o FlattenSeq(t)
<1>0. PICK f : IsFlat(f, C, n, s) BY FlattenIs
<1>1. /\ f \in [1 .. n -> Seq(C)] /\ f[1] = s[1] /\ FlattenSeq(s) = f[n]
      /\ \A i \in 2 .. n : f[i] = f[i - 1] \o s[i]
  BY <1>0 DEF IsFlat
<1>2. CASE n = 1
  <2>1. t = << >> BY <1>2
  <2>2. FlattenSeq(t) = << >> /\ << >> \in Seq(C) BY <2>1, FlattenEmpty
  <2>3. s[1] \in Seq(C) BY <1>2
  <2> QED BY <1>1, <1>2, <2>2, <2>3, ConcatEmptySeq
<1>3. CASE n # 1
  <2>1. n - 1 \in Nat \ {0} BY <1>3
  <2>2. PICK h : IsFlat(h, C, n - 1, t) BY <2>1, FlattenIs
  <2>3. /\ h \in [1 .. n - 1 -> Seq(C)] /\ h[1] = t[1] /\ FlattenSeq(t) = h[n - 1]
        /\ \A i \in 2 .. n - 1 : h[i] = h[i - 1] \o t[i]
    BY <2>2 DEF IsFlat
  <2> DEFINE Q(i) == f[i + 1] = s[1] \o h[i]
             T == {i \in Nat : i + 2 <= n => Q(i + 1)}
  <2>4. 0 \in T
    <3>1. 2 \in 2 .. n /\ 1 \in 1 .. n - 1 /\ 2 - 1 = 1 /\ 1 + 1 = 2 BY <1>3
    <3>2. f[2] = f[1] \o s[2] BY <1>1, <3>1
    <3>3. t[1] = s[2] BY <3>1
    <3>4. Q(1) BY <1>1, <2>3, <3>1, <3>2, <3>3
    <3> HIDE DEF Q
    <3> QED BY <3>4
  <2>5. ASSUME NEW i \in Nat, i \in T PROVE i + 1 \in T
    <3>1. SUFFICES ASSUME (i + 1) + 2 <= n PROVE Q((i + 1) + 1)
      <4> HIDE DEF Q
      <4> QED OBVIOUS
    <3> DEFINE k == i + 1
               l == k + 1
    <3>2. Q(k)
      <4> HIDE DEF Q
      <4> QED BY <2>5, <3>1
    <3>3. l + 1 \in 2 .. n /\ (l + 1) - 1 = l /\ l = k + 1 BY <3>1
    <3>4. l \in 2 .. n - 1 /\ l \in 1 .. n - 1 /\ l - 1 = k /\ k \in 1 .. n - 1 BY <3>1
    <3> HIDE DEF k, l
    <3>5. f[l + 1] = f[l] \o s[l + 1] BY <1>1, <3>3
    <3>6. h[l] = h[k] \o t[l] BY <2>3, <3>4
    <3>7. t[l] = s[l + 1] BY <3>4
    <3>8. s[1] \in Seq(C) /\ h[k] \in Seq(C) /\ s[l + 1] \in Seq(C) BY <2>3, <3>3, <3>4
    <3>9. (s[1] \o h[k]) \o s[l + 1] = s[1] \o (h[k] \o s[l + 1])
      <4>1. \A x, y, z \in Seq(C) : (x \o y) \o z = x \o (y \o z) BY ConcatAssociative
      <4> QED BY <3>8, <4>1
    <3>10. f[l] = s[1] \o h[k] BY <3>2, <3>3
    <3>11. Q(l) BY <3>5, <3>6, <3>7, <3>9, <3>10, Zenon
    <3> QED BY <3>11 DEF k, l
  <2>6. \A i \in Nat : i \in T
    <3> HIDE DEF T
    <3> QED BY <2>4, <2>5, Induct
  <2>7. Q(n - 1)
    <3>1. n - 2 \in Nat /\ (n - 2) + 2 <= n /\ (n - 2) + 1 = n - 1 BY <1>3
    <3>2. n - 2 \in T
      <4> HIDE DEF T
      <4> QED BY <2>6, <3>1
    <3> HIDE DEF Q
    <3> QED BY <3>1, <3>2
  <2>8. (n - 1) + 1 = n OBVIOUS
  <2>9. f[n] = s[1] \o h[n - 1] BY <2>7, <2>8, Zenon
  <2>10. f[n] \in Seq(C) /\ h[n - 1] \in Seq(C) BY <1>1, <2>1, <2>3
  <2> QED BY <1>1, <2>3, <2>9, <2>10
<1> QED BY <1>2, <1>3

-----------------------------------------------------------------------------
(* Items, their parts and what is left of a format.                        *)

\* An item is a number or has a text.
LEMMA ItemKinds ==
  ASSUME NEW it \in Items
  PROVE  \/ it \in Number /\ it.kind \in Numbers
         \/ it \in Plain /\ it.kind \in {"char", "string"} /\ it.text \in Seq(Letters)
BY DEF Items, Number, Plain

\* Texts are made of characters.
LEMMA TextChars ==
  /\ \A t \in Seq(Letters) : t \in Seq(Chars)
  /\ <<"0", "x">> \in Seq(Chars)
<1>1. Letters \subseteq Chars /\ "x" \in Chars BY DEF Chars
<1>2. Figure(0) = "0" /\ Figure(0) \in Chars
  <2>1. 0 \in 0 .. 15 OBVIOUS
  <2> QED BY <2>1, FigureChars DEF Figure, Figures
<1>3. <<"0", "x">> \in Seq(Chars)
  <2>1. "0" \in Chars /\ "x" \in Chars BY <1>1, <1>2
  <2> QED BY <2>1
<1>4. \A t \in Seq(Letters) : t \in Seq(Chars) BY <1>1, SeqMonotonic
<1> QED BY <1>3, <1>4

\* A numeral is made of characters and fits into print_buf.
LEMMA NumeralChars ==
  ASSUME NEW it \in Number
  PROVE  NumberText(it) \in Seq(Chars) /\ Len(NumberText(it)) \in 1 .. BufLen - 1
BY ConversionRight DEF IsConversion

\* x may be a part of the item: a number is the item itself.
IsPiece(x, it) ==
  /\ String(x) \in Seq(Chars)
  /\ x.kind \in Numbers => x = it /\ it \in Number /\ String(x) = NumberText(it)
  /\ x.kind \notin Numbers => x.text \in Seq(Chars) /\ String(x) = x.text

\* The parts of an item are pieces, and together its text.
LEMMA PiecesAre ==
  ASSUME NEW it \in Items
  PROVE  /\ Text(it) \in Seq(Chars)
         /\ IsPiece(Parts(it)[1], it)
         /\ \/ /\ Len(Parts(it)) = 1 /\ DOMAIN Parts(it) = {1}
               /\ Text(it) = String(Parts(it)[1])
            \/ /\ Len(Parts(it)) = 2 /\ DOMAIN Parts(it) = {1, 2}
               /\ IsPiece(Parts(it)[2], it)
               /\ String(Parts(it)[2]) = NumberText(it) /\ NumberText(it) \in Seq(Chars)
               /\ Text(it) = String(Parts(it)[1]) \o NumberText(it)
<1>1. CASE it \in Plain /\ it.kind \in {"char", "string"} /\ it.text \in Seq(Letters)
  <2>1. it.kind \notin Numbers /\ it.kind # "p" BY <1>1 DEF Numbers
  <2>2. Parts(it) = <<it>> /\ String(it) = it.text BY <2>1 DEF Parts, String
  <2>3. Text(it) = it.text BY <1>1 DEF Text
  <2>4. it.text \in Seq(Chars) BY <1>1, TextChars
  <2>5. IsPiece(it, it) BY <2>1, <2>2, <2>4 DEF IsPiece
  <2> QED BY <2>2, <2>3, <2>4, <2>5
<1>2. CASE it \in Number /\ it.kind \in Numbers
  <2>1. String(it) = NumberText(it) BY <1>2 DEF String
  <2>2. NumberText(it) \in Seq(Chars) BY <1>2, NumeralChars
  <2>3. IsPiece(it, it) BY <1>2, <2>1, <2>2 DEF IsPiece
  <2>4. CASE it.kind = "p"
    <3> DEFINE x == [kind |-> "string", text |-> <<"0", "x">>]
    <3>1. Parts(it) = <<x, it>> BY <2>4 DEF Parts
    <3>2. Text(it) = <<"0", "x">> \o NumberText(it) BY <2>4 DEF Text
    <3>3. x.kind \notin Numbers /\ x.text = <<"0", "x">> BY DEF Numbers
    <3>4. String(x) = <<"0", "x">> BY <3>3 DEF String
    <3>5. <<"0", "x">> \in Seq(Chars) BY TextChars
    <3>6. IsPiece(x, it) BY <3>3, <3>4, <3>5 DEF IsPiece
    <3> HIDE DEF x
    <3>7. Parts(it)[1] = x /\ Parts(it)[2] = it /\ Len(Parts(it)) = 2 /\ DOMAIN Parts(it) = {1, 2}
      BY <3>1
    <3>8. Text(it) = String(x) \o NumberText(it) BY <3>2, <3>4
    <3>9. Text(it) \in Seq(Chars) BY <2>2, <3>4, <3>5, <3>8, ConcatProperties
    <3> QED BY <2>1, <2>2, <2>3, <3>6, <3>7, <3>8, <3>9
  <2>5. CASE it.kind # "p"
    <3>1. Parts(it) = <<it>> BY <2>5 DEF Parts
    <3>2. it.kind \in {"d", "u", "x"} BY <1>2, <2>5 DEF Numbers
    <3>3. Text(it) = NumberText(it) BY <3>2 DEF Text
    <3> QED BY <2>1, <2>2, <2>3, <3>1, <3>3
  <2> QED BY <2>4, <2>5
<1> QED BY <1>1, <1>2, ItemKinds

\* What is left of a format, item by item.
LEMMA LeftIs ==
  ASSUME NEW f \in Seq(Items)
  PROVE  /\ Left(f, Len(f) + 1) = << >>
         /\ Left(f, 1) = AllText(f)
         /\ \A i \in 1 .. Len(f) + 1 : Left(f, i) \in Seq(Chars)
         /\ \A i \in 1 .. Len(f) : Left(f, i) = Text(f[i]) \o Left(f, i + 1)
<1> DEFINE n == Len(f)
           s(i) == [j \in 1 .. n + 1 - i |-> Text(f[i + j - 1])]
<1>1. n \in Nat /\ \A i \in 1 .. n : f[i] \in Items OBVIOUS
<1>2. \A i \in 1 .. n : Text(f[i]) \in Seq(Chars) BY <1>1, PiecesAre
<1>3. ASSUME NEW i \in 1 .. n + 1 PROVE s(i) \in [1 .. n + 1 - i -> Seq(Chars)]
  <2>1. \A j \in 1 .. n + 1 - i : i + j - 1 \in 1 .. n BY <1>1
  <2>2. \A j \in 1 .. n + 1 - i : Text(f[i + j - 1]) \in Seq(Chars) BY <1>2, <2>1, Zenon
  <2> QED BY <2>2
<1>4. Left(f, n + 1) = << >>
  <2>1. 1 .. n + 1 - (n + 1) = {} BY <1>1
  <2>2. s(n + 1) = << >> BY <2>1
  <2> QED BY <2>2, FlattenEmpty DEF Left
<1>5. ASSUME NEW i \in 1 .. n
      PROVE  Left(f, i) \in Seq(Chars) /\ Left(f, i) = Text(f[i]) \o Left(f, i + 1)
  <2> DEFINE k == n + 1 - i
  <2>1. /\ k \in Nat \ {0}
        /\ k - 1 = n + 1 - (i + 1)
        /\ i \in 1 .. n + 1
        /\ i + 1 \in 1 .. n + 1
    BY <1>1
  <2>2. s(i) \in [1 .. k -> Seq(Chars)] /\ s(i + 1) \in [1 .. k - 1 -> Seq(Chars)]
    BY <1>3, <2>1
  <2>3. \A j \in 1 .. k - 1 : s(i + 1)[j] = s(i)[j + 1]
    <3> TAKE j \in 1 .. k - 1
    <3>1. j \in 1 .. n + 1 - (i + 1) /\ j + 1 \in 1 .. n + 1 - i BY <1>1
    <3>2. (i + 1) + j - 1 = i + (j + 1) - 1 BY <1>1
    <3> QED BY <3>1, <3>2
  <2>4. s(i)[1] = Text(f[i])
    <3>1. 1 \in 1 .. n + 1 - i /\ i + 1 - 1 = i BY <1>1
    <3> QED BY <3>1
  <2>5. Left(f, i) = FlattenSeq(s(i)) /\ Left(f, i + 1) = FlattenSeq(s(i + 1)) BY DEF Left
  <2> DEFINE u == s(i)
             w == s(i + 1)
  <2>6. u \in [1 .. k -> Seq(Chars)] /\ w \in [1 .. k - 1 -> Seq(Chars)]
        /\ (\A j \in 1 .. k - 1 : w[j] = u[j + 1]) /\ u[1] = Text(f[i])
        /\ Left(f, i) = FlattenSeq(u) /\ Left(f, i + 1) = FlattenSeq(w)
    <3> HIDE DEF s, k
    <3> QED BY <2>2, <2>3, <2>4, <2>5
  <2> HIDE DEF s, k, u, w
  <2>7. k \in Nat \ {0} BY <2>1
  <2>8. u \in [1 .. k -> Seq(Chars)] /\ w \in [1 .. k - 1 -> Seq(Chars)]
        /\ (\A j \in 1 .. k - 1 : w[j] = u[j + 1])
    BY <2>6
  <2>9. FlattenSeq(u) \in Seq(Chars) /\ FlattenSeq(u) = u[1] \o FlattenSeq(w)
    BY <2>7, <2>8, FlattenFirst
  <2> QED BY <2>6, <2>9, Zenon
<1>6. \A i \in 1 .. n + 1 : Left(f, i) \in Seq(Chars)
  <2>1. << >> \in Seq(Chars) OBVIOUS
  <2>2. \A i \in 1 .. n + 1 : i = n + 1 \/ i \in 1 .. n BY <1>1
  <2> QED BY <1>4, <1>5, <2>1, <2>2
<1>7. Left(f, 1) = AllText(f)
  <2>1. s(1) = [j \in 1 .. n |-> Text(f[j])]
    <3>1. n + 1 - 1 = n /\ \A j \in 1 .. n : 1 + j - 1 = j BY <1>1
    <3> QED BY <3>1
  <2> QED BY <2>1 DEF Left, AllText
<1> QED BY <1>4, <1>5, <1>6, <1>7

\* What follows a part is what starts with the next.
Follows(f, i, p) ==
  /\ After(f, i, p) \in Seq(Chars)
  /\ IsPiece(Parts(f[i])[p], f[i])
  /\ Ahead(f, i, p) = String(Parts(f[i])[p]) \o After(f, i, p)
  /\ p < Len(Parts(f[i])) => p + 1 \in DOMAIN Parts(f[i]) /\ After(f, i, p) = Ahead(f, i, p + 1)
  /\ ~(p < Len(Parts(f[i]))) => After(f, i, p) = Ahead(f, i + 1, 1)

\* What is ahead in a format, part by part.
LEMMA AheadIs ==
  ASSUME NEW f \in Seq(Items)
  PROVE  /\ \A i \in 1 .. Len(f) + 1 : Ahead(f, i, 1) = Left(f, i)
         /\ Ahead(f, 1, 1) = AllText(f) /\ Ahead(f, Len(f) + 1, 1) = << >>
         /\ \A i \in 1 .. Len(f) : \A p \in DOMAIN Parts(f[i]) : Follows(f, i, p)
<1> DEFINE n == Len(f)
<1>1. n \in Nat /\ \A i \in 1 .. n : f[i] \in Items OBVIOUS
<1>2. Ahead(f, n + 1, 1) = << >> /\ Left(f, n + 1) = << >>
  <2>1. ~(n + 1 <= n) BY <1>1
  <2> QED BY <2>1, LeftIs DEF Ahead
<1>3. ASSUME NEW i \in 1 .. n, NEW p
  PROVE Ahead(f, i, p) = String(Parts(f[i])[p]) \o After(f, i, p)
  <2>1. i <= n BY <1>1
  <2> QED BY <2>1 DEF Ahead
<1>5. ASSUME NEW i \in 1 .. n
      PROVE  Left(f, i + 1) \in Seq(Chars) /\ Left(f, i) = Text(f[i]) \o Left(f, i + 1)
             /\ << >> \o Left(f, i + 1) = Left(f, i + 1)
  <2>1. i + 1 \in 1 .. n + 1 BY <1>1
  <2>2. Left(f, i + 1) \in Seq(Chars) BY <2>1, LeftIs
  <2> QED BY <1>1, <2>2, LeftIs, ConcatEmptySeq
<1>6. ASSUME NEW i \in 1 .. n PROVE Ahead(f, i, 1) = Left(f, i)
  <2> DEFINE it == f[i]
             L == Left(f, i + 1)
             a == String(Parts(it)[1])
  <2>1. it \in Items BY <1>1
  <2>2. CASE Len(Parts(it)) = 1 /\ Text(it) = a
    <3>1. After(f, i, 1) = L
      <4>1. ~(1 < Len(Parts(it))) BY <2>2
      <4> QED BY <1>5, <4>1 DEF After
    <3> QED BY <1>3, <1>5, <2>2, <3>1
  <2>3. CASE Len(Parts(it)) = 2 /\ NumberText(it) \in Seq(Chars) /\ Text(it) = a \o NumberText(it)
    <3>1. a \in Seq(Chars) BY <2>1, PiecesAre DEF IsPiece
    <3>2. After(f, i, 1) = NumberText(it) \o L
      <4>1. 1 < Len(Parts(it)) BY <2>3
      <4> QED BY <4>1 DEF After
    <3>3. (a \o NumberText(it)) \o L = a \o (NumberText(it) \o L)
      <4>1. \A x, y, z \in Seq(Chars) : (x \o y) \o z = x \o (y \o z) BY ConcatAssociative
      <4> QED BY <1>5, <2>3, <3>1, <4>1
    <3> QED BY <1>3, <1>5, <2>3, <3>2, <3>3
  <2> QED BY <2>1, <2>2, <2>3, PiecesAre
<1>7. \A i \in 1 .. n + 1 : Ahead(f, i, 1) = Left(f, i)
  <2>1. \A i \in 1 .. n + 1 : i = n + 1 \/ i \in 1 .. n BY <1>1
  <2> QED BY <1>2, <1>6, <2>1
<1>8. ASSUME NEW i \in 1 .. n, NEW p \in DOMAIN Parts(f[i]) PROVE Follows(f, i, p)
  <2> DEFINE it == f[i]
             L == Left(f, i + 1)
  <2>1. it \in Items /\ i + 1 \in 1 .. n + 1 BY <1>1
  <2>2. Ahead(f, i + 1, 1) = L BY <1>7, <2>1
  <2>3. CASE Len(Parts(it)) = 1 /\ DOMAIN Parts(it) = {1}
    <3>1. p = 1 /\ ~(p < Len(Parts(it))) BY <2>3
    <3>2. IsPiece(Parts(it)[p], it) BY <2>1, <3>1, PiecesAre
    <3>3. After(f, i, p) = L BY <1>5, <3>1 DEF After
    <3> QED BY <1>3, <1>5, <2>2, <3>1, <3>2, <3>3 DEF Follows
  <2>4. CASE /\ Len(Parts(it)) = 2 /\ DOMAIN Parts(it) = {1, 2}
             /\ IsPiece(Parts(it)[2], it)
             /\ String(Parts(it)[2]) = NumberText(it) /\ NumberText(it) \in Seq(Chars)
    <3>1. After(f, i, 2) = L /\ ~(2 < Len(Parts(it)))
      <4>1. ~(2 < Len(Parts(it))) BY <2>4
      <4> QED BY <1>5, <4>1 DEF After
    <3>2. Follows(f, i, 2) BY <1>3, <1>5, <2>2, <2>4, <3>1 DEF Follows
    <3>3. IsPiece(Parts(it)[1], it) BY <2>1, PiecesAre
    <3>4. After(f, i, 1) = NumberText(it) \o L /\ 1 < Len(Parts(it))
      <4>1. 1 < Len(Parts(it)) BY <2>4
      <4> QED BY <4>1 DEF After
    <3>5. Ahead(f, i, 2) = NumberText(it) \o L BY <1>3, <2>4, <3>1
    <3>6. NumberText(it) \o L \in Seq(Chars) BY <1>5, <2>4, ConcatProperties
    <3>7. 1 + 1 = 2 /\ 2 \in DOMAIN Parts(it) BY <2>4
    <3>8. Follows(f, i, 1) BY <1>3, <3>3, <3>4, <3>5, <3>6, <3>7 DEF Follows
    <3> QED BY <2>4, <3>2, <3>8
  <2> QED BY <2>1, <2>3, <2>4, PiecesAre
<1>9. Ahead(f, 1, 1) = AllText(f)
  <2>1. 1 \in 1 .. n + 1 BY <1>1
  <2> QED BY <1>7, <2>1, LeftIs
<1> QED BY <1>2, <1>7, <1>8, <1>9

-----------------------------------------------------------------------------
(* A numeral that is being stored.                                         *)

\* When a conversion starts, all of it is pending.
LEMMA PendingStarts ==
  ASSUME NEW m, NEW W, NEW sts, IsConversion(sts, W)
  PROVE  Pending(m, W, Range(sts), sts = Zero)
BY DEF IsConversion, Pending, Wanted

\* A store to print_buf.
LEMMA PutIs ==
  ASSUME NEW m \in Memories, NEW q \in 0 .. BufLen - 1, NEW c
  PROVE  /\ Stored(m, Put(q, c)).len = m.len
         /\ Stored(m, Put(q, c)).buf[q] = c
         /\ \A p \in 0 .. BufLen - 1 : p # q => Stored(m, Put(q, c)).buf[p] = m.buf[p]
<1>1. Put(q, c).into # "int_len" /\ Put(q, c).at = q /\ Put(q, c).char = c BY DEF Put
<1>2. Stored(m, Put(q, c)) = [m EXCEPT !.buf = [m.buf EXCEPT ![q] = c]] BY <1>1 DEF Stored
<1>3. m.buf \in [0 .. BufLen - 1 -> Chars \cup {NUL}] /\ m = [buf |-> m.buf, len |-> m.len]
  BY DEF Memories
<1>4. Stored(m, Put(q, c)).buf = [m.buf EXCEPT ![q] = c] /\ Stored(m, Put(q, c)).len = m.len
  BY <1>2, <1>3
<1> QED BY <1>3, <1>4

\* A store to int_len.
LEMMA SetLenIs ==
  ASSUME NEW m \in Memories, NEW n
  PROVE  Stored(m, SetLen(n)).len = n /\ Stored(m, SetLen(n)).buf = m.buf
<1>1. SetLen(n).into = "int_len" /\ SetLen(n).at = n BY DEF SetLen
<1>2. Stored(m, SetLen(n)) = [m EXCEPT !.len = n] BY <1>1 DEF Stored
<1> QED BY <1>2 DEF Memories

\* A store that was pending is done, and the others still are.
LEMMA PendingStep ==
  ASSUME NEW m \in Memories, NEW W \in Seq(Chars), Len(W) \in 1 .. BufLen - 1,
         NEW todo, NEW zero, Pending(m, W, todo, zero),
         NEW st \in todo, NEW rest \in SUBSET todo, todo \ {st} \subseteq rest
  PROVE  Pending(Stored(m, st), W, rest, zero)
<1>1. \A q \in 0 .. Len(W) : q \in 0 .. BufLen - 1 BY Sizes
<1>2. \A q, k : Put(q, CharAt(W, q)) # SetLen(k) BY DEF Put, SetLen
<1>3. CASE st = SetLen(Len(W))
  <2>1. Stored(m, st).len = Len(W) /\ Stored(m, st).buf = m.buf BY <1>3, SetLenIs
  <2>2. \A q \in 0 .. Len(W) : Put(q, CharAt(W, q)) \in todo => Put(q, CharAt(W, q)) \in rest
    BY <1>2, <1>3
  <2> QED BY <2>1, <2>2 DEF Pending
<1>4. CASE st \in Wanted(W)
  <2>1. PICK q \in 0 .. Len(W) : st = Put(q, CharAt(W, q)) BY <1>4 DEF Wanted
  <2>2. Stored(m, st).len = m.len /\ Stored(m, st).buf[q] = CharAt(W, q)
        /\ \A p \in 0 .. BufLen - 1 : p # q => Stored(m, st).buf[p] = m.buf[p]
    <3>1. q \in 0 .. BufLen - 1 BY <1>1
    <3> DEFINE c == CharAt(W, q)
    <3> HIDE DEF c
    <3>2. st = Put(q, c) BY <2>1 DEF c
    <3>3. /\ Stored(m, Put(q, c)).len = m.len /\ Stored(m, Put(q, c)).buf[q] = c
          /\ \A p \in 0 .. BufLen - 1 : p # q => Stored(m, Put(q, c)).buf[p] = m.buf[p]
      BY <3>1, PutIs
    <3> QED BY <3>2, <3>3 DEF c
  <2>3. \A p \in 0 .. Len(W) : p # q => Put(p, CharAt(W, p)) # st BY <2>1 DEF Put
  <2>4. \A p \in 0 .. Len(W) : Stored(m, st).buf[p] = CharAt(W, p) \/ Put(p, CharAt(W, p)) \in rest
    <3> TAKE p \in 0 .. Len(W)
    <3>1. CASE p = q BY <2>2, <3>1
    <3>2. CASE p # q
      <4>1. m.buf[p] = CharAt(W, p) \/ Put(p, CharAt(W, p)) \in todo BY DEF Pending
      <4>2. Stored(m, st).buf[p] = m.buf[p] BY <1>1, <2>2, <3>2
      <4>3. Put(p, CharAt(W, p)) # st BY <2>3, <3>2
      <4> QED BY <4>1, <4>2, <4>3
    <3> QED BY <3>1, <3>2
  <2>5. SetLen(Len(W)) # st BY <1>2, <2>1
  <2>6. SetLen(Len(W)) \in todo => SetLen(Len(W)) \in rest BY <2>5
  <2> QED BY <2>2, <2>4, <2>6 DEF Pending
<1> QED BY <1>3, <1>4 DEF Pending

\* No store touches the end of the buffer, but to write NUL.
LEMMA ConversionEnds ==
  ASSUME NEW W, NEW sts, IsConversion(sts, W)
  PROVE  Ended(sts)
<1> SUFFICES ASSUME NEW st \in Range(sts), st.into = "print_buf", st.at = BufLen - 1
             PROVE  st.char = NUL
  BY DEF Ended
<1>1. \A n : SetLen(n).into # "print_buf" BY DEF SetLen
<1>2. st \in Wanted(W) BY <1>1 DEF IsConversion
<1>3. PICK q \in 0 .. Len(W) : st = Put(q, CharAt(W, q)) BY <1>2 DEF Wanted
<1>4. q = BufLen - 1 /\ st.char = CharAt(W, q) BY <1>3 DEF Put
<1>5. q = Len(W) BY <1>3, <1>4, Sizes DEF IsConversion
<1> QED BY <1>4, <1>5 DEF CharAt

\* A store leaves the end of the buffer NUL.
LEMMA StoredEnd ==
  ASSUME NEW m \in Memories, m.buf[BufLen - 1] = NUL, NEW st \in Stores,
         st.into = "print_buf" /\ st.at = BufLen - 1 => st.char = NUL
  PROVE  Stored(m, st).buf[BufLen - 1] = NUL
<1>1. BufLen - 1 \in 0 .. BufLen - 1 BY Sizes
<1>2. st.at \in 0 .. BufLen - 1 /\ (st.into = "print_buf" \/ st.into = "int_len")
  BY DEF Stores
<1> QED BY <1>1, <1>2 DEF Stored, Memories

\* All the stores of a conversion at once, as the serial handler does them.
LEMMA FoldedRight ==
  ASSUME NEW m \in Memories, NEW sts, NEW W, IsConversion(sts, W)
  PROVE  LET after == FoldLeft(Stored, m, sts)
         IN  /\ after \in Memories
             /\ \A q \in 0 .. Len(W) : after.buf[q] = CharAt(W, q)
             /\ after.len = Len(W) \/ sts = Zero
             /\ m.buf[BufLen - 1] = NUL => after.buf[BufLen - 1] = NUL
<1> DEFINE n == Len(sts)
           after == FoldLeft(Stored, m, sts)
           todo(i) == {sts[j] : j \in i + 1 .. n}
<1>1. W \in Seq(Chars) /\ Len(W) \in 1 .. BufLen - 1 /\ sts \in Seq(Stores)
  BY DEF IsConversion
<1>2. n \in Nat /\ DOMAIN sts = 1 .. n /\ Range(sts) = {sts[j] : j \in 1 .. n}
  BY <1>1 DEF Range
<1>3. PICK r : IsRun(r, m, sts) /\ after = r[n] BY <1>1, FoldIsRun
<1>4. /\ r \in [0 .. n -> Memories] /\ r[0] = m
      /\ \A i \in 1 .. n : r[i] = Stored(r[i - 1], sts[i])
  BY <1>3 DEF IsRun
<1> DEFINE P(i) == /\ Pending(r[i], W, todo(i), sts = Zero)
                   /\ m.buf[BufLen - 1] = NUL => r[i].buf[BufLen - 1] = NUL
           T == {i \in Nat : i <= n => P(i)}
<1>5. 0 \in T
  <2>1. todo(0) = Range(sts) BY <1>2
  <2>2. P(0)
    <3>1. Pending(m, W, Range(sts), sts = Zero) BY PendingStarts, Zenon
    <3> HIDE DEF todo
    <3> QED BY <1>4, <2>1, <3>1, Zenon
  <2> HIDE DEF P
  <2> QED BY <2>2
<1>6. ASSUME NEW i \in Nat, i \in T PROVE i + 1 \in T
  <2>1. SUFFICES ASSUME i + 1 <= n PROVE P(i + 1)
    <3> HIDE DEF P
    <3> QED OBVIOUS
  <2> DEFINE k == i + 1
             st == sts[k]
  <2>2. P(i)
    <3> HIDE DEF P
    <3> QED BY <1>2, <1>6, <2>1
  <2>3. k \in 1 .. n /\ k - 1 = i /\ i \in 0 .. n BY <1>2, <2>1
  <2>4. \A j \in i + 1 .. n : j = k \/ j \in k + 1 .. n BY <1>2, <2>3
  <2>5. \A j \in k + 1 .. n : j \in i + 1 .. n BY <1>2, <2>3
  <2>6. k \in i + 1 .. n BY <1>2, <2>3
  <2>7. st \in todo(i) /\ todo(k) \in SUBSET todo(i) /\ todo(i) \ {st} \subseteq todo(k)
    BY <2>4, <2>5, <2>6
  <2>8. r[i] \in Memories /\ st \in Stores /\ st \in Range(sts) BY <1>1, <1>2, <1>4, <2>3
  <2>9. r[k] = Stored(r[i], st) BY <1>4, <2>3
  <2>10. st.into = "print_buf" /\ st.at = BufLen - 1 => st.char = NUL
    BY <2>8, ConversionEnds DEF Ended
  <2> DEFINE a == todo(i)
             b == todo(k)
             z == (sts = Zero)
  <2>11. Pending(r[i], W, a, z) /\ st \in a /\ b \in SUBSET a /\ a \ {st} \subseteq b
    BY <2>2, <2>7
  <2> HIDE DEF a, b, z, st, k
  <2>12. Pending(Stored(r[i], st), W, b, z) BY <1>1, <2>8, <2>11, PendingStep
  <2>13. m.buf[BufLen - 1] = NUL => Stored(r[i], st).buf[BufLen - 1] = NUL
    BY <2>2, <2>8, <2>10, StoredEnd
  <2> QED BY <2>9, <2>12, <2>13 DEF b, z, k
<1>7. \A i \in Nat : i \in T
  <2> HIDE DEF T
  <2> QED BY <1>5, <1>6, Induct
<1>8. P(n)
  <2>1. n \in T
    <3> HIDE DEF T
    <3> QED BY <1>2, <1>7
  <2> HIDE DEF P
  <2> QED BY <1>2, <2>1
<1>9. todo(n) = {} BY <1>2
<1>10. n \in 0 .. n BY <1>2
<1> HIDE DEF todo
<1> QED BY <1>3, <1>4, <1>8, <1>9, <1>10 DEF Pending

-----------------------------------------------------------------------------
(* Every conversion stores what printf prints.                             *)

\* The numbers ConversionsAsPrintf asks about are numbers.
LEMMA NumberMade ==
  ASSUME NEW c \in Numbers, NEW m \in {"h", "", "l", "q"}, NEW a \in Int
  PROVE  [kind |-> c, mod |-> m, arg |-> a] \in Number
BY DEF Number

\* What ConversionsAsPrintf says of an item.
IsConverted(it, old) ==
  LET before == [buf |-> [i \in 0 .. BufLen - 1 |-> old], len |-> 0]
      after == FoldLeft(Stored, before, Conversion(it))
  IN  /\ \A i \in 1 .. Len(Text(it)) : after.buf[i - 1] = Text(it)[i]
      /\ after.buf[Len(Text(it))] = NUL
      /\ Conversion(it) = Zero \/ after.len = Len(Text(it))

\* It holds of each.
LEMMA ConvertedRight ==
  ASSUME NEW it \in Number, it.kind \in {"d", "u", "x"}, NEW old \in Letters
  PROVE  IsConverted(it, old)
<1> DEFINE before == [buf |-> [i \in 0 .. BufLen - 1 |-> old], len |-> 0]
           sts == Conversion(it)
           W == NumberText(it)
           after == FoldLeft(Stored, before, sts)
<1>0. Text(it) = NumberText(it) BY DEF Text
<1>1. IsConversion(sts, W) BY ConversionRight
<1>2. before \in Memories
  <2>1. old \in Chars BY DEF Chars
  <2> QED BY <2>1, Sizes DEF Memories
<1> HIDE DEF before, sts, W
<1>3. /\ \A q \in 0 .. Len(W) : after.buf[q] = CharAt(W, q)
      /\ after.len = Len(W) \/ sts = Zero
  BY <1>1, <1>2, FoldedRight
<1> HIDE DEF after
<1>4. Len(W) \in Nat BY <1>1 DEF IsConversion
<1>5. \A i \in 1 .. Len(W) : i - 1 \in 0 .. Len(W) /\ i - 1 # Len(W) /\ (i - 1) + 1 = i
  BY <1>4
<1>6. \A i \in 1 .. Len(W) : after.buf[i - 1] = W[i] BY <1>3, <1>5 DEF CharAt
<1>7. Len(W) \in 0 .. Len(W) BY <1>4
<1>8. after.buf[Len(W)] = NUL BY <1>3, <1>7 DEF CharAt
<1> QED BY <1>0, <1>3, <1>6, <1>8 DEF before, sts, W, after, IsConverted

\* So the property holds in every state.
LEMMA ConversionsHold == ConversionsAsPrintf
<1>1. \A c \in {"d", "u", "x"} : c \in Numbers BY DEF Numbers
<1>2. \A a \in Arguments : a \in Int BY PrintkAssumption
<1>3. ASSUME NEW c \in {"d", "u", "x"}, NEW m \in {"h", "", "l", "q"}, NEW a \in Arguments,
             NEW old \in Letters
      PROVE  IsConverted([kind |-> c, mod |-> m, arg |-> a], old)
  <2> DEFINE it == [kind |-> c, mod |-> m, arg |-> a]
  <2>1. it \in Number BY <1>1, <1>2, NumberMade
  <2>2. it.kind \in {"d", "u", "x"} OBVIOUS
  <2> HIDE DEF it
  <2>3. IsConverted(it, old) BY <2>1, <2>2, ConvertedRight
  <2> QED BY <2>3 DEF it
<1> QED BY <1>3 DEF ConversionsAsPrintf, IsConverted

\* Whatever print_buf held before, the stores of every conversion, under every
\* length modifier and of every argument, leave the numeral printf prints.
THEOREM ConversionsRight == Spec => []ConversionsAsPrintf
BY ConversionsHold, PTL

-----------------------------------------------------------------------------
(* Type correctness.                                                       *)

\* Inside the format, the part printk is at is a piece of its item.
LEMMA ThisIs ==
  ASSUME TypeInv, item <= Len(fmt)
  PROVE  /\ item \in 1 .. Len(fmt) /\ fmt[item] \in Items
         /\ part \in DOMAIN Parts(fmt[item])
         /\ IsPiece(this, fmt[item])
<1>1. item \in 1 .. Len(fmt) /\ fmt[item] \in Items BY DEF TypeInv
<1>2. part \in DOMAIN Parts(fmt[item]) BY DEF TypeInv
<1>3. \A i \in 1 .. Len(fmt) : \A p \in DOMAIN Parts(fmt[i]) : IsPiece(Parts(fmt[i])[p], fmt[i])
  <2>1. fmt \in Seq(Items) BY DEF TypeInv
  <2> QED BY <2>1, AheadIs DEF Follows
<1> QED BY <1>1, <1>2, <1>3 DEF this

\* Reading a string stays inside it or inside print_buf, where a NUL ends it.
LEMMA ReadType ==
  ASSUME TypeInv, item <= Len(fmt)
  PROVE  /\ End \in Nat
         /\ \A p \in 0 .. End : Read(p) \in Chars \cup {NUL} /\ (p = End => Read(p) = NUL)
<1>1. IsPiece(this, fmt[item]) BY ThisIs
<1>2. CASE this.kind \in Numbers
  <2>1. End = BufLen - 1 /\ \A p : Read(p) = print_buf[p] BY <1>2 DEF End, Read
  <2>2. print_buf \in [0 .. BufLen - 1 -> Chars \cup {NUL}] /\ print_buf[BufLen - 1] = NUL
    BY DEF TypeInv, Memories, memory
  <2> QED BY <2>1, <2>2, Sizes
<1>3. CASE this.kind \notin Numbers
  <2>1. End = Len(this.text) /\ this.text \in Seq(Chars) BY <1>1, <1>3 DEF End, IsPiece
  <2>2. \A p : p < Len(this.text) => Read(p) = this.text[p + 1] BY <1>3 DEF Read
  <2>3. \A p : ~(p < Len(this.text)) => Read(p) = NUL BY <1>3 DEF Read
  <2>4. \A p \in 0 .. Len(this.text) :
          \/ p < Len(this.text) /\ p + 1 \in 1 .. Len(this.text) /\ p # Len(this.text)
          \/ p = Len(this.text) /\ ~(p < Len(this.text))
    BY <2>1
  <2>5. \A p \in 0 .. End : Read(p) \in Chars \cup {NUL} /\ (p = End => Read(p) = NUL)
    <3> TAKE p \in 0 .. End
    <3>1. CASE p < Len(this.text) /\ p + 1 \in 1 .. Len(this.text) /\ p # Len(this.text)
      BY <2>1, <2>2, <3>1
    <3>2. CASE p = Len(this.text) /\ ~(p < Len(this.text)) BY <2>3, <3>2
    <3> QED BY <2>1, <2>4, <3>1, <3>2
  <2> QED BY <2>1, <2>5
<1> QED BY <1>2, <1>3

\* The types hold initially.
LEMMA InitType == Init => TypeInv
<1> SUFFICES ASSUME Init PROVE TypeInv OBVIOUS
<1>1. fmt \in Seq(Items) /\ item \in 1 .. Len(fmt) + 1 /\ ~(item <= Len(fmt)) BY DEF Init
<1>2. memory \in Memories /\ print_buf[BufLen - 1] = NUL
  BY Sizes DEF Init, memory, Memories
<1>3. stores \in Seq(Stores) /\ Ended(stores) BY DEF Init, Ended, Range
<1>4. asked \in Seq(Chars) /\ screen \in Outputs /\ serial \in Outputs BY DEF Init, Outputs
<1> QED BY <1>1, <1>2, <1>3, <1>4 DEF Init, TypeInv

\* Call keeps the types.
LEMMA CallType == ASSUME TypeInv, NEW f \in Formats, Call(f) PROVE TypeInv'
<1>1. f \in Seq(Items) BY PrintkAssumption DEF Items
<1>2. part' \in IF item' <= Len(fmt') THEN DOMAIN Parts(fmt'[item']) ELSE {1}
  <2>1. CASE 1 <= Len(f)
    <3>1. f[1] \in Items BY <1>1, <2>1
    <3>2. 1 \in DOMAIN Parts(f[1]) BY <3>1, PiecesAre
    <3> QED BY <2>1, <3>2 DEF Call
  <2>2. CASE ~(1 <= Len(f)) BY <2>2 DEF Call
  <2> QED BY <2>1, <2>2
<1>3. item' \in 1 .. Len(fmt') + 1 BY <1>1 DEF Call
<1>4. asked' \in Seq(Chars)
  <2>1. AllText(f) \in Seq(Chars)
    <3>1. 1 \in 1 .. Len(f) + 1 BY <1>1
    <3> QED BY <1>1, <3>1, LeftIs
  <2> QED BY <2>1, ConcatProperties DEF Call, TypeInv
<1>5. memory' = memory BY DEF Call, memory, bufVars
<1> QED BY <1>1, <1>2, <1>3, <1>4, <1>5 DEF Call, TypeInv, Ended, bufVars, outVars

\* Item keeps the types.
LEMMA ItemType == ASSUME TypeInv, Item PROVE TypeInv'
<1>1. item <= Len(fmt) /\ pc = "item" /\ stores = << >> BY DEF Item, TypeInv
<1>2. IsPiece(this, fmt[item]) /\ End \in Nat BY <1>1, ThisIs, ReadType
<1>3. this' = this /\ memory' = memory /\ End' = End
  BY DEF Item, this, memory, End, bufVars, callVars, placeVars
<1>4. stores' \in Seq(Stores) /\ Ended(stores') /\ ((pc' = "store") = (stores' # << >>))
      /\ pc' \in {"store", "screen"} /\ (pc' = "store" => this.kind \in Numbers)
  <2>1. CASE this.kind \in Numbers
    <3>1. this \in Number BY <1>2, <2>1 DEF IsPiece
    <3>2. pc' = "store" /\ stores' = Conversion(this) BY <2>1 DEF Item
    <3>3. IsConversion(Conversion(this), NumberText(this)) BY <3>1, ConversionRight
    <3>4. Ended(Conversion(this)) BY <3>3, ConversionEnds
    <3> QED BY <2>1, <3>2, <3>3, <3>4 DEF IsConversion
  <2>2. CASE this.kind \notin Numbers
    <3>1. pc' = "screen" /\ stores' = stores BY <2>2 DEF Item
    <3> QED BY <1>1, <2>2, <3>1 DEF TypeInv
  <2> QED BY <2>1, <2>2
<1> QED BY <1>1, <1>2, <1>3, <1>4 DEF Item, TypeInv, callVars, placeVars, bufVars, outVars

\* Return keeps the types.
LEMMA ReturnType == ASSUME TypeInv, Return PROVE TypeInv'
<1>1. memory' = memory BY DEF Return, memory, bufVars
<1> QED BY <1>1 DEF Return, TypeInv, callVars, placeVars, bufVars, outVars, Ended

\* The first of some stores, and the others.
LEMMA TailRange ==
  ASSUME NEW s \in Seq(Stores), s # << >>
  PROVE  /\ Head(s) \in Stores /\ Tail(s) \in Seq(Stores) /\ Head(s) \in Range(s)
         /\ Range(Tail(s)) \subseteq Range(s)
         /\ Range(s) \ {Head(s)} \subseteq Range(Tail(s))
         /\ (Tail(s) # << >>) = (Len(s) # 1)
<1> DEFINE t == Tail(s)
<1>1. /\ Head(s) \in Stores /\ t \in Seq(Stores) /\ Head(s) = s[1]
      /\ Len(t) = Len(s) - 1 /\ Len(s) \in Nat \ {0}
      /\ \A i \in 1 .. Len(s) - 1 : t[i] = s[i + 1]
  BY HeadTailProperties
<1> HIDE DEF t
<1>2. DOMAIN s = 1 .. Len(s) /\ DOMAIN t = 1 .. Len(s) - 1 BY <1>1
<1>3. Head(s) \in Range(s)
  <2>1. 1 \in 1 .. Len(s) BY <1>1
  <2> QED BY <1>1, <1>2, <2>1 DEF Range
<1>4. Range(t) \subseteq Range(s)
  <2>1. \A i \in 1 .. Len(s) - 1 : i + 1 \in 1 .. Len(s) BY <1>1
  <2> QED BY <1>1, <1>2, <2>1 DEF Range
<1>5. ASSUME NEW x \in Range(s), x # Head(s) PROVE x \in Range(t)
  <2>1. PICK i \in 1 .. Len(s) : x = s[i] BY <1>2 DEF Range
  <2>2. i # 1 BY <1>1, <1>5, <2>1
  <2>3. i - 1 \in 1 .. Len(s) - 1 /\ (i - 1) + 1 = i BY <1>1, <2>2
  <2>4. t[i - 1] = x BY <1>1, <2>1, <2>3
  <2> QED BY <1>2, <2>3, <2>4 DEF Range
<1>6. (t # << >>) = (Len(s) # 1)
  <2>1. t = << >> <=> Len(t) = 0 BY <1>1
  <2> QED BY <1>1, <2>1
<1> QED BY <1>1, <1>3, <1>4, <1>5, <1>6 DEF t

\* What Store does.
LEMMA StoreIs ==
  ASSUME TypeInv, Store
  PROVE  /\ memory' = Stored(memory, Head(stores))
         /\ Head(stores) \in Range(stores) /\ Head(stores) \in Stores
         /\ stores' \in Seq(Stores) /\ Range(stores') \subseteq Range(stores)
         /\ Range(stores) \ {Head(stores)} \subseteq Range(stores')
         /\ pc = "store" /\ pc' \in {"store", "screen"} /\ ((pc' = "store") = (stores' # << >>))
         /\ UNCHANGED <<callVars, placeVars, pos, length, num_printed, handlerVars, outVars, torn>>
<1>1. pc = "store" /\ stores \in Seq(Stores) /\ stores # << >> /\ memory \in Memories
  BY DEF Store, TypeInv
<1>2. stores' = Tail(stores) /\ pc' = IF Len(stores) = 1 THEN "screen" ELSE "store"
  BY DEF Store
<1>3. (pc' = "store") = (stores' # << >>) /\ pc' \in {"store", "screen"}
  BY <1>1, <1>2, TailRange
<1>4. memory' = Stored(memory, Head(stores))
  <2>1. Stored(memory, Head(stores)) \in Memories BY <1>1, TailRange, StoredType
  <2>2. memory' = [buf |-> Stored(memory, Head(stores)).buf, len |-> Stored(memory, Head(stores)).len]
    BY DEF Store, memory
  <2> QED BY <2>1, <2>2 DEF Memories
<1> QED BY <1>1, <1>2, <1>3, <1>4, TailRange DEF Store

\* What the place in the format decides.
LEMMA SameThis ==
  ASSUME UNCHANGED <<callVars, placeVars>>
  PROVE  /\ this' = this
         /\ End' = End
         /\ fmt' = fmt
         /\ item' = item
         /\ part' = part
         /\ asked' = asked
BY DEF callVars, placeVars, this, End

\* What the buffers decide.
LEMMA SameMemory ==
  ASSUME UNCHANGED bufVars
  PROVE  memory' = memory /\ print_buf' = print_buf /\ int_len' = int_len
BY DEF bufVars, memory

\* Store keeps the types.
LEMMA StoreType == ASSUME TypeInv, Store PROVE TypeInv'
<1>1. /\ this' = this
      /\ End' = End
      /\ fmt' = fmt
      /\ item' = item
      /\ part' = part
      /\ asked' = asked
  BY StoreIs, SameThis
<1>2. memory' \in Memories BY StoreIs, StoredType DEF TypeInv
<1>3. print_buf'[BufLen - 1] = NUL
  <2>1. memory'.buf = print_buf' /\ memory.buf = print_buf BY DEF memory
  <2>2. Head(stores).into = "print_buf" /\ Head(stores).at = BufLen - 1 => Head(stores).char = NUL
    BY StoreIs DEF TypeInv, Ended
  <2> QED BY <2>1, <2>2, StoreIs, StoredEnd DEF TypeInv
<1>4. Ended(stores') BY StoreIs DEF TypeInv, Ended
<1>5. End \in Nat /\ 0 \in 0 .. End
  <2>1. item <= Len(fmt) BY StoreIs DEF TypeInv
  <2>2. End \in Nat BY <2>1, ReadType
  <2> QED BY <2>2
<1>6. /\ pos' = 0
      /\ length' = 0
      /\ num_printed' = num_printed
      /\ screen' = screen
      /\ serial' = serial
  BY StoreIs DEF TypeInv, outVars
<1> QED BY <1>1, <1>2, <1>3, <1>4, <1>5, <1>6, StoreIs DEF TypeInv

\* ToScreen keeps the types.
LEMMA ToScreenType == ASSUME TypeInv, ToScreen PROVE TypeInv'
<1>1. /\ this' = this
      /\ End' = End
      /\ fmt' = fmt
      /\ item' = item
      /\ part' = part
      /\ asked' = asked
  BY SameThis DEF ToScreen
<1>2. memory' = memory /\ print_buf' = print_buf BY SameMemory DEF ToScreen
<1>3. /\ item <= Len(fmt)
      /\ pc = "screen"
      /\ pos \in 0 .. End
      /\ length = 0
      /\ screen \in Outputs
  BY DEF ToScreen, TypeInv
<1>4. End \in Nat /\ Read(pos) \in Chars \cup {NUL} /\ (pos = End => Read(pos) = NUL)
  BY <1>3, ReadType
<1>5. CASE Read(pos) = NUL
  <2>1. pc' = "length" /\ pos' = pos /\ screen' = screen BY <1>5 DEF ToScreen
  <2> QED BY <1>1, <1>2, <1>3, <1>4, <2>1 DEF ToScreen, TypeInv, Ended
<1>6. CASE Read(pos) # NUL
  <2> DEFINE c == Read(pos)
  <2>1. /\ pc' = "screen"
        /\ pos' = pos + 1
        /\ screen' = [screen EXCEPT !.kernel = Append(@, c)]
    BY <1>3, <1>6 DEF ToScreen
  <2>2. pos' \in 0 .. End BY <1>3, <1>4, <1>6, <2>1
  <2>3. screen' \in Outputs
    <3>1. c \in Chars \cup {NUL} BY <1>4
    <3> HIDE DEF c
    <3>2. Append(screen.kernel, c) \in Seq(Chars \cup {NUL}) BY <1>3, <3>1 DEF Outputs
    <3> QED BY <1>3, <2>1, <3>2 DEF Outputs
  <2> QED BY <1>1, <1>2, <1>3, <2>1, <2>2, <2>3 DEF ToScreen, TypeInv, Ended
<1> QED BY <1>5, <1>6

\* StrLen keeps the types.
LEMMA StrLenType == ASSUME TypeInv, StrLen PROVE TypeInv'
<1>1. /\ this' = this
      /\ End' = End
      /\ fmt' = fmt
      /\ item' = item
      /\ part' = part
      /\ asked' = asked
  BY SameThis DEF StrLen
<1>2. memory' = memory /\ print_buf' = print_buf /\ screen' = screen /\ serial' = serial
  BY SameMemory DEF StrLen, outVars
<1>3. item <= Len(fmt) /\ pc = "length" /\ pos \in 0 .. End /\ length \in 0 .. End
  BY DEF StrLen, TypeInv
<1>4. End \in Nat /\ (length = End => Read(length) = NUL) BY <1>3, ReadType
<1>5. pc' \in {"length", "serial"} /\ length' \in 0 .. End /\ pos' = pos
  <2>1. CASE Read(length) = NUL BY <1>3, <2>1 DEF StrLen
  <2>2. CASE Read(length) # NUL
    <3>1. length' = length + 1 /\ pc' = pc BY <2>2 DEF StrLen
    <3> QED BY <1>3, <1>4, <2>2, <3>1 DEF StrLen
  <2> QED BY <2>1, <2>2
<1> QED BY <1>1, <1>2, <1>3, <1>5 DEF StrLen, TypeInv, Ended

\* ToSerial keeps the types.
LEMMA ToSerialType == ASSUME TypeInv, ToSerial PROVE TypeInv'
<1>1. /\ this' = this
      /\ End' = End
      /\ fmt' = fmt
      /\ item' = item
      /\ part' = part
      /\ asked' = asked
  BY SameThis DEF ToSerial
<1>2. memory' = memory /\ print_buf' = print_buf BY SameMemory DEF ToSerial
<1>3. item <= Len(fmt) /\ pc = "serial" /\ length \in 0 .. End /\ serial \in Outputs
  BY DEF ToSerial, TypeInv
<1>4. End \in Nat /\ \A p \in 0 .. End : Read(p) \in Chars \cup {NUL} BY <1>3, ReadType
<1>5. serial' \in Outputs
  <2> DEFINE t == [i \in 1 .. length |-> Read(i - 1)]
  <2>1. \A i \in 1 .. length : i - 1 \in 0 .. End BY <1>3, <1>4
  <2>2. t \in [1 .. length -> Chars \cup {NUL}] BY <1>4, <2>1
  <2>3. length \in Nat BY <1>3, <1>4
  <2>4. serial' = [serial EXCEPT !.kernel = @ \o t] BY DEF ToSerial
  <2> HIDE DEF t
  <2>5. t \in Seq(Chars \cup {NUL}) BY <2>2, <2>3
  <2>6. serial.kernel \o t \in Seq(Chars \cup {NUL})
    BY <1>3, <2>5, ConcatProperties DEF Outputs
  <2> QED BY <1>3, <2>4, <2>6 DEF Outputs
<1> QED BY <1>1, <1>2, <1>3, <1>5 DEF ToSerial, TypeInv, Ended

\* Count keeps the types.
LEMMA CountType == ASSUME TypeInv, Count PROVE TypeInv'
<1>1. item <= Len(fmt) /\ fmt \in Seq(Items) BY DEF Count, TypeInv
<1>2. /\ item \in 1 .. Len(fmt) /\ fmt[item] \in Items /\ part \in DOMAIN Parts(fmt[item])
      /\ IsPiece(this, fmt[item])
  BY <1>1, ThisIs
<1>3. fmt' = fmt /\ asked' = asked /\ memory' = memory /\ print_buf' = print_buf
      /\ screen' = screen /\ serial' = serial /\ stores' = stores
  BY SameMemory DEF Count, callVars, outVars
<1>4. item' \in 1 .. Len(fmt) + 1
      /\ part' \in IF item' <= Len(fmt) THEN DOMAIN Parts(fmt[item']) ELSE {1}
  <2>1. CASE part < Len(Parts(fmt[item]))
    <3>1. item' = item /\ part' = part + 1 BY <2>1 DEF Count
    <3>2. Follows(fmt, item, part) BY <1>1, <1>2, AheadIs
    <3> QED BY <1>1, <1>2, <2>1, <3>1, <3>2 DEF Follows
  <2>2. CASE ~(part < Len(Parts(fmt[item])))
    <3>1. item' = item + 1 /\ part' = 1 BY <2>2 DEF Count
    <3>2. CASE item + 1 <= Len(fmt)
      <4>1. fmt[item + 1] \in Items BY <1>1, <1>2, <3>2
      <4>2. 1 \in DOMAIN Parts(fmt[item + 1]) BY <4>1, PiecesAre
      <4> QED BY <1>1, <1>2, <3>1, <3>2, <4>2
    <3>3. CASE ~(item + 1 <= Len(fmt)) BY <1>1, <1>2, <3>1, <3>3
    <3> QED BY <3>2, <3>3
  <2> QED BY <2>1, <2>2
<1>5. num_printed' \in Nat
  <2>1. int_len \in Nat BY Sizes DEF TypeInv, memory, Memories
  <2>2. this.kind \notin Numbers => Len(this.text) \in Nat BY <1>2 DEF IsPiece
  <2> QED BY <2>1, <2>2 DEF Count, TypeInv
<1> QED BY <1>3, <1>4, <1>5 DEF Count, TypeInv, Ended

\* What a handler prints is not what the kernel printed.
LEMMA PrintingType ==
  ASSUME TypeInv, NEW text \in Seq(Chars), HandlerPrints(text)
  PROVE  /\ screen' \in Outputs /\ screen'.kernel = screen.kernel
         /\ serial' \in Outputs /\ serial'.kernel = serial.kernel
<1>1. screen \in Outputs /\ serial \in Outputs BY DEF TypeInv
<1>2. screen.handlers \o text \in Seq(Chars) /\ serial.handlers \o text \in Seq(Chars)
  BY <1>1, ConcatProperties DEF Outputs
<1> QED BY <1>1, <1>2 DEF HandlerPrints, Outputs

\* What the keyboard handler prints.
LEMMA KeyIs ==
  ASSUME TypeInv, KeyInterrupt
  PROVE  /\ screen' \in Outputs /\ screen'.kernel = screen.kernel
         /\ serial' \in Outputs /\ serial'.kernel = serial.kernel
<1>1. PICK c \in Letters : HandlerPrints(<<c>>) BY DEF KeyInterrupt
<1>2. <<c>> \in Seq(Chars)
  <2>1. <<c>> \in Seq(Letters) OBVIOUS
  <2> QED BY <2>1, TextChars
<1> QED BY <1>1, <1>2, PrintingType

\* The keyboard handler keeps the types.
LEMMA KeyType == ASSUME TypeInv, KeyInterrupt PROVE TypeInv'
<1>1. /\ this' = this
      /\ End' = End
      /\ fmt' = fmt
      /\ item' = item
      /\ part' = part
      /\ asked' = asked
  BY SameThis DEF KeyInterrupt
<1>2. memory' = memory /\ print_buf' = print_buf BY SameMemory DEF KeyInterrupt
<1> QED BY <1>1, <1>2, KeyIs DEF KeyInterrupt, TypeInv, Ended

\* The serial handler prints a number.
LEMMA LsrNumber ==
  ASSUME NEW lsr \in LsrValues
  PROVE  LET it == [kind |-> "x", mod |-> "", arg |-> lsr]
         IN  it \in Number /\ it \in Items
<1>1. lsr \in Int
  <2>1. lsr \in Nat BY PrintkAssumption
  <2> QED BY <2>1
<1> QED BY <1>1 DEF Number, Numbers, Items

\* What the serial handler prints, and leaves in print_buf: always a NUL at the end.
LEMMA ErrorIs ==
  ASSUME TypeInv, LineErrorInterrupt
  PROVE  /\ memory' \in Memories /\ print_buf'[BufLen - 1] = NUL
         /\ screen' \in Outputs /\ screen'.kernel = screen.kernel
         /\ serial' \in Outputs /\ serial'.kernel = serial.kernel
<1>1. \E it \in Items : it \in Number /\ HandlerPrints(Text(it))
                        /\ print_buf' = FoldLeft(Stored, memory, Conversion(it)).buf
                        /\ int_len' = FoldLeft(Stored, memory, Conversion(it)).len
  BY LsrNumber DEF LineErrorInterrupt
<1>2. PICK it \in Items : it \in Number /\ HandlerPrints(Text(it))
                          /\ print_buf' = FoldLeft(Stored, memory, Conversion(it)).buf
                          /\ int_len' = FoldLeft(Stored, memory, Conversion(it)).len
  BY <1>1
<1> DEFINE after == FoldLeft(Stored, memory, Conversion(it))
<1>3. IsConversion(Conversion(it), NumberText(it)) BY <1>2, ConversionRight
<1>4. memory \in Memories /\ memory.buf[BufLen - 1] = NUL BY DEF TypeInv, memory
<1>5. after \in Memories /\ after.buf[BufLen - 1] = NUL BY <1>3, <1>4, FoldedRight
<1>6. memory' = after /\ print_buf' = after.buf BY <1>2, <1>5 DEF memory, Memories
<1>7. Text(it) \in Seq(Chars) BY PiecesAre
<1> QED BY <1>2, <1>5, <1>6, <1>7, PrintingType

\* The serial handler keeps the types.
LEMMA ErrorType == ASSUME TypeInv, LineErrorInterrupt PROVE TypeInv'
<1>1. /\ this' = this
      /\ End' = End
      /\ fmt' = fmt
      /\ item' = item
      /\ part' = part
      /\ asked' = asked
  BY SameThis DEF LineErrorInterrupt
<1> QED BY <1>1, ErrorIs DEF LineErrorInterrupt, TypeInv, Ended

\* So does a stuttering step.
LEMMA StutterType == ASSUME TypeInv, UNCHANGED vars PROVE TypeInv'
BY
  DEF vars, callVars, placeVars, bufVars, handlerVars, outVars, TypeInv, Ended, this, memory, End

-----------------------------------------------------------------------------
(* Without a torn numeral, the steps of the kernel.                        *)

\* What is read of a string, once its numeral is complete.
LEMMA ReadIs ==
  ASSUME TypeInv, NumberInv, pc \in {"screen", "length", "serial", "count"}
  PROVE  /\ String(this) \in Seq(Chars)
         /\ \A q \in 0 .. Len(String(this)) : Read(q) = CharAt(String(this), q)
<1>1. item <= Len(fmt) /\ stores = << >> BY DEF TypeInv
<1>2. IsPiece(this, fmt[item]) BY <1>1, ThisIs
<1>3. CASE this.kind \in Numbers
  <2>1. Range(stores) = {} BY <1>1 DEF Range
  <2>2. Pending(memory, NumberText(this), {}, Conversion(this) = Zero)
    BY <1>3, <2>1 DEF NumberInv
  <2>3. \A q : Read(q) = memory.buf[q] BY <1>3 DEF Read, memory
  <2> QED BY <1>2, <1>3, <2>2, <2>3 DEF Pending, IsPiece
<1>4. CASE this.kind \notin Numbers
  <2> DEFINE t == this.text
  <2>1. String(this) = t /\ t \in Seq(Chars) BY <1>2, <1>4 DEF IsPiece
  <2>2. \A q : q < Len(t) => Read(q) = t[q + 1] BY <1>4 DEF Read
  <2>3. \A q : ~(q < Len(t)) => Read(q) = NUL BY <1>4 DEF Read
  <2> HIDE DEF t
  <2>4. \A q \in 0 .. Len(t) : (q < Len(t) /\ q # Len(t)) \/ q = Len(t) BY <2>1
  <2>5. ~(Len(t) < Len(t)) BY <2>1
  <2>6. \A q \in 0 .. Len(t) : Read(q) = CharAt(t, q) BY <2>2, <2>3, <2>4, <2>5 DEF CharAt
  <2> QED BY <2>1, <2>6
<1> QED BY <1>3, <1>4

\* What is ahead of printk inside the format.
LEMMA PlaceIs ==
  ASSUME TypeInv, item <= Len(fmt)
  PROVE  /\ Follows(fmt, item, part)
         /\ Ahead(fmt, item, part) = String(this) \o After(fmt, item, part)
         /\ String(this) \in Seq(Chars) /\ After(fmt, item, part) \in Seq(Chars)
<1>1. item \in 1 .. Len(fmt) /\ part \in DOMAIN Parts(fmt[item]) /\ IsPiece(this, fmt[item])
  BY ThisIs
<1>2. Follows(fmt, item, part) BY <1>1, AheadIs DEF TypeInv
<1> QED BY <1>1, <1>2 DEF Follows, IsPiece, this

\* Good holds initially.
LEMMA InitGood == Init => Good
<1> SUFFICES ASSUME Init PROVE Good OBVIOUS
<1>1. AllText(fmt) = << >>
  <2>1. [i \in 1 .. Len(fmt) |-> Text(fmt[i])] = << >> BY DEF Init
  <2> QED BY <2>1, FlattenEmpty DEF AllText
<1>2. ScreenLeft = << >> /\ SerialLeft = << >> BY DEF Init, ScreenLeft, SerialLeft
<1>3. << >> \o << >> = << >> OBVIOUS
<1> QED BY <1>1, <1>2, <1>3 DEF Init, Good, NumberInv, OutputInv, CountInv

\* Call keeps it.
LEMMA CallGood == ASSUME TypeInv, Good, NEW f \in Formats, Call(f) PROVE Good'
<1>1. f \in Seq(Items) BY PrintkAssumption DEF Items
<1>2. Ahead(f, 1, 1) = AllText(f) BY <1>1, AheadIs
<1>3. AllText(f) \in Seq(Chars)
  <2>1. 1 \in 1 .. Len(f) + 1 BY <1>1
  <2> QED BY <1>1, <2>1, LeftIs
<1>4. screen.kernel = asked /\ serial.kernel = asked
  <2>1. ScreenLeft = << >> /\ SerialLeft = << >> BY DEF Call, ScreenLeft, SerialLeft
  <2>2. screen.kernel \in Seq(Chars \cup {NUL}) /\ serial.kernel \in Seq(Chars \cup {NUL})
    BY DEF TypeInv, Outputs
  <2> QED BY <2>1, <2>2, ConcatEmptySeq DEF Good, OutputInv
<1>5. /\ pc' = "item"
      /\ fmt' = f
      /\ item' = 1
      /\ part' = 1
      /\ asked' = asked \o AllText(f)
      /\ num_printed' = 0
      /\ screen' = screen /\ serial' = serial
  BY DEF Call, outVars
<1>6. ScreenLeft' = AllText(f) /\ SerialLeft' = AllText(f)
  BY <1>2, <1>5 DEF ScreenLeft, SerialLeft
<1>7. OutputInv' BY <1>4, <1>5, <1>6 DEF OutputInv
<1>8. CountInv'
  <2>1. Len(AllText(f)) \in Nat BY <1>3
  <2> QED BY <1>2, <1>5, <2>1 DEF CountInv
<1>9. NumberInv' BY <1>5 DEF NumberInv
<1> QED BY <1>7, <1>8, <1>9 DEF Good

\* The count of characters depends on the place in the format.
LEMMA SameCount ==
  ASSUME UNCHANGED <<fmt, item, part, num_printed>>, (pc = "idle") = (pc' = "idle"), CountInv
  PROVE  CountInv'
BY DEF CountInv

\* Item keeps it.
LEMMA ItemGood == ASSUME TypeInv, Good, Item PROVE Good'
<1>1. item <= Len(fmt) /\ pc = "item" /\ stores = << >> BY DEF Item, TypeInv
<1>2. IsPiece(this, fmt[item]) BY <1>1, ThisIs
<1>3. this' = this /\ memory' = memory /\ fmt' = fmt /\ item' = item /\ part' = part
      /\ asked' = asked
      /\ screen' = screen
      /\ serial' = serial
      /\ num_printed' = num_printed
  BY SameThis, SameMemory DEF Item, callVars, outVars
<1>4. pc' \in {"store", "screen"} /\ pos' = 0 BY DEF Item
<1>5. CASE this.kind \in Numbers
  <2>1. this \in Number BY <1>2, <1>5 DEF IsPiece
  <2>2. pc' = "store" /\ stores' = Conversion(this) BY <1>5 DEF Item
  <2>3. IsConversion(Conversion(this), NumberText(this)) BY <2>1, ConversionRight
  <2>4. Pending(memory, NumberText(this), Range(stores'), Conversion(this) = Zero)
    BY <2>2, <2>3, PendingStarts
  <2>5. NumberInv' BY <1>3, <2>4 DEF NumberInv
  <2>6. ScreenLeft' = Ahead(fmt, item, part) /\ SerialLeft' = Ahead(fmt, item, part)
    BY <1>3, <2>2 DEF ScreenLeft, SerialLeft
  <2>7. ScreenLeft = Ahead(fmt, item, part) /\ SerialLeft = Ahead(fmt, item, part)
    BY <1>1 DEF ScreenLeft, SerialLeft
  <2>8. OutputInv' BY <1>3, <2>2, <2>6, <2>7 DEF OutputInv, Good
  <2>9. CountInv' BY <1>1, <1>3, <2>2, SameCount DEF Good
  <2> QED BY <2>5, <2>8, <2>9 DEF Good
<1>6. CASE this.kind \notin Numbers
  <2>1. pc' = "screen" BY <1>6 DEF Item
  <2>2. NumberInv' BY <1>3, <1>6 DEF NumberInv
  <2>3. String(this) \in Seq(Chars) BY <1>1, PlaceIs
  <2>4. SubSeq(String(this), 0 + 1, Len(String(this))) = String(this) BY <2>3, SubSeqFull
  <2>5. ScreenLeft' = Ahead(fmt, item, part) /\ SerialLeft' = Ahead(fmt, item, part)
    BY <1>1, <1>3, <1>4, <2>1, <2>4, PlaceIs DEF ScreenLeft, SerialLeft
  <2>6. ScreenLeft = Ahead(fmt, item, part) /\ SerialLeft = Ahead(fmt, item, part)
    BY <1>1 DEF ScreenLeft, SerialLeft
  <2>7. 0 <= Len(String(this)) BY <2>3
  <2>8. OutputInv' BY <1>3, <1>4, <2>1, <2>5, <2>6, <2>7 DEF OutputInv, Good
  <2>9. CountInv' BY <1>1, <1>3, <2>1, SameCount DEF Good
  <2> QED BY <2>2, <2>8, <2>9 DEF Good
<1> QED BY <1>5, <1>6

\* Return keeps it.
LEMMA ReturnGood == ASSUME TypeInv, Good, Return PROVE Good'
<1>1. /\ pc = "item" /\ pc' = "idle" /\ ~(item <= Len(fmt)) /\ fmt' = fmt /\ asked' = asked
      /\ screen' = screen /\ serial' = serial /\ num_printed' = num_printed
  <2>1. item \in Nat /\ Len(fmt) \in Nat BY DEF TypeInv
  <2> QED BY <2>1 DEF Return, callVars, outVars
<1>2. Ahead(fmt, item, part) = << >> BY <1>1 DEF Ahead
<1>3. ScreenLeft = << >> /\ SerialLeft = << >> BY <1>1, <1>2 DEF ScreenLeft, SerialLeft
<1>4. ScreenLeft' = << >> /\ SerialLeft' = << >> BY <1>1 DEF ScreenLeft, SerialLeft
<1>5. OutputInv' BY <1>1, <1>3, <1>4 DEF OutputInv, Good
<1>6. CountInv' BY <1>1, <1>2 DEF CountInv, Good
<1>7. NumberInv' BY <1>1 DEF NumberInv
<1> QED BY <1>5, <1>6, <1>7 DEF Good

\* Store keeps it: a store of the numeral less is pending.
LEMMA StoreGood == ASSUME TypeInv, Good, Store PROVE Good'
<1>1. /\ pc = "store"
      /\ item <= Len(fmt)
      /\ this.kind \in Numbers
      /\ pos = 0
      /\ memory \in Memories
  BY StoreIs DEF TypeInv
<1>2. this' = this /\ fmt' = fmt /\ item' = item /\ part' = part /\ asked' = asked
  BY StoreIs, SameThis
<1>3. screen' = screen /\ serial' = serial /\ num_printed' = num_printed /\ pos' = 0
  BY <1>1, StoreIs DEF outVars
<1>4. NumberInv'
  <2> DEFINE W == NumberText(this)
             todo == Range(stores)
             rest == Range(stores')
             st == Head(stores)
             z == (Conversion(this) = Zero)
  <2>1. IsPiece(this, fmt[item]) BY <1>1, ThisIs
  <2>2. this \in Number BY <1>1, <2>1 DEF IsPiece
  <2>3. W \in Seq(Chars) /\ Len(W) \in 1 .. BufLen - 1 BY <2>2, NumeralChars
  <2>4. Pending(memory, W, todo, z) BY <1>1 DEF Good, NumberInv
  <2>5. st \in todo /\ rest \in SUBSET todo /\ todo \ {st} \subseteq rest BY StoreIs
  <2> HIDE DEF W, todo, rest, st, z
  <2>6. Pending(Stored(memory, st), W, rest, z) BY <1>1, <2>3, <2>4, <2>5, PendingStep
  <2>7. memory' = Stored(memory, st) BY StoreIs DEF st
  <2> QED BY <1>2, <2>6, <2>7 DEF NumberInv, W, rest, z
<1>5. ScreenLeft = Ahead(fmt, item, part) /\ SerialLeft = Ahead(fmt, item, part)
  BY <1>1 DEF ScreenLeft, SerialLeft
<1>6. String(this) \in Seq(Chars) BY <1>1, PlaceIs
<1>7. SubSeq(String(this), 0 + 1, Len(String(this))) = String(this) BY <1>6, SubSeqFull
<1>8. pc' \in {"store", "screen"} BY StoreIs
<1>9. ScreenLeft' = Ahead(fmt, item, part) /\ SerialLeft' = Ahead(fmt, item, part)
  BY <1>1, <1>2, <1>3, <1>7, <1>8, PlaceIs DEF ScreenLeft, SerialLeft
<1>10. 0 <= Len(String(this)) BY <1>6
<1>11. OutputInv' BY <1>2, <1>3, <1>5, <1>8, <1>9, <1>10 DEF OutputInv, Good
<1>12. CountInv' BY <1>1, <1>2, <1>3, <1>8, SameCount DEF Good
<1> QED BY <1>4, <1>11, <1>12 DEF Good

\* Of a string, the next character is before what is left of it.
LEMMA NextCharacter ==
  ASSUME NEW s \in Seq(Chars), NEW q \in 0 .. Len(s) - 1
  PROVE  /\ s[q + 1] \in Chars
         /\ SubSeq(s, q + 1, Len(s)) = <<s[q + 1]>> \o SubSeq(s, (q + 1) + 1, Len(s))
         /\ SubSeq(s, (q + 1) + 1, Len(s)) \in Seq(Chars)
<1> DEFINE a == SubSeq(s, q + 1, Len(s))
           b == SubSeq(s, (q + 1) + 1, Len(s))
           c == <<s[q + 1]>> \o b
           k == Len(s) - q
<1>1. Len(s) \in Nat /\ q \in Nat /\ q + 1 \in 1 .. Len(s) /\ s[q + 1] \in Chars OBVIOUS
<1>2. a \in Seq(Chars) /\ Len(a) = k /\ \A i \in 1 .. k : a[i] = s[q + i]
  BY <1>1
<1>3. b \in Seq(Chars) /\ Len(b) = k - 1 /\ \A i \in 1 .. k - 1 : b[i] = s[(q + i) + 1]
  BY <1>1
<1> HIDE DEF a, b
<1>4. c \in Seq(Chars) /\ Len(c) = k
      /\ \A i \in 1 .. k : c[i] = IF i = 1 THEN s[q + 1] ELSE b[i - 1]
  BY <1>1, <1>3
<1>5. \A i \in 1 .. k : a[i] = c[i]
  <2> TAKE i \in 1 .. k
  <2>1. CASE i = 1 BY <1>2, <1>4, <2>1
  <2>2. CASE i # 1
    <3>1. i - 1 \in 1 .. k - 1 /\ (q + (i - 1)) + 1 = q + i BY <1>1, <2>2
    <3>2. a[i] = s[q + i] BY <1>2
    <3>3. c[i] = b[i - 1] BY <1>4, <2>2
    <3>4. b[i - 1] = s[(q + (i - 1)) + 1] BY <1>3, <3>1
    <3> QED BY <3>1, <3>2, <3>3, <3>4
  <2> QED BY <2>1, <2>2
<1> HIDE DEF c
<1>6. a = c BY <1>2, <1>4, <1>5, SeqEqual
<1> QED BY <1>1, <1>3, <1>6 DEF a, b, c

\* Nothing is left of a string at its end.
LEMMA SubSeqNone == ASSUME NEW s \in Seq(Chars) PROVE SubSeq(s, Len(s) + 1, Len(s)) = << >>
OBVIOUS

\* ToScreen keeps it.
LEMMA ToScreenGood == ASSUME TypeInv, Good, ToScreen PROVE Good'
<1> DEFINE S == String(this)
           R == After(fmt, item, part)
<1>1. pc = "screen" /\ item <= Len(fmt) /\ length = 0 BY DEF ToScreen, TypeInv
<1>2. this' = this /\ fmt' = fmt /\ item' = item /\ part' = part /\ asked' = asked
      /\ memory' = memory
      /\ stores' = stores
      /\ serial' = serial
      /\ num_printed' = num_printed
  BY SameThis, SameMemory DEF ToScreen
<1>3. S \in Seq(Chars) /\ R \in Seq(Chars) BY <1>1, PlaceIs
<1>4. pos \in 0 .. Len(S)
  <2>1. End \in Nat /\ pos \in 0 .. End BY <1>1, ReadType DEF TypeInv
  <2>2. pos <= Len(S) BY <1>1 DEF Good, OutputInv
  <2> HIDE DEF S
  <2> QED BY <1>3, <2>1, <2>2
<1>5. Read(pos) = CharAt(S, pos) BY <1>1, <1>4, ReadIs DEF Good
<1>6. NumberInv' BY <1>1, <1>2 DEF ToScreen, NumberInv, Good
<1>7. pc' \in {"screen", "length"} BY <1>1 DEF ToScreen
<1>8. CountInv' BY <1>1, <1>2, <1>7, SameCount DEF Good
<1>9. SerialLeft' = SerialLeft BY <1>1, <1>2, <1>7 DEF SerialLeft
<1>10. screen.kernel \o (SubSeq(S, pos + 1, Len(S)) \o R) = asked
  BY <1>1 DEF Good, OutputInv, ScreenLeft
<1>11. CASE pos = Len(S)
  <2>1. Read(pos) = NUL BY <1>5, <1>11 DEF CharAt
  <2>2. pc' = "length" /\ screen' = screen BY <2>1 DEF ToScreen
  <2>3. SubSeq(S, pos + 1, Len(S)) = << >> BY <1>3, <1>11, SubSeqNone
  <2>4. ScreenLeft' = R BY <1>2, <2>2 DEF ScreenLeft
  <2>5. << >> \o R = R BY <1>3, ConcatEmptySeq
  <2>6. screen'.kernel \o ScreenLeft' = asked' BY <1>2, <1>10, <2>2, <2>3, <2>4, <2>5
  <2>7. length' = 0 /\ 0 <= Len(S) BY <1>1, <1>3 DEF ToScreen
  <2>8. OutputInv' BY <1>2, <1>9, <2>2, <2>6, <2>7 DEF OutputInv, Good
  <2> QED BY <1>6, <1>8, <2>8 DEF Good
<1>12. CASE pos # Len(S)
  <2> DEFINE c == S[pos + 1]
             b == SubSeq(S, (pos + 1) + 1, Len(S))
             k == screen.kernel
  <2>1. pos \in 0 .. Len(S) - 1 BY <1>3, <1>4, <1>12
  <2>2. c \in Chars /\ b \in Seq(Chars) /\ SubSeq(S, pos + 1, Len(S)) = <<c>> \o b
    BY <1>3, <2>1, NextCharacter
  <2>3. Read(pos) = c /\ c # NUL BY <1>5, <1>12, <2>2, CharsNotNul DEF CharAt
  <2>4. /\ pc' = "screen"
        /\ pos' = pos + 1
        /\ screen' = [screen EXCEPT !.kernel = Append(k, c)]
    BY <1>1, <2>3 DEF ToScreen
  <2>5. k \in Seq(Chars \cup {NUL}) /\ screen'.kernel = Append(k, c)
    BY <2>4 DEF TypeInv, Outputs
  <2>6. ScreenLeft' = b \o R BY <1>2, <2>4 DEF ScreenLeft
  <2>7. k \o ((<<c>> \o b) \o R) = asked BY <1>10, <2>2
  <2> HIDE DEF c, b, k, R, S
  <2>8. Append(k, c) \o (b \o R) = k \o ((<<c>> \o b) \o R)
    <3> DEFINE X == Chars \cup {NUL}
    <3>1. \A x, y, z \in Seq(X) : (x \o y) \o z = x \o (y \o z) BY ConcatAssociative
    <3>2. <<c>> \in Seq(X) /\ b \in Seq(X) /\ R \in Seq(X) /\ k \in Seq(X)
      <4>1. Chars \subseteq X OBVIOUS
      <4>2. b \in Seq(X) /\ R \in Seq(X) BY <1>3, <2>2, <4>1, SeqMonotonic
      <4>3. <<c>> \in Seq(X) BY <2>2
      <4> QED BY <2>5, <4>2, <4>3
    <3>3. b \o R \in Seq(X)
      <4> HIDE DEF X
      <4> QED BY <3>2, ConcatProperties
    <3>4. Append(k, c) = k \o <<c>>
      <4>1. c \in X BY <2>2
      <4> HIDE DEF X
      <4> QED BY <3>2, <4>1, AppendIsConcat
    <3> HIDE DEF X
    <3>5. (k \o <<c>>) \o (b \o R) = k \o (<<c>> \o (b \o R)) BY <3>1, <3>2, <3>3
    <3>6. (<<c>> \o b) \o R = <<c>> \o (b \o R) BY <3>1, <3>2
    <3> QED BY <3>4, <3>5, <3>6
  <2>9. screen'.kernel \o ScreenLeft' = asked' BY <1>2, <2>5, <2>6, <2>7, <2>8
  <2>10. pos + 1 <= Len(S) BY <1>3, <2>1
  <2>11. OutputInv' BY <1>2, <1>9, <2>4, <2>9, <2>10 DEF OutputInv, Good, S
  <2> QED BY <1>6, <1>8, <2>11 DEF Good
<1> QED BY <1>11, <1>12

\* StrLen keeps it.
LEMMA StrLenGood == ASSUME TypeInv, Good, StrLen PROVE Good'
<1> DEFINE S == String(this)
<1>1. pc = "length" /\ item <= Len(fmt) BY DEF StrLen, TypeInv
<1>2. this' = this /\ fmt' = fmt /\ item' = item /\ part' = part /\ asked' = asked
      /\ memory' = memory /\ stores' = stores /\ screen' = screen /\ serial' = serial
      /\ num_printed' = num_printed
  BY SameThis, SameMemory DEF StrLen, outVars
<1>3. S \in Seq(Chars) BY <1>1, PlaceIs
<1>4. length \in 0 .. Len(S)
  <2>1. End \in Nat /\ length \in 0 .. End BY <1>1, ReadType DEF TypeInv
  <2>2. length <= Len(S) BY <1>1 DEF Good, OutputInv
  <2> HIDE DEF S
  <2> QED BY <1>3, <2>1, <2>2
<1>5. Read(length) = CharAt(S, length) BY <1>1, <1>4, ReadIs DEF Good
<1>6. pc' \in {"length", "serial"} BY <1>1 DEF StrLen
<1>7. NumberInv' BY <1>1, <1>2, <1>6 DEF NumberInv, Good
<1>8. CountInv' BY <1>1, <1>2, <1>6, SameCount DEF Good
<1>9. ScreenLeft' = ScreenLeft /\ SerialLeft' = SerialLeft
  BY <1>1, <1>2, <1>6 DEF ScreenLeft, SerialLeft
<1>10. CASE length = Len(S)
  <2>1. Read(length) = NUL BY <1>5, <1>10 DEF CharAt
  <2>2. pc' = "serial" /\ length' = length BY <2>1 DEF StrLen
  <2>3. OutputInv' BY <1>2, <1>9, <1>10, <2>2 DEF OutputInv, Good
  <2> QED BY <1>7, <1>8, <2>3 DEF Good
<1>11. CASE length # Len(S)
  <2>1. length + 1 \in 1 .. Len(S) /\ length + 1 <= Len(S) BY <1>3, <1>4, <1>11
  <2>2. S[length + 1] \in Chars BY <1>3, <2>1
  <2>3. Read(length) # NUL BY <1>5, <1>11, <2>2, CharsNotNul DEF CharAt
  <2>4. pc' = "length" /\ length' = length + 1 BY <1>1, <2>3 DEF StrLen
  <2>5. OutputInv' BY <1>2, <1>9, <2>1, <2>4 DEF OutputInv, Good
  <2> QED BY <1>7, <1>8, <2>5 DEF Good
<1> QED BY <1>10, <1>11

\* ToSerial keeps it.
LEMMA ToSerialGood == ASSUME TypeInv, Good, ToSerial PROVE Good'
<1> DEFINE S == String(this)
           R == After(fmt, item, part)
           t == [i \in 1 .. length |-> Read(i - 1)]
           k == serial.kernel
<1>1. pc = "serial" /\ pc' = "count" /\ item <= Len(fmt) BY DEF ToSerial, TypeInv
<1>2. this' = this /\ fmt' = fmt /\ item' = item /\ part' = part /\ asked' = asked
      /\ memory' = memory
      /\ stores' = stores
      /\ screen' = screen
      /\ num_printed' = num_printed
      /\ length' = length
  BY SameThis, SameMemory DEF ToSerial
<1>3. S \in Seq(Chars) /\ R \in Seq(Chars) /\ Ahead(fmt, item, part) = S \o R
  BY <1>1, PlaceIs
<1>4. length = Len(S) BY <1>1 DEF Good, OutputInv
<1>5. t = S
  <2>1. \A i \in 1 .. Len(S) : i - 1 \in 0 .. Len(S) /\ i - 1 # Len(S) /\ (i - 1) + 1 = i
    BY <1>3
  <2>2. \A q \in 0 .. Len(S) : Read(q) = CharAt(S, q) BY <1>1, ReadIs DEF Good
  <2>3. \A i \in 1 .. Len(S) : Read(i - 1) = S[i] BY <2>1, <2>2 DEF CharAt
  <2>4. t = [i \in 1 .. Len(S) |-> S[i]] BY <1>4, <2>3
  <2> HIDE DEF S, t
  <2> QED BY <1>3, <2>4
<1>6. serial' = [serial EXCEPT !.kernel = k \o t] BY DEF ToSerial
<1>7. k \in Seq(Chars \cup {NUL}) /\ serial'.kernel = k \o S
  BY <1>5, <1>6 DEF TypeInv, Outputs
<1>8. k \o (S \o R) = asked BY <1>1, <1>3 DEF Good, OutputInv, SerialLeft
<1>9. SerialLeft' = R /\ ScreenLeft' = ScreenLeft BY <1>1, <1>2 DEF SerialLeft, ScreenLeft
<1>10. (k \o S) \o R = k \o (S \o R)
  <2> DEFINE X == Chars \cup {NUL}
  <2>1. \A x, y, z \in Seq(X) : (x \o y) \o z = x \o (y \o z) BY ConcatAssociative
  <2>2. Chars \subseteq X OBVIOUS
  <2> HIDE DEF S, R, k
  <2>3. S \in Seq(X) /\ R \in Seq(X) BY <1>3, <2>2, SeqMonotonic
  <2> QED BY <1>7, <2>1, <2>3
<1>11. OutputInv' BY <1>1, <1>2, <1>4, <1>7, <1>8, <1>9, <1>10 DEF OutputInv, Good
<1>12. NumberInv' BY <1>1, <1>2 DEF NumberInv, Good
<1>13. CountInv' BY <1>1, <1>2, SameCount DEF Good
<1> QED BY <1>11, <1>12, <1>13 DEF Good

\* Count keeps it.
LEMMA CountGood == ASSUME TypeInv, Good, Count PROVE Good'
<1> DEFINE S == String(this)
           R == After(fmt, item, part)
<1>1. pc = "count" /\ pc' = "item" /\ item <= Len(fmt) /\ stores = << >>
  BY DEF Count, TypeInv
<1>2. fmt' = fmt /\ asked' = asked /\ screen' = screen /\ serial' = serial
  BY DEF Count, callVars, outVars
<1>3. /\ S \in Seq(Chars) /\ R \in Seq(Chars) /\ Ahead(fmt, item, part) = S \o R
      /\ Follows(fmt, item, part)
  BY <1>1, PlaceIs
<1>4. Ahead(fmt, item', part') = R
  <2>1. CASE part < Len(Parts(fmt[item]))
    <3>1. item' = item /\ part' = part + 1 BY <2>1 DEF Count
    <3> QED BY <1>3, <2>1, <3>1 DEF Follows
  <2>2. CASE ~(part < Len(Parts(fmt[item])))
    <3>1. item' = item + 1 /\ part' = 1 BY <2>2 DEF Count
    <3> QED BY <1>3, <2>2, <3>1 DEF Follows
  <2> QED BY <2>1, <2>2
<1>5. ScreenLeft = R /\ SerialLeft = R /\ ScreenLeft' = R /\ SerialLeft' = R
  BY <1>1, <1>2, <1>4 DEF ScreenLeft, SerialLeft
<1>6. OutputInv' BY <1>1, <1>2, <1>5 DEF OutputInv, Good
<1>7. NumberInv' BY <1>1 DEF NumberInv
<1>8. CountInv'
  <2>1. SUFFICES ASSUME ~HasZero(fmt) PROVE num_printed' + Len(R) = Len(AllText(fmt))
    BY <1>1, <1>2, <1>4 DEF CountInv
  <2>2. num_printed + Len(S \o R) = Len(AllText(fmt)) BY <1>1, <1>3, <2>1 DEF Good, CountInv
  <2>3. Len(S \o R) = Len(S) + Len(R) /\ Len(S) \in Nat /\ Len(R) \in Nat
    BY <1>3, ConcatProperties
  <2>4. num_printed' = num_printed + Len(S)
    <3>1. item \in 1 .. Len(fmt) /\ IsPiece(this, fmt[item]) BY <1>1, ThisIs
    <3>2. CASE this.kind \in Numbers
      <4>1. this = fmt[item] /\ S = NumberText(this) BY <3>1, <3>2 DEF IsPiece
      <4>2. Conversion(this) # Zero BY <2>1, <3>1, <3>2, <4>1 DEF HasZero
      <4>3. Pending(memory, NumberText(this), {}, Conversion(this) = Zero)
        <5>1. Range(stores) = {} BY <1>1 DEF Range
        <5> QED BY <1>1, <3>2, <5>1 DEF Good, NumberInv
      <4>4. memory.len = int_len BY DEF memory
      <4>5. int_len = Len(S) BY <4>1, <4>2, <4>3, <4>4 DEF Pending
      <4> QED BY <3>2, <4>5 DEF Count
    <3>3. CASE this.kind \notin Numbers
      <4>1. S = this.text BY <3>1, <3>3 DEF IsPiece
      <4> QED BY <3>3, <4>1 DEF Count
    <3> QED BY <3>2, <3>3
  <2>5. num_printed \in Nat BY DEF TypeInv
  <2> QED BY <2>2, <2>3, <2>4, <2>5
<1> QED BY <1>6, <1>7, <1>8 DEF Good

-----------------------------------------------------------------------------
(* The handlers, and the theorems.                                         *)

\* What a handler prints in between changes nothing the kernel prints.
LEMMA HandlerGood ==
  ASSUME Good, NumberInv',
         UNCHANGED <<pc, callVars, placeVars, pos, length, num_printed>>,
         screen'.kernel = screen.kernel, serial'.kernel = serial.kernel
  PROVE  Good'
<1>1. this' = this /\ fmt' = fmt /\ item' = item /\ part' = part /\ asked' = asked
  BY SameThis
<1>2. ScreenLeft' = ScreenLeft /\ SerialLeft' = SerialLeft
  BY <1>1 DEF ScreenLeft, SerialLeft
<1>3. OutputInv' BY <1>1, <1>2 DEF OutputInv, Good
<1>4. CountInv' BY <1>1 DEF CountInv, Good
<1> QED BY <1>3, <1>4 DEF Good

\* The keyboard handler keeps Good.
LEMMA KeyGood == ASSUME TypeInv, Good, KeyInterrupt PROVE Good'
<1>1. this' = this /\ memory' = memory /\ pc' = pc /\ stores' = stores
  BY SameThis, SameMemory DEF KeyInterrupt
<1>2. NumberInv' BY <1>1 DEF NumberInv, Good
<1> QED BY <1>2, KeyIs, HandlerGood DEF KeyInterrupt

\* The serial handler keeps Good, unless it tears a numeral: outside of one
\* nothing of print_buf is used any more.
LEMMA ErrorGood == ASSUME TypeInv, Good, LineErrorInterrupt, ~torn' PROVE Good'
<1>1. this' = this /\ pc' = pc BY SameThis DEF LineErrorInterrupt
<1>2. ~inNumber BY DEF LineErrorInterrupt
<1>3. NumberInv' BY <1>1, <1>2 DEF NumberInv, inNumber
<1> QED BY <1>3, ErrorIs, HandlerGood DEF LineErrorInterrupt

\* So does a stuttering step.
LEMMA StutterGood == ASSUME Good, UNCHANGED vars PROVE Good'
<1>1. this' = this /\ memory' = memory /\ pc' = pc /\ stores' = stores
  BY SameThis, SameMemory DEF vars
<1>2. NumberInv' BY <1>1 DEF NumberInv, Good
<1> QED BY <1>2, HandlerGood DEF vars, outVars

\* The inductive invariant.
THEOREM Invariance == Spec => []IInv
<1>1. Init => IInv BY InitType, InitGood DEF IInv
<1>2. IInv /\ [Next]_vars => IInv'
  <2> SUFFICES ASSUME IInv, [Next]_vars PROVE TypeInv' /\ (~torn' => Good')
    BY DEF IInv
  <2>1. TypeInv /\ (~torn => Good) BY DEF IInv
  <2>2. ASSUME NEW f \in Formats, Call(f) PROVE TypeInv' /\ (~torn' => Good')
    BY <2>1, <2>2, CallType, CallGood DEF Call
  <2>3. ASSUME Item PROVE TypeInv' /\ (~torn' => Good')
    BY <2>1, <2>3, ItemType, ItemGood DEF Item
  <2>4. ASSUME Return PROVE TypeInv' /\ (~torn' => Good')
    BY <2>1, <2>4, ReturnType, ReturnGood DEF Return
  <2>5. ASSUME Store PROVE TypeInv' /\ (~torn' => Good')
    BY <2>1, <2>5, StoreType, StoreGood DEF Store
  <2>6. ASSUME ToScreen PROVE TypeInv' /\ (~torn' => Good')
    BY <2>1, <2>6, ToScreenType, ToScreenGood DEF ToScreen
  <2>7. ASSUME StrLen PROVE TypeInv' /\ (~torn' => Good')
    BY <2>1, <2>7, StrLenType, StrLenGood DEF StrLen
  <2>8. ASSUME ToSerial PROVE TypeInv' /\ (~torn' => Good')
    BY <2>1, <2>8, ToSerialType, ToSerialGood DEF ToSerial
  <2>9. ASSUME Count PROVE TypeInv' /\ (~torn' => Good')
    BY <2>1, <2>9, CountType, CountGood DEF Count
  <2>10. ASSUME KeyInterrupt PROVE TypeInv' /\ (~torn' => Good')
    BY <2>1, <2>10, KeyType, KeyGood DEF KeyInterrupt
  <2>11. ASSUME LineErrorInterrupt PROVE TypeInv' /\ (~torn' => Good')
    <3>1. torn => torn' BY <2>11 DEF LineErrorInterrupt
    <3> QED BY <2>1, <2>11, <3>1, ErrorType, ErrorGood
  <2>12. ASSUME UNCHANGED vars PROVE TypeInv' /\ (~torn' => Good')
    BY <2>1, <2>12, StutterType, StutterGood DEF vars
  <2> QED BY <2>2, <2>3, <2>4, <2>5, <2>6, <2>7, <2>8, <2>9, <2>10, <2>11, <2>12
       DEF Next, KernelStep
<1> QED BY <1>1, <1>2, PTL DEF Spec

\* It has the types TypeOK names.
LEMMA TypeIs == TypeInv => TypeOK
<1> SUFFICES ASSUME TypeInv PROVE TypeOK OBVIOUS
<1>1. print_buf \in [0 .. BufLen - 1 -> Chars \cup {NUL}] /\ int_len \in 0 .. BufLen - 1
  BY DEF TypeInv, memory, Memories
<1> QED BY <1>1 DEF TypeInv, TypeOK

\* Every variable has its type; whatever handlers do to print_buf, no string is
\* read beyond its end.
THEOREM TypeCorrect == Spec => []TypeOK
<1>1. IInv => TypeOK BY TypeIs DEF IInv
<1> QED BY <1>1, Invariance, PTL

\* What comes first is a prefix.
LEMMA PrefixOf ==
  ASSUME NEW C, NEW s \in Seq(C), NEW t \in Seq(C)
  PROVE  IsPrefix(s, s \o t)
<1>1. /\ s \o t \in Seq(C)
      /\ Len(s \o t) = Len(s) + Len(t)
      /\ Len(s) \in Nat
      /\ Len(t) \in Nat
      /\ \A i \in 1 .. Len(s) : (s \o t)[i] = s[i]
  OBVIOUS
<1>2. SubSeq(s, 1, Len(s)) = SubSeq(s \o t, 1, Len(s))
  <2> DEFINE u == s \o t
             a == SubSeq(s, 1, Len(s))
             b == SubSeq(u, 1, Len(s))
  <2>1. a = s BY SubSeqFull
  <2> HIDE DEF u
  <2>2. b \in Seq(C) /\ Len(b) = Len(s) /\ \A i \in 1 .. Len(s) : b[i] = u[i] BY <1>1 DEF u
  <2>3. \A i \in 1 .. Len(s) : b[i] = s[i] BY <1>1, <2>2 DEF u
  <2> HIDE DEF b
  <2>4. b = s BY <1>1, <2>2, <2>3, SeqEqual
  <2> QED BY <2>1, <2>4 DEF u, b
<1> QED BY <1>1, <1>2 DEF IsPrefix

\* Unless a handler printed a number inside the kernel's, the screen and the
\* serial port are given what printf would print, in its order, and all of it by
\* the time printk returns.
THEOREM PrintsRight == Spec => []PrintsAsPrintfUnlessTorn
<1>1. ASSUME IInv, ~torn PROVE PrintsAsPrintf
  <2> DEFINE X == Chars \cup {NUL}
  <2>1. TypeInv /\ OutputInv BY <1>1 DEF IInv, Good
  <2>2. screen.kernel \in Seq(X) /\ serial.kernel \in Seq(X) BY <2>1 DEF TypeInv, Outputs
  <2>3. ScreenLeft \in Seq(X) /\ SerialLeft \in Seq(X)
    <3>1. /\ Ahead(fmt, item, part) \in Seq(Chars)
          /\ item <= Len(fmt) => After(fmt, item, part) \in Seq(Chars)
      <4>1. CASE item <= Len(fmt)
        <5> DEFINE a == String(this)
                   b == After(fmt, item, part)
        <5>1. a \in Seq(Chars) /\ b \in Seq(Chars) /\ Ahead(fmt, item, part) = a \o b
          BY <2>1, <4>1, PlaceIs
        <5> HIDE DEF a, b
        <5> QED BY <5>1, ConcatProperties DEF b
      <4>2. CASE ~(item <= Len(fmt)) BY <4>2 DEF Ahead
      <4> QED BY <4>1, <4>2
    <3>2. pc \in {"screen", "length", "serial", "count"} => item <= Len(fmt)
      BY <2>1 DEF TypeInv
    <3>3. pc = "screen" => ScreenLeft \in Seq(Chars)
      <4> SUFFICES ASSUME pc = "screen" PROVE ScreenLeft \in Seq(Chars) OBVIOUS
      <4> DEFINE S == String(this)
                 a == SubSeq(S, pos + 1, Len(S))
                 b == After(fmt, item, part)
      <4>1. S \in Seq(Chars) /\ b \in Seq(Chars) BY <2>1, <3>2, PlaceIs
      <4>2. End \in Nat /\ pos \in 0 .. End BY <2>1, <3>2, ReadType DEF TypeInv
      <4>3. ScreenLeft = a \o b BY DEF ScreenLeft
      <4> HIDE DEF S, b
      <4>4. a \in Seq(Chars)
        <5>1. pos + 1 \in Int /\ Len(S) \in Int /\ \A i \in pos + 1 .. Len(S) : i \in 1 .. Len(S)
          BY <4>1, <4>2
        <5>2. \A i \in pos + 1 .. Len(S) : S[i] \in Chars BY <4>1, <5>1
        <5> QED BY <5>1, <5>2, SubSeqProperties
      <4> HIDE DEF a
      <4> QED BY <4>1, <4>3, <4>4, ConcatProperties
    <3>4. ScreenLeft \in Seq(Chars) /\ SerialLeft \in Seq(Chars)
      <4>1. << >> \in Seq(Chars) OBVIOUS
      <4>2. pc \in {"idle", "item", "store", "screen", "length", "serial", "count"}
        BY <2>1 DEF TypeInv
      <4> QED BY <3>1, <3>2, <3>3, <4>1, <4>2 DEF ScreenLeft, SerialLeft
    <3>5. Chars \subseteq X OBVIOUS
    <3> HIDE DEF X
    <3> QED BY <3>4, <3>5, SeqMonotonic
  <2>4. screen.kernel \o ScreenLeft = asked /\ serial.kernel \o SerialLeft = asked
    BY <2>1 DEF OutputInv
  <2>5. pc = "idle" => ScreenLeft = << >> /\ SerialLeft = << >>
    BY DEF ScreenLeft, SerialLeft
  <2> HIDE DEF X
  <2>6. IsPrefix(screen.kernel, asked) /\ IsPrefix(serial.kernel, asked)
    BY <2>2, <2>3, <2>4, PrefixOf
  <2>7. pc = "idle" => screen.kernel = asked /\ serial.kernel = asked
    BY <2>2, <2>4, <2>5, ConcatEmptySeq
  <2> QED BY <2>6, <2>7 DEF PrintsAsPrintf
<1>2. IInv => PrintsAsPrintfUnlessTorn BY <1>1 DEF PrintsAsPrintfUnlessTorn
<1> QED BY <1>2, Invariance, PTL

\* Unless a handler printed a number inside the kernel's or a zero is converted,
\* printk returns the number of characters it printed.
THEOREM CountsRight == Spec => []CountsCharacters
<1>1. IInv => CountsCharacters
  <2> SUFFICES ASSUME IInv PROVE CountsCharacters OBVIOUS
  <2>1. TypeOK BY TypeIs DEF IInv
  <2>2. num_printed \in Nat BY DEF IInv, TypeInv
  <2>3. pc = "idle" /\ ~torn /\ ~HasZero(fmt) => num_printed + 0 = Len(AllText(fmt))
    BY DEF IInv, Good, CountInv
  <2> QED BY <2>1, <2>2, <2>3 DEF CountsCharacters
<1> QED BY <1>1, Invariance, PTL

=============================================================================
