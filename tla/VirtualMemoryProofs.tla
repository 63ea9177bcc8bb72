------------------------- MODULE VirtualMemoryProofs -------------------------
(***************************************************************************)
(* Proofs about VirtualMemory, for any number of frames, pages and entries *)
(* per table.                                                              *)
(*                                                                         *)
(* The page tables are a tree whose tables have levels: the root is at     *)
(* level 1, what is linked from level n is at level n + 1, and a frame     *)
(* that is no table has level 0.  The inductive invariant IInv says that   *)
(* such levels exist and that, besides the tables, every frame is free,    *)
(* taken by a caller or mapped to one heap page.  The rest of it says how  *)
(* far the call in progress has come, through the tables and in its loop.  *)
(*                                                                         *)
(* The lemmas on trees speak of any tables tb: they are used with the      *)
(* tables before and after a step.  What a step does is then told in terms *)
(* of Looks, the entry of every page, as the addition of a table changes   *)
(* nothing there, and every other step of a call one page at most.         *)
(***************************************************************************)
EXTENDS VirtualMemory, FiniteSetTheorems, TLAPS

\* The pages that may be mapped.
Pages == HeapPages \cup Windows

\* What the tables may contain.
Contained == [Tables -> [Slots -> Entry]]

\* Where the walk of tables tb for page v is at level l: 1 is the root, and 5 the
\* entry in the last table.
Step(tb, t, v, l) == IF t \in Tables THEN tb[t][Index(v, l)] ELSE Absent
P2(tb, v) == Step(tb, Root, v, 1)
P3(tb, v) == Step(tb, P2(tb, v), v, 2)
P4(tb, v) == Step(tb, P3(tb, v), v, 3)
Path(tb, v, l) ==
    CASE l = 1 -> Root
      [] l = 2 -> P2(tb, v)
      [] l = 3 -> P3(tb, v)
      [] l = 4 -> P4(tb, v)
      [] OTHER -> Step(tb, P4(tb, v), v, 4)

\* Tables tb are a tree in which table t has level lev[t], 0 for what is not a
\* table.
TreeLevels(tb, lev) ==
    /\ \A t \in Tables : lev[t] = 1 <=> t = Root
    /\ \A t \in Tables, k \in Slots :
          lev[t] \in 1 .. 3 =>
             \/ tb[t][k] = Absent
             \/ tb[t][k] \in Tables /\ lev[tb[t][k]] = lev[t] + 1
    /\ \A t \in Tables, k \in Slots :
          lev[t] = 4 =>
             \/ tb[t][k] \in {Absent, Demand}
             \/ tb[t][k] \in Frames /\ lev[tb[t][k]] = 0

\* No table is linked twice.
TreeLinks(tb, lev) ==
    \A t \in Tables, u \in Tables, j \in Slots, k \in Slots :
       /\ lev[t] \in 1 .. 3 /\ lev[u] \in 1 .. 3
       /\ tb[t][j] = tb[u][k] /\ tb[t][j] \in Tables
       => t = u /\ j = k

\* Every table but the root is linked.
TreeWhole(tb, lev) ==
    \A t \in Tables :
       lev[t] > 1 => \E p \in Tables, k \in Slots : lev[p] = lev[t] - 1 /\ tb[p][k] = t

\* What is in a last table is there for a page.
TreeLeaves(tb, lev) ==
    \A t \in Tables, k \in Slots :
       lev[t] = 4 /\ tb[t][k] # Absent =>
          \E v \in Pages : Path(tb, v, 4) = t /\ Index(v, 4) = k

\* All of these.
Tree(tb, lev) ==
    TreeLevels(tb, lev) /\ TreeLinks(tb, lev) /\ TreeWhole(tb, lev) /\ TreeLeaves(tb, lev)

-----------------------------------------------------------------------------
(* Page numbers and the slots they select.                                 *)

\* A quotient, and a remainder, are the only ones.
LEMMA Quot ==
    ASSUME NEW v \in Nat, NEW n \in Nat \ {0}, NEW q \in Nat, NEW r \in Nat,
           v = n * q + r, r < n
    PROVE  v \div n = q
OBVIOUS

\* Every number has them.
LEMMA DivMod ==
    ASSUME NEW v \in Nat, NEW n \in Nat \ {0}
    PROVE  v \div n \in Nat /\ v % n \in 0 .. n - 1 /\ v = n * (v \div n) + (v % n)
OBVIOUS

\* A small number has a small quotient.
LEMMA Small ==
    ASSUME NEW v \in Nat, NEW n \in Nat \ {0}, NEW m \in Nat, v < n * m
    PROVE  v \div n < m
OBVIOUS

\* Dividing twice is dividing by the product.
LEMMA DivDiv ==
    ASSUME NEW v \in Nat, NEW a \in Nat \ {0}, NEW b \in Nat \ {0}
    PROVE  (v \div a) \div b = v \div (a * b)
<1> DEFINE p == v \div a
           r == v % a
           q == p \div b
           s == p % b
<1>1. p \in Nat /\ r \in 0 .. a - 1 /\ v = a * p + r
  BY DivMod
<1>2. q \in Nat /\ s \in 0 .. b - 1 /\ p = b * q + s
  BY <1>1, DivMod
<1> HIDE DEF p, r, q, s
<1>3. v = (a * b) * q + (a * s + r)
  BY <1>1, <1>2
<1>4. a * s + r < a * b /\ a * s + r \in Nat /\ a * b \in Nat \ {0}
  BY <1>1, <1>2
<1>5. v \div (a * b) = q
  BY <1>2, <1>3, <1>4, Quot
<1> QED BY <1>5 DEF p, q

\* An index selects a slot.
LEMMA SlotOf ==
    ASSUME NEW v \in Nat, NEW l \in 1 .. 4
    PROVE  Index(v, l) \in Slots
<1>1. /\ Entries \in Nat \ {0} /\ Entries * Entries \in Nat \ {0}
      /\ Entries * Entries * Entries \in Nat \ {0}
  BY VirtualAssumption
<1>2. Span[l] \in Nat \ {0}
  BY <1>1 DEF Span
<1>3. v \div Span[l] \in Nat
  BY <1>2, DivMod
<1> QED BY <1>1, <1>3, DivMod DEF Index, Slots

\* The four indices of a page are its digits: they tell what page it is.
LEMMA Digits ==
    ASSUME NEW v \in Nat, v < Entries * Entries * Entries * Entries
    PROVE  v = Entries * (Entries * (Entries * Index(v, 1) + Index(v, 2)) + Index(v, 3))
                 + Index(v, 4)
<1> DEFINE E == Entries
           a == v \div E
           b == a \div E
           c == b \div E
<1>1. E \in Nat \ {0} /\ E * E \in Nat \ {0} /\ E * E * E \in Nat \ {0}
  BY VirtualAssumption
<1>2. a \in Nat /\ b \in Nat /\ c \in Nat
  BY <1>1, DivMod
<1>3. b = v \div (E * E) /\ c = v \div (E * E * E)
  <2>1. b = v \div (E * E)
    BY <1>1, DivDiv
  <2>2. (v \div (E * E)) \div E = v \div ((E * E) * E)
    BY <1>1, DivDiv
  <2> QED BY <2>1, <2>2
<1>4. c < E
  <2>1. v < (E * E * E) * E
    BY <1>1
  <2> QED BY <2>1, <1>1, <1>3, Small
<1>5. v \div 1 = v
  BY <1>1
<1>6. /\ Index(v, 1) = c % E /\ Index(v, 2) = b % E
      /\ Index(v, 3) = a % E /\ Index(v, 4) = v % E
  BY <1>1, <1>3, <1>5 DEF Index, Span
<1>7. c % E = c
  BY <1>1, <1>2, <1>4
<1>8. v = E * a + (v % E) /\ a = E * b + (a % E) /\ b = E * c + (b % E)
  BY <1>1, <1>2, DivMod
<1> HIDE DEF a, b, c, E
<1> QED BY <1>6, <1>7, <1>8, Zenon DEF E

\* Pages are told apart by their indices.
LEMMA PagesDiffer ==
    ASSUME NEW v \in Pages, NEW w \in Pages, \A l \in 1 .. 4 : Index(v, l) = Index(w, l)
    PROVE  v = w
<1>1. /\ v \in Nat /\ v < Entries * Entries * Entries * Entries
      /\ w \in Nat /\ w < Entries * Entries * Entries * Entries
  <2>1. Entries * Entries * Entries * Entries \in Nat
    BY VirtualAssumption
  <2>2. v \in 0 .. AllPages - 1 /\ w \in 0 .. AllPages - 1
    BY VirtualAssumption DEF Pages
  <2> QED BY <2>1, <2>2 DEF AllPages
<1>2. Index(v, 1) = Index(w, 1) /\ Index(v, 2) = Index(w, 2)
      /\ Index(v, 3) = Index(w, 3) /\ Index(v, 4) = Index(w, 4)
  OBVIOUS
<1>3. v = Entries * (Entries * (Entries * Index(v, 1) + Index(v, 2)) + Index(v, 3)) + Index(v, 4)
  BY <1>1, Digits, Zenon
<1>4. w = Entries * (Entries * (Entries * Index(w, 1) + Index(w, 2)) + Index(w, 3)) + Index(w, 4)
  BY <1>1, Digits, Zenon
<1> QED BY <1>2, <1>3, <1>4, Zenon

\* The slots of a page.
LEMMA PageSlots ==
    ASSUME NEW v \in Pages
    PROVE  /\ v \in Nat
           /\ \A l \in 1 .. 4 : Index(v, l) \in Slots
<1>1. AllPages \in Nat
  BY VirtualAssumption DEF AllPages
<1>2. v \in Nat
  BY <1>1, VirtualAssumption DEF Pages
<1> QED BY <1>2, SlotOf

\* Tables and what is none.
LEMMA NoTable ==
    /\ Absent \notin Tables /\ Demand \notin Tables /\ None \notin Tables
    /\ Absent # Demand /\ Root \in Tables /\ Frames \subseteq Tables
    /\ Root \notin Frames
BY VirtualAssumption DEF Tables

-----------------------------------------------------------------------------
\* One step of the path at a time.
LEMMA PathSteps ==
    ASSUME NEW tb, NEW v
    PROVE  /\ Path(tb, v, 1) = Root
           /\ \A l \in 1 .. 4 : Path(tb, v, l + 1) = Step(tb, Path(tb, v, l), v, l)
BY DEF Path, P2, P3, P4

\* What is looked up for a page is at the end of its path.
LEMMA LookupIsPath ==
    ASSUME NEW v
    PROVE  Lookup(v) = Path(table, v, 5)
BY NoTable DEF Lookup, Below, Present, Path, P2, P3, P4, Step

\* Where a path is, and when it goes on.
LEMMA PathLevels ==
    ASSUME NEW tb \in Contained, NEW lev \in [Tables -> 0 .. 4], TreeLevels(tb, lev),
           NEW v \in Pages
    PROVE  /\ \A l \in 1 .. 4 :
                 \/ Path(tb, v, l) = Absent
                 \/ Path(tb, v, l) \in Tables /\ lev[Path(tb, v, l)] = l
           /\ \/ Path(tb, v, 5) \in {Absent, Demand}
              \/ Path(tb, v, 5) \in Frames /\ lev[Path(tb, v, 5)] = 0
           /\ \A l \in 1 .. 4 : Path(tb, v, l) = Absent => Path(tb, v, l + 1) = Absent
           /\ \A l \in 1 .. 4 :
                 Path(tb, v, l) \in Tables => Path(tb, v, l + 1) = tb[Path(tb, v, l)][Index(v, l)]
<1> DEFINE OK(l) == \/ Path(tb, v, l) = Absent
                    \/ Path(tb, v, l) \in Tables /\ lev[Path(tb, v, l)] = l
<1>1. \A l \in 1 .. 4 : Path(tb, v, l) = Absent => Path(tb, v, l + 1) = Absent
  BY PathSteps, NoTable DEF Step
<1>2. \A l \in 1 .. 4 : Path(tb, v, l) \in Tables =>
                         Path(tb, v, l + 1) = tb[Path(tb, v, l)][Index(v, l)]
  BY PathSteps DEF Step
<1>3. OK(1)
  BY PathSteps, NoTable DEF TreeLevels
<1>4. \A l \in 1 .. 3 : OK(l) => OK(l + 1)
  BY <1>1, <1>2, PageSlots DEF TreeLevels
<1>5. OK(2)
  BY <1>3, <1>4
<1>6. OK(3)
  BY <1>4, <1>5
<1>7. OK(4)
  BY <1>4, <1>6
<1>8. \A l \in 1 .. 4 : OK(l)
  BY <1>3, <1>5, <1>6, <1>7
<1>9. \/ Path(tb, v, 5) \in {Absent, Demand}
      \/ Path(tb, v, 5) \in Frames /\ lev[Path(tb, v, 5)] = 0
  BY <1>1, <1>2, <1>7, PageSlots DEF TreeLevels
<1> QED BY <1>1, <1>2, <1>8, <1>9

\* Two pages have no last entry in common.
LEMMA PathUnique ==
    ASSUME NEW tb \in Contained, NEW lev \in [Tables -> 0 .. 4], TreeLevels(tb, lev),
           TreeLinks(tb, lev), NEW v \in Pages, NEW w \in Pages,
           Path(tb, v, 4) \in Tables, Path(tb, v, 4) = Path(tb, w, 4), Index(v, 4) = Index(w, 4)
    PROVE  v = w
<1>1. ASSUME NEW l \in 1 .. 3, Path(tb, v, l + 1) \in Tables,
             Path(tb, v, l + 1) = Path(tb, w, l + 1)
      PROVE  /\ Path(tb, v, l) \in Tables /\ Path(tb, v, l) = Path(tb, w, l)
             /\ Index(v, l) = Index(w, l)
  <2>1. /\ Path(tb, v, l) \in Tables /\ lev[Path(tb, v, l)] = l
        /\ Path(tb, w, l) \in Tables /\ lev[Path(tb, w, l)] = l
        /\ Path(tb, v, l + 1) = tb[Path(tb, v, l)][Index(v, l)]
        /\ Path(tb, w, l + 1) = tb[Path(tb, w, l)][Index(w, l)]
    BY <1>1, PathLevels, NoTable
  <2> QED BY <1>1, <2>1, PageSlots DEF TreeLinks
<1>2. Path(tb, v, 3) \in Tables /\ Path(tb, v, 3) = Path(tb, w, 3) /\ Index(v, 3) = Index(w, 3)
  BY <1>1
<1>3. Path(tb, v, 2) \in Tables /\ Path(tb, v, 2) = Path(tb, w, 2) /\ Index(v, 2) = Index(w, 2)
  BY <1>1, <1>2
<1>4. Index(v, 1) = Index(w, 1)
  BY <1>1, <1>3
<1>5. \A l \in 1 .. 4 : Index(v, l) = Index(w, l)
  BY <1>2, <1>3, <1>4
<1> QED BY <1>5, PagesDiffer

\* What is written to a frame that is no table changes no path.
LEMMA PathsKept ==
    ASSUME NEW tb \in Contained, NEW lev \in [Tables -> 0 .. 4], TreeLevels(tb, lev),
           NEW tb2, \A t \in Tables : lev[t] > 0 => tb2[t] = tb[t],
           NEW v \in Pages
    PROVE  \A l \in 1 .. 5 : Path(tb2, v, l) = Path(tb, v, l)
<1>1. ASSUME NEW l \in 1 .. 4, Path(tb2, v, l) = Path(tb, v, l)
      PROVE  Path(tb2, v, l + 1) = Path(tb, v, l + 1)
  <2>1. CASE Path(tb, v, l) = Absent
    BY <1>1, <2>1, PathSteps, NoTable DEF Step
  <2>2. CASE Path(tb, v, l) \in Tables /\ lev[Path(tb, v, l)] = l
    BY <1>1, <2>2, PathSteps DEF Step
  <2> QED BY <2>1, <2>2, PathLevels
<1>2. Path(tb2, v, 1) = Path(tb, v, 1)
  BY PathSteps
<1>3. Path(tb2, v, 2) = Path(tb, v, 2)
  BY <1>1, <1>2
<1>4. Path(tb2, v, 3) = Path(tb, v, 3)
  BY <1>1, <1>3
<1>5. Path(tb2, v, 4) = Path(tb, v, 4)
  BY <1>1, <1>4
<1>6. Path(tb2, v, 5) = Path(tb, v, 5)
  BY <1>1, <1>5
<1> QED BY <1>2, <1>3, <1>4, <1>5, <1>6

\* What may be in a last table.
Leaf(e, lev) == e \in {Absent, Demand} \/ (e \in Frames /\ lev[e] = 0)

\* The entry of page x is set to e, and frames that are no tables may change.
LEMMA LeafWritten ==
    ASSUME NEW tb \in Contained, NEW lev \in [Tables -> 0 .. 4], Tree(tb, lev),
           NEW x \in Pages, NEW p \in Tables, p = Path(tb, x, 4),
           NEW e, Leaf(e, lev),
           NEW tb2 \in Contained,
           \A t \in Tables :
              lev[t] > 0 => tb2[t] = IF t = p THEN [tb[p] EXCEPT ![Index(x, 4)] = e] ELSE tb[t]
    PROVE  /\ Tree(tb2, lev)
           /\ \A v \in Pages, l \in 1 .. 4 : Path(tb2, v, l) = Path(tb, v, l)
           /\ Path(tb2, x, 5) = e
           /\ \A v \in Pages : v # x => Path(tb2, v, 5) = Path(tb, v, 5)
<1> USE DEF Tree
<1>1. lev[p] = 4
  BY PathLevels, NoTable
<1>2. \A t \in Tables : lev[t] \in 1 .. 3 => tb2[t] = tb[t]
  BY <1>1
<1>3. \A t \in Tables, k \in Slots :
         lev[t] = 4 => tb2[t][k] = IF t = p /\ k = Index(x, 4) THEN e ELSE tb[t][k]
  BY <1>1, PageSlots DEF Contained
<1>4. ASSUME NEW v \in Pages, NEW l \in 1 .. 3, Path(tb2, v, l) = Path(tb, v, l)
      PROVE  Path(tb2, v, l + 1) = Path(tb, v, l + 1)
  <2>1. CASE Path(tb, v, l) = Absent
    BY <1>4, <2>1, PathSteps, NoTable DEF Step
  <2>2. CASE Path(tb, v, l) \in Tables /\ lev[Path(tb, v, l)] = l
    BY <1>2, <1>4, <2>2, PathSteps DEF Step
  <2> QED BY <2>1, <2>2, PathLevels
<1>5. \A v \in Pages : Path(tb2, v, 1) = Path(tb, v, 1)
  BY PathSteps
<1>6. \A v \in Pages : Path(tb2, v, 2) = Path(tb, v, 2)
  BY <1>4, <1>5
<1>7. \A v \in Pages : Path(tb2, v, 3) = Path(tb, v, 3)
  BY <1>4, <1>6
<1>8. \A v \in Pages : Path(tb2, v, 4) = Path(tb, v, 4)
  BY <1>4, <1>7
<1>9. \A v \in Pages, l \in 1 .. 4 : Path(tb2, v, l) = Path(tb, v, l)
  BY <1>5, <1>6, <1>7, <1>8
<1>10. \A v \in Pages : Path(tb2, v, 5) = Step(tb2, Path(tb, v, 4), v, 4)
  BY <1>8, PathSteps
<1>11. Path(tb2, x, 5) = e
  BY <1>1, <1>3, <1>10, PageSlots DEF Step
<1>12. ASSUME NEW v \in Pages, v # x
       PROVE  Path(tb2, v, 5) = Path(tb, v, 5)
  <2>1. CASE Path(tb, v, 4) = Absent
    BY <2>1, <1>10, PathSteps, NoTable DEF Step
  <2>2. CASE Path(tb, v, 4) \in Tables /\ lev[Path(tb, v, 4)] = 4
    <3>1. Path(tb, v, 4) # p \/ Index(v, 4) # Index(x, 4)
      BY <1>12, <2>2, PathUnique
    <3> QED BY <2>2, <3>1, <1>3, <1>10, PathSteps, PageSlots DEF Step
  <2> QED BY <2>1, <2>2, PathLevels
<1>13. TreeLevels(tb2, lev)
  <2>1. \A t \in Tables, k \in Slots : lev[t] = 4 => Leaf(tb2[t][k], lev)
    BY <1>3 DEF TreeLevels, Leaf
  <2> QED BY <1>2, <2>1 DEF TreeLevels, Leaf
<1>14. TreeLinks(tb2, lev)
  BY <1>2 DEF TreeLinks
<1>15. TreeWhole(tb2, lev)
  <2> SUFFICES ASSUME NEW t \in Tables, lev[t] > 1
               PROVE  \E q \in Tables, k \in Slots : lev[q] = lev[t] - 1 /\ tb2[q][k] = t
    BY DEF TreeWhole
  <2>1. PICK q \in Tables, k \in Slots : lev[q] = lev[t] - 1 /\ tb[q][k] = t
    BY DEF TreeWhole
  <2>2. lev[q] \in 1 .. 3
    BY <2>1
  <2> QED BY <2>1, <2>2, <1>2
<1>16. TreeLeaves(tb2, lev)
  <2> SUFFICES ASSUME NEW t \in Tables, NEW k \in Slots, lev[t] = 4, tb2[t][k] # Absent
               PROVE  \E v \in Pages : Path(tb2, v, 4) = t /\ Index(v, 4) = k
    BY DEF TreeLeaves
  <2>1. CASE t = p /\ k = Index(x, 4)
    BY <2>1, <1>8
  <2>2. CASE ~(t = p /\ k = Index(x, 4))
    BY <2>2, <1>3, <1>8 DEF TreeLeaves
  <2> QED BY <2>1, <2>2
<1> QED BY <1>9, <1>11, <1>12, <1>13, <1>14, <1>15, <1>16

\* Frame f, which is no table and shown by no page, becomes the table tb2 adds
\* after p, the n-th on the path of page x.
Addition(tb, lev, x, n, p, f, tb2, lev2) ==
    /\ tb \in Contained /\ tb2 \in Contained /\ lev \in [Tables -> 0 .. 4] /\ Tree(tb, lev)
    /\ x \in Pages /\ n \in 1 .. 3 /\ p \in Tables
    /\ p = Path(tb, x, n) /\ Path(tb, x, n + 1) = Absent
    /\ f \in Frames /\ lev[f] = 0 /\ \A v \in Pages : Path(tb, v, 5) # f
    /\ \A t \in Tables :
          tb2[t] = IF t = f THEN EmptyTable
                   ELSE IF t = p THEN [tb[p] EXCEPT ![Index(x, n)] = f] ELSE tb[t]
    /\ lev2 = [lev EXCEPT ![f] = n + 1]

\* The tree has one more table then, and every page is mapped as before.
LEMMA TableAdded ==
    ASSUME NEW tb, NEW lev, NEW x, NEW n, NEW p, NEW f, NEW tb2, NEW lev2,
           Addition(tb, lev, x, n, p, f, tb2, lev2)
    PROVE  /\ lev2 \in [Tables -> 0 .. 4]
           /\ Tree(tb2, lev2)
           /\ Path(tb2, x, n + 1) = f
           /\ \A v \in Pages : Path(tb2, v, 5) = Path(tb, v, 5)
<1>0. /\ tb \in Contained /\ tb2 \in Contained /\ lev \in [Tables -> 0 .. 4] /\ Tree(tb, lev)
      /\ x \in Pages /\ n \in 1 .. 3 /\ p \in Tables
      /\ p = Path(tb, x, n) /\ Path(tb, x, n + 1) = Absent
      /\ f \in Frames /\ lev[f] = 0 /\ \A v \in Pages : Path(tb, v, 5) # f
      /\ \A t \in Tables :
            tb2[t] = IF t = f THEN EmptyTable
                     ELSE IF t = p THEN [tb[p] EXCEPT ![Index(x, n)] = f] ELSE tb[t]
      /\ lev2 = [lev EXCEPT ![f] = n + 1]
  BY DEF Addition
<1> USE <1>0 DEF Tree
<1>1. f \in Tables /\ lev[p] = n /\ p # f /\ f # Absent /\ f # Root
  BY PathLevels, NoTable
<1>2. /\ lev2 \in [Tables -> 0 .. 4] /\ lev2[f] = n + 1
      /\ \A t \in Tables : t # f => lev2[t] = lev[t]
  BY <1>1
<1>3. tb[p][Index(x, n)] = Absent
  BY PathLevels, <1>1
<1>4. \A k \in Slots : tb2[f][k] = Absent
  BY <1>1 DEF EmptyTable
<1>5. tb2[p][Index(x, n)] = f
  BY <1>1, PageSlots DEF Contained
<1>6. \A t \in Tables, k \in Slots :
         t # f /\ ~(t = p /\ k = Index(x, n)) => tb2[t][k] = tb[t][k]
  BY <1>1, PageSlots DEF Contained
<1>7. \A t \in Tables, k \in Slots : lev[t] > 0 => tb[t][k] # f
  <2> SUFFICES ASSUME NEW t \in Tables, NEW k \in Slots, lev[t] > 0, tb[t][k] = f
               PROVE  FALSE
    OBVIOUS
  <2>1. lev[t] = 4
    BY <1>1 DEF TreeLevels
  <2>2. PICK v \in Pages : Path(tb, v, 4) = t /\ Index(v, 4) = k
    BY <2>1, <1>1 DEF TreeLeaves
  <2>3. Path(tb, v, 5) = f
    BY <2>2, PathLevels
  <2> QED BY <2>3
<1> DEFINE Same(v, l) == \/ Path(tb2, v, l) = Path(tb, v, l)
                         \/ Path(tb, v, l) = Absent /\ Path(tb2, v, l) = f
<1>8. ASSUME NEW v \in Pages, NEW l \in 1 .. 4, Same(v, l)
      PROVE  Same(v, l + 1) /\ (l = 4 => Path(tb2, v, 5) = Path(tb, v, 5))
  <2> DEFINE a == Path(tb, v, l + 1)
             b == Path(tb2, v, l + 1)
  <2>1. /\ a = Step(tb, Path(tb, v, l), v, l)
        /\ b = Step(tb2, Path(tb2, v, l), v, l)
        /\ Index(v, l) \in Slots
    BY PathSteps, PageSlots
  <2> HIDE DEF a, b
  <2>2. (a = b \/ (a = Absent /\ b = f)) /\ (l = 4 => a = b)
    <3>1. CASE Path(tb, v, l) = Absent /\ Path(tb2, v, l) = Absent
      BY <2>1, <3>1, NoTable DEF Step
    <3>2. CASE Path(tb, v, l) = Absent /\ Path(tb2, v, l) = f
      BY <2>1, <3>2, <1>1, <1>4, NoTable DEF Step
    <3>3. CASE /\ Path(tb, v, l) \in Tables /\ lev[Path(tb, v, l)] = l
               /\ Path(tb2, v, l) = Path(tb, v, l)
      <4>1. /\ a = tb[Path(tb, v, l)][Index(v, l)]
            /\ b = tb2[Path(tb, v, l)][Index(v, l)]
        BY <2>1, <3>3 DEF Step
      <4>2. Path(tb, v, l) # f
        BY <3>3
      <4>3. CASE Path(tb, v, l) = p /\ Index(v, l) = Index(x, n)
        <5>1. l = n
          BY <3>3, <4>3, <1>1
        <5> QED BY <4>1, <4>3, <5>1, <1>3, <1>5
      <4>4. CASE ~(Path(tb, v, l) = p /\ Index(v, l) = Index(x, n))
        BY <2>1, <3>3, <4>1, <4>2, <4>4, <1>6
      <4> QED BY <4>3, <4>4
    <3> QED BY <1>8, <3>1, <3>2, <3>3, PathLevels
  <2> QED BY <2>2 DEF a, b
<1>9. \A v \in Pages : Same(v, 1)
  <2>1. \A v \in Pages : Path(tb2, v, 1) = Path(tb, v, 1)
    BY PathSteps, Zenon
  <2> QED BY <2>1
<1>10. \A v \in Pages : Same(v, 2)
  BY <1>8, <1>9
<1>11. \A v \in Pages : Same(v, 3)
  BY <1>8, <1>10
<1>12. \A v \in Pages : Same(v, 4)
  BY <1>8, <1>11
<1>13. \A v \in Pages : Path(tb2, v, 5) = Path(tb, v, 5)
  BY <1>8, <1>12
<1>14. Path(tb2, x, n + 1) = f
  <2>1. Same(x, n)
    BY <1>9, <1>10, <1>11
  <2>2. Path(tb2, x, n) = p
    BY <2>1, NoTable
  <2> QED BY <2>2, <1>5, PathSteps DEF Step
<1> HIDE DEF Same
<1>15. TreeLevels(tb2, lev2)
  <2>1. \A t \in Tables : lev2[t] = 1 <=> t = Root
    BY <1>1, <1>2 DEF TreeLevels
  <2>2. ASSUME NEW t \in Tables, NEW k \in Slots, lev2[t] \in 1 .. 3
        PROVE  \/ tb2[t][k] = Absent
               \/ tb2[t][k] \in Tables /\ lev2[tb2[t][k]] = lev2[t] + 1
    <3>1. CASE t = f
      BY <3>1, <1>4
    <3>2. CASE t = p /\ k = Index(x, n)
      BY <3>2, <1>1, <1>2, <1>5
    <3>3. CASE t # f /\ ~(t = p /\ k = Index(x, n))
      <4>1. lev[t] \in 1 .. 3 /\ lev2[t] = lev[t] /\ tb2[t][k] = tb[t][k]
        BY <2>2, <3>3, <1>2, <1>6
      <4>2. tb[t][k] # f
        BY <4>1, <1>7
      <4> QED BY <4>1, <4>2, <1>2 DEF TreeLevels
    <3> QED BY <3>1, <3>2, <3>3
  <2>3. ASSUME NEW t \in Tables, NEW k \in Slots, lev2[t] = 4
        PROVE  \/ tb2[t][k] \in {Absent, Demand}
               \/ tb2[t][k] \in Frames /\ lev2[tb2[t][k]] = 0
    <3>1. CASE t = f
      BY <3>1, <1>4
    <3>2. CASE t # f
      <4>1. lev[t] = 4 /\ t # p
        BY <2>3, <3>2, <1>1, <1>2
      <4>2. tb2[t][k] = tb[t][k] /\ tb[t][k] # f
        BY <3>2, <4>1, <1>6, <1>7
      <4> QED BY <4>1, <4>2, <1>2, NoTable DEF TreeLevels
    <3> QED BY <3>1, <3>2
  <2> QED BY <2>1, <2>2, <2>3 DEF TreeLevels
<1>16. TreeLinks(tb2, lev2)
  <2> SUFFICES ASSUME NEW t \in Tables, NEW u \in Tables, NEW j \in Slots, NEW k \in Slots,
                      lev2[t] \in 1 .. 3, lev2[u] \in 1 .. 3,
                      tb2[t][j] = tb2[u][k], tb2[t][j] \in Tables
               PROVE  t = u /\ j = k
    BY DEF TreeLinks
  <2>1. t # f /\ u # f
    BY <1>4, NoTable
  <2>2. lev[t] \in 1 .. 3 /\ lev[u] \in 1 .. 3
    BY <2>1, <1>2
  <2>3. CASE tb2[t][j] = f
    <3>1. t = p /\ j = Index(x, n)
      BY <2>1, <2>2, <2>3, <1>6, <1>7
    <3>2. tb2[u][k] = f /\ lev[u] > 0 /\ u # f
      BY <2>1, <2>2, <2>3
    <3>3. u = p /\ k = Index(x, n)
      BY <3>2, <1>6, <1>7
    <3> QED BY <3>1, <3>3
  <2>4. CASE tb2[t][j] # f
    BY <2>1, <2>2, <2>4, <1>5, <1>6 DEF TreeLinks
  <2> QED BY <2>3, <2>4
<1>17. TreeWhole(tb2, lev2)
  <2> SUFFICES ASSUME NEW t \in Tables, lev2[t] > 1
               PROVE  \E q \in Tables, k \in Slots : lev2[q] = lev2[t] - 1 /\ tb2[q][k] = t
    BY DEF TreeWhole
  <2>1. CASE t = f
    BY <2>1, <1>1, <1>2, <1>5, PageSlots
  <2>2. CASE t # f
    <3>1. PICK q \in Tables, k \in Slots : lev[q] = lev[t] - 1 /\ tb[q][k] = t
      BY <2>2, <1>2 DEF TreeWhole
    <3>2. q # f /\ ~(q = p /\ k = Index(x, n))
      BY <2>2, <3>1, <1>2, <1>3, NoTable
    <3> QED BY <2>2, <3>1, <3>2, <1>2, <1>6
  <2> QED BY <2>1, <2>2
<1>18. TreeLeaves(tb2, lev2)
  <2> SUFFICES ASSUME NEW t \in Tables, NEW k \in Slots, lev2[t] = 4, tb2[t][k] # Absent
               PROVE  \E v \in Pages : Path(tb2, v, 4) = t /\ Index(v, 4) = k
    BY DEF TreeLeaves
  <2>1. t # f /\ t # p /\ lev[t] = 4
    BY <1>1, <1>2, <1>4
  <2>2. PICK v \in Pages : Path(tb, v, 4) = t /\ Index(v, 4) = k
    BY <2>1, <1>6 DEF TreeLeaves
  <2>3. Path(tb2, v, 4) = t
    BY <2>2, <1>12, NoTable DEF Same
  <2> QED BY <2>2, <2>3
<1> QED BY <1>2, <1>13, <1>14, <1>15, <1>16, <1>17, <1>18

\* What is written to a frame that is no table leaves the tree as it is.
LEMMA TreeKept ==
    ASSUME NEW tb \in Contained, NEW lev \in [Tables -> 0 .. 4], Tree(tb, lev),
           NEW tb2 \in Contained, \A t \in Tables : lev[t] > 0 => tb2[t] = tb[t]
    PROVE  /\ Tree(tb2, lev)
           /\ \A v \in Pages, l \in 1 .. 5 : Path(tb2, v, l) = Path(tb, v, l)
<1>1. \A v \in Pages, l \in 1 .. 5 : Path(tb2, v, l) = Path(tb, v, l)
  BY PathsKept DEF Tree
<1>2. TreeLevels(tb2, lev) /\ TreeLinks(tb2, lev)
  BY DEF Tree, TreeLevels, TreeLinks
<1>3. TreeWhole(tb2, lev)
  <2> SUFFICES ASSUME NEW t \in Tables, lev[t] > 1
               PROVE  \E q \in Tables, k \in Slots : lev[q] = lev[t] - 1 /\ tb2[q][k] = t
    BY DEF TreeWhole
  <2>1. PICK q \in Tables, k \in Slots : lev[q] = lev[t] - 1 /\ tb[q][k] = t
    BY DEF Tree, TreeWhole
  <2> QED BY <2>1
<1>4. TreeLeaves(tb2, lev)
  BY <1>1 DEF Tree, TreeLeaves
<1> QED BY <1>1, <1>2, <1>3, <1>4 DEF Tree

-----------------------------------------------------------------------------
(* The uses of the frames.                                                 *)

\* What the tables say of every page.
Looks == [v \in Pages |-> Lookup(v)]

\* No frame has two uses, and none has none, when the pages are mapped as look
\* says, the tables are those with a level, fr are free and hd taken by callers.
Uses(look, lev, fr, hd) ==
    /\ \A f \in fr \cup hd : lev[f] = 0
    /\ fr \cap hd = {}
    /\ \A v \in HeapPages : look[v] \notin fr \cup hd
    /\ \A v \in HeapPages, w \in HeapPages : look[v] = look[w] /\ look[v] \in Frames => v = w
    /\ \A w \in Windows : look[w] \in hd \cup {Absent}
    /\ \A f \in Frames \ (fr \cup hd) : lev[f] = 0 => \E v \in HeapPages : look[v] = f

\* The tables are a tree, and the frames have the uses it leaves them.
Shape ==
    \E lev \in [Tables -> 0 .. 4] : Tree(table, lev) /\ Uses(Looks, lev, free, held)

\* Pages are mapped, marked for demand paging, or neither.
LookType == [Pages -> Frames \cup {Absent, Demand}]

\* Heap pages and windows are apart.
LEMMA Apart ==
    /\ HeapPages \subseteq Pages /\ Windows \subseteq Pages
    /\ \A v \in HeapPages : v \notin Windows
BY VirtualAssumption DEF Pages

\* A heap page without a frame gets none.
LEMMA UsesMarked ==
    ASSUME NEW look \in LookType, NEW lev, NEW fr, NEW hd, Uses(look, lev, fr, hd),
           fr \subseteq Frames, hd \subseteq Frames,
           NEW x \in HeapPages, look[x] \notin Frames, NEW e \in {Absent, Demand}
    PROVE  Uses([look EXCEPT ![x] = e], lev, fr, hd)
<1>1. e \notin Frames
  BY NoTable
<1> DEFINE look2 == [look EXCEPT ![x] = e]
<1>2. look2[x] = e /\ \A v \in Pages : v # x => look2[v] = look[v]
  BY Apart DEF LookType
<1> HIDE DEF look2
<1>3. \A f \in Frames \ (fr \cup hd) : lev[f] = 0 => \E v \in HeapPages : look2[v] = f
  BY <1>2, Apart DEF Uses
<1>4. \A v \in HeapPages : look2[v] \notin fr \cup hd
  BY <1>1, <1>2, Apart DEF Uses
<1>5. \A w \in Windows : look2[w] \in hd \cup {Absent}
  BY <1>2, Apart DEF Uses
<1>6. \A v \in HeapPages, w \in HeapPages : look2[v] = look2[w] /\ look2[v] \in Frames => v = w
  BY <1>1, <1>2, Apart DEF Uses
<1> QED BY <1>3, <1>4, <1>5, <1>6 DEF Uses, look2

\* The frame of a heap page is given back.
LEMMA UsesFreed ==
    ASSUME NEW look \in LookType, NEW lev, NEW fr, NEW hd, Uses(look, lev, fr, hd),
           fr \subseteq Frames, hd \subseteq Frames,
           NEW x \in HeapPages, look[x] \in Frames, lev[look[x]] = 0
    PROVE  Uses([look EXCEPT ![x] = Absent], lev, fr \cup {look[x]}, hd)
<1> DEFINE look2 == [look EXCEPT ![x] = Absent]
           fr2 == fr \cup {look[x]}
<1>1. look2[x] = Absent /\ \A v \in Pages : v # x => look2[v] = look[v]
  BY Apart DEF LookType
<1> HIDE DEF look2
<1>2. /\ \A f \in fr2 \cup hd : lev[f] = 0
      /\ fr2 \cap hd = {}
  BY DEF Uses
<1>3. \A f \in Frames \ (fr2 \cup hd) : lev[f] = 0 => \E v \in HeapPages : look2[v] = f
  BY <1>1, Apart DEF Uses
<1>4. \A v \in HeapPages : look2[v] \notin fr2 \cup hd
  <2> SUFFICES ASSUME NEW v \in HeapPages PROVE look2[v] \notin fr2 \cup hd
    OBVIOUS
  <2>1. CASE v = x
    <3>1. look[x] # Absent /\ Absent \notin hd /\ Absent \notin fr
      BY NoTable DEF Uses
    <3> QED BY <1>1, <2>1, <3>1
  <2>2. CASE v # x
    BY <1>1, <2>2, Apart DEF Uses
  <2> QED BY <2>1, <2>2
<1>5. \A w \in Windows : look2[w] \in hd \cup {Absent}
  BY <1>1, Apart DEF Uses
<1>6. \A v \in HeapPages, w \in HeapPages : look2[v] = look2[w] /\ look2[v] \in Frames => v = w
  BY <1>1, Apart, NoTable DEF Uses
<1> QED BY <1>2, <1>3, <1>4, <1>5, <1>6 DEF Uses, look2

\* A window shows another of the frames that callers took, or none.
LEMMA UsesShown ==
    ASSUME NEW look \in LookType, NEW lev, NEW fr, NEW hd, Uses(look, lev, fr, hd),
           fr \subseteq Frames, hd \subseteq Frames,
           NEW x \in Windows, NEW e \in hd \cup {Absent}
    PROVE  Uses([look EXCEPT ![x] = e], lev, fr, hd)
<1> DEFINE look2 == [look EXCEPT ![x] = e]
<1>1. /\ \A v \in HeapPages : look2[v] = look[v]
      /\ \A w \in Windows : look2[w] = look[w] \/ look2[w] = e
  BY Apart DEF LookType
<1> HIDE DEF look2
<1>2. \A w \in Windows : look2[w] \in hd \cup {Absent}
  BY <1>1 DEF Uses
<1>3. Uses(look2, lev, fr, hd)
  BY <1>1, <1>2 DEF Uses
<1> QED BY <1>3 DEF look2

\* A free frame is mapped to a heap page that has none.
LEMMA UsesPagedIn ==
    ASSUME NEW look \in LookType, NEW lev, NEW fr, NEW hd, Uses(look, lev, fr, hd),
           fr \subseteq Frames, hd \subseteq Frames,
           NEW x \in HeapPages, look[x] \notin Frames, NEW f \in fr
    PROVE  Uses([look EXCEPT ![x] = f], lev, fr \ {f}, hd)
<1> DEFINE look2 == [look EXCEPT ![x] = f]
           fr2 == fr \ {f}
<1>1. look2[x] = f /\ \A v \in Pages : v # x => look2[v] = look[v]
  BY Apart DEF LookType
<1> HIDE DEF look2
<1>2. /\ \A g \in fr2 \cup hd : lev[g] = 0
      /\ fr2 \cap hd = {} /\ f \notin hd
  BY DEF Uses
<1>3. \A g \in Frames \ (fr2 \cup hd) : lev[g] = 0 => \E v \in HeapPages : look2[v] = g
  <2> SUFFICES ASSUME NEW g \in Frames \ (fr2 \cup hd), lev[g] = 0
               PROVE  \E v \in HeapPages : look2[v] = g
    OBVIOUS
  <2>1. CASE g = f
    BY <2>1, <1>1
  <2>2. CASE g # f
    <3>1. PICK v \in HeapPages : look[v] = g
      BY <2>2 DEF Uses
    <3> QED BY <3>1, <1>1, Apart
  <2> QED BY <2>1, <2>2
<1>4. \A v \in HeapPages : look2[v] \notin fr2 \cup hd
  BY <1>1, <1>2, Apart DEF Uses
<1>5. \A w \in Windows : look2[w] \in hd \cup {Absent}
  BY <1>1, Apart DEF Uses
<1>6. \A v \in HeapPages, w \in HeapPages : look2[v] = look2[w] /\ look2[v] \in Frames => v = w
  BY <1>1, Apart DEF Uses
<1> HIDE DEF fr2
<1> QED BY <1>2, <1>3, <1>4, <1>5, <1>6 DEF Uses, look2, fr2

\* A free frame becomes a table.
LEMMA UsesLinked ==
    ASSUME NEW look \in LookType, NEW lev, NEW fr, NEW hd, Uses(look, lev, fr, hd),
           fr \subseteq Frames, hd \subseteq Frames,
           NEW f \in fr, NEW n \in 1 .. 3, lev \in [Tables -> 0 .. 4]
    PROVE  Uses(look, [lev EXCEPT ![f] = n + 1], fr \ {f}, hd)
<1> DEFINE lev2 == [lev EXCEPT ![f] = n + 1]
<1>1. lev2[f] # 0 /\ \A g \in Tables : g # f => lev2[g] = lev[g]
  BY NoTable
<1>2. f \notin hd
  BY DEF Uses
<1> HIDE DEF lev2
<1>3. \A g \in (fr \ {f}) \cup hd : lev2[g] = 0
  BY <1>1, <1>2, NoTable DEF Uses
<1>4. \A g \in Frames \ ((fr \ {f}) \cup hd) : lev2[g] = 0 => \E v \in HeapPages : look[v] = g
  BY <1>1, NoTable DEF Uses
<1>5. Uses(look, lev2, fr \ {f}, hd)
  BY <1>3, <1>4 DEF Uses
<1> QED BY <1>5 DEF lev2

\* A free frame is taken by a caller.
LEMMA UsesTaken ==
    ASSUME NEW look \in LookType, NEW lev, NEW fr, NEW hd, Uses(look, lev, fr, hd),
           fr \subseteq Frames, hd \subseteq Frames,
           NEW f \in fr
    PROVE  Uses(look, lev, fr \ {f}, hd \cup {f})
<1>1. (fr \ {f}) \cup (hd \cup {f}) = fr \cup hd
  OBVIOUS
<1> QED BY <1>1 DEF Uses

\* A frame that no window shows is given back.
LEMMA UsesReturned ==
    ASSUME NEW look \in LookType, NEW lev, NEW fr, NEW hd, Uses(look, lev, fr, hd),
           fr \subseteq Frames, hd \subseteq Frames,
           NEW f \in hd, \A w \in Windows : look[w] # f
    PROVE  Uses(look, lev, fr \cup {f}, hd \ {f})
<1>1. (fr \cup {f}) \cup (hd \ {f}) = fr \cup hd
  OBVIOUS
<1> QED BY <1>1 DEF Uses

-----------------------------------------------------------------------------
(* The inductive invariant.                                                *)

\* A call is in progress.
InCall == op \notin {"idle", "halted"}

\* A walk has got where the tables lead it.
Walk ==
    /\ InCall => level \in 1 .. 4 /\ at = Path(table, va, level)
    /\ ~InCall => level = 0
    /\ op \in {"page", "pages", "free", "fault"} => va \in HeapPages
    /\ op \in {"map", "unmap"} => va \in Windows
    /\ op = "map" => arg \in held

\* The pages a call over several has still to free, or has already marked.
Pending == CASE op = "pages" -> start .. va - 1
             [] op = "free" -> va .. start + num - 1
             [] OTHER -> {}

\* The heap is in order but for these, and untouched from kernel_brk on.
Heaped ==
    /\ \A v \in HeapPages :
          /\ v \in live => Looks[v] # Absent
          /\ v \notin live => Looks[v] = Absent \/ v \in Pending
          /\ v >= kernel_brk => Looks[v] = Absent

\* How far a call has come.
Calls ==
    /\ op = "page" => Looks[va] = Absent /\ va < kernel_brk
    /\ op = "pages" =>
          /\ HeapBase <= start /\ start + num <= HeapBase + MaxPages
          /\ done < num /\ va = start + done /\ kernel_brk = va
          /\ \A v \in start .. va - 1 : Looks[v] = Demand /\ v \notin live
    /\ op = "free" =>
          /\ HeapBase <= start /\ start + num <= HeapBase + MaxPages
          /\ done < num /\ va = start + done
    /\ op = "fault" => va \in live /\ Looks[va] = Demand
    /\ op = "halted" => free = {}

\* What the TLB holds is what the tables say.
Coherent == \A v \in Pages : tlb[v] # None => tlb[v] = Looks[v]

\* All of these.
IInv == TypeOK /\ Shape /\ Walk /\ Heaped /\ Calls /\ Coherent

-----------------------------------------------------------------------------
\* A table with one entry set.
LEMMA SetEntry ==
    ASSUME NEW tb \in Contained, NEW t \in Tables, NEW k \in Slots, NEW e \in Entry
    PROVE  /\ [tb EXCEPT ![t][k] = e] \in Contained
           /\ \A u \in Tables : [tb EXCEPT ![t][k] = e][u]
                                  = IF u = t THEN [tb[t] EXCEPT ![k] = e] ELSE tb[u]
BY DEF Contained

\* A table as a whole set.
LEMMA SetTable ==
    ASSUME NEW tb \in Contained, NEW t \in Tables, NEW c \in [Slots -> Entry]
    PROVE  /\ [tb EXCEPT ![t] = c] \in Contained
           /\ \A u \in Tables : [tb EXCEPT ![t] = c][u] = IF u = t THEN c ELSE tb[u]
BY DEF Contained

\* What a frame holds as a table.
LEMMA FrameContents ==
    /\ EmptyTable \in [Slots -> Entry]
    /\ \A f \in Tables : Leftover(f) \in [Slots -> Entry]
BY DEF EmptyTable, Leftover, Entry

\* What the tables say of a page.
LEMMA LooksTyped ==
    ASSUME TypeOK, Shape
    PROVE  /\ Looks \in LookType
           /\ \A v \in Pages : Looks[v] = Lookup(v) /\ Looks[v] = Path(table, v, 5)
<1>1. PICK lev \in [Tables -> 0 .. 4] : Tree(table, lev) /\ Uses(Looks, lev, free, held)
  BY DEF Shape
<1>2. table \in Contained
  BY DEF TypeOK, Contained
<1>3. \A v \in Pages : Path(table, v, 5) \in Frames \cup {Absent, Demand}
  BY <1>1, <1>2, PathLevels DEF Tree
<1>4. \A v \in Pages : Lookup(v) = Path(table, v, 5)
  BY LookupIsPath
<1> QED BY <1>3, <1>4 DEF Looks, LookType

\* The entry a call is at.
LEMMA AtEntry ==
    ASSUME TypeOK, Shape, Walk, InCall
    PROVE  /\ va \in Pages /\ level \in 1 .. 4 /\ at \in Tables
           /\ at = Path(table, va, level)
           /\ Index(va, level) \in Slots
           /\ entry = Path(table, va, level + 1)
           /\ entry \in Entry
           /\ gotPte => entry = Looks[va]
           /\ noPte => Looks[va] = Absent
           /\ level \in 1 .. 3 /\ ~Present(entry) => entry = Absent
           /\ entry = Absent => Looks[va] = Absent
<1>1. PICK lev \in [Tables -> 0 .. 4] : Tree(table, lev) /\ Uses(Looks, lev, free, held)
  BY DEF Shape
<1>2. table \in Contained /\ at \in Tables
  BY DEF TypeOK, Contained
<1>3. va \in Pages
  BY Apart DEF Walk, InCall, TypeOK
<1>4. level \in 1 .. 4 /\ at = Path(table, va, level)
  BY DEF Walk
<1>5. Index(va, level) \in Slots
  BY <1>3, <1>4, PageSlots
<1>6. entry = Path(table, va, level + 1)
  BY <1>2, <1>3, <1>4, PathSteps DEF entry, Step
<1>7. entry \in Entry
  BY <1>2, <1>5 DEF entry, Contained
<1>8. Looks[va] = Path(table, va, 5)
  BY <1>3, LooksTyped
<1>9. gotPte => entry = Looks[va]
  BY <1>6, <1>8 DEF gotPte
<1>10. level \in 1 .. 3 /\ ~Present(entry) => entry = Absent
  <2>1. \A l \in 2 .. 4 : Path(table, va, l) \in Tables \/ Path(table, va, l) = Absent
    BY <1>1, <1>2, <1>3, PathLevels DEF Tree
  <2> QED BY <2>1, <1>6 DEF Present
<1>11. entry = Absent => Looks[va] = Absent
  <2>1. \A l \in 1 .. 4 : Path(table, va, l) = Absent => Path(table, va, l + 1) = Absent
    BY <1>1, <1>2, <1>3, PathLevels DEF Tree
  <2>2. Path(table, va, 2) = Absent => Path(table, va, 3) = Absent
    BY <2>1
  <2>3. Path(table, va, 3) = Absent => Path(table, va, 4) = Absent
    BY <2>1
  <2>4. Path(table, va, 4) = Absent => Path(table, va, 5) = Absent
    BY <2>1
  <2>5. level = 1 \/ level = 2 \/ level = 3 \/ level = 4
    BY <1>4
  <2> QED BY <2>2, <2>3, <2>4, <2>5, <1>6, <1>8
<1>12. noPte => Looks[va] = Absent
  BY <1>10, <1>11 DEF noPte
<1> QED BY <1>2, <1>3, <1>4, <1>5, <1>6, <1>7, <1>9, <1>10, <1>11, <1>12

-----------------------------------------------------------------------------
(* Types.                                                                  *)

\* The numbers behind the pages.
LEMMA Numbers ==
    /\ HeapBase \in Nat /\ MaxPages \in Nat /\ MaxCall \in Nat \ {0}
    /\ HeapPages = HeapBase .. HeapBase + MaxPages - 1
    /\ 0 \in Values /\ Dirty \in Values
BY VirtualAssumption DEF Dirty, HeapPages

\* The initial state is of its type.
LEMMA InitTypes == Init => TypeOK
<1> SUFFICES ASSUME Init PROVE TypeOK
  OBVIOUS
<1>1. table \in Contained
  <2>1. /\ EmptyTable \in [Slots -> Entry]
        /\ [EmptyTable EXCEPT ![BootSlot] = PdptHeap] \in [Slots -> Entry]
    BY FrameContents DEF Entry, Tables
  <2> QED BY <2>1, FrameContents, Zenon DEF Init, Contained
<1>2. /\ data \in [Frames -> Values]
      /\ tlb \in [HeapPages \cup Windows -> Tables \cup {None}]
      /\ free \subseteq Frames
  BY Numbers DEF Init
<1>3. kernel_brk \in HeapBase .. HeapBase + MaxPages
  BY Numbers DEF Init
<1>4. /\ num \in 0 .. MaxCall /\ done \in 0 .. MaxCall
      /\ level \in 0 .. 4
  BY Numbers DEF Init
<1>5. /\ op \in {"idle", "page", "pages", "free", "map", "unmap", "fault", "halted"}
      /\ va \in {0} \cup HeapPages \cup Windows
      /\ at \in Tables /\ start \in {0} \cup HeapPages
      /\ arg \in Frames \cup {None}
      /\ live \subseteq HeapPages /\ held \subseteq Frames
      /\ val \in Values
  BY Numbers, NoTable DEF Init
<1> QED BY <1>1, <1>2, <1>3, <1>4, <1>5 DEF TypeOK, Contained

\* TypeOK in parts: the memory.
MemoryType ==
    /\ table \in Contained
    /\ data \in [Frames -> Values]
    /\ tlb \in [Pages -> Tables \cup {None}]
    /\ free \subseteq Frames

\* The call.
CallType ==
    /\ op \in {"idle", "page", "pages", "free", "map", "unmap", "fault", "halted"}
    /\ va \in {0} \cup Pages
    /\ at \in Tables /\ level \in 0 .. 4
    /\ start \in {0} \cup HeapPages
    /\ num \in 0 .. MaxCall /\ done \in 0 .. MaxCall
    /\ arg \in Frames \cup {None}

\* And what callers hold, and how far the heap has come.
CallersType ==
    /\ kernel_brk \in HeapBase .. HeapBase + MaxPages
    /\ live \subseteq HeapPages /\ held \subseteq Frames
    /\ val \in Values

\* TypeOK in these parts.
LEMMA TypeParts == TypeOK <=> MemoryType /\ CallType /\ CallersType
BY DEF TypeOK, MemoryType, CallType, CallersType, Contained, Pages

\* A walk that starts or ends is one.
LEMMA WalkTypes ==
    /\ \A v \in Pages :
          StartWalk(v) => va' \in {0} \cup Pages /\ at' \in Tables /\ level' \in 0 .. 4
    /\ EndWalk => va' \in {0} \cup Pages /\ at' \in Tables /\ level' \in 0 .. 4
    /\ Return => CallType'
<1>1. \A v \in Pages : StartWalk(v) => va' \in {0} \cup Pages /\ at' \in Tables /\ level' \in 0 .. 4
  BY NoTable DEF StartWalk
<1>2. EndWalk => va' \in {0} \cup Pages /\ at' \in Tables /\ level' \in 0 .. 4
  BY NoTable DEF EndWalk
<1>3. Return => CallType'
  BY <1>2, Numbers DEF Return, CallType
<1> QED BY <1>1, <1>2, <1>3

\* The entry the walk is at is set, and a frame may be wiped.
LEMMA SetTypes ==
    ASSUME TypeOK, Shape, Walk, InCall, NEW e \in Entry
    PROVE  /\ Set(table, e) \in Contained
           /\ \A f \in Tables, c \in [Slots -> Entry] :
                 [Set(table, e) EXCEPT ![f] = c] \in Contained
<1>1. table \in Contained /\ at \in Tables /\ Index(va, level) \in Slots
  BY AtEntry, TypeParts DEF MemoryType
<1>2. Set(table, e) \in Contained
  BY <1>1, SetEntry DEF Set
<1> QED BY <1>2, SetTable

\* An entry of the kind that PageFreed finds.
LEMMA FreedEntry ==
    ASSUME TypeOK, Shape, Walk, InCall, gotPte, Present(entry)
    PROVE  entry \in Frames
BY AtEntry, LooksTyped, NoTable DEF LookType, Present

\* A call does not begin where another has left off, and pages follow.
LEMMA NextPage ==
    ASSUME TypeOK, Walk, Calls, op \in {"pages", "free"}, done + 1 < num
    PROVE  va + 1 \in HeapPages /\ done + 1 \in 0 .. MaxCall
BY Numbers DEF Calls, TypeOK

\* Memory that does not change keeps its type, and so do calls and callers.
LEMMA TypesUnchanged ==
    /\ MemoryType /\ UNCHANGED memory => MemoryType'
    /\ CallType /\ UNCHANGED <<op, walk, loop, arg>> => CallType'
    /\ CallersType /\ UNCHANGED <<kernel_brk, callers>> => CallersType'
BY DEF MemoryType, CallType, CallersType, memory, walk, loop, callers

\* A call starts, or goes on, and keeps its type.
LEMMA CallTypes ==
    ASSUME IInv,
           Next
    PROVE  CallType'
<1>1. CallType /\ CallersType
  BY TypeParts DEF IInv
<1>2. CASE UNCHANGED <<op, walk, loop, arg>>
  BY <1>1, <1>2, TypesUnchanged
<1>3. CASE Return
  BY <1>3, WalkTypes
<1>4. CASE Descend
  <2>1. InCall /\ at' \in Tables /\ level' \in 0 .. 4
    BY <1>4 DEF Descend, IInv, Walk, Present
  <2> QED BY <2>1, <1>1, <1>4 DEF Descend, CallType, loop
<1>5. CASE AddTable
  <2>1. at' \in Tables /\ level' \in 0 .. 4
    BY <1>1, <1>5, NoTable DEF AddTable, IInv, TypeOK
  <2> QED BY <2>1, <1>1, <1>5 DEF AddTable, CallType, loop
<1>6. CASE AllocPage
  <2>1. kernel_brk \in Pages
    BY <1>1, <1>6, Numbers, Apart DEF AllocPage, CallersType
  <2>2. va' \in {0} \cup Pages /\ at' \in Tables /\ level' \in 0 .. 4
    BY <1>6, <2>1, WalkTypes DEF AllocPage
  <2> QED BY <2>2, <1>1, <1>6 DEF AllocPage, CallType, loop
<1>7. CASE \E n \in 1 .. MaxCall : AllocPages(n)
  <2>1. PICK n \in 1 .. MaxCall : AllocPages(n)
    BY <1>7
  <2>2. kernel_brk \in HeapPages /\ kernel_brk \in Pages
    BY <1>1, <2>1, Numbers, Apart DEF AllocPages, CallersType
  <2>3. va' \in {0} \cup Pages /\ at' \in Tables /\ level' \in 0 .. 4
    BY <2>1, <2>2, WalkTypes DEF AllocPages
  <2>4. num' \in 0 .. MaxCall /\ done' \in 0 .. MaxCall /\ start' \in {0} \cup HeapPages
    BY <2>1, <2>2, Numbers DEF AllocPages
  <2> QED BY <2>1, <2>3, <2>4, <1>1 DEF AllocPages, CallType
<1>8. CASE \E v \in HeapPages, n \in 1 .. MaxCall : FreePages(v, n)
  <2>1. PICK v \in HeapPages, n \in 1 .. MaxCall : FreePages(v, n)
    BY <1>8
  <2>2. va' \in {0} \cup Pages /\ at' \in Tables /\ level' \in 0 .. 4
    BY <2>1, Apart, WalkTypes DEF FreePages
  <2>3. num' \in 0 .. MaxCall /\ done' \in 0 .. MaxCall /\ start' \in {0} \cup HeapPages
    BY <2>1, Numbers DEF FreePages
  <2> QED BY <2>1, <2>2, <2>3, <1>1 DEF FreePages, CallType
<1>9. CASE NextAllocated
  <2>1. CASE done + 1 < num
    <3>1. done' = done + 1 /\ StartWalk(va + 1) /\ UNCHANGED <<op, start, num, arg>>
      BY <1>9, <2>1 DEF NextAllocated, IInv, Calls
    <3>2. va + 1 \in Pages /\ done + 1 \in 0 .. MaxCall
      BY <1>9, <2>1, NextPage, Apart DEF NextAllocated, IInv
    <3>3. va' \in {0} \cup Pages /\ at' \in Tables /\ level' \in 0 .. 4
      BY <3>1, <3>2, WalkTypes
    <3> QED BY <3>1, <3>2, <3>3, <1>1 DEF CallType
  <2>2. CASE ~(done + 1 < num)
    BY <1>9, <2>2, <1>3 DEF NextAllocated
  <2> QED BY <2>1, <2>2
<1>10. CASE PagesFail
  <2>1. CASE done # 0
    <3>1. op' = "free" /\ num' = done /\ done' = 0 /\ StartWalk(start) /\ UNCHANGED <<start, arg>>
      BY <1>10, <2>1 DEF PagesFail
    <3>2. start \in Pages
      BY <1>10, <2>1, Numbers, Apart DEF PagesFail, IInv, Calls, TypeOK
    <3>3. va' \in {0} \cup Pages /\ at' \in Tables /\ level' \in 0 .. 4
      BY <3>1, <3>2, WalkTypes
    <3> QED BY <3>1, <3>2, <3>3, <1>1, Numbers DEF CallType
  <2>2. CASE done = 0
    BY <1>10, <2>2, <1>3 DEF PagesFail
  <2> QED BY <2>1, <2>2
<1>11. CASE op = "free" /\ NextFree
  <2>1. CASE done + 1 < num
    <3>1. done' = done + 1 /\ StartWalk(va + 1) /\ UNCHANGED <<op, start, num, arg>>
      BY <1>11, <2>1 DEF NextFree
    <3>2. va + 1 \in Pages /\ done + 1 \in 0 .. MaxCall
      BY <1>11, <2>1, NextPage, Apart DEF IInv
    <3>3. va' \in {0} \cup Pages /\ at' \in Tables /\ level' \in 0 .. 4
      BY <3>1, <3>2, WalkTypes
    <3> QED BY <3>1, <3>2, <3>3, <1>1 DEF CallType
  <2>2. CASE ~(done + 1 < num)
    BY <1>11, <2>2, <1>3 DEF NextFree
  <2> QED BY <2>1, <2>2
<1>12. CASE \E f \in held, w \in Windows : MapPage(w, f)
  <2>1. PICK f \in held, w \in Windows : MapPage(w, f)
    BY <1>12
  <2>2. va' \in {0} \cup Pages /\ at' \in Tables /\ level' \in 0 .. 4 /\ f \in Frames
    BY <2>1, <1>1, Apart, WalkTypes DEF MapPage, CallersType
  <2> QED BY <2>1, <2>2, <1>1 DEF MapPage, CallType, loop
<1>13. CASE \E w \in Windows : UnmapPage(w)
  <2>1. PICK w \in Windows : UnmapPage(w)
    BY <1>13
  <2>2. va' \in {0} \cup Pages /\ at' \in Tables /\ level' \in 0 .. 4
    BY <2>1, Apart, WalkTypes DEF UnmapPage
  <2> QED BY <2>1, <2>2, <1>1 DEF UnmapPage, CallType, loop
<1>14. CASE \E v \in live : PageFault(v)
  <2>1. PICK v \in live : PageFault(v)
    BY <1>14
  <2>2. va' \in {0} \cup Pages /\ at' \in Tables /\ level' \in 0 .. 4
    BY <2>1, <1>1, Apart, WalkTypes DEF PageFault, CallersType
  <2> QED BY <2>1, <2>2, <1>1 DEF PageFault, CallType, loop
<1>15. CASE Halt
  <2>1. va' \in {0} \cup Pages /\ at' \in Tables /\ level' \in 0 .. 4
    BY <1>15, WalkTypes DEF Halt
  <2> QED BY <2>1, <1>1, <1>15 DEF Halt, CallType, loop
<1>16. \/ UNCHANGED <<op, walk, loop, arg>> \/ Return
       \/ Descend \/ AddTable \/ AllocPage \/ \E n \in 1 .. MaxCall : AllocPages(n)
       \/ \E v \in HeapPages, n \in 1 .. MaxCall : FreePages(v, n)
       \/ NextAllocated \/ PagesFail \/ (op = "free" /\ NextFree)
       \/ \E f \in held, w \in Windows : MapPage(w, f)
       \/ \E w \in Windows : UnmapPage(w)
       \/ \E v \in live : PageFault(v)
       \/ Halt
  <2>1. CASE CallStep
    BY <2>1, Zenon DEF CallStep, PageAllocated, PageFails, PageFreed, NothingToFree, PageMapped,
                MapFails, PageUnmapped, NothingToUnmap, PageIn
  <2>2. CASE Callers
    BY <2>2, Zenon DEF Callers, Load, Store, Touch, Use, TakeFrame, ReturnFrame
  <2>3. CASE \E v \in HeapPages \cup Windows : Evict(v)
    BY <2>3, Zenon DEF Evict
  <2> QED BY <2>1, <2>2, <2>3 DEF Next
<1> QED BY <1>2, <1>3, <1>4, <1>5, <1>6, <1>7, <1>8, <1>9, <1>10, <1>11, <1>12, <1>13, <1>14,
           <1>15, <1>16

-----------------------------------------------------------------------------
(* What the steps do to the tables and to the uses of the frames.          *)

\* Nothing, when they change neither.
LEMMA TablesKept ==
    ASSUME Shape, UNCHANGED <<table, free, held>>
    PROVE  Shape' /\ Looks' = Looks
<1>1. Looks' = Looks
  BY Zenon DEF Looks, Lookup, Below, Present
<1>2. PICK lev \in [Tables -> 0 .. 4] : Tree(table, lev) /\ Uses(Looks, lev, free, held)
  BY DEF Shape
<1>3. Tree(table', lev) /\ Uses(Looks', lev, free', held')
  BY <1>1, <1>2, Zenon
<1> QED BY <1>1, <1>3 DEF Shape

\* The tables and the uses after a step that changes them.
LEMMA Changed ==
    ASSUME NEW lev \in [Tables -> 0 .. 4], NEW look \in LookType,
           Tree(table', lev), \A v \in Pages : Path(table', v, 5) = look[v],
           Uses(look, lev, free', held')
    PROVE  Shape' /\ Looks' = look
<1>1. \A v \in Pages : Lookup(v)' = Path(table', v, 5)
  BY NoTable DEF Lookup, Below, Present, Path, P2, P3, P4, Step
<1>2. Looks' = [v \in Pages |-> look[v]]
  BY <1>1 DEF Looks
<1>3. Looks' = look
  BY <1>2 DEF LookType
<1>4. Tree(table', lev) /\ Uses(Looks', lev, free', held')
  BY <1>3, Zenon
<1> QED BY <1>3, <1>4 DEF Shape

\* A call sets the entry of its page in the last table.
LEMMA LeafSet ==
    ASSUME TypeOK, Shape, Walk, InCall, gotPte,
           NEW lev \in [Tables -> 0 .. 4], Tree(table, lev),
           NEW e \in Entry, Leaf(e, lev),
           NEW tb \in Contained,
           \A t \in Tables : lev[t] > 0 => tb[t] = Set(table, e)[t]
    PROVE  /\ Tree(tb, lev)
           /\ \A v \in Pages : Path(tb, v, 5) = [Looks EXCEPT ![va] = e][v]
<1>1. /\ va \in Pages /\ at \in Tables /\ at = Path(table, va, 4)
      /\ table \in Contained /\ Index(va, 4) \in Slots
  BY AtEntry, TypeParts, PageSlots DEF MemoryType, gotPte
<1>2. Set(table, e) = [table EXCEPT ![at][Index(va, 4)] = e]
  BY DEF Set, gotPte
<1>3. \A t \in Tables : Set(table, e)[t] = IF t = at THEN [table[at] EXCEPT ![Index(va, 4)] = e]
                                                      ELSE table[t]
  BY <1>1, <1>2, SetEntry
<1>4. \A t \in Tables :
         lev[t] > 0 => tb[t] = IF t = at THEN [table[at] EXCEPT ![Index(va, 4)] = e] ELSE table[t]
  BY <1>3
<1>5. /\ Tree(tb, lev)
      /\ Path(tb, va, 5) = e
      /\ \A v \in Pages : v # va => Path(tb, v, 5) = Path(table, v, 5)
  BY <1>1, <1>4, LeafWritten
<1> QED BY <1>1, <1>5, LooksTyped DEF LookType

\* What is not a frame is written, over what is none, for a heap page.
LEMMA Marks ==
    ASSUME TypeOK, Shape, Walk, InCall, gotPte, va \in HeapPages, Looks[va] \notin Frames,
           NEW e \in {Absent, Demand}, table' = Set(table, e), UNCHANGED <<free, held>>
    PROVE  table' \in Contained /\ Shape' /\ Looks' = [Looks EXCEPT ![va] = e]
<1>1. PICK lev \in [Tables -> 0 .. 4] : Tree(table, lev) /\ Uses(Looks, lev, free, held)
  BY DEF Shape
<1>2. e \in Entry /\ Leaf(e, lev)
  BY DEF Entry, Leaf
<1>3. table' \in Contained
  BY <1>2, SetTypes
<1>4. /\ Tree(table', lev)
      /\ \A v \in Pages : Path(table', v, 5) = [Looks EXCEPT ![va] = e][v]
  BY <1>1, <1>2, <1>3, LeafSet
<1>5. Looks \in LookType /\ free \subseteq Frames /\ held \subseteq Frames
  BY LooksTyped DEF TypeOK
<1>6. Uses([Looks EXCEPT ![va] = e], lev, free', held')
  BY <1>1, <1>5, UsesMarked
<1>7. [Looks EXCEPT ![va] = e] \in LookType
  BY <1>5 DEF LookType
<1> QED BY <1>3, <1>4, <1>6, <1>7, Changed

\* The frame of a heap page is given back, as it was left.
LEMMA Frees ==
    ASSUME TypeOK, Shape, Walk, InCall, gotPte, va \in HeapPages, entry \in Frames,
           table' = [Set(table, Absent) EXCEPT ![entry] = Leftover(entry)],
           free' = free \cup {entry}, UNCHANGED held
    PROVE  table' \in Contained /\ Shape' /\ Looks' = [Looks EXCEPT ![va] = Absent]
<1>1. PICK lev \in [Tables -> 0 .. 4] : Tree(table, lev) /\ Uses(Looks, lev, free, held)
  BY DEF Shape
<1>2. Absent \in Entry /\ Leaf(Absent, lev) /\ entry \in Tables
  BY NoTable DEF Entry, Leaf
<1>3. Set(table, Absent) \in Contained /\ table' \in Contained
  BY <1>2, SetTypes, FrameContents
<1>4. entry = Looks[va] /\ va \in Pages /\ Looks[va] = Path(table, va, 5)
  BY AtEntry, LooksTyped
<1>5. lev[entry] = 0
  BY <1>1, <1>4, PathLevels, NoTable, TypeParts DEF Tree, MemoryType
<1>6. \A t \in Tables : lev[t] > 0 => table'[t] = Set(table, Absent)[t]
  BY <1>2, <1>3, <1>5, SetTable, FrameContents
<1>7. /\ Tree(table', lev)
      /\ \A v \in Pages : Path(table', v, 5) = [Looks EXCEPT ![va] = Absent][v]
  <2> DEFINE tb == table'
  <2>1. tb \in Contained /\ \A t \in Tables : lev[t] > 0 => tb[t] = Set(table, Absent)[t]
    BY <1>1, <1>2, <1>3, <1>6
  <2> HIDE DEF tb
  <2>2. /\ Tree(tb, lev)
        /\ \A v \in Pages : Path(tb, v, 5) = [Looks EXCEPT ![va] = Absent][v]
    BY <1>1, <1>2, <1>3, <2>1, LeafSet
  <2> QED BY <2>2 DEF tb
<1>8. Looks \in LookType /\ free \subseteq Frames /\ held \subseteq Frames
  BY LooksTyped DEF TypeOK
<1>9. Uses([Looks EXCEPT ![va] = Absent], lev, free', held')
  BY <1>1, <1>4, <1>5, <1>8, UsesFreed
<1>10. [Looks EXCEPT ![va] = Absent] \in LookType
  BY <1>8 DEF LookType
<1> QED BY <1>3, <1>7, <1>9, <1>10, Changed

\* A window is set to a frame that callers took, or to none.
LEMMA Shows ==
    ASSUME TypeOK, Shape, Walk, InCall, gotPte, va \in Windows,
           NEW e \in held \cup {Absent}, table' = Set(table, e), UNCHANGED <<free, held>>
    PROVE  table' \in Contained /\ Shape' /\ Looks' = [Looks EXCEPT ![va] = e]
<1>1. PICK lev \in [Tables -> 0 .. 4] : Tree(table, lev) /\ Uses(Looks, lev, free, held)
  BY DEF Shape
<1>2. Looks \in LookType /\ free \subseteq Frames /\ held \subseteq Frames
  BY LooksTyped DEF TypeOK
<1>3. e \in Entry /\ Leaf(e, lev)
  BY <1>1, <1>2, NoTable DEF Entry, Leaf, Uses
<1>4. table' \in Contained
  BY <1>3, SetTypes
<1>5. /\ Tree(table', lev)
      /\ \A v \in Pages : Path(table', v, 5) = [Looks EXCEPT ![va] = e][v]
  BY <1>1, <1>3, <1>4, LeafSet
<1>6. Uses([Looks EXCEPT ![va] = e], lev, free', held')
  BY <1>1, <1>2, UsesShown
<1>7. [Looks EXCEPT ![va] = e] \in LookType
  BY <1>2 DEF LookType
<1> QED BY <1>4, <1>5, <1>6, <1>7, Changed

\* A heap page that was marked gets a free frame, cleared.
LEMMA PagesIn ==
    ASSUME TypeOK, Shape, Walk, InCall, gotPte, va \in HeapPages, Looks[va] \notin Frames,
           NEW f \in free, table' = [Set(table, f) EXCEPT ![f] = EmptyTable],
           free' = free \ {f}, UNCHANGED held
    PROVE  table' \in Contained /\ Shape' /\ Looks' = [Looks EXCEPT ![va] = f]
<1>1. PICK lev \in [Tables -> 0 .. 4] : Tree(table, lev) /\ Uses(Looks, lev, free, held)
  BY DEF Shape
<1>2. Looks \in LookType /\ free \subseteq Frames /\ held \subseteq Frames
  BY LooksTyped DEF TypeOK
<1>3. f \in Entry /\ f \in Tables /\ f \in Frames /\ lev[f] = 0 /\ Leaf(f, lev)
  BY <1>1, <1>2, NoTable DEF Entry, Leaf, Uses
<1>4. Set(table, f) \in Contained /\ table' \in Contained
  BY <1>3, SetTypes, FrameContents
<1>5. \A t \in Tables : lev[t] > 0 => table'[t] = Set(table, f)[t]
  BY <1>3, <1>4, SetTable, FrameContents
<1>6. /\ Tree(table', lev)
      /\ \A v \in Pages : Path(table', v, 5) = [Looks EXCEPT ![va] = f][v]
  <2> DEFINE tb == table'
  <2>1. tb \in Contained /\ \A t \in Tables : lev[t] > 0 => tb[t] = Set(table, f)[t]
    BY <1>1, <1>3, <1>4, <1>5
  <2> HIDE DEF tb
  <2>2. /\ Tree(tb, lev)
        /\ \A v \in Pages : Path(tb, v, 5) = [Looks EXCEPT ![va] = f][v]
    BY <1>1, <1>3, <1>4, <2>1, LeafSet
  <2> QED BY <2>2 DEF tb
<1>7. Uses([Looks EXCEPT ![va] = f], lev, free', held')
  BY <1>1, <1>2, UsesPagedIn
<1>8. [Looks EXCEPT ![va] = f] \in LookType
  BY <1>2, <1>3 DEF LookType
<1> QED BY <1>4, <1>6, <1>7, <1>8, Changed

\* A missing table is added where the walk is.
LEMMA Adds ==
    ASSUME TypeOK, Shape, Walk, InCall, level \in 1 .. 3, ~Present(entry),
           NEW f \in free, table' = [Set(table, f) EXCEPT ![f] = EmptyTable],
           free' = free \ {f}, UNCHANGED held
    PROVE  /\ table' \in Contained /\ Shape' /\ Looks' = Looks
           /\ f = Path(table', va, level + 1)
<1>1. PICK lev \in [Tables -> 0 .. 4] : Tree(table, lev) /\ Uses(Looks, lev, free, held)
  BY DEF Shape
<1>2. Looks \in LookType /\ free \subseteq Frames /\ held \subseteq Frames
  BY LooksTyped DEF TypeOK
<1>3. f \in Entry /\ f \in Tables /\ f \in Frames /\ lev[f] = 0
  BY <1>1, <1>2, NoTable DEF Entry, Uses
<1>4. Set(table, f) \in Contained /\ table' \in Contained /\ table \in Contained
  BY <1>3, SetTypes, FrameContents, TypeParts DEF MemoryType
<1>5. /\ va \in Pages /\ at \in Tables /\ at = Path(table, va, level)
      /\ Path(table, va, level + 1) = Absent /\ Index(va, level) \in Slots
  BY AtEntry
<1>6. \A v \in Pages : Path(table, v, 5) # f
  <2> SUFFICES ASSUME NEW v \in Pages PROVE Looks[v] # f
    BY LooksTyped
  <2>1. CASE v \in HeapPages
    BY <1>1, <2>1 DEF Uses
  <2>2. CASE v \in Windows
    BY <1>1, <1>3, <2>2, NoTable DEF Uses
  <2> QED BY <2>1, <2>2 DEF Pages
<1>7. \A t \in Tables :
         table'[t] = IF t = f THEN EmptyTable
                     ELSE IF t = at THEN [table[at] EXCEPT ![Index(va, level)] = f] ELSE table[t]
  <2>1. \A t \in Tables : table'[t] = IF t = f THEN EmptyTable ELSE Set(table, f)[t]
    BY <1>3, <1>4, SetTable, FrameContents
  <2>2. \A t \in Tables :
           Set(table, f)[t] =
              IF t = at THEN [table[at] EXCEPT ![Index(va, level)] = f] ELSE table[t]
    BY <1>3, <1>4, <1>5 DEF Set, Contained
  <2> QED BY <2>1, <2>2
<1> DEFINE lev2 == [lev EXCEPT ![f] = level + 1]
<1>8. /\ lev2 \in [Tables -> 0 .. 4]
      /\ Tree(table', lev2)
      /\ Path(table', va, level + 1) = f
      /\ \A v \in Pages : Path(table', v, 5) = Path(table, v, 5)
  <2> DEFINE tb == table'
  <2>1. tb \in Contained /\ lev2 = [lev EXCEPT ![f] = level + 1]
    BY <1>4
  <2>2. \A t \in Tables :
           tb[t] = IF t = f THEN EmptyTable
                   ELSE IF t = at THEN [table[at] EXCEPT ![Index(va, level)] = f] ELSE table[t]
    BY <1>7
  <2> HIDE DEF tb, lev2
  <2>3. Addition(table, lev, va, level, at, f, tb, lev2)
    BY <1>1, <1>3, <1>4, <1>5, <1>6, <2>1, <2>2 DEF Addition
  <2>4. /\ lev2 \in [Tables -> 0 .. 4]
        /\ Tree(tb, lev2)
        /\ Path(tb, va, level + 1) = f
        /\ \A v \in Pages : Path(tb, v, 5) = Path(table, v, 5)
    BY <2>3, TableAdded
  <2> QED BY <2>4 DEF tb
<1>9. Uses(Looks, lev2, free', held')
  BY <1>1, <1>2, UsesLinked
<1>10. \A v \in Pages : Path(table', v, 5) = Looks[v]
  BY <1>8, LooksTyped
<1> HIDE DEF lev2
<1>11. Shape' /\ Looks' = Looks
  BY <1>2, <1>8, <1>9, <1>10, Changed
<1> QED BY <1>4, <1>8, <1>11

\* A frame that is no table and that no page shows is taken, or given back.
LEMMA Wipes ==
    ASSUME TypeOK, Shape, NEW f \in free \cup held, NEW c \in [Slots -> Entry],
           table' = [table EXCEPT ![f] = c],
           \/ f \in free /\ free' = free \ {f} /\ held' = held \cup {f}
           \/ /\ f \in held /\ free' = free \cup {f} /\ held' = held \ {f}
              /\ \A w \in Windows : Lookup(w) # f
    PROVE  table' \in Contained /\ Shape' /\ Looks' = Looks
<1>1. PICK lev \in [Tables -> 0 .. 4] : Tree(table, lev) /\ Uses(Looks, lev, free, held)
  BY DEF Shape
<1>2. Looks \in LookType /\ free \subseteq Frames /\ held \subseteq Frames /\ table \in Contained
  BY LooksTyped, TypeParts DEF TypeOK, MemoryType
<1>3. f \in Tables /\ lev[f] = 0
  BY <1>1, <1>2, NoTable DEF Uses
<1>4. /\ table' \in Contained
      /\ \A t \in Tables : lev[t] > 0 => table'[t] = table[t]
  <2>1. /\ [table EXCEPT ![f] = c] \in Contained
        /\ \A t \in Tables : [table EXCEPT ![f] = c][t] = IF t = f THEN c ELSE table[t]
    BY <1>2, <1>3 DEF Contained
  <2> QED BY <2>1, <1>3
<1>5. Tree(table', lev) /\ \A v \in Pages : Path(table', v, 5) = Path(table, v, 5)
  <2> DEFINE tb == table'
  <2>1. tb \in Contained /\ \A t \in Tables : lev[t] > 0 => tb[t] = table[t]
    BY <1>4
  <2> HIDE DEF tb
  <2>2. Tree(tb, lev) /\ \A v \in Pages, l \in 1 .. 5 : Path(tb, v, l) = Path(table, v, l)
    BY <1>1, <1>2, <2>1, TreeKept
  <2>3. \A v \in Pages : Path(tb, v, 5) = Path(table, v, 5)
    BY <2>2
  <2> QED BY <2>2, <2>3 DEF tb
<1>6. \A v \in Pages : Path(table', v, 5) = Looks[v]
  BY <1>5, LooksTyped
<1>7. Uses(Looks, lev, free', held')
  <2>1. CASE f \in free /\ free' = free \ {f} /\ held' = held \cup {f}
    BY <2>1, <1>1, <1>2, UsesTaken
  <2>2. CASE /\ f \in held /\ free' = free \cup {f} /\ held' = held \ {f}
             /\ \A w \in Windows : Lookup(w) # f
    <3>1. \A w \in Windows : Looks[w] # f
      BY <2>2, Apart, LooksTyped
    <3> QED BY <2>2, <3>1, <1>1, <1>2, UsesReturned
  <2> QED BY <2>1, <2>2
<1> QED BY <1>2, <1>4, <1>5, <1>6, <1>7, Changed

-----------------------------------------------------------------------------
(* What each step does to the memory.                                      *)

\* A frame that is cleared or given back holds a value.
LEMMA DataTypes ==
    ASSUME TypeOK, NEW f \in Frames
    PROVE  /\ [data EXCEPT ![f] = 0] \in [Frames -> Values]
           /\ [data EXCEPT ![f] = Dirty] \in [Frames -> Values]
           /\ \A x \in Values : [data EXCEPT ![f] = x] \in [Frames -> Values]
BY Numbers DEF TypeOK

\* A translation that is dropped leaves the TLB of its type.
LEMMA TlbTypes ==
    ASSUME TypeOK, NEW v \in Pages
    PROVE  /\ [tlb EXCEPT ![v] = None] \in [Pages -> Tables \cup {None}]
           /\ \A f \in Tables : [tlb EXCEPT ![v] = f] \in [Pages -> Tables \cup {None}]
BY TypeParts DEF MemoryType

\* What an access finds is where the tables have the page.
LEMMA Translated ==
    ASSUME TypeOK, Shape, Coherent, NEW v \in Pages
    PROVE  /\ Translate(v) \in Frames \cup {None}
           /\ Translate(v) # None => Translate(v) = Looks[v]
           /\ Translate(v) = None => tlb[v] = None /\ Looks[v] \notin Frames
<1>1. Looks[v] \in Frames \cup {Absent, Demand} /\ Looks[v] = Lookup(v)
  BY LooksTyped DEF LookType
<1>2. tlb[v] \in Tables \cup {None} /\ None \notin Frames
  BY TypeParts, NoTable DEF MemoryType
<1>3. tlb[v] # None => tlb[v] = Looks[v]
  BY DEF Coherent
<1>4. tlb[v] # None => tlb[v] \in Frames
  BY <1>1, <1>2, <1>3, NoTable
<1> QED BY <1>1, <1>2, <1>3, <1>4 DEF Translate

\* A new table changes what no page looks like, and the walk goes on in it.
LEMMA AddTableDoes ==
    ASSUME IInv, AddTable
    PROVE  /\ MemoryType' /\ Shape' /\ Looks' = Looks
           /\ at' = Path(table', va, level + 1)
<1>1. TypeOK /\ Shape /\ Walk /\ InCall
  BY DEF IInv, AddTable, creating, InCall
<1>2. PICK f \in free : /\ PfAlloc(f)
                        /\ table' = [Set(table, f) EXCEPT ![f] = EmptyTable]
                        /\ at' = f
  BY DEF AddTable
<1>3. level \in 1 .. 3 /\ ~Present(entry) /\ UNCHANGED held /\ tlb' = tlb
  BY Zenon DEF AddTable, callers
<1>4. free' = free \ {f} /\ data' = [data EXCEPT ![f] = 0] /\ f \in Frames
  BY <1>1, <1>2 DEF PfAlloc, TypeOK
<1>5. table' \in Contained /\ Shape' /\ Looks' = Looks /\ f = Path(table', va, level + 1)
  BY <1>1, <1>2, <1>3, <1>4, Adds
<1>6. MemoryType'
  BY <1>1, <1>3, <1>4, <1>5, DataTypes, TypeParts DEF MemoryType
<1> QED BY <1>2, <1>5, <1>6

\* A call over heap pages is at one.
LEMMA HeapCall ==
    ASSUME IInv, op \in {"page", "pages", "free", "fault"}
    PROVE  TypeOK /\ Shape /\ Walk /\ InCall /\ va \in HeapPages /\ va \in Pages
BY Apart DEF IInv, Walk, InCall

\* A call over a window is at one.
LEMMA WindowCall ==
    ASSUME IInv, op \in {"map", "unmap"}
    PROVE  TypeOK /\ Shape /\ Walk /\ InCall /\ va \in Windows /\ va \in Pages
BY Apart DEF IInv, Walk, InCall

\* A page that had nothing is marked for demand paging.
LEMMA PageAllocatedDoes ==
    ASSUME IInv, PageAllocated \/ NextAllocated
    PROVE  /\ MemoryType' /\ Shape' /\ Looks' = [Looks EXCEPT ![va] = Demand]
           /\ Looks[va] = Absent
<1>1. TypeOK /\ Shape /\ Walk /\ InCall /\ va \in HeapPages /\ va \in Pages
  BY HeapCall DEF PageAllocated, NextAllocated
<1>2. gotPte /\ table' = Set(table, Demand) /\ UNCHANGED <<data, tlb, free, held>>
  BY DEF PageAllocated, NextAllocated
<1>3. Looks[va] = Absent
  <2>1. CASE op = "page"
    BY <2>1 DEF IInv, Calls
  <2>2. CASE op = "pages"
    <3>1. kernel_brk = va
      BY <2>2 DEF IInv, Calls
    <3> QED BY <3>1, <1>1, Numbers DEF IInv, Heaped
  <2> QED BY <2>1, <2>2 DEF PageAllocated, NextAllocated
<1>4. table' \in Contained /\ Shape' /\ Looks' = [Looks EXCEPT ![va] = Demand]
  BY <1>1, <1>2, <1>3, Marks, NoTable
<1>5. MemoryType'
  BY <1>1, <1>2, <1>4, TypeParts DEF MemoryType
<1> QED BY <1>3, <1>4, <1>5

\* A page is left with nothing, whatever it had.
LEMMA PageFreedDoes ==
    ASSUME IInv, PageFreed
    PROVE  MemoryType' /\ Shape' /\ Looks' = [Looks EXCEPT ![va] = Absent]
<1>1. TypeOK /\ Shape /\ Walk /\ InCall /\ va \in HeapPages /\ va \in Pages
  BY HeapCall DEF PageFreed
<1>2. gotPte /\ tlb' = [tlb EXCEPT ![va] = None] /\ UNCHANGED held
  BY DEF PageFreed
<1>3. tlb' \in [Pages -> Tables \cup {None}]
  BY <1>1, <1>2, TlbTypes
<1>4. CASE Present(entry)
  <2>1. entry \in Frames
    BY <1>1, <1>2, <1>4, FreedEntry
  <2>2. /\ free' = free \cup {entry} /\ data' = [data EXCEPT ![entry] = Dirty]
        /\ table' = [Set(table, Absent) EXCEPT ![entry] = Leftover(entry)]
    BY <1>4 DEF PageFreed, GiveBack
  <2>3. table' \in Contained /\ Shape' /\ Looks' = [Looks EXCEPT ![va] = Absent]
    BY <1>1, <1>2, <2>1, <2>2, Frees
  <2>4. data' \in [Frames -> Values]
    BY <1>1, <2>1, <2>2, DataTypes
  <2>5. free' \subseteq Frames
    BY <1>1, <2>1, <2>2 DEF TypeOK
  <2> QED BY <1>3, <2>3, <2>4, <2>5 DEF MemoryType
<1>5. CASE ~Present(entry)
  <2>1. table' = Set(table, Absent) /\ UNCHANGED <<free, data>>
    BY <1>5 DEF PageFreed
  <2>2. Looks[va] \notin Frames
    BY <1>1, <1>2, <1>5, AtEntry, NoTable DEF Present
  <2>3. table' \in Contained /\ Shape' /\ Looks' = [Looks EXCEPT ![va] = Absent]
    BY <1>1, <1>2, <2>1, <2>2, Marks
  <2> QED BY <1>1, <1>3, <2>1, <2>3, TypeParts DEF MemoryType
<1> QED BY <1>4, <1>5

\* A window shows the frame map_page was given.
LEMMA PageMappedDoes ==
    ASSUME IInv, PageMapped
    PROVE  MemoryType' /\ Shape' /\ Looks' = [Looks EXCEPT ![va] = arg]
<1>1. TypeOK /\ Shape /\ Walk /\ InCall /\ va \in Windows /\ va \in Pages
  BY WindowCall DEF PageMapped
<1>2. /\ gotPte /\ tlb' = [tlb EXCEPT ![va] = None] /\ UNCHANGED <<data, free, held>>
      /\ table' = Set(table, arg)
  BY DEF PageMapped, callers
<1>3. arg \in held
  BY <1>1 DEF PageMapped, Walk
<1>4. table' \in Contained /\ Shape' /\ Looks' = [Looks EXCEPT ![va] = arg]
  BY <1>1, <1>2, <1>3, Shows
<1>5. tlb' \in [Pages -> Tables \cup {None}]
  BY <1>1, <1>2, TlbTypes
<1>6. MemoryType'
  BY <1>1, <1>2, <1>4, <1>5, TypeParts DEF MemoryType
<1> QED BY <1>4, <1>6

\* A window shows nothing, whatever it did.
LEMMA PageUnmappedDoes ==
    ASSUME IInv, PageUnmapped
    PROVE  MemoryType' /\ Shape' /\ Looks' = [Looks EXCEPT ![va] = Absent]
<1>1. TypeOK /\ Shape /\ Walk /\ InCall /\ va \in Windows /\ va \in Pages
  BY WindowCall DEF PageUnmapped
<1>2. gotPte /\ UNCHANGED <<data, free, held>>
  BY DEF PageUnmapped, callers
<1>3. CASE Present(entry)
  <2>1. table' = Set(table, Absent) /\ tlb' = [tlb EXCEPT ![va] = None]
    BY <1>3 DEF PageUnmapped
  <2>2. table' \in Contained /\ Shape' /\ Looks' = [Looks EXCEPT ![va] = Absent]
    BY <1>1, <1>2, <2>1, Shows
  <2>3. tlb' \in [Pages -> Tables \cup {None}]
    BY <1>1, <2>1, TlbTypes
  <2>4. MemoryType'
    BY <1>1, <1>2, <2>2, <2>3, TypeParts DEF MemoryType
  <2> QED BY <2>2, <2>4
<1>4. CASE ~Present(entry)
  <2>1. UNCHANGED <<table, tlb>>
    BY <1>4 DEF PageUnmapped
  <2>2. Shape' /\ Looks' = Looks
    BY <1>1, <1>2, <2>1, TablesKept
  <2>3. Looks[va] = Absent
    <3>1. Looks[va] \in held \cup {Absent}
      BY <1>1 DEF Shape, Uses
    <3>2. Looks[va] \notin Tables
      BY <1>1, <1>2, <1>4, AtEntry DEF Present
    <3> QED BY <3>1, <3>2, <1>1, NoTable DEF TypeOK
  <2>4. Looks' = [Looks EXCEPT ![va] = Absent]
    BY <1>1, <2>2, <2>3, LooksTyped DEF LookType
  <2>5. MemoryType'
    BY <1>1, <1>2, <2>1, TypeParts DEF MemoryType
  <2> QED BY <2>2, <2>4, <2>5
<1> QED BY <1>3, <1>4

\* A page gets a frame, cleared.
LEMMA PageInDoes ==
    ASSUME IInv, PageIn
    PROVE  /\ MemoryType' /\ Shape'
           /\ \E f \in free : Looks' = [Looks EXCEPT ![va] = f] /\ data' = [data EXCEPT ![f] = 0]
<1>1. TypeOK /\ Shape /\ Walk /\ InCall /\ va \in HeapPages /\ va \in Pages
  BY HeapCall DEF PageIn
<1>2. PICK f \in free : PfAlloc(f) /\ table' = [Set(table, f) EXCEPT ![f] = EmptyTable]
  BY DEF PageIn
<1>3. /\ gotPte /\ entry = Demand /\ tlb' = [tlb EXCEPT ![va] = None] /\ UNCHANGED held
      /\ free' = free \ {f} /\ data' = [data EXCEPT ![f] = 0] /\ f \in Frames
  BY <1>1, <1>2 DEF PageIn, PfAlloc, callers, TypeOK
<1>4. Looks[va] \notin Frames
  BY <1>1, <1>3, AtEntry, NoTable
<1>5. table' \in Contained /\ Shape' /\ Looks' = [Looks EXCEPT ![va] = f]
  BY <1>1, <1>2, <1>3, <1>4, PagesIn
<1>6. tlb' \in [Pages -> Tables \cup {None}] /\ data' \in [Frames -> Values]
  BY <1>1, <1>3, TlbTypes, DataTypes
<1>7. MemoryType'
  BY <1>1, <1>3, <1>5, <1>6, TypeParts DEF MemoryType
<1> QED BY <1>3, <1>5, <1>7

\* A frame that callers take, or give back, is mapped nowhere.
LEMMA TakeFrameDoes ==
    ASSUME IInv, TakeFrame
    PROVE  MemoryType' /\ Shape' /\ Looks' = Looks /\ held' \subseteq Frames /\ held \subseteq held'
<1>1. TypeOK /\ Shape
  BY DEF IInv
<1>2. PICK f \in free : /\ PfAlloc(f) /\ table' = [table EXCEPT ![f] = EmptyTable]
                        /\ held' = held \cup {f}
  BY DEF TakeFrame
<1>3. /\ free' = free \ {f} /\ data' = [data EXCEPT ![f] = 0] /\ f \in Frames
      /\ held \subseteq Frames /\ tlb' = tlb
  BY <1>1, <1>2 DEF TakeFrame, PfAlloc, TypeOK
<1>4. table' \in Contained /\ Shape' /\ Looks' = Looks
  BY <1>1, <1>2, <1>3, Wipes, FrameContents
<1>5. MemoryType'
  BY <1>1, <1>3, <1>4, TypeParts, DataTypes DEF MemoryType
<1> QED BY <1>2, <1>3, <1>4, <1>5

\* And so when it is given back.
LEMMA ReturnFrameDoes ==
    ASSUME IInv, NEW f \in held, ReturnFrame(f)
    PROVE  /\ MemoryType' /\ Shape' /\ Looks' = Looks
           /\ data' = [data EXCEPT ![f] = Dirty] /\ held' \subseteq Frames
<1>1. TypeOK /\ Shape
  BY DEF IInv
<1>2. /\ free' = free \cup {f} /\ data' = [data EXCEPT ![f] = Dirty]
      /\ table' = [table EXCEPT ![f] = Leftover(f)] /\ held' = held \ {f}
      /\ \A w \in Windows : Lookup(w) # f
      /\ tlb' = tlb
  BY DEF ReturnFrame, GiveBack
<1>3. f \in Frames /\ f \in Tables /\ held \subseteq Frames /\ free \subseteq Frames
  BY <1>1, NoTable DEF TypeOK
<1>4. table' \in Contained /\ Shape' /\ Looks' = Looks
  BY <1>1, <1>2, <1>3, Wipes, FrameContents
<1>5. data' \in [Frames -> Values]
  BY <1>1, <1>2, <1>3, DataTypes
<1>6. MemoryType'
  BY <1>1, <1>2, <1>3, <1>4, <1>5, TypeParts DEF MemoryType
<1> QED BY <1>2, <1>3, <1>4, <1>6

\* A load, a store or a touch of page v.
Access(v) ==
    /\ op = "idle" /\ v \in live \cup Windows /\ Translate(v) # None
    /\ tlb' = [tlb EXCEPT ![v] = Translate(v)]
    /\ UNCHANGED <<table, free, kernel_brk, op, walk, loop, arg, live, held>>
    /\ \/ v \in live /\ val' = data[Translate(v)] /\ data' = data
       \/ val' = val /\ \E x \in Values : data' = [data EXCEPT ![Translate(v)] = x]
       \/ val' = val /\ data' = data

\* An access uses the frame of its page, and moves none.
LEMMA AccessDoes ==
    ASSUME IInv, NEW v \in Pages, Access(v)
    PROVE  /\ MemoryType' /\ Shape' /\ Looks' = Looks
           /\ Translate(v) \in Frames /\ Translate(v) = Looks[v]
           /\ val' \in Values
<1>1. TypeOK /\ Shape /\ Coherent
  BY DEF IInv
<1>2. Translate(v) \in Frames /\ Translate(v) = Looks[v] /\ Translate(v) \in Tables
  BY <1>1, Translated, NoTable DEF Access
<1>3. Shape' /\ Looks' = Looks /\ UNCHANGED <<table, free>>
  BY <1>1, TablesKept DEF Access
<1>4. tlb' \in [Pages -> Tables \cup {None}]
  BY <1>1, <1>2, TlbTypes DEF Access
<1>5. data' \in [Frames -> Values] /\ val' \in Values
  <2>1. data \in [Frames -> Values] /\ val \in Values
    BY <1>1 DEF TypeOK
  <2>2. \A x \in Values : [data EXCEPT ![Translate(v)] = x] \in [Frames -> Values]
    BY <1>1, <1>2, DataTypes
  <2> QED BY <1>2, <2>1, <2>2 DEF Access
<1>6. MemoryType'
  BY <1>1, <1>3, <1>4, <1>5, TypeParts DEF MemoryType
<1> QED BY <1>2, <1>3, <1>5, <1>6

\* The kinds of steps, by what they do to the memory.
LEMMA Kinds ==
    ASSUME IInv, Next
    PROVE  \/ UNCHANGED <<memory, callers>>
           \/ AddTable \/ PageAllocated \/ NextAllocated \/ PageFreed
           \/ PageMapped \/ PageUnmapped \/ PageIn \/ TakeFrame
           \/ \E f \in held : ReturnFrame(f)
           \/ \E v \in Pages : Access(v)
           \/ \E v \in Pages : Evict(v)
<1>1. CASE CallStep
  BY <1>1, Zenon DEF CallStep, Descend, PageFails, PagesFail, NothingToFree, MapFails,
                     NothingToUnmap, Halt
<1>2. CASE Callers
  <2>1. CASE AllocPage \/ (\E n \in 1 .. MaxCall : AllocPages(n))
    BY <2>1, Zenon DEF AllocPage, AllocPages
  <2>2. CASE \E v \in HeapPages, n \in 1 .. MaxCall : FreePages(v, n)
    BY <2>2, Zenon DEF FreePages
  <2>3. CASE \E v \in live : PageFault(v)
    BY <2>3, Zenon DEF PageFault
  <2>4. CASE \E f \in held, w \in Windows : MapPage(w, f)
    BY <2>4, Zenon DEF MapPage
  <2>5. CASE \E w \in Windows : UnmapPage(w)
    BY <2>5, Zenon DEF UnmapPage
  <2>6. live \subseteq Pages /\ Windows \subseteq Pages
    BY Apart DEF IInv, TypeOK
  <2>7. /\ \A v \in live : (Load(v) \/ \E x \in Values : Store(v, x)) => Access(v)
        /\ \A w \in Windows : (Touch(w) \/ \E x \in Values : Store(w, x)) => Access(w)
    BY DEF Load, Touch, Store, Use, Access
  <2>8. CASE \/ \E v \in live : Load(v) \/ \E x \in Values : Store(v, x)
             \/ \E w \in Windows : Touch(w) \/ \E x \in Values : Store(w, x)
    BY <2>6, <2>7, <2>8
  <2> QED BY <1>2, <2>1, <2>2, <2>3, <2>4, <2>5, <2>8, Zenon DEF Callers
<1>3. CASE \E v \in HeapPages \cup Windows : Evict(v)
  BY <1>3 DEF Pages
<1> QED BY <1>1, <1>2, <1>3 DEF Next

\* A translation is dropped.
LEMMA EvictDoes ==
    ASSUME IInv, NEW v \in Pages, Evict(v)
    PROVE  MemoryType' /\ Shape' /\ Looks' = Looks /\ UNCHANGED <<data, callers>>
<1>1. TypeOK /\ Shape
  BY DEF IInv
<1>2. UNCHANGED <<table, free, data, callers>> /\ tlb' = [tlb EXCEPT ![v] = None]
  BY DEF Evict
<1>3. Shape' /\ Looks' = Looks
  BY <1>1, <1>2, TablesKept DEF callers
<1>4. MemoryType'
  BY <1>1, <1>2, TlbTypes, TypeParts DEF MemoryType
<1> QED BY <1>2, <1>3, <1>4

\* Nothing is done to it.
LEMMA NothingDone ==
    ASSUME IInv, UNCHANGED <<memory, callers>>
    PROVE  MemoryType' /\ Shape' /\ Looks' = Looks
<1>1. TypeOK /\ Shape
  BY DEF IInv
<1>2. UNCHANGED <<table, free, held>>
  BY DEF memory, callers
<1>3. Shape' /\ Looks' = Looks
  BY <1>1, <1>2, TablesKept
<1>4. MemoryType'
  BY <1>1, TypeParts, TypesUnchanged
<1> QED BY <1>3, <1>4

\* The types and the shape of the tables are kept by every step.
LEMMA MemoryKept ==
    ASSUME IInv, Next
    PROVE  MemoryType' /\ Shape'
<1>1. CASE \/ UNCHANGED <<memory, callers>>
           \/ AddTable \/ PageAllocated \/ NextAllocated \/ PageFreed
           \/ PageMapped \/ PageUnmapped \/ PageIn \/ TakeFrame
  BY <1>1, NothingDone, AddTableDoes, PageAllocatedDoes, PageFreedDoes, PageMappedDoes,
     PageUnmappedDoes, PageInDoes, TakeFrameDoes, Zenon
<1>2. CASE \E f \in held : ReturnFrame(f)
  BY <1>2, ReturnFrameDoes
<1>3. CASE \E v \in Pages : Access(v)
  BY <1>3, AccessDoes
<1>4. CASE \E v \in Pages : Evict(v)
  BY <1>4, EvictDoes
<1> QED BY <1>1, <1>2, <1>3, <1>4, Kinds, Zenon

\* And so are the types of what callers see.
LEMMA CallersKept ==
    ASSUME IInv, Next
    PROVE  CallersType'
<1>1. TypeOK /\ CallersType /\ Walk /\ Calls
  BY TypeParts DEF IInv
<1>2. kernel_brk' \in HeapBase .. HeapBase + MaxPages
  <2>1. CASE kernel_brk' = kernel_brk
    BY <1>1, <2>1 DEF CallersType
  <2>2. CASE AllocPage
    BY <1>1, <2>2, Numbers DEF AllocPage, CallersType
  <2>3. CASE NextAllocated
    <3>1. va \in HeapPages /\ kernel_brk = va /\ kernel_brk' = kernel_brk + 1
      BY <1>1, <2>3 DEF NextAllocated, Walk, Calls
    <3> QED BY <3>1, Numbers
  <2>4. kernel_brk' = kernel_brk \/ AllocPage \/ NextAllocated
    BY Zenon DEF Next, CallStep, Callers, Descend, AddTable, PageAllocated, PageFails, PagesFail,
       PageFreed, NothingToFree, PageMapped, MapFails, PageUnmapped, NothingToUnmap, PageIn, Halt,
       AllocPages, FreePages, Load, Store, Touch, Use, PageFault, TakeFrame, ReturnFrame, MapPage,
       UnmapPage, Evict
  <2> QED BY <2>1, <2>2, <2>3, <2>4
<1>3. CASE UNCHANGED callers
  BY <1>1, <1>2, <1>3 DEF CallersType, callers
<1>4. CASE UNCHANGED <<memory, callers>>
  BY <1>3, <1>4, Zenon
<1>5. CASE AddTable \/ PageMapped \/ PageUnmapped \/ PageIn \/ (\E v \in Pages : Evict(v))
  BY <1>3, <1>5, Zenon DEF AddTable, PageMapped, PageUnmapped, PageIn, Evict
<1>6. CASE PageAllocated \/ PageFreed
  <2>1. va \in HeapPages
    BY <1>1, <1>6 DEF Walk, PageAllocated, PageFreed
  <2>2. (live' = live \cup {va} \/ live' = live \ {va}) /\ held' = held /\ val' = val
    BY <1>6 DEF PageAllocated, PageFreed
  <2> QED BY <1>1, <1>2, <2>1, <2>2 DEF CallersType
<1>7. CASE NextAllocated
  <2>1. /\ live' = live \/ live' = live \cup (start .. start + num - 1)
        /\ held' = held /\ val' = val
    BY <1>7 DEF NextAllocated
  <2>2. HeapBase <= start /\ start + num <= HeapBase + MaxPages
    BY <1>1, <1>7 DEF Calls, NextAllocated
  <2>3. start \in Int /\ num \in Int
    BY <1>1, Numbers DEF TypeOK
  <2>4. start .. start + num - 1 \subseteq HeapPages
    BY <2>2, <2>3, Numbers
  <2> QED BY <1>1, <1>2, <2>1, <2>4 DEF CallersType
<1>8. CASE TakeFrame
  BY <1>1, <1>2, <1>8, TakeFrameDoes DEF TakeFrame, CallersType
<1>9. CASE \E f \in held : ReturnFrame(f)
  BY <1>1, <1>2, <1>9, ReturnFrameDoes DEF ReturnFrame, CallersType
<1>10. CASE \E v \in Pages : Access(v)
  BY <1>1, <1>2, <1>10, AccessDoes DEF Access, CallersType
<1> QED BY <1>4, <1>5, <1>6, <1>7, <1>8, <1>9, <1>10, Kinds, Zenon

\* All of TypeOK, then.
LEMMA TypesKept ==
    ASSUME IInv, Next
    PROVE  TypeOK' /\ Shape'
<1>1. MemoryType' /\ CallType' /\ CallersType' /\ Shape'
  BY MemoryKept, CallTypes, CallersKept
<1> QED BY <1>1 DEF TypeOK, MemoryType, CallType, CallersType, Contained, Pages

-----------------------------------------------------------------------------
(* The walk is kept.                                                       *)

\* A walk that starts is at the root.
LEMMA WalkStarts ==
    ASSUME NEW v, StartWalk(v),
           \/ op' \in {"page", "pages", "free", "fault"} /\ v \in HeapPages
           \/ op' = "map" /\ v \in Windows /\ arg' \in held'
           \/ op' = "unmap" /\ v \in Windows
    PROVE  Walk'
<1>1. va' = v /\ at' = Path(table', va', level') /\ level' \in 1 .. 4
  BY PathSteps DEF StartWalk
<1> QED BY <1>1 DEF Walk, InCall

\* Between calls there is none.
LEMMA WalkEnds ==
    ASSUME op' \in {"idle", "halted"}, level' = 0
    PROVE  Walk'
BY DEF Walk, InCall

\* Every step leaves a walk where the tables lead it.
LEMMA WalkKept ==
    ASSUME IInv, Next
    PROVE  Walk'
<1>1. TypeOK /\ Shape /\ Walk /\ Calls
  BY DEF IInv
<1>2. CASE Return
  BY <1>2, WalkEnds DEF Return, EndWalk
<1>3. CASE Descend
  <2>1. InCall
    BY <1>1, <1>3 DEF Descend, Walk
  <2>2. /\ at' = Path(table', va', level') /\ level' \in 1 .. 4
    <3>1. entry = Path(table, va, level + 1)
      BY <1>1, <2>1, AtEntry
    <3>2. at' = entry /\ level' = level + 1 /\ level \in 1 .. 3 /\ va' = va /\ table' = table
      BY <1>3 DEF Descend, memory
    <3> QED BY <3>1, <3>2
  <2>3. UNCHANGED <<op, va, arg, held>>
    BY <1>3 DEF Descend, callers
  <2> QED BY <1>1, <2>1, <2>2, <2>3 DEF Walk, InCall
<1>4. CASE AddTable
  <2>1. InCall
    BY <1>1, <1>4 DEF AddTable, Walk
  <2>2. at' = Path(table', va', level') /\ level' \in 1 .. 4
    <3>1. at' = Path(table', va, level + 1)
      BY <1>4, AddTableDoes
    <3>2. level' = level + 1 /\ level \in 1 .. 3 /\ va' = va
      BY <1>4 DEF AddTable
    <3> QED BY <3>1, <3>2
  <2>3. UNCHANGED <<op, va, arg, held>>
    BY <1>4 DEF AddTable, callers
  <2> QED BY <1>1, <2>1, <2>2, <2>3 DEF Walk, InCall
<1>5. CASE Halt
  BY <1>5, WalkEnds DEF Halt, EndWalk
<1>6. CASE NextAllocated \/ (op = "free" /\ NextFree)
  <2>1. CASE done + 1 < num
    <3>1. op' = op /\ StartWalk(va + 1)
      BY <1>1, <1>6, <2>1 DEF NextAllocated, NextFree, Calls
    <3>2. va + 1 \in HeapPages /\ op \in {"pages", "free"}
      BY <1>1, <1>6, <2>1, NextPage DEF NextAllocated
    <3> QED BY <3>1, <3>2, WalkStarts
  <2>2. CASE ~(done + 1 < num)
    BY <1>2, <1>6, <2>2 DEF NextAllocated, NextFree
  <2> QED BY <2>1, <2>2
<1>7. CASE PagesFail
  <2>1. CASE done = 0
    BY <1>2, <1>7, <2>1 DEF PagesFail
  <2>2. CASE done # 0
    <3>1. op' = "free" /\ StartWalk(start) /\ op = "pages"
      BY <1>7, <2>2 DEF PagesFail
    <3>2. start \in HeapPages
      BY <1>1, <3>1, <2>2, Numbers DEF Calls, TypeOK
    <3> QED BY <3>1, <3>2, WalkStarts
  <2> QED BY <2>1, <2>2
<1>8. CASE CallStep
  BY <1>2, <1>3, <1>4, <1>5, <1>6, <1>7, <1>8, Zenon
     DEF CallStep, PageAllocated, PageFails, PageFreed, NothingToFree, PageMapped, MapFails,
         PageUnmapped, NothingToUnmap, PageIn
<1>9. CASE AllocPage \/ \E n \in 1 .. MaxCall : AllocPages(n)
  <2>1. kernel_brk \in HeapPages
    BY <1>1, <1>9, Numbers DEF AllocPage, AllocPages, TypeOK
  <2>2. StartWalk(kernel_brk) /\ op' \in {"page", "pages"}
    BY <1>9 DEF AllocPage, AllocPages
  <2> QED BY <2>1, <2>2, WalkStarts
<1>10. CASE \E v \in HeapPages, n \in 1 .. MaxCall : FreePages(v, n)
  BY <1>10, WalkStarts DEF FreePages
<1>11. CASE \E v \in live : PageFault(v)
  BY <1>1, <1>11, WalkStarts DEF PageFault, TypeOK
<1>12. CASE \E f \in held, w \in Windows : MapPage(w, f)
  BY <1>12, WalkStarts DEF MapPage, callers
<1>13. CASE \E w \in Windows : UnmapPage(w)
  BY <1>13, WalkStarts DEF UnmapPage
<1> DEFINE Idles == op = "idle" /\ op' = "idle" /\ UNCHANGED level
<1>14. CASE Idles
  BY <1>1, <1>14, WalkEnds DEF Walk, InCall
<1>15. CASE Callers
  <2>1. \A v : (Load(v) \/ Touch(v) \/ \E x \in Values : Store(v, x)) => Idles
    BY DEF Load, Touch, Store, Use, walk
  <2>2. TakeFrame \/ (\E f \in held : ReturnFrame(f)) => Idles
    BY DEF TakeFrame, ReturnFrame, walk
  <2> QED BY <2>1, <2>2, <1>9, <1>10, <1>11, <1>12, <1>13, <1>14, <1>15, Zenon DEF Callers
<1>16. CASE \E v \in HeapPages \cup Windows : Evict(v)
  BY <1>14, <1>16 DEF Evict, walk
<1> QED BY <1>8, <1>15, <1>16 DEF Next

-----------------------------------------------------------------------------
(* The TLB is kept coherent.                                               *)

\* The translation of a page whose entry changes is dropped, and others stay.
LEMMA Flushed ==
    ASSUME TypeOK, Coherent, Looks \in LookType, NEW v \in Pages, NEW e,
           Looks' = [Looks EXCEPT ![v] = e], tlb' = [tlb EXCEPT ![v] = None]
    PROVE  Coherent'
BY TypeParts DEF Coherent, LookType, MemoryType

\* Every step that changes the entry of a page drops its translation, unless it
\* had none.
LEMMA CoherentKept ==
    ASSUME IInv, Next
    PROVE  Coherent'
<1>1. TypeOK /\ Shape /\ Coherent /\ Heaped
  BY DEF IInv
<1>2. Looks \in LookType
  BY <1>1, LooksTyped
<1>3. CASE Looks' = Looks /\ tlb' = tlb
  BY <1>1, <1>3 DEF Coherent
<1>4. CASE UNCHANGED <<memory, callers>>
  BY <1>3, <1>4, NothingDone DEF memory
<1>5. CASE AddTable
  BY <1>3, <1>5, AddTableDoes DEF AddTable
<1>6. CASE PageAllocated \/ NextAllocated
  <2>1. /\ Looks' = [Looks EXCEPT ![va] = Demand] /\ Looks[va] = Absent
    BY <1>6, PageAllocatedDoes
  <2>2. tlb' = tlb /\ va \in Pages
    BY <1>6, HeapCall DEF PageAllocated, NextAllocated
  <2>3. tlb[va] = None
    BY <1>1, <2>1, <2>2, NoTable, TypeParts DEF Coherent, MemoryType
  <2> QED BY <1>1, <1>2, <2>1, <2>2, <2>3 DEF Coherent, LookType
<1>7. CASE PageFreed
  BY <1>1, <1>2, <1>7, PageFreedDoes, HeapCall, Flushed DEF PageFreed
<1>8. CASE PageMapped
  BY <1>1, <1>2, <1>8, PageMappedDoes, WindowCall, Flushed DEF PageMapped
<1>9. CASE PageUnmapped
  <2>1. Looks' = [Looks EXCEPT ![va] = Absent] /\ va \in Pages
    BY <1>9, PageUnmappedDoes, WindowCall DEF PageUnmapped
  <2>2. CASE Present(entry)
    BY <1>1, <1>2, <1>9, <2>1, <2>2, Flushed DEF PageUnmapped
  <2>3. CASE ~Present(entry)
    <3>1. UNCHANGED <<table, tlb, free, held>>
      BY <1>9, <2>3 DEF PageUnmapped, callers
    <3> QED BY <1>1, <1>3, <3>1, TablesKept
  <2> QED BY <2>2, <2>3
<1>10. CASE PageIn
  <2>1. PICK f \in free : Looks' = [Looks EXCEPT ![va] = f]
    BY <1>10, PageInDoes
  <2> QED BY <1>1, <1>2, <1>10, <2>1, HeapCall, Flushed DEF PageIn
<1>11. CASE TakeFrame
  BY <1>3, <1>11, TakeFrameDoes DEF TakeFrame
<1>12. CASE \E f \in held : ReturnFrame(f)
  BY <1>3, <1>12, ReturnFrameDoes DEF ReturnFrame
<1>13. ASSUME NEW v \in Pages, Access(v)
       PROVE  Coherent'
  <2>1. Looks' = Looks /\ Translate(v) = Looks[v] /\ tlb' = [tlb EXCEPT ![v] = Translate(v)]
    BY <1>13, AccessDoes DEF Access
  <2> QED BY <1>1, <2>1, TypeParts DEF Coherent, MemoryType
<1>14. ASSUME NEW v \in Pages, Evict(v)
       PROVE  Coherent'
  <2>1. Looks' = Looks /\ tlb' = [tlb EXCEPT ![v] = None]
    BY <1>14, EvictDoes DEF Evict
  <2> QED BY <1>1, <2>1, TypeParts DEF Coherent, MemoryType
<1> QED BY <1>4, <1>5, <1>6, <1>7, <1>8, <1>9, <1>10, <1>11, <1>12, <1>13, <1>14, Kinds, Zenon

-----------------------------------------------------------------------------
(* The heap is kept in order, and calls come on.                           *)

\* Pages that stay as they are stay in order.
LEMMA HeapedStays ==
    ASSUME Heaped, \A v \in HeapPages : Looks'[v] = Looks[v], live' = live,
           kernel_brk \in Int, kernel_brk' \in Int, kernel_brk <= kernel_brk',
           \A v \in HeapPages : v \in Pending => v \in Pending' \/ Looks[v] = Absent
    PROVE  Heaped'
<1>1. \A v \in HeapPages : v >= kernel_brk' => v >= kernel_brk
  BY Numbers
<1> QED BY <1>1 DEF Heaped

\* A call that has ended asks for nothing more.
LEMMA CallsEnded ==
    ASSUME op' = "idle"
    PROVE  Calls' /\ Pending' = {}
BY DEF Calls, Pending

\* Steps that do nothing to the pages, the loop and the callers.
LEMMA CallStays ==
    ASSUME IInv, Looks' = Looks, UNCHANGED <<op, va, loop, kernel_brk, live>>, op # "halted"
    PROVE  Heaped' /\ Calls'
<1>1. Heaped /\ Calls /\ kernel_brk \in Int
  BY Numbers DEF IInv, TypeOK
<1>2. Pending' = Pending
  BY DEF Pending, loop
<1>3. Heaped'
  BY <1>1, <1>2, HeapedStays
<1>4. Calls'
  BY <1>1 DEF Calls, loop
<1> QED BY <1>3, <1>4

\* Calls that have one page, and those between them, leave none pending.
LEMMA NonePending ==
    ASSUME op \notin {"pages", "free"}
    PROVE  Pending = {}
BY DEF Pending

\* A call starts.
LEMMA StartsKept ==
    ASSUME IInv,
           \/ AllocPage
           \/ \E n \in 1 .. MaxCall : AllocPages(n)
           \/ \E v \in HeapPages, n \in 1 .. MaxCall : FreePages(v, n)
           \/ \E v \in live : PageFault(v)
           \/ \E f \in held, w \in Windows : MapPage(w, f)
           \/ \E w \in Windows : UnmapPage(w)
    PROVE  Heaped' /\ Calls'
<1>1. TypeOK /\ Heaped /\ Coherent /\ Shape
  BY DEF IInv
<1>2. op = "idle" /\ UNCHANGED <<memory, callers>>
  BY Zenon DEF AllocPage, AllocPages, FreePages, PageFault, MapPage, UnmapPage
<1>3. Looks' = Looks /\ live' = live /\ Pending = {}
  BY <1>2, NothingDone, NonePending DEF callers
<1>4. kernel_brk \in Int /\ (kernel_brk' = kernel_brk \/ kernel_brk' = kernel_brk + 1)
  BY <1>1, Numbers DEF TypeOK, AllocPage, AllocPages, FreePages, PageFault, MapPage, UnmapPage
<1>5. Heaped'
  BY <1>1, <1>3, <1>4, HeapedStays
<1>6. CASE AllocPage
  <2>1. op' = "page" /\ va' = kernel_brk /\ kernel_brk' = kernel_brk + 1 /\ kernel_brk \in HeapPages
    BY <1>1, <1>6, Numbers DEF AllocPage, StartWalk, TypeOK
  <2>2. Looks[kernel_brk] = Absent
    BY <1>1, <1>4, <2>1 DEF Heaped
  <2> QED BY <1>3, <1>4, <1>5, <2>1, <2>2 DEF Calls
<1>7. CASE \E n \in 1 .. MaxCall : AllocPages(n)
  <2>1. PICK n \in 1 .. MaxCall : AllocPages(n)
    BY <1>7
  <2>2. /\ op' = "pages" /\ va' = kernel_brk /\ kernel_brk' = kernel_brk
        /\ start' = kernel_brk /\ num' = n /\ done' = 0
        /\ kernel_brk + n <= HeapBase + MaxPages
    BY <2>1 DEF AllocPages, StartWalk
  <2>3. HeapBase <= kernel_brk /\ kernel_brk \in Int /\ n \in Int /\ 0 < n
    BY <1>1, Numbers DEF TypeOK
  <2> QED BY <1>5, <2>2, <2>3 DEF Calls
<1>8. CASE \E v \in HeapPages, n \in 1 .. MaxCall : FreePages(v, n)
  <2>1. PICK v \in HeapPages, n \in 1 .. MaxCall : FreePages(v, n)
    BY <1>8
  <2>2. op' = "free" /\ va' = v /\ start' = v /\ num' = n /\ done' = 0
    BY <2>1 DEF FreePages, StartWalk
  <2>3. v \in Int /\ n \in Int /\ 0 < n /\ HeapBase <= v
    BY Numbers
  <2>4. v + n <= HeapBase + MaxPages
    <3>1. v + n - 1 \in HeapPages
      BY <2>1, <2>3 DEF FreePages
    <3> QED BY <2>3, <3>1, Numbers
  <2> QED BY <1>5, <2>2, <2>3, <2>4 DEF Calls
<1>9. CASE \E v \in live : PageFault(v)
  <2>1. PICK v \in live : PageFault(v)
    BY <1>9
  <2>2. v \in HeapPages /\ v \in Pages /\ Looks[v] # Absent
    BY <1>1, Apart DEF TypeOK, Heaped
  <2>3. Translate(v) = None /\ op' = "fault" /\ va' = v
    BY <2>1 DEF PageFault, StartWalk
  <2>4. Looks[v] = Demand
    BY <1>1, <2>2, <2>3, Translated, LooksTyped DEF LookType
  <2> QED BY <1>3, <1>5, <2>3, <2>4 DEF Calls
<1>10. CASE \/ \E f \in held, w \in Windows : MapPage(w, f)
            \/ \E w \in Windows : UnmapPage(w)
  <2>1. op' \in {"map", "unmap"}
    BY <1>10 DEF MapPage, UnmapPage
  <2> QED BY <1>5, <2>1 DEF Calls
<1> QED BY <1>5, <1>6, <1>7, <1>8, <1>9, <1>10

\* A page is marked for demand paging, and held at the end of the call.
LEMMA MarkingKept ==
    ASSUME IInv, PageAllocated \/ NextAllocated
    PROVE  Heaped' /\ Calls'
<1>1. TypeOK /\ Shape /\ Heaped /\ Calls /\ Looks \in LookType
  BY LooksTyped DEF IInv
<1>2. va \in HeapPages /\ va \in Pages
  BY HeapCall DEF PageAllocated, NextAllocated
<1>3. Looks' = [Looks EXCEPT ![va] = Demand] /\ Looks[va] = Absent
  BY PageAllocatedDoes
<1>4. /\ Looks'[va] = Demand
      /\ \A v \in HeapPages : v # va => Looks'[v] = Looks[v]
  BY <1>1, <1>2, <1>3, Apart DEF LookType
<1>5. CASE PageAllocated
  <2>1. op = "page" /\ op' = "idle" /\ live' = live \cup {va} /\ kernel_brk' = kernel_brk
    BY <1>5 DEF PageAllocated, Return
  <2>2. va < kernel_brk /\ Pending = {} /\ kernel_brk \in Int /\ va \in Int
    BY <1>1, <1>2, <2>1, NonePending, Numbers DEF Calls, TypeOK
  <2>3. Heaped'
    BY <1>1, <1>4, <2>1, <2>2, NoTable DEF Heaped
  <2> QED BY <2>1, <2>3, CallsEnded
<1>6. CASE NextAllocated
  <2>1. /\ HeapBase <= start /\ start + num <= HeapBase + MaxPages
        /\ done < num /\ va = start + done /\ kernel_brk = va
        /\ \A v \in start .. va - 1 : Looks[v] = Demand /\ v \notin live
        /\ Pending = start .. va - 1
    BY <1>1, <1>6 DEF NextAllocated, Calls, Pending
  <2>2. start \in Int /\ num \in Int /\ done \in Int /\ va \in Int /\ start <= va
    BY <2>1, <1>1, <1>2, Numbers DEF TypeOK
  <2>3. /\ start .. va \subseteq HeapPages
        /\ \A v \in start .. va : Looks'[v] = Demand /\ v \notin live
    <3>1. start .. va \subseteq HeapPages
      BY <1>2, <2>1, <2>2, Numbers
    <3>2. va \notin live
      BY <1>1, <1>2, <1>3 DEF Heaped
    <3> QED BY <1>4, <2>1, <2>2, <3>1, <3>2
  <2>4. kernel_brk' = va + 1
    BY <1>6, <2>1 DEF NextAllocated
  <2>5. CASE done + 1 < num
    <3>1. /\ op' = "pages" /\ start' = start /\ num' = num /\ live' = live
          /\ done' = done + 1 /\ va' = va + 1
      BY <1>6, <2>1, <2>5 DEF NextAllocated, StartWalk
    <3>2. Pending' = start .. va
      BY <2>2, <3>1 DEF Pending
    <3>3. Calls'
      BY <2>1, <2>2, <2>3, <2>4, <2>5, <3>1 DEF Calls
    <3>4. Heaped'
      <4> SUFFICES ASSUME NEW v \in HeapPages
                   PROVE  /\ v \in live' => Looks'[v] # Absent
                          /\ v \notin live' => Looks'[v] = Absent \/ v \in Pending'
                          /\ v >= kernel_brk' => Looks'[v] = Absent
        BY Zenon DEF Heaped
      <4>1. CASE v \in start .. va
        <5>1. v \notin live' /\ v \in Pending' /\ ~(v >= kernel_brk')
          BY <4>1, <2>2, <2>3, <2>4, <3>1, <3>2
        <5> QED BY <5>1
      <4>2. CASE v \notin start .. va
        <5>1. Looks'[v] = Looks[v] /\ v \notin Pending
          BY Numbers, <4>2, <1>4, <2>1, <2>2
        <5>2. v >= kernel_brk' => v >= kernel_brk
          BY <2>1, <2>2, <2>4, Numbers
        <5> QED BY <5>1, <5>2, <3>1, <1>1 DEF Heaped
      <4> QED BY <4>1, <4>2
    <3> QED BY <3>3, <3>4
  <2>6. CASE ~(done + 1 < num)
    <3>1. op' = "idle" /\ live' = live \cup (start .. start + num - 1) /\ start + num - 1 = va
      BY <1>6, <2>1, <2>2, <2>6 DEF NextAllocated, Return
    <3>2. live' = live \cup (start .. va)
      BY <3>1
    <3>3. Heaped'
      <4> SUFFICES ASSUME NEW v \in HeapPages
                   PROVE  /\ v \in live' => Looks'[v] # Absent
                          /\ v \notin live' => Looks'[v] = Absent \/ v \in Pending'
                          /\ v >= kernel_brk' => Looks'[v] = Absent
        BY Zenon DEF Heaped
      <4>1. CASE v \in start .. va
        <5>1. v \in live' /\ Looks'[v] = Demand /\ ~(v >= kernel_brk')
          BY <4>1, <2>2, <2>3, <2>4, <3>2
        <5> QED BY <5>1, NoTable
      <4>2. CASE v \notin start .. va
        <5>1. Looks'[v] = Looks[v] /\ v \notin Pending /\ (v \in live' <=> v \in live)
          BY Numbers, <4>2, <1>4, <2>1, <2>2, <3>2
        <5>2. v >= kernel_brk' => v >= kernel_brk
          BY <2>1, <2>2, <2>4, Numbers
        <5> QED BY <5>1, <5>2, <1>1 DEF Heaped
      <4> QED BY <4>1, <4>2
    <3> QED BY <3>1, <3>3, CallsEnded
  <2> QED BY <2>5, <2>6
<1> QED BY <1>5, <1>6

\* A page is freed, whether it had anything or not.
LEMMA FreeingKept ==
    ASSUME IInv, PageFreed \/ NothingToFree
    PROVE  Heaped' /\ Calls'
<1>1. TypeOK /\ Shape /\ Heaped /\ Calls /\ Looks \in LookType
  BY LooksTyped DEF IInv
<1>2. va \in HeapPages /\ va \in Pages /\ op = "free" /\ NextFree /\ kernel_brk' = kernel_brk
  BY HeapCall DEF PageFreed, NothingToFree
<1>3. /\ Looks'[va] = Absent /\ va \notin live'
      /\ \A v \in HeapPages : v # va => Looks'[v] = Looks[v] /\ (v \in live' <=> v \in live)
  <2>1. CASE PageFreed
    <3>1. Looks' = [Looks EXCEPT ![va] = Absent] /\ live' = live \ {va}
      BY <2>1, PageFreedDoes DEF PageFreed
    <3> QED BY <1>1, <1>2, <3>1, Apart DEF LookType
  <2>2. CASE NothingToFree
    <3>1. Looks' = Looks /\ live' = live
      BY <2>2, NothingDone DEF NothingToFree, callers
    <3>2. Looks[va] = Absent
      BY <1>2, <2>2, HeapCall, AtEntry DEF NothingToFree
    <3>3. va \notin live
      BY <1>1, <1>2, <3>2 DEF Heaped
    <3> QED BY <3>1, <3>2, <3>3
  <2> QED BY <2>1, <2>2
<1>4. /\ HeapBase <= start /\ start + num <= HeapBase + MaxPages
      /\ done < num /\ va = start + done
      /\ Pending = va .. start + num - 1
  BY <1>1, <1>2 DEF Calls, Pending
<1>5. start \in Int /\ num \in Int /\ done \in Int /\ va \in Int /\ kernel_brk \in Int
  BY <1>1, <1>2, Numbers DEF TypeOK
<1>6. Calls' /\ \A v \in HeapPages : v \in Pending /\ v # va => v \in Pending'
  <2>1. CASE done + 1 < num
    <3>1. op' = "free" /\ start' = start /\ num' = num /\ done' = done + 1 /\ va' = va + 1
      BY <1>2, <2>1 DEF NextFree, StartWalk
    <3>2. Pending' = va + 1 .. start + num - 1
      BY <3>1 DEF Pending
    <3>3. Calls'
      BY <1>4, <1>5, <2>1, <3>1 DEF Calls
    <3> QED BY <1>4, <1>5, <3>2, <3>3
  <2>2. CASE ~(done + 1 < num)
    <3>1. op' = "idle" /\ start + num - 1 = va
      BY <1>2, <1>4, <1>5, <2>2 DEF NextFree, Return
    <3>2. \A v \in HeapPages : v \in Pending => v = va
      BY <1>4, <1>5, <3>1
    <3> QED BY <3>1, <3>2, CallsEnded
  <2> QED BY <2>1, <2>2
<1>7. Heaped'
  <2> SUFFICES ASSUME NEW v \in HeapPages
               PROVE  /\ v \in live' => Looks'[v] # Absent
                      /\ v \notin live' => Looks'[v] = Absent \/ v \in Pending'
                      /\ v >= kernel_brk' => Looks'[v] = Absent
    BY Zenon DEF Heaped
  <2>1. CASE v = va
    BY <1>3, <2>1
  <2>2. CASE v # va
    BY <1>1, <1>2, <1>3, <1>6, <2>2 DEF Heaped
  <2> QED BY <2>1, <2>2
<1> QED BY <1>6, <1>7

\* A call over one page ends, or halts, or a window changes.
LEMMA EndsKept ==
    ASSUME IInv, \A v \in HeapPages : Looks'[v] = Looks[v], UNCHANGED <<live, kernel_brk>>,
           op \notin {"pages", "free"}, op' = "idle"
    PROVE  Heaped' /\ Calls'
<1>1. Heaped /\ kernel_brk \in Int
  BY Numbers DEF IInv, TypeOK
<1>2. Pending = {}
  BY NonePending
<1>3. Heaped'
  BY <1>1, <1>2, HeapedStays
<1> QED BY <1>3, CallsEnded

\* A frame is mapped to a page that was marked.
LEMMA PagingKept ==
    ASSUME IInv, PageIn
    PROVE  Heaped' /\ Calls'
<1>1. TypeOK /\ Shape /\ Heaped /\ Calls /\ Looks \in LookType
  BY LooksTyped DEF IInv
<1>2. va \in HeapPages /\ va \in Pages /\ va \in live /\ Looks[va] = Demand
  BY HeapCall DEF PageIn, IInv, Calls
<1>3. PICK f \in free : Looks' = [Looks EXCEPT ![va] = f]
  BY PageInDoes
<1>4. /\ Looks'[va] # Absent
      /\ \A v \in HeapPages : v # va => Looks'[v] = Looks[v]
  BY <1>1, <1>2, <1>3, Apart, NoTable DEF LookType, TypeOK
<1>5. ~(va >= kernel_brk)
  BY <1>1, <1>2, NoTable DEF Heaped
<1>6. live' = live /\ kernel_brk' = kernel_brk /\ op' = "idle" /\ Pending = {}
  BY NonePending DEF PageIn, callers, Return
<1>7. Heaped'
  BY <1>1, <1>2, <1>4, <1>5, <1>6 DEF Heaped
<1> QED BY <1>6, <1>7, CallsEnded

\* A call that failed half way takes back what it marked.
LEMMA UndoKept ==
    ASSUME IInv, PagesFail
    PROVE  Heaped' /\ Calls'
<1>1. TypeOK /\ Shape /\ Heaped /\ Calls /\ kernel_brk \in Int /\ kernel_brk' = kernel_brk
  BY Numbers DEF IInv, TypeOK, PagesFail
<1>2. Looks' = Looks /\ live' = live
  BY NothingDone DEF PagesFail, callers
<1>3. /\ HeapBase <= start /\ start + num <= HeapBase + MaxPages
      /\ done < num /\ va = start + done /\ Pending = start .. va - 1
  BY <1>1 DEF PagesFail, Calls, Pending
<1>4. start \in Int /\ num \in Int /\ done \in Int /\ 0 <= done
  BY <1>1, Numbers DEF TypeOK
<1>5. CASE done = 0
  <2>1. Pending = {} /\ op' = "idle"
    BY <1>3, <1>4, <1>5 DEF PagesFail, Return
  <2>2. Heaped'
    BY <1>1, <1>2, <2>1, HeapedStays
  <2> QED BY <2>1, <2>2, CallsEnded
<1>6. CASE done # 0
  <2>1. op' = "free" /\ num' = done /\ done' = 0 /\ va' = start /\ start' = start
    BY <1>6 DEF PagesFail, StartWalk
  <2>2. Pending' = start .. start + done - 1
    BY <2>1 DEF Pending
  <2>3. Heaped'
    <3>1. Pending' = Pending
      BY <1>3, <1>4, <2>2
    <3> QED BY <1>1, <1>2, <3>1, HeapedStays
  <2>4. Calls'
    <3>1. HeapBase <= start /\ start + done <= HeapBase + MaxPages /\ 0 < done
      BY <1>3, <1>4, <1>6, Numbers
    <3> QED BY <1>4, <2>1, <3>1 DEF Calls
  <2> QED BY <2>3, <2>4
<1> QED BY <1>5, <1>6

\* The machine halts.
LEMMA HaltingKept ==
    ASSUME IInv, Halt
    PROVE  Heaped' /\ Calls'
<1>1. TypeOK /\ Shape /\ Walk /\ InCall /\ Heaped /\ Calls /\ kernel_brk \in Int
  BY Numbers, HeapCall DEF IInv, TypeOK, Halt
<1>2. op = "fault" /\ op' = "halted" /\ UNCHANGED <<memory, callers>> /\ kernel_brk' = kernel_brk
  BY DEF Halt
<1>3. Looks' = Looks /\ live' = live /\ Pending = {} /\ free' = free
  BY <1>2, NothingDone, NonePending DEF callers, memory
<1>4. Looks[va] = Demand
  BY <1>1, <1>2 DEF Calls
<1>5. ~noPte /\ (gotPte => entry = Demand)
  BY <1>1, <1>4, AtEntry, NoTable
<1>6. free' = {}
  BY <1>3, <1>5 DEF Halt
<1>7. Heaped'
  BY <1>1, <1>2, <1>3, HeapedStays
<1>8. Calls'
  BY <1>2, <1>6 DEF Calls
<1> QED BY <1>7, <1>8

\* Every step keeps the heap in order.
LEMMA HeapKept ==
    ASSUME IInv, Next
    PROVE  Heaped' /\ Calls'
<1>1. TypeOK /\ Shape /\ Walk /\ Looks \in LookType
  BY LooksTyped DEF IInv
<1>2. CASE Descend \/ AddTable
  <2>1. Looks' = Looks
    BY <1>2, AddTableDoes, NothingDone DEF Descend
  <2>2. UNCHANGED <<op, va, loop, kernel_brk, live>> /\ level \in 1 .. 3
    BY <1>2 DEF Descend, AddTable, callers
  <2>3. op # "halted"
    BY <1>1, <2>2 DEF Walk, InCall
  <2> QED BY <2>1, <2>2, <2>3, CallStays
<1>3. CASE PageFails \/ MapFails \/ NothingToUnmap
  <2>1. /\ UNCHANGED <<memory, callers>> /\ kernel_brk' = kernel_brk
        /\ op' = "idle" /\ op \notin {"pages", "free"}
    BY <1>3 DEF PageFails, MapFails, NothingToUnmap, Return
  <2>2. Looks' = Looks /\ live' = live
    BY <2>1, NothingDone DEF callers
  <2> QED BY <2>1, <2>2, EndsKept
<1>4. CASE PageMapped \/ PageUnmapped
  <2>1. va \in Windows /\ \E e : Looks' = [Looks EXCEPT ![va] = e]
    BY <1>4, WindowCall, PageMappedDoes, PageUnmappedDoes DEF PageMapped, PageUnmapped
  <2>2. \A v \in HeapPages : Looks'[v] = Looks[v]
    BY <1>1, <2>1, Apart DEF LookType
  <2>3. /\ UNCHANGED <<live, kernel_brk>>
        /\ op' = "idle" /\ op \notin {"pages", "free"}
    BY <1>4 DEF PageMapped, PageUnmapped, Return, callers
  <2> QED BY <2>2, <2>3, EndsKept
<1>5. CASE CallStep
  BY <1>2, <1>3, <1>4, <1>5, MarkingKept, FreeingKept, PagingKept, UndoKept, HaltingKept, Zenon
     DEF CallStep
<1>6. CASE TakeFrame \/ \E f \in held : ReturnFrame(f)
  <2>1. Looks' = Looks
    BY <1>6, TakeFrameDoes, ReturnFrameDoes
  <2>2. UNCHANGED <<op, va, loop, kernel_brk, live>> /\ op = "idle"
    BY <1>6 DEF TakeFrame, ReturnFrame, walk
  <2> QED BY <2>1, <2>2, CallStays
<1>7. ASSUME NEW v \in Pages, Access(v)
      PROVE  Heaped' /\ Calls'
  <2>1. Looks' = Looks
    BY <1>7, AccessDoes
  <2>2. UNCHANGED <<op, va, loop, kernel_brk, live>> /\ op = "idle"
    BY <1>7 DEF Access, walk
  <2> QED BY <2>1, <2>2, CallStays
<1>8. ASSUME NEW v \in Pages, Evict(v)
      PROVE  Heaped' /\ Calls'
  <2>1. Looks' = Looks
    BY <1>8, EvictDoes
  <2>2. UNCHANGED <<op, va, loop, kernel_brk, live>> /\ op = "idle"
    BY <1>8 DEF Evict, walk, callers
  <2> QED BY <2>1, <2>2, CallStays
<1>9. live \subseteq Pages /\ Windows \subseteq Pages
  BY <1>1, Apart DEF TypeOK
<1>10. CASE Callers
  <2>1. CASE \/ \E v \in live : Load(v) \/ \E x \in Values : Store(v, x)
             \/ \E w \in Windows : Touch(w) \/ \E x \in Values : Store(w, x)
    <3>1. /\ \A v \in live : (Load(v) \/ \E x \in Values : Store(v, x)) => Access(v)
          /\ \A w \in Windows : (Touch(w) \/ \E x \in Values : Store(w, x)) => Access(w)
      BY DEF Load, Touch, Store, Use, Access
    <3> QED BY <1>7, <1>9, <2>1, <3>1
  <2> QED BY <1>6, <1>10, <2>1, StartsKept, Zenon DEF Callers
<1> QED BY <1>5, <1>8, <1>10 DEF Next, Pages

-----------------------------------------------------------------------------
(* The invariant is one.                                                   *)

\* The tables boot.asm sets up are two, and map no page.
LEMMA InitShape == Init => Shape
<1> SUFFICES ASSUME Init PROVE Shape
  OBVIOUS
<1> DEFINE lev == [t \in Tables |-> IF t = Root THEN 1 ELSE IF t = PdptHeap THEN 2 ELSE 0]
<1>1. lev \in [Tables -> 0 .. 4]
  OBVIOUS
<1>2. /\ Root \in Tables /\ PdptHeap \in Tables /\ Root # PdptHeap
      /\ PdptHeap \notin Frames /\ Root \notin Frames /\ BootSlot \in Slots
  BY VirtualAssumption DEF Tables
<1>3. /\ lev[Root] = 1 /\ lev[PdptHeap] = 2
      /\ \A f \in Frames : lev[f] = 0
      /\ \A t \in Tables :
            lev[t] \in {0, 1, 2} /\ (lev[t] = 1 <=> t = Root) /\ (lev[t] = 2 <=> t = PdptHeap)
  BY <1>2, NoTable
<1> HIDE DEF lev
<1>4. /\ \A k \in Slots : table[Root][k] = IF k = BootSlot THEN PdptHeap ELSE Absent
      /\ \A k \in Slots : table[PdptHeap][k] = Absent
  BY <1>2 DEF Init, EmptyTable
<1>5. \A v \in Pages : Path(table, v, 5) = Absent
  <2> SUFFICES ASSUME NEW v \in Pages PROVE Path(table, v, 5) = Absent
    OBVIOUS
  <2>1. P2(table, v) \in {Absent, PdptHeap}
    BY <1>2, <1>4, PageSlots DEF P2, Step
  <2>2. P3(table, v) = Absent
    BY <1>2, <1>4, <2>1, PageSlots, NoTable DEF P3, Step
  <2>3. P4(table, v) = Absent
    BY <2>2, NoTable DEF P4, Step
  <2> QED BY <2>3, NoTable DEF Path, Step
<1>6. TreeLevels(table, lev)
  BY <1>2, <1>3, <1>4 DEF TreeLevels
<1>7. TreeLinks(table, lev)
  BY <1>2, <1>3, <1>4, NoTable DEF TreeLinks
<1>8. TreeWhole(table, lev)
  BY <1>2, <1>3, <1>4 DEF TreeWhole
<1>9. TreeLeaves(table, lev)
  BY <1>3 DEF TreeLeaves
<1>10. \A v \in Pages : Looks[v] = Absent
  BY <1>5, LookupIsPath DEF Looks
<1>11. Uses(Looks, lev, free, held)
  BY <1>3, <1>10, NoTable, Apart DEF Uses, Init
<1> QED BY <1>1, <1>6, <1>7, <1>8, <1>9, <1>11 DEF Shape, Tree

\* The invariant holds initially.
LEMMA InitInvariant == Init => IInv
<1> SUFFICES ASSUME Init PROVE IInv
  OBVIOUS
<1>1. TypeOK /\ Shape
  BY InitTypes, InitShape
<1>2. op = "idle" /\ level = 0 /\ live = {} /\ tlb = [v \in Pages |-> None]
  BY DEF Init, Pages
<1>3. \A v \in Pages : Looks[v] = Absent
  <2> SUFFICES ASSUME NEW v \in Pages PROVE Lookup(v) = Absent
    BY DEF Looks
  <2>1. /\ Root \in Tables /\ PdptHeap \in Tables /\ Root # PdptHeap /\ BootSlot \in Slots
    BY VirtualAssumption DEF Tables
  <2>2. /\ \A k \in Slots : table[Root][k] = IF k = BootSlot THEN PdptHeap ELSE Absent
        /\ \A k \in Slots : table[PdptHeap][k] = Absent
    BY <2>1 DEF Init, EmptyTable
  <2>3. Below(table[Root][Index(v, 1)], v, 2) = Absent
    BY <2>1, <2>2, PageSlots, NoTable DEF Below, Present
  <2> QED BY <2>3, NoTable DEF Lookup, Below, Present
<1>4. Walk /\ Calls
  BY <1>2 DEF Walk, Calls, InCall
<1>5. Heaped
  BY <1>2, <1>3, Apart DEF Heaped
<1>6. Coherent
  BY <1>2 DEF Coherent
<1> QED BY <1>1, <1>4, <1>5, <1>6 DEF IInv

\* Every step keeps it.
LEMMA NextInvariant == IInv /\ [Next]_vars => IInv'
<1>1. ASSUME IInv, Next PROVE IInv'
  BY <1>1, TypesKept, WalkKept, HeapKept, CoherentKept DEF IInv
<1>2. ASSUME IInv, UNCHANGED vars PROVE IInv'
  <2>1. UNCHANGED <<table, data, tlb, free, kernel_brk, op, va, at, level, start, num, done, arg,
                    live, held, val>>
    BY <1>2, Zenon DEF vars, memory, walk, loop, callers
  <2>2. Shape' /\ Looks' = Looks
    BY <1>2, <2>1, TablesKept DEF IInv
  <2>3. TypeOK'
    BY <1>2, <2>1 DEF IInv, TypeOK
  <2>4. Walk'
    BY <1>2, <2>1 DEF IInv, Walk, InCall
  <2>5. Pending' = Pending
    BY <2>1, Zenon DEF Pending
  <2>6. Heaped'
    BY <1>2, <2>1, <2>2, <2>5 DEF IInv, Heaped
  <2>7. Calls' /\ Coherent'
    BY <1>2, <2>1, <2>2 DEF IInv, Calls, Coherent
  <2> QED BY <2>2, <2>3, <2>4, <2>6, <2>7 DEF IInv
<1> QED BY <1>1, <1>2

\* The page tables are a tree, every frame has one use, and calls, their walks,
\* the heap and the TLB fit them, after any sequence of calls, failures and faults.
THEOREM Invariance == Spec => []IInv
<1>1. Init => IInv
  BY InitInvariant
<1>2. IInv /\ [Next]_vars => IInv'
  BY NextInvariant
<1> QED BY <1>1, <1>2, PTL DEF Spec

-----------------------------------------------------------------------------
(* What the invariant says of the runs' properties.                        *)

\* Every variable keeps its type.
THEOREM TypeCorrect == Spec => []TypeOK
<1>1. IInv => TypeOK
  BY DEF IInv
<1> QED BY <1>1, Invariance, PTL

\* The TLB never holds what the tables no longer do: every path of mmu.c that
\* changes a present entry reaches its invlpg.
THEOREM TlbAgrees == Spec => []TlbCoherent
<1>1. IInv => TlbCoherent
  BY LooksTyped DEF IInv, Coherent, TlbCoherent, Pages
<1> QED BY <1>1, Invariance, PTL

\* Between calls the heap pages in the tables are those callers hold, though
\* MMU_alloc_pages may have failed half way and taken pages back.
THEOREM HeapAgrees == Spec => []HeapMatchesTables
<1>1. IInv => HeapMatchesTables
  <2> SUFFICES ASSUME IInv, op = "idle", NEW v \in HeapPages
               PROVE  v \in live <=> Lookup(v) # Absent
    BY DEF HeapMatchesTables
  <2>1. Pending = {} /\ Looks[v] = Lookup(v)
    BY NonePending, LooksTyped, Apart DEF IInv
  <2> QED BY <2>1 DEF IInv, Heaped
<1> QED BY <1>1, Invariance, PTL

\* An access to a held page halts the machine only when MMU_pf_alloc has none left.
THEOREM HaltsFull == Spec => []HaltsOnlyWhenFull
<1>1. IInv => HaltsOnlyWhenFull
  BY DEF IInv, Calls, HaltsOnlyWhenFull
<1> QED BY <1>1, Invariance, PTL

\* The tables linked from those of a level are those of the next.
LEMMA LinkedLevel ==
    ASSUME table \in Contained, NEW lev \in [Tables -> 0 .. 4], Tree(table, lev),
           NEW n \in 1 .. 3
    PROVE  Linked({t \in Tables : lev[t] = n}) = {t \in Tables : lev[t] = n + 1}
<1> DEFINE ts == {t \in Tables : lev[t] = n}
<1>1. ASSUME NEW t \in Tables, NEW k \in Slots, lev[t] = n, table[t][k] \in Tables
      PROVE  lev[table[t][k]] = n + 1
  BY <1>1, NoTable DEF Tree, TreeLevels
<1>2. ASSUME NEW t \in Tables, lev[t] = n + 1
      PROVE  \E p \in ts, k \in Slots : table[p][k] = t
  BY <1>2 DEF Tree, TreeWhole
<1> QED BY <1>1, <1>2 DEF Linked

\* The sets of tables in terms of their levels.
LEMMA Levels ==
    ASSUME table \in Contained, NEW lev \in [Tables -> 0 .. 4], Tree(table, lev)
    PROVE  /\ Pdpts = {t \in Tables : lev[t] = 2}
           /\ Pds = {t \in Tables : lev[t] = 3}
           /\ Pts = {t \in Tables : lev[t] = 4}
           /\ {Root} \cup Pdpts \cup Pds \cup Pts = {t \in Tables : lev[t] > 0}
<1>1. {Root} = {t \in Tables : lev[t] = 1}
  BY NoTable DEF Tree, TreeLevels
<1>2. Pdpts = {t \in Tables : lev[t] = 1 + 1}
  BY <1>1, LinkedLevel DEF Pdpts
<1>3. Pds = {t \in Tables : lev[t] = 2 + 1}
  BY <1>2, LinkedLevel DEF Pds
<1>4. Pts = {t \in Tables : lev[t] = 3 + 1}
  BY <1>3, LinkedLevel DEF Pts
<1> QED BY <1>1, <1>2, <1>3, <1>4

\* Where a frame that is no table is linked, if anywhere.
LEMMA LeafLink ==
    ASSUME IInv, NEW lev \in [Tables -> 0 .. 4], Tree(table, lev),
           NEW f \in Frames, lev[f] = 0,
           NEW t \in Tables, NEW k \in Slots, lev[t] > 0, table[t][k] = f
    PROVE  \E v \in Pages : Path(table, v, 4) = t /\ Index(v, 4) = k /\ Looks[v] = f
<1>1. table \in Contained /\ TypeOK /\ Shape
  BY TypeParts DEF IInv, MemoryType
<1>2. f \in Tables /\ f # Absent
  BY NoTable
<1>3. lev[t] = 4
  BY <1>2 DEF Tree, TreeLevels
<1>4. PICK v \in Pages : Path(table, v, 4) = t /\ Index(v, 4) = k
  BY <1>2, <1>3 DEF Tree, TreeLeaves
<1>5. Path(table, v, 5) = f
  BY <1>1, <1>4, PathLevels DEF Tree
<1> QED BY <1>1, <1>4, <1>5, LooksTyped

\* Every frame is free, taken by a caller or linked once, as a table of get_pte or
\* as the frame of a page: none is lost or shared by any call, however it ends.
THEOREM FramesHaveOneUse == Spec => []FramesUsedOnce
<1>1. IInv => FramesUsedOnce
  <2> SUFFICES ASSUME IInv, NEW f \in Frames
               PROVE  \/ f \in free /\ f \notin held /\ Links(f) = {}
                      \/ /\ f \notin free /\ f \in held /\ f \notin Pdpts \cup Pds \cup Pts
                         /\ \A v \in HeapPages : Lookup(v) # f
                      \/ f \notin free /\ f \notin held /\ Cardinality(Links(f)) = 1
    BY DEF FramesUsedOnce, IInv
  <2>1. PICK lev \in [Tables -> 0 .. 4] : Tree(table, lev) /\ Uses(Looks, lev, free, held)
    BY DEF IInv, Shape
  <2>2. table \in Contained /\ TypeOK /\ Shape /\ f \in Tables /\ f # Absent /\ f # Root
    BY TypeParts, NoTable DEF IInv, MemoryType
  <2>3. /\ \A v \in Pages : Looks[v] = Lookup(v) /\ Looks[v] = Path(table, v, 5)
        /\ HeapPages \subseteq Pages /\ \A v \in Pages : v \in HeapPages \/ v \in Windows
    BY <2>2, LooksTyped, Apart DEF Pages
  <2>4. f \in Pdpts \cup Pds \cup Pts => lev[f] > 0
    BY <2>1, <2>2, Levels
  <2> DEFINE Ls == {t \in Tables : lev[t] > 0}
  <2>5. /\ Links(f) = {l \in Ls \X Slots : table[l[1]][l[2]] = f}
    BY <2>1, <2>2, Levels DEF Links
  <2>6. CASE f \in free
    <3>1. f \notin held /\ lev[f] = 0 /\ \A v \in Pages : Looks[v] # f
      BY <2>1, <2>2, <2>3, <2>6 DEF Uses
    <3>2. \A t \in Ls, k \in Slots : table[t][k] # f
      BY <2>1, <3>1, LeafLink
    <3> QED BY <2>5, <2>6, <3>1, <3>2
  <2>7. CASE f \in held
    <3>1. f \notin free /\ lev[f] = 0 /\ \A v \in HeapPages : Looks[v] # f
      BY <2>1, <2>7 DEF Uses
    <3> QED BY <2>3, <2>4, <2>7, <3>1
  <2>8. CASE f \notin free \cup held
    <3> DEFINE Once(p, j) ==
          p \in Ls /\ j \in Slots /\ \A t \in Ls, k \in Slots : table[t][k] = f <=> t = p /\ k = j
    <3>1. ASSUME lev[f] = 0 PROVE \E p, j : Once(p, j)
      <4>1. PICK v \in HeapPages : Looks[v] = f
        BY <2>1, <2>8, <3>1 DEF Uses
      <4>2. Path(table, v, 4) \in Ls /\ Index(v, 4) \in Slots
            /\ table[Path(table, v, 4)][Index(v, 4)] = f
        <5>1. Path(table, v, 5) = f /\ v \in Pages
          BY <2>3, <4>1
        <5>2. Path(table, v, 4) = Absent => Path(table, v, 5) = Absent
          BY <2>1, <2>2, <5>1, PathLevels DEF Tree
        <5>3. Path(table, v, 4) \in Tables /\ lev[Path(table, v, 4)] = 4
          BY <2>1, <2>2, <5>1, <5>2, PathLevels DEF Tree
        <5>4. Path(table, v, 5) = table[Path(table, v, 4)][Index(v, 4)]
          BY <2>1, <2>2, <5>1, <5>3, PathLevels DEF Tree
        <5> QED BY <5>1, <5>3, <5>4, PageSlots
      <4>3. ASSUME NEW t \in Ls, NEW k \in Slots, table[t][k] = f
            PROVE  t = Path(table, v, 4) /\ k = Index(v, 4)
        <5>1. PICK w \in Pages : Path(table, w, 4) = t /\ Index(w, 4) = k /\ Looks[w] = f
          BY <2>1, <3>1, <4>3, LeafLink
        <5>2. w \in HeapPages
          BY <2>1, <2>2, <2>3, <2>8, <5>1 DEF Uses
        <5>3. w = v
          BY <2>1, <4>1, <5>1, <5>2 DEF Uses
        <5> QED BY <5>1, <5>3
      <4>4. Once(Path(table, v, 4), Index(v, 4))
        BY <4>2, <4>3
      <4> HIDE DEF Once
      <4> QED BY <4>4
    <3>2. ASSUME lev[f] # 0 PROVE \E p, j : Once(p, j)
      <4>1. lev[f] > 1
        BY <2>1, <2>2, <3>2 DEF Tree, TreeLevels
      <4>2. PICK p \in Tables, j \in Slots : lev[p] = lev[f] - 1 /\ table[p][j] = f
        BY <2>1, <2>2, <4>1 DEF Tree, TreeWhole
      <4>3. lev[p] \in 1 .. 3
        BY <2>2, <4>1, <4>2
      <4>4. ASSUME NEW t \in Ls, NEW k \in Slots, table[t][k] = f
            PROVE  t = p /\ k = j
        <5>1. lev[t] \in 1 .. 3
          BY <2>1, <2>2, <3>2, <4>4, NoTable DEF Tree, TreeLevels
        <5> QED BY <2>1, <2>2, <4>2, <4>3, <4>4, <5>1 DEF Tree, TreeLinks
      <4>5. Once(p, j)
        BY <4>2, <4>3, <4>4
      <4> HIDE DEF Once
      <4> QED BY <4>5
    <3>3. PICK p, j : Once(p, j)
      BY <3>1, <3>2
    <3>4. Links(f) = {<<p, j>>}
      BY <2>5, <3>3
    <3>5. Cardinality(Links(f)) = 1
      BY <3>4, FS_Singleton
    <3> QED BY <2>8, <3>5
  <2> QED BY <2>6, <2>7, <2>8
<1> QED BY <1>1, Invariance, PTL

-----------------------------------------------------------------------------
(* Callers of the heap see what KernelHeap promises.                       *)

\* What a heap page holds for its caller, in terms of where the tables have it.
LEMMA ContentsAre ==
    /\ Contents = [v \in HeapPages |->
                     IF v \in live /\ Looks[v] \in Frames THEN data[Looks[v]] ELSE 0]
    /\ Contents' = [v \in HeapPages |->
                      IF v \in live' /\ Looks'[v] \in Frames THEN data'[Looks'[v]] ELSE 0]
<1>1. \A v \in HeapPages : Looks[v] = Lookup(v) /\ Looks'[v] = Lookup(v)'
  BY Apart DEF Looks
<1> QED BY <1>1 DEF Contents

\* The frame of a heap page is its own.
LEMMA Private ==
    ASSUME IInv
    PROVE  /\ Looks \in LookType /\ live \subseteq HeapPages
           /\ data \in [Frames -> Values]
           /\ \A v \in HeapPages : Looks[v] \notin free \cup held
           /\ \A v \in HeapPages, w \in HeapPages :
                 Looks[v] = Looks[w] /\ Looks[v] \in Frames => v = w
           /\ \A w \in Windows : Looks[w] \in held \cup {Absent}
BY LooksTyped DEF IInv, TypeOK, Shape, Uses

\* Callers see nothing of a step that leaves the pages they hold alone.
LEMMA NothingSeen ==
    ASSUME live' = live, val' = val,
           \A v \in live : \/ Looks[v] \notin Frames /\ Looks'[v] \notin Frames
                           \/ /\ Looks[v] \in Frames /\ Looks'[v] = Looks[v]
                              /\ data'[Looks[v]] = data[Looks[v]]
    PROVE  UNCHANGED Heap!vars
<1>1. Contents' = Contents
  BY ContentsAre
<1> QED BY <1>1 DEF Heap!vars

\* A frame no heap page has is cleared or written, and no page is moved.
LEMMA WrittenAside ==
    ASSUME IInv, live' = live, val' = val, Looks' = Looks,
           \/ data' = data
           \/ \E f \in free \cup held, x \in Values : data' = [data EXCEPT ![f] = x]
    PROVE  UNCHANGED Heap!vars
<1>1. \A v \in live : Looks[v] \in Frames => data'[Looks[v]] = data[Looks[v]]
  BY Private
<1> QED BY <1>1, NothingSeen

\* Pages are handed out, and they read as zero.
LEMMA Allocates ==
    ASSUME IInv, NEW f \in HeapPages, NEW n \in 1 .. MaxCall, f + n <= HeapBase + MaxPages,
           \A v \in f .. f + n - 1 : v \notin live /\ Looks'[v] \notin Frames,
           \A v \in live : Looks'[v] = Looks[v],
           live' = live \cup (f .. f + n - 1), UNCHANGED <<data, val>>
    PROVE  Heap!Next
<1>1. f \in Int /\ n \in Int /\ 0 < n /\ HeapBase <= f
  BY Numbers
<1>2. f .. f + n - 1 \subseteq HeapPages \ live
  BY <1>1, Numbers
<1>3. Contents' = Contents
  BY <1>2, ContentsAre
<1>4. Heap!Alloc(f, n)
  BY <1>2, <1>3 DEF Heap!Alloc
<1> QED BY <1>4 DEF Heap!Next

\* A page is marked for demand paging, the last of a call or not.
LEMMA MarkingImplements ==
    ASSUME IInv, PageAllocated \/ NextAllocated
    PROVE  [Heap!Next]_(Heap!vars)
<1>1. TypeOK /\ Calls /\ Heaped /\ Looks \in LookType /\ live \subseteq HeapPages
  BY Private DEF IInv
<1>2. /\ va \in HeapPages /\ va \in Pages /\ UNCHANGED <<data, val>>
  BY HeapCall DEF PageAllocated, NextAllocated
<1>3. Looks' = [Looks EXCEPT ![va] = Demand] /\ Looks[va] = Absent
  BY PageAllocatedDoes
<1>4. va \notin live
  BY <1>1, <1>2, <1>3 DEF Heaped
<1>5. /\ Looks'[va] \notin Frames
      /\ \A v \in HeapPages : v # va => Looks'[v] = Looks[v]
  BY <1>1, <1>2, <1>3, Apart, NoTable DEF LookType
<1>6. CASE PageAllocated
  <2>1. live' = live \cup (va .. va + 1 - 1) /\ va + 1 <= HeapBase + MaxPages
        /\ 1 \in 1 .. MaxCall
    <3>1. live' = live \cup {va}
      BY <1>6 DEF PageAllocated
    <3>2. va \in Int
      BY <1>2, Numbers
    <3>3. va .. va + 1 - 1 = {va}
      BY <3>2
    <3> QED BY <1>2, <3>1, <3>2, <3>3, Numbers
  <2>2. \A v \in va .. va + 1 - 1 : v \notin live /\ Looks'[v] \notin Frames
    BY <1>2, <1>4, <1>5, Numbers
  <2>3. \A v \in live : Looks'[v] = Looks[v]
    BY <1>1, <1>4, <1>5
  <2>4. Heap!Next
    BY <1>2, <2>1, <2>2, <2>3, Allocates
  <2> QED BY <2>4
<1>7. CASE NextAllocated
  <2>1. /\ HeapBase <= start /\ start + num <= HeapBase + MaxPages
        /\ done < num /\ va = start + done
        /\ \A v \in start .. va - 1 : Looks[v] = Demand /\ v \notin live
    BY <1>1, <1>7 DEF NextAllocated, Calls
  <2>2. start \in Int /\ num \in Int /\ done \in Int /\ 0 <= done /\ num <= MaxCall
    BY <1>1, Numbers DEF TypeOK
  <2>3. \A v \in live : Looks'[v] = Looks[v]
    BY <1>1, <1>4, <1>5
  <2>4. CASE done + 1 < num
    <3>1. live' = live
      BY <1>7, <2>4 DEF NextAllocated
    <3>2. UNCHANGED Heap!vars
      BY <1>2, <2>3, <3>1, NothingSeen
    <3> QED BY <3>2
  <2>5. CASE ~(done + 1 < num)
    <3>1. live' = live \cup (start .. start + num - 1) /\ start + num - 1 = va
      BY <1>7, <2>1, <2>2, <2>5 DEF NextAllocated
    <3>2. \A v \in start .. start + num - 1 : v \notin live /\ Looks'[v] \notin Frames
      <4> SUFFICES ASSUME NEW v \in start .. start + num - 1
                   PROVE  v \notin live /\ Looks'[v] \notin Frames
        OBVIOUS
      <4>1. CASE v = va
        BY <4>1, <1>4, <1>5
      <4>2. CASE v # va
        <5>1. v \in start .. va - 1 /\ v \in HeapPages
          BY <4>2, <2>1, <2>2, <3>1, Numbers
        <5> QED BY <4>2, <5>1, <1>5, <2>1, NoTable
      <4> QED BY <4>1, <4>2
    <3>3. start \in HeapPages /\ num \in 1 .. MaxCall
      BY <2>1, <2>2, Numbers
    <3>4. Heap!Next
      BY <1>2, <2>1, <2>3, <3>1, <3>2, <3>3, Allocates
    <3> QED BY <3>4
  <2> QED BY <2>4, <2>5
<1> QED BY <1>6, <1>7

\* A page is taken back.
LEMMA FreeingImplements ==
    ASSUME IInv, PageFreed
    PROVE  [Heap!Next]_(Heap!vars)
<1>1. TypeOK /\ Shape /\ Looks \in LookType /\ live \subseteq HeapPages
  BY Private DEF IInv
<1>2. va \in HeapPages /\ va \in Pages /\ live' = live \ {va} /\ val' = val
  BY HeapCall DEF PageFreed
<1>3. Looks' = [Looks EXCEPT ![va] = Absent]
  BY PageFreedDoes
<1>4. \A v \in live : v # va => Looks'[v] = Looks[v]
  BY <1>1, <1>2, <1>3, Apart DEF LookType
<1>5. \A v \in live : v # va /\ Looks[v] \in Frames => data'[Looks[v]] = data[Looks[v]]
  <2>1. CASE Present(entry)
    <3>1. entry = Looks[va] /\ entry \in Frames /\ data' = [data EXCEPT ![entry] = Dirty]
      BY <2>1, HeapCall, AtEntry, FreedEntry DEF PageFreed, GiveBack
    <3> QED BY <3>1, <1>1, <1>2, Private
  <2>2. CASE ~Present(entry)
    BY <2>2 DEF PageFreed
  <2> QED BY <2>1, <2>2
<1>6. CASE va \in live
  <2>1. Contents' = [Contents EXCEPT ![va] = 0]
    BY <1>1, <1>2, <1>4, <1>5, ContentsAre
  <2>2. Heap!Free(va)
    BY <1>2, <1>6, <2>1 DEF Heap!Free
  <2> QED BY <1>2, <2>2 DEF Heap!Next
<1>7. CASE va \notin live
  <2>1. live' = live
    BY <1>2, <1>7
  <2>2. UNCHANGED Heap!vars
    BY <1>2, <1>4, <1>5, <1>7, <2>1, NothingSeen
  <2> QED BY <2>2
<1> QED BY <1>6, <1>7

\* A window is set, or cleared.
LEMMA WindowsUnseen ==
    ASSUME IInv, PageMapped \/ PageUnmapped
    PROVE  UNCHANGED Heap!vars
<1>1. va \in Windows /\ \E e : Looks' = [Looks EXCEPT ![va] = e]
  BY WindowCall, PageMappedDoes, PageUnmappedDoes DEF PageMapped, PageUnmapped
<1>2. Looks \in LookType /\ live \subseteq HeapPages
  BY Private
<1>3. \A v \in live : Looks'[v] = Looks[v]
  BY <1>1, <1>2, Apart DEF LookType
<1>4. UNCHANGED <<live, val, data>>
  BY DEF PageMapped, PageUnmapped, callers
<1> QED BY <1>3, <1>4, NothingSeen

\* A page that is paged in reads as zero, as it did.
LEMMA PagingUnseen ==
    ASSUME IInv, PageIn
    PROVE  UNCHANGED Heap!vars
<1>1. va \in HeapPages /\ va \in Pages /\ Looks[va] = Demand
  BY HeapCall DEF PageIn, IInv, Calls
<1>2. PICK f \in free : Looks' = [Looks EXCEPT ![va] = f] /\ data' = [data EXCEPT ![f] = 0]
  BY PageInDoes
<1>3. Looks \in LookType /\ live \subseteq HeapPages /\ f \in Frames
  BY Private DEF IInv, TypeOK
<1>4. Looks'[va] = f /\ data'[f] = 0 /\ \A v \in HeapPages : v # va => Looks'[v] = Looks[v]
  BY <1>1, <1>2, <1>3, Private, Apart DEF LookType
<1>5. \A v \in HeapPages : Looks[v] \in Frames => data'[Looks[v]] = data[Looks[v]]
  BY <1>2, Private
<1>6. live' = live /\ val' = val
  BY DEF PageIn, callers
<1>7. Contents' = Contents
  BY <1>1, <1>3, <1>4, <1>5, <1>6, ContentsAre, NoTable
<1> QED BY <1>6, <1>7 DEF Heap!vars

\* Loads and stores of heap pages, and of windows.
LEMMA AccessImplements ==
    ASSUME IInv, NEW v \in Pages, Access(v)
    PROVE  [Heap!Next]_(Heap!vars)
<1>1. /\ Looks' = Looks /\ Translate(v) \in Frames /\ Translate(v) = Looks[v]
      /\ live' = live
  BY AccessDoes DEF Access
<1>2. CASE data' = data /\ val' = val
  BY <1>1, <1>2, WrittenAside
<1>3. CASE v \in live /\ val' = data[Translate(v)] /\ data' = data
  <2>1. v \in HeapPages /\ Contents[v] = data[Looks[v]] /\ Contents' = Contents
    BY <1>1, <1>3, Private, ContentsAre
  <2>2. Heap!Load(v)
    BY <1>1, <1>3, <2>1 DEF Heap!Load
  <2> QED BY <2>1, <2>2 DEF Heap!Next
<1>4. ASSUME val' = val, NEW x \in Values, data' = [data EXCEPT ![Translate(v)] = x]
      PROVE  [Heap!Next]_(Heap!vars)
  <2>1. CASE v \in live
    <3>1. /\ v \in HeapPages /\ live \subseteq HeapPages
          /\ data'[Looks[v]] = x
          /\ \A w \in live : w # v /\ Looks[w] \in Frames => data'[Looks[w]] = data[Looks[w]]
      BY <1>1, <1>4, <2>1, Private
    <3>2. Contents' = [Contents EXCEPT ![v] = x]
      BY <1>1, <2>1, <3>1, ContentsAre
    <3>3. Heap!Store(v, x)
      BY <1>1, <1>4, <2>1, <3>2 DEF Heap!Store
    <3> QED BY <3>1, <3>3 DEF Heap!Next
  <2>2. CASE v \in Windows
    <3>1. Looks[v] \in held
      BY <1>1, <2>2, Private, NoTable
    <3>2. UNCHANGED Heap!vars
      BY <1>1, <1>4, <3>1, WrittenAside
    <3> QED BY <3>2
  <2> QED BY <2>1, <2>2 DEF Access
<1> QED BY <1>2, <1>3, <1>4 DEF Access

\* The demand-paged heap of mmu.c implements KernelHeap: a page that was allocated
\* reads as zero and then as what was stored last, and is nobody else's.
THEOREM KeepsThePromise == Spec => HeapSpec
<1>1. Init => Heap!Init
  BY DEF Init, Heap!Init, Contents
<1>2. IInv /\ [Next]_vars => [Heap!Next]_(Heap!vars)
  <2> SUFFICES ASSUME IInv, [Next]_vars
               PROVE  [Heap!Next]_(Heap!vars)
    OBVIOUS
  <2>1. CASE UNCHANGED vars
    <3>1. UNCHANGED <<memory, callers>>
      BY <2>1, Zenon DEF vars
    <3>2. Looks' = Looks /\ UNCHANGED <<live, val, data>>
      BY <3>1, NothingDone DEF memory, callers
    <3> QED BY <3>2, WrittenAside
  <2>2. CASE UNCHANGED <<memory, callers>>
    <3>1. Looks' = Looks /\ UNCHANGED <<live, val, data>>
      BY <2>2, NothingDone DEF memory, callers
    <3> QED BY <3>1, WrittenAside
  <2>3. CASE AddTable
    <3>1. Looks' = Looks /\ UNCHANGED <<live, val>>
      BY <2>3, AddTableDoes DEF AddTable, callers
    <3>2. \E f \in free : data' = [data EXCEPT ![f] = 0]
      BY <2>3 DEF AddTable, PfAlloc
    <3> QED BY <3>1, <3>2, Numbers, WrittenAside
  <2>4. CASE TakeFrame
    <3>1. Looks' = Looks /\ UNCHANGED <<live, val>>
      BY <2>4, TakeFrameDoes DEF TakeFrame
    <3>2. \E f \in free : data' = [data EXCEPT ![f] = 0]
      BY <2>4 DEF TakeFrame, PfAlloc
    <3> QED BY <3>1, <3>2, Numbers, WrittenAside
  <2>5. CASE \E f \in held : ReturnFrame(f)
    <3>1. PICK f \in held : ReturnFrame(f)
      BY <2>5
    <3>2. Looks' = Looks /\ UNCHANGED <<live, val>> /\ data' = [data EXCEPT ![f] = Dirty]
      BY <3>1, ReturnFrameDoes DEF ReturnFrame
    <3> QED BY <3>2, Numbers, WrittenAside
  <2>6. CASE \E v \in Pages : Evict(v)
    <3>1. Looks' = Looks /\ UNCHANGED <<live, val, data>>
      BY <2>6, EvictDoes DEF callers
    <3> QED BY <3>1, WrittenAside
  <2>7. CASE PageMapped \/ PageUnmapped \/ PageIn
    BY <2>7, WindowsUnseen, PagingUnseen
  <2>8. CASE PageAllocated \/ NextAllocated \/ PageFreed
    BY <2>8, MarkingImplements, FreeingImplements
  <2>9. CASE \E v \in Pages : Access(v)
    BY <2>9, AccessImplements
  <2> QED BY <2>1, <2>2, <2>3, <2>4, <2>5, <2>6, <2>7, <2>8, <2>9, Kinds, Zenon
<1> QED BY <1>1, <1>2, Invariance, PTL DEF Spec, HeapSpec, Heap!Spec

-----------------------------------------------------------------------------
(* Calls come to an end.                                                   *)

\* Every step of a call leaves it fewer: the loops of get_pte, MMU_alloc_pages and
\* MMU_free_pages end, through missing tables and the taking back of pages.
THEOREM StepsGetFewer == Spec => CallsShorten
<1>1. ASSUME IInv, CallStep PROVE StepsLeft' < StepsLeft
  <2>1. TypeOK /\ Walk /\ Calls
    BY <1>1 DEF IInv
  <2>2. /\ num \in Int /\ done \in Int /\ 0 <= done /\ level \in 0 .. 4
    BY <2>1, Numbers DEF TypeOK
  <2>3. op \in {"pages", "free"} => done < num
    BY <2>1 DEF Calls
  <2>4. InCall => level \in 1 .. 4 /\ 1 <= StepsLeft
    BY <2>1, <2>2, <2>3 DEF StepsLeft, Walk, InCall
  <2>5. CASE Descend \/ AddTable
    <3>1. level' = level + 1 /\ UNCHANGED <<op, num, done>> /\ level \in 1 .. 3
      BY <2>5 DEF Descend, AddTable, loop
    <3>2. op \notin {"idle", "halted"}
      BY <2>1, <3>1 DEF Walk, InCall
    <3> QED BY <2>2, <3>1, <3>2 DEF StepsLeft
  <2>6. CASE op' \in {"idle", "halted"} /\ InCall
    <3>1. StepsLeft' = 0
      BY <2>6 DEF StepsLeft
    <3> QED BY <2>2, <2>3, <2>4, <2>6, <3>1 DEF StepsLeft, InCall
  <2>7. CASE PagesFail /\ done # 0
    <3>1. op = "pages" /\ op' = "free" /\ num' = done /\ done' = 0 /\ level' = 1 /\ level \in 1 .. 3
      BY <2>7 DEF PagesFail, StartWalk, noPte
    <3> QED BY <2>2, <2>3, <3>1 DEF StepsLeft
  <2>8. CASE (NextAllocated \/ (op = "free" /\ NextFree)) /\ done + 1 < num
    <3>1. op \in {"pages", "free"} /\ op' = op /\ num' = num /\ done' = done + 1 /\ level' = 1
      BY <2>8 DEF NextAllocated, NextFree, StartWalk
    <3> QED BY <2>2, <2>3, <3>1 DEF StepsLeft
  <2>9. CASE op = "free" /\ NextFree
    BY <2>6, <2>8, <2>9 DEF NextFree, Return, InCall
  <2>10. CASE NextAllocated \/ PagesFail
    BY <2>6, <2>7, <2>8, <2>10 DEF NextAllocated, PagesFail, Return, InCall
  <2>11. CASE \/ PageAllocated \/ PageFails \/ PageMapped \/ MapFails \/ PageUnmapped
              \/ NothingToUnmap \/ PageIn \/ Halt
    BY <2>6, <2>11 DEF PageAllocated, PageFails, PageMapped, MapFails, PageUnmapped,
                       NothingToUnmap, PageIn, Halt, Return, InCall
  <2> QED BY <1>1, <2>5, <2>9, <2>10, <2>11, Zenon DEF CallStep, PageFreed, NothingToFree
<1>2. IInv /\ [Next]_vars => [CallStep => StepsLeft' < StepsLeft]_vars
  BY <1>1
<1> QED BY <1>2, Invariance, PTL DEF Spec, CallsShorten
=============================================================================
