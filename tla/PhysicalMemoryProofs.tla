------------------------ MODULE PhysicalMemoryProofs ------------------------
(***************************************************************************)
(* Inv is an inductive invariant of PhysicalMemory for every page size,    *)
(* table size and well-ordered boot structure; with it FreeListIntact and  *)
(* OnlyUsablePages hold in every reachable state, the manager implements   *)
(* FrameAllocator, and, with PagesKept, NoPageLost and StatisticsExact     *)
(* hold.                                                                   *)
(***************************************************************************)
EXTENDS PhysicalMemory, FiniteSetTheorems, TLAPS

\* Rounding a byte address of a tag gives a page number.
LEMMA RoundingType ==
    ASSUME NEW x \in Item
    PROVE  /\ EntryStart(x) \in Nat /\ EntryEnd(x) \in Nat
           /\ SectionStart(x) \in Nat /\ SectionEnd(x) \in Nat
<1>1. x.addr \in Nat /\ x.len \in Nat
  BY DEF Item
<1>2. \A a \in Nat : AlignDown(a) \in Nat /\ AlignUp(a) \in Nat
  <2> SUFFICES ASSUME NEW a \in Nat
               PROVE  AlignDown(a) \in Nat /\ AlignUp(a) \in Nat
    OBVIOUS
  <2>1. a + PageSize - 1 \in Nat
    BY SizesAssumption
  <2> QED
    BY <2>1, SizesAssumption DEF AlignDown, AlignUp
<1> QED
  BY <1>1, <1>2 DEF EntryStart, EntryEnd, SectionStart, SectionEnd

\* What the invariant says of the item the boot loop is at.
LEMMA MbiType ==
    ASSUME TypeOK
    PROVE  /\ mbi \in Seq(Tag)
           /\ Ordered(mbi)
           /\ Disjoint(mbi)
           /\ \A t \in 1 .. Len(mbi) : mbi[t].items \in Seq(Item)
<1>1. mbi \in Seq(Tag) /\ Ordered(mbi) /\ Disjoint(mbi)
  BY BootAssumption DEF TypeOK
<1>2. \A t \in 1 .. Len(mbi) : mbi[t] \in Tag
  BY <1>1
<1>3. \A t \in 1 .. Len(mbi) : mbi[t].items \in Seq(Item)
  BY <1>2 DEF Tag
<1> QED
  BY <1>1, <1>3

\* The item the boot loop is at is one of the current tag.
LEMMA ItemType ==
    ASSUME TypeOK, NEW type, InTag(type)
    PROVE  /\ tag \in 1 .. Len(mbi)
           /\ item \in 1 .. Len(mbi[tag].items)
           /\ thisItem \in Item
<1>1. tag \in 1 .. Len(mbi)
  BY MbiType DEF TypeOK, InTag
<1>2. mbi[tag].items \in Seq(Item)
  BY <1>1, MbiType
<1>3. item \in 1 .. Len(mbi[tag].items)
  BY <1>2 DEF TypeOK, InTag
<1> QED
  BY <1>1, <1>2, <1>3 DEF thisItem
-----------------------------------------------------------------------------
(* Regions and pages.                                                      *)

\* A region of the table has page numbers as bounds.
LEMMA RegionType ==
    ASSUME memory_regions \in Seq(Region), NEW j \in 1 .. Len(memory_regions)
    PROVE  /\ memory_regions[j] \in Region
           /\ memory_regions[j].start \in Nat
           /\ memory_regions[j].end \in Nat
<1>1. memory_regions[j] \in Region
  OBVIOUS
<1> QED
  BY <1>1 DEF Region

\* A page of an available region is an available page of the machine.
LEMMA RegionPagesAvailable ==
    ASSUME TypeOK, RegionsFromMap,
           NEW j \in 1 .. Len(memory_regions), NEW p \in Nat,
           InRegion(p, memory_regions[j])
    PROVE  p \in AvailablePages
<1>0. PICK t \in 1 .. Len(mbi) :
         \E i \in 1 .. Len(mbi[t].items) : Within(memory_regions[j], t, i)
  BY DEF RegionsFromMap, InRegion
<1>1. PICK i \in 1 .. Len(mbi[t].items) : Within(memory_regions[j], t, i)
  BY <1>0
<1>2. mbi[t].items[i] \in Item
  BY MbiType
<1>3. EntryEnd(mbi[t].items[i]) <= TopPage
  BY <1>1, MbiType DEF Disjoint, Within
<1>4. memory_regions[j].start \in Nat /\ memory_regions[j].end \in Nat
  BY RegionType DEF TypeOK
<1>5. EntryStart(mbi[t].items[i]) <= p /\ p < EntryEnd(mbi[t].items[i])
  <2> DEFINE r == memory_regions[j]
             es == EntryStart(mbi[t].items[i])
             ee == EntryEnd(mbi[t].items[i])
  <2>1. es \in Nat /\ ee \in Nat
    BY <1>2, RoundingType
  <2>2. es <= r.start /\ r.end <= ee
    BY <1>1 DEF Within
  <2>3. r.start <= p /\ p < r.end
    BY DEF InRegion
  <2>4. r.start \in Nat /\ r.end \in Nat
    BY <1>4
  <2> HIDE DEF r, es, ee
  <2>5. es <= p /\ p < ee
    BY <2>1, <2>2, <2>3, <2>4
  <2> QED
    BY <2>5 DEF es, ee
<1>6. p \in Pages
  BY <1>2, <1>3, <1>5, RoundingType, SizesAssumption DEF Pages
<1> QED
  BY <1>1, <1>5, <1>6 DEF AvailablePages, Within

\* After MMU_init no kernel section has a page in an available region.
LEMMA RegionPagesNotKernel ==
    ASSUME TypeOK, SectionsTakenOut, pc # "tags",
           NEW j \in 1 .. Len(memory_regions), NEW p \in Nat,
           InRegion(p, memory_regions[j])
    PROVE  p \notin KernelPages
<1>1. SUFFICES ASSUME NEW t \in 1 .. Len(mbi), NEW i \in 1 .. Len(mbi[t].items),
                      mbi[t].type = "elf",
                      Loaded(mbi[t].items[i]),
                      SectionStart(mbi[t].items[i]) <= p,
                      p < SectionEnd(mbi[t].items[i])
               PROVE  FALSE
  BY DEF KernelPages
<1>2. mbi[t].items[i] \in Item
  BY MbiType
<1>3. Outside(mbi[t].items[i], memory_regions[j])
  BY <1>1 DEF SectionsTakenOut, InRegion
<1>4. memory_regions[j].start \in Nat /\ memory_regions[j].end \in Nat
  BY RegionType DEF TypeOK
<1> QED
  BY <1>1, <1>2, <1>3, <1>4, RoundingType DEF Outside, InRegion

\* So a page of one above the first megabyte is usable.
LEMMA RegionPagesUsable ==
    ASSUME TypeOK, RegionsFromMap, SectionsTakenOut, pc # "tags",
           NEW j \in 1 .. Len(memory_regions), NEW p \in Nat, p >= LowLimit,
           InRegion(p, memory_regions[j])
    PROVE  p \in UsablePages
<1>1. p \in AvailablePages
  BY RegionPagesAvailable
<1> QED
  BY <1>1, RegionPagesNotKernel DEF UsablePages

\* The bounds of an overlap.
LEMMA OverlapBounds ==
    ASSUME NEW s \in Item, NEW r \in Region, Overlaps(s, r)
    PROVE  /\ OverlapStart(s, r) \in Nat /\ OverlapEnd(s, r) \in Nat
           /\ r.start <= OverlapStart(s, r) /\ OverlapEnd(s, r) <= r.end
           /\ SectionStart(s) <= OverlapStart(s, r) /\ OverlapEnd(s, r) <= SectionEnd(s)
           /\ OverlapStart(s, r) # r.start => OverlapStart(s, r) = SectionStart(s)
           /\ OverlapEnd(s, r) # r.end => OverlapEnd(s, r) = SectionEnd(s)
<1>1. r.start \in Nat /\ r.end \in Nat
  BY DEF Region
<1>2. SectionStart(s) \in Nat /\ SectionEnd(s) \in Nat
  BY RoundingType
<1> QED
  BY <1>1, <1>2 DEF OverlapStart, OverlapEnd

\* What is left when pages os .. oe-1 are taken out of region j: every other
\* region stays as it was; what stays available of region j lies in the old
\* one on one side of those pages; a split adds one region on the other side.
TakenOut(new, j, os, oe) ==
    LET r == memory_regions[j]
        n == Len(memory_regions)
    IN  /\ new \in Seq(Region)
        /\ Len(new) \in {n, n + 1}
        /\ \A k \in 1 .. n : k # j => new[k] = memory_regions[k]
        /\ new[j].type = "AVAILABLE" =>
              /\ new[j].start < new[j].end
              /\ r.start <= new[j].start /\ new[j].end <= r.end
              /\ \/ new[j].end = os /\ os # r.start
                 \/ new[j].start = oe /\ oe # r.end
        /\ Len(new) = n + 1 =>
              /\ new[n + 1].start < new[n + 1].end
              /\ new[n + 1].start = oe /\ new[n + 1].end = r.end
              /\ new[j].end = os
              /\ os # r.start /\ oe # r.end

\* Every available region after TakeOut is a part of one before it: region
\* j keeps only pages outside the overlap, and a half that was split off lies
\* behind it.
LEMMA TakeOutParts ==
    ASSUME memory_regions \in Seq(Region),
           NEW j \in 1 .. Len(memory_regions),
           memory_regions[j].type = "AVAILABLE",
           NEW os \in Nat, NEW oe \in Nat, os < oe,
           memory_regions[j].start <= os, oe <= memory_regions[j].end
    PROVE  TakenOut(TakeOut(j, os, oe), j, os, oe)
<1> DEFINE r == memory_regions[j]
           n == Len(memory_regions)
           new == TakeOut(j, os, oe)
           half == [start |-> oe, end |-> r.end, type |-> "AVAILABLE"]
<1>1. /\ r \in Region /\ n \in Nat /\ j \in 1 .. n
      /\ r.start \in Nat /\ r.end \in Nat /\ r.start <= os /\ oe <= r.end
  BY RegionType
<1>2. ASSUME NEW q \in Region
      PROVE  LET m == [memory_regions EXCEPT ![j] = q]
             IN  /\ m \in Seq(Region)
                 /\ Len(m) = n
                 /\ m[j] = q
                 /\ \A k \in 1 .. n : k # j => m[k] = memory_regions[k]
  OBVIOUS
<1>3. /\ [r EXCEPT !.type = "RESERVED"] \in Region
      /\ [r EXCEPT !.type = "RESERVED"].type = "RESERVED"
      /\ [r EXCEPT !.start = oe] \in Region
      /\ [r EXCEPT !.start = oe].start = oe
      /\ [r EXCEPT !.start = oe].end = r.end
      /\ [r EXCEPT !.end = os] \in Region
      /\ [r EXCEPT !.end = os].start = r.start
      /\ [r EXCEPT !.end = os].end = os
      /\ half \in Region /\ half.start = oe /\ half.end = r.end
  BY <1>1 DEF Region
<1>4. CASE new = [memory_regions EXCEPT ![j] = [r EXCEPT !.type = "RESERVED"]]
  BY <1>1, <1>2, <1>3, <1>4 DEF TakenOut
<1>5. CASE /\ os = r.start /\ oe # r.end
           /\ new = [memory_regions EXCEPT ![j] = [r EXCEPT !.start = oe]]
  BY <1>1, <1>2, <1>3, <1>5 DEF TakenOut
<1>6. CASE /\ os # r.start
           /\ new = [memory_regions EXCEPT ![j] = [r EXCEPT !.end = os]]
  BY <1>1, <1>2, <1>3, <1>6 DEF TakenOut
<1>7. CASE /\ os # r.start /\ oe # r.end
           /\ new = Append([memory_regions EXCEPT ![j] = [r EXCEPT !.end = os]], half)
  <2> DEFINE m == [memory_regions EXCEPT ![j] = [r EXCEPT !.end = os]]
  <2>1. m \in Seq(Region) /\ Len(m) = n
    BY <1>2, <1>3
  <2>2. /\ new \in Seq(Region) /\ Len(new) = n + 1
        /\ new[n + 1] = half
        /\ \A k \in 1 .. n : new[k] = m[k]
    BY <2>1, <1>3, <1>7
  <2> QED
    BY <1>1, <1>2, <1>3, <1>7, <2>2 DEF TakenOut
<1>8. \/ new = [memory_regions EXCEPT ![j] = [r EXCEPT !.type = "RESERVED"]]
      \/ /\ os = r.start /\ oe # r.end
         /\ new = [memory_regions EXCEPT ![j] = [r EXCEPT !.start = oe]]
      \/ /\ os # r.start
         /\ new = [memory_regions EXCEPT ![j] = [r EXCEPT !.end = os]]
      \/ /\ os # r.start /\ oe # r.end
         /\ new = Append([memory_regions EXCEPT ![j] = [r EXCEPT !.end = os]], half)
  BY DEF TakeOut
<1> QED
  BY <1>4, <1>5, <1>6, <1>7, <1>8

-----------------------------------------------------------------------------
(* The steps of MMU_init.                                                  *)

\* The usable pages depend on the boot structure only.
LEMMA UsablePagesFixed ==
    ASSUME mbi' = mbi
    PROVE  UsablePages' = UsablePages
BY DEF UsablePages, AvailablePages, KernelPages

\* Nothing is listed or held while MMU_init runs.
LEMMA BootKeepsLists ==
    ASSUME Inv, pc = "tags", UNCHANGED bootUnchanged, pc' \in {"tags", "idle"}
    PROVE  ListBehind' /\ OnlyUsablePages' /\ FreeListIntact'
<1>1. chain = << >> /\ owned = {} /\ ~free_list_initialized
  BY DEF Inv, ListBehind
<1>2. /\ chain' = << >> /\ owned' = {} /\ ~free_list_initialized'
      /\ free_page_head' = free_page_head
  BY <1>1 DEF bootUnchanged, listVars, callVars
<1>3. ListBehind'
  BY <1>2 DEF ListBehind
<1>4. OnlyUsablePages'
  BY <1>2 DEF OnlyUsablePages, ListedPages
<1>5. FreeListIntact'
  BY <1>1, <1>2 DEF Inv, FreeListIntact
<1> QED
  BY <1>3, <1>4, <1>5

\* Recording an mmap entry (process_mmap_tag) preserves the invariant.
LEMMA MmapEntryInv ==
    ASSUME Inv, MmapEntry
    PROVE  Inv'
<1> DEFINE e == thisItem
           n == Len(memory_regions)
           fresh == [start |-> EntryStart(e), end |-> EntryEnd(e), type |-> "AVAILABLE"]
<1>1. /\ pc = "tags" /\ pc' = "tags" /\ mbi' = mbi
      /\ tag' = tag /\ item' = item + 1 /\ region' = 1
      /\ InTag("mmap")
      /\ UNCHANGED bootUnchanged
  BY DEF MmapEntry, InTag, NextItem, bootUnchanged
<1>2. /\ tag \in 1 .. Len(mbi) /\ mbi[tag].type = "mmap"
      /\ item \in 1 .. Len(mbi[tag].items)
      /\ e \in Item /\ e = mbi[tag].items[item]
      /\ EntryStart(e) \in Nat /\ EntryEnd(e) \in Nat
  BY <1>1, ItemType, RoundingType DEF Inv, InTag, thisItem
<1>3. memory_regions \in Seq(Region) /\ n \in Nat /\ item \in Nat /\ tag \in Nat
  BY DEF Inv, TypeOK
<1>4. ListBehind' /\ OnlyUsablePages' /\ FreeListIntact'
  BY <1>1, BootKeepsLists
<1>5. CASE ~Records(e)
  <2>1. UNCHANGED <<memory_regions, countVars>>
    BY <1>5 DEF MmapEntry
  <2>2. TypeOK'
    BY <1>1, <1>3, <2>1 DEF Inv, TypeOK, bootUnchanged, countVars, listVars, callVars
  <2>3. RegionsFromMap'
    <3>1. \A r, t, i : Within(r, t, i)' <=> Within(r, t, i)
      BY <1>1 DEF Within
    <3>2. \A t, i \in Nat : Done(t, i) => Done(t, i)'
      BY <1>1, <1>3 DEF Done
    <3>3. \A t \in 1 .. Len(mbi) : Len(mbi[t].items) \in Nat
      BY MbiType DEF Inv
    <3> QED
      BY <1>1, <2>1, <3>1, <3>2, <3>3 DEF Inv, RegionsFromMap
  <2>4. RegionsDisjoint'
    BY <2>1 DEF Inv, RegionsDisjoint
  <2>5. SectionsTakenOut'
    BY <1>1, <1>2, <1>3, <2>1 DEF Inv, SectionsTakenOut, Done
  <2> QED
    BY <1>4, <2>2, <2>3, <2>4, <2>5 DEF Inv
<1>6. CASE Records(e)
  <2>1. /\ memory_regions' = Append(memory_regions, fresh)
        /\ EntryStart(e) < EntryEnd(e)
        /\ e.relevant
    BY <1>6 DEF MmapEntry, Records
  <2>2. fresh \in Region
    BY <1>2 DEF Region
  <2>3. /\ memory_regions' \in Seq(Region)
        /\ Len(memory_regions') = n + 1
        /\ memory_regions'[n + 1] = fresh
        /\ \A k \in 1 .. n : memory_regions'[k] = memory_regions[k]
    BY <1>3, <2>1, <2>2
  <2>4. TypeOK'
    <3>1. /\ total_pages' = total_pages + (EntryEnd(e) - EntryStart(e))
          /\ free_pages' = free_pages + (EntryEnd(e) - EntryStart(e))
          /\ reserved_pages' = reserved_pages
      BY <1>6 DEF MmapEntry
    <3>2. total_pages' \in Int /\ free_pages' \in Int /\ reserved_pages' \in Int
      BY <1>2, <3>1 DEF Inv, TypeOK
    <3>3. TypeOK
      BY DEF Inv
    <3>4. /\ memory_regions' \in Seq(Region)
          /\ item' \in Nat \ {0} /\ tag' \in Nat \ {0} /\ region' \in Nat \ {0}
      BY <1>1, <1>3, <2>3, <3>3 DEF TypeOK
    <3> QED
      BY <1>1, <3>2, <3>3, <3>4 DEF TypeOK, bootUnchanged, listVars, callVars
  <2>5. RegionsFromMap'
    <3>1. ASSUME NEW j \in 1 .. n, memory_regions[j].type = "AVAILABLE"
          PROVE  /\ memory_regions[j].start < memory_regions[j].end
                 /\ \E t \in 1 .. Len(mbi) : \E i \in 1 .. Len(mbi[t].items) :
                       /\ t < tag \/ (t = tag /\ i < item + 1)
                       /\ Within(memory_regions[j], t, i)
      BY <1>3, <3>1 DEF Inv, RegionsFromMap, Done
    <3>2. /\ fresh.start < fresh.end
          /\ Within(fresh, tag, item)
      BY <1>2, <2>1 DEF Within
    <3>3. \A r, t, i : Within(r, t, i)' <=> Within(r, t, i)
      BY <1>1 DEF Within
    <3>4. ASSUME NEW j \in 1 .. n + 1, memory_regions'[j].type = "AVAILABLE"
          PROVE  /\ memory_regions'[j].start < memory_regions'[j].end
                 /\ \E t \in 1 .. Len(mbi) : \E i \in 1 .. Len(mbi[t].items) :
                       /\ t < tag \/ (t = tag /\ i < item + 1)
                       /\ Within(memory_regions'[j], t, i)
      <4>1. CASE j \in 1 .. n
        BY <2>3, <3>1, <3>4, <4>1
      <4>2. CASE j = n + 1
        <5>1. memory_regions'[j] = fresh /\ item < item + 1
          BY <1>3, <2>3, <4>2
        <5> QED
          BY <1>2, <3>2, <5>1
      <4> QED
        BY <1>3, <4>1, <4>2
    <3> QED
      BY <1>1, <2>3, <3>3, <3>4 DEF RegionsFromMap, Done
  <2>6. RegionsDisjoint'
    <3>1. ASSUME NEW j \in 1 .. n, memory_regions[j].type = "AVAILABLE"
          PROVE  memory_regions[j].end <= fresh.start \/ fresh.end <= memory_regions[j].start
      <4>0. PICK t \in 1 .. Len(mbi) : \E i \in 1 .. Len(mbi[t].items) :
               Done(t, i) /\ Within(memory_regions[j], t, i)
        BY <3>1 DEF Inv, RegionsFromMap
      <4>1. PICK i \in 1 .. Len(mbi[t].items) : Done(t, i) /\ Within(memory_regions[j], t, i)
        BY <4>0
      <4>2. ~(t = tag /\ i = item)
        BY <1>3, <4>1 DEF Done
      <4>3. \/ EntryEnd(mbi[t].items[i]) <= EntryStart(e)
            \/ EntryEnd(e) <= EntryStart(mbi[t].items[i])
        BY <1>2, <2>1, <4>1, <4>2, MbiType DEF Inv, Disjoint, Within
      <4>4. mbi[t].items[i] \in Item
        BY MbiType DEF Inv
      <4>5. /\ EntryStart(mbi[t].items[i]) \in Nat /\ EntryEnd(mbi[t].items[i]) \in Nat
            /\ memory_regions[j].start \in Nat /\ memory_regions[j].end \in Nat
        BY <1>3, <4>4, RegionType, RoundingType
      <4>6. fresh.start = EntryStart(e) /\ fresh.end = EntryEnd(e)
        OBVIOUS
      <4>7. /\ EntryStart(mbi[t].items[i]) <= memory_regions[j].start
            /\ memory_regions[j].end <= EntryEnd(mbi[t].items[i])
        BY <4>1 DEF Within
      <4> DEFINE f == mbi[t].items[i]
                 r == memory_regions[j]
      <4>8. /\ EntryEnd(f) <= EntryStart(e) \/ EntryEnd(e) <= EntryStart(f)
            /\ EntryStart(f) \in Nat /\ EntryEnd(f) \in Nat
            /\ EntryStart(e) \in Nat /\ EntryEnd(e) \in Nat
            /\ r.start \in Nat /\ r.end \in Nat
            /\ EntryStart(f) <= r.start /\ r.end <= EntryEnd(f)
        BY <1>2, <4>3, <4>5, <4>7
      <4> HIDE DEF f, r, e
      <4>9. r.end <= EntryStart(e) \/ EntryEnd(e) <= r.start
        BY <4>8
      <4> QED
        BY <4>6, <4>9 DEF r
    <3> QED
      BY <1>3, <2>3, <3>1 DEF Inv, RegionsDisjoint
  <2>7. SectionsTakenOut'
    <3>1. ASSUME NEW t \in 1 .. Len(mbi), mbi[t].type = "elf"
          PROVE  tag < t
      BY <1>2, <3>1, MbiType DEF Inv, Ordered
    <3>2. ASSUME NEW t \in 1 .. Len(mbi), mbi[t].type = "elf", NEW i \in Nat,
                 NEW j \in Nat,
                 Done(t, i)' \/ (t = tag' /\ i = item' /\ j < region')
          PROVE  FALSE
      BY <1>1, <1>3, <3>1, <3>2 DEF Done
    <3>3. mbi' = mbi /\ pc' = "tags"
      BY <1>1
    <3>4. \A t \in 1 .. Len(mbi) : mbi[t].items \in Seq(Item)
      BY MbiType DEF Inv
    <3>5. SUFFICES ASSUME NEW j \in 1 .. Len(memory_regions'),
                          NEW t \in 1 .. Len(mbi), mbi[t].type = "elf",
                          NEW i \in 1 .. Len(mbi[t].items),
                          Done(t, i)' \/ (t = tag' /\ i = item' /\ j < region')
                   PROVE  FALSE
      BY <3>3, Zenon DEF SectionsTakenOut
    <3>6. i \in Nat /\ j \in Nat
      BY <2>3, <3>4
    <3> QED
      BY <3>2, <3>5, <3>6
  <2> QED
    BY <1>4, <2>4, <2>5, <2>6, <2>7 DEF Inv
<1> QED
  BY <1>5, <1>6

\* Taking a kernel section out of one region (the inner loop of
\* process_elf_sections_tag) preserves the invariant.
LEMMA ReserveInRegionInv ==
    ASSUME Inv, ReserveInRegion
    PROVE  Inv'
<1> DEFINE s == thisItem
           r == memory_regions[region]
           n == Len(memory_regions)
           os == OverlapStart(s, r)
           oe == OverlapEnd(s, r)
<1>1. /\ pc = "tags" /\ pc' = "tags" /\ mbi' = mbi
      /\ tag' = tag /\ item' = item /\ region' = region + 1
      /\ InTag("elf") /\ Loaded(s)
      /\ UNCHANGED bootUnchanged
  BY DEF ReserveInRegion, InTag, bootUnchanged
<1>2. /\ tag \in 1 .. Len(mbi) /\ mbi[tag].type = "elf"
      /\ item \in 1 .. Len(mbi[tag].items)
      /\ s \in Item /\ s = mbi[tag].items[item]
      /\ SectionStart(s) \in Nat /\ SectionEnd(s) \in Nat
  BY <1>1, ItemType, RoundingType DEF Inv, InTag, thisItem
<1>3. /\ memory_regions \in Seq(Region) /\ n \in Nat
      /\ item \in Nat /\ tag \in Nat /\ region \in 1 .. n
      /\ r \in Region /\ r.start \in Nat /\ r.end \in Nat
  BY RegionType DEF Inv, TypeOK, ReserveInRegion
<1>4. ListBehind' /\ OnlyUsablePages' /\ FreeListIntact'
  BY <1>1, BootKeepsLists
<1>5. \A q, t, i : Within(q, t, i)' <=> Within(q, t, i)
  BY <1>1 DEF Within
<1>6. \A t, i : Done(t, i)' <=> Done(t, i)
  BY <1>1 DEF Done
<1>7. CASE ~(r.type = "AVAILABLE" /\ Overlaps(s, r))
  <2>1. UNCHANGED <<memory_regions, countVars>>
    BY <1>7 DEF ReserveInRegion
  <2>2. TypeOK'
    BY <1>1, <1>3, <2>1 DEF Inv, TypeOK, bootUnchanged, countVars, listVars, callVars
  <2>3. RegionsFromMap' /\ RegionsDisjoint'
    BY <1>1, <1>5, <1>6, <2>1 DEF Inv, RegionsFromMap, RegionsDisjoint
  <2>4. r.type = "AVAILABLE" => Outside(s, r)
    <3>1. r.type = "AVAILABLE" => r.start < r.end
      BY <1>3 DEF Inv, RegionsFromMap
    <3> HIDE DEF s, r
    <3> QED
      BY <1>2, <1>3, <1>7, <3>1 DEF Outside, Overlaps, OverlapStart, OverlapEnd
  <2>5. SectionsTakenOut'
    <3>1. SUFFICES ASSUME NEW j \in 1 .. n, NEW t \in 1 .. Len(mbi), mbi[t].type = "elf",
                          NEW i \in 1 .. Len(mbi[t].items),
                          memory_regions[j].type = "AVAILABLE",
                          Loaded(mbi[t].items[i]),
                          Done(t, i) \/ (t = tag /\ i = item /\ j < region + 1)
                   PROVE  Outside(mbi[t].items[i], memory_regions[j])
      BY <1>1, <1>6, <2>1 DEF SectionsTakenOut
    <3>2. CASE Done(t, i) \/ (t = tag /\ i = item /\ j < region)
      BY <1>1, <3>1, <3>2 DEF Inv, SectionsTakenOut
    <3>3. CASE t = tag /\ i = item /\ j = region
      BY <1>2, <2>4, <3>1, <3>3
    <3> QED
      BY <1>3, <3>1, <3>2, <3>3
  <2> QED
    BY <1>4, <2>2, <2>3, <2>5 DEF Inv
<1>8. CASE r.type = "AVAILABLE" /\ Overlaps(s, r)
  <2>1. /\ memory_regions' = TakeOut(region, os, oe)
        /\ free_pages' = free_pages - (oe - os)
        /\ reserved_pages' = reserved_pages + (oe - os)
        /\ total_pages' = total_pages
    BY <1>8 DEF ReserveInRegion
  <2>2. /\ os \in Nat /\ oe \in Nat /\ os < oe
        /\ r.start <= os /\ oe <= r.end
        /\ SectionStart(s) <= os /\ oe <= SectionEnd(s)
        /\ os # r.start => os = SectionStart(s)
        /\ oe # r.end => oe = SectionEnd(s)
    BY <1>2, <1>3, <1>8, OverlapBounds DEF Overlaps
  <2>3. /\ memory_regions' \in Seq(Region)
        /\ Len(memory_regions') \in {n, n + 1}
        /\ \A k \in 1 .. n : k # region => memory_regions'[k] = memory_regions[k]
        /\ memory_regions'[region].type = "AVAILABLE" =>
              /\ memory_regions'[region].start < memory_regions'[region].end
              /\ r.start <= memory_regions'[region].start
              /\ memory_regions'[region].end <= r.end
              /\ \/ memory_regions'[region].end = os /\ os # r.start
                 \/ memory_regions'[region].start = oe /\ oe # r.end
        /\ Len(memory_regions') = n + 1 =>
              /\ memory_regions'[n + 1].start < memory_regions'[n + 1].end
              /\ memory_regions'[n + 1].start = oe
              /\ memory_regions'[n + 1].end = r.end
              /\ memory_regions'[region].end = os
              /\ os # r.start /\ oe # r.end
    <3>1. memory_regions[region].type = "AVAILABLE"
      BY <1>8
    <3>2. memory_regions[region].start <= os /\ oe <= memory_regions[region].end
      BY <2>2
    <3> HIDE DEF os, oe
    <3>3. TakenOut(TakeOut(region, os, oe), region, os, oe)
      BY <1>3, <2>2, <3>1, <3>2, TakeOutParts
    <3>4. TakenOut(memory_regions', region, os, oe)
      BY <2>1, <3>3
    <3> QED
      BY <3>4 DEF TakenOut
  <2>4. TypeOK'
    <3>1. total_pages' \in Int /\ free_pages' \in Int /\ reserved_pages' \in Int
      BY <2>1, <2>2 DEF Inv, TypeOK
    <3>2. TypeOK
      BY DEF Inv
    <3>3. /\ memory_regions' \in Seq(Region)
          /\ item' \in Nat \ {0} /\ tag' \in Nat \ {0} /\ region' \in Nat \ {0}
      BY <1>1, <1>3, <2>3, <3>2 DEF TypeOK
    <3> QED
      BY <1>1, <3>1, <3>2, <3>3 DEF TypeOK, bootUnchanged, listVars, callVars
  \* Every available region of the new table is an old one, or lies in r on one
  \* side of the pages taken out.
  <2>5. ASSUME NEW j \in 1 .. Len(memory_regions'), memory_regions'[j].type = "AVAILABLE"
        PROVE  \/ /\ j \in 1 .. n /\ j # region
                  /\ memory_regions'[j] = memory_regions[j]
               \/ /\ j \in {region, n + 1}
                  /\ memory_regions'[j].start \in Nat /\ memory_regions'[j].end \in Nat
                  /\ memory_regions'[j].start < memory_regions'[j].end
                  /\ r.start <= memory_regions'[j].start /\ memory_regions'[j].end <= r.end
                  /\ \/ memory_regions'[j].end = os /\ os = SectionStart(s)
                     \/ memory_regions'[j].start = oe /\ oe = SectionEnd(s)
    <3>0. /\ memory_regions'[j] \in Region
          /\ memory_regions'[j].start \in Nat /\ memory_regions'[j].end \in Nat
      <4>1. memory_regions'[j] \in Region
        BY <2>3, <2>5
      <4> QED
        BY <4>1 DEF Region
    <3> HIDE DEF os, oe, s, r
    <3>1. CASE j \in 1 .. n /\ j # region
      BY <2>3, <3>1
    <3>2. CASE j = region
      BY <2>2, <2>3, <2>5, <3>0, <3>2
    <3>3. CASE j = n + 1 /\ Len(memory_regions') = n + 1
      <4>1. r.start <= oe
        BY <1>3, <2>2
      <4> QED
        BY <1>3, <2>2, <2>3, <3>0, <3>3, <4>1
    <3> QED
      BY <1>3, <2>3, <2>5, <3>1, <3>2, <3>3
  <2>6. RegionsFromMap'
    <3>1. PICK t \in 1 .. Len(mbi) : \E i \in 1 .. Len(mbi[t].items) :
             Done(t, i) /\ Within(r, t, i)
      BY <1>3, <1>8 DEF Inv, RegionsFromMap
    <3>2. PICK i \in 1 .. Len(mbi[t].items) : Done(t, i) /\ Within(r, t, i)
      BY <3>1
    <3>3. EntryStart(mbi[t].items[i]) \in Nat /\ EntryEnd(mbi[t].items[i]) \in Nat
      <4>1. mbi[t].items[i] \in Item
        BY MbiType DEF Inv
      <4> QED
        BY <4>1, RoundingType
    <3>4. ASSUME NEW q, q.start \in Nat, q.end \in Nat, r.start <= q.start, q.end <= r.end
          PROVE  Within(q, t, i)
      <4> DEFINE es == EntryStart(mbi[t].items[i])
                 ee == EntryEnd(mbi[t].items[i])
      <4>1. es \in Nat /\ ee \in Nat /\ es <= r.start /\ r.end <= ee
        BY <3>2, <3>3 DEF Within
      <4> HIDE DEF r, es, ee
      <4>2. es <= q.start /\ q.end <= ee
        BY <1>3, <3>4, <4>1
      <4> QED
        BY <3>2, <4>2 DEF Within, es, ee
    <3>5. ASSUME NEW j \in 1 .. Len(memory_regions'), memory_regions'[j].type = "AVAILABLE"
          PROVE  /\ memory_regions'[j].start < memory_regions'[j].end
                 /\ \E u \in 1 .. Len(mbi) : \E k \in 1 .. Len(mbi[u].items) :
                       Done(u, k) /\ Within(memory_regions'[j], u, k)
      <4>1. CASE j \in 1 .. n /\ memory_regions'[j] = memory_regions[j]
        BY <3>5, <4>1 DEF Inv, RegionsFromMap
      <4>2. CASE /\ memory_regions'[j].start \in Nat /\ memory_regions'[j].end \in Nat
                 /\ memory_regions'[j].start < memory_regions'[j].end
                 /\ r.start <= memory_regions'[j].start /\ memory_regions'[j].end <= r.end
        BY <3>2, <3>4, <4>2
      <4> QED
        BY <2>5, <3>5, <4>1, <4>2
    <3> QED
      BY <1>1, <1>5, <1>6, <3>5 DEF RegionsFromMap
  <2>7. RegionsDisjoint'
    <3>1. ASSUME NEW j \in 1 .. n, j # region, memory_regions[j].type = "AVAILABLE",
                 NEW q, q.start \in Nat, q.end \in Nat, r.start <= q.start, q.end <= r.end
          PROVE  memory_regions[j].end <= q.start \/ q.end <= memory_regions[j].start
      <4>1. memory_regions[j].end <= r.start \/ r.end <= memory_regions[j].start
        BY <1>3, <1>8, <3>1 DEF Inv, RegionsDisjoint
      <4>2. memory_regions[j].start \in Nat /\ memory_regions[j].end \in Nat
        BY <1>3, RegionType
      <4> HIDE DEF r
      <4> QED
        BY <1>3, <3>1, <4>1, <4>2
    <3>2. ASSUME NEW j \in 1 .. Len(memory_regions'), NEW k \in 1 .. Len(memory_regions'),
                 memory_regions'[j].type = "AVAILABLE", memory_regions'[k].type = "AVAILABLE",
                 j # k
          PROVE  \/ memory_regions'[j].end <= memory_regions'[k].start
                 \/ memory_regions'[k].end <= memory_regions'[j].start
      <4> DEFINE a == memory_regions'[j]
                 b == memory_regions'[k]
                 Old(i) == i \in 1 .. n /\ i # region /\ memory_regions'[i] = memory_regions[i]
                 Part(i) == /\ i \in {region, n + 1}
                            /\ memory_regions'[i].start \in Nat
                            /\ memory_regions'[i].end \in Nat
                            /\ r.start <= memory_regions'[i].start
                            /\ memory_regions'[i].end <= r.end
      <4>1. (Old(j) \/ Part(j)) /\ (Old(k) \/ Part(k))
        BY <2>5, <3>2
      <4>2. CASE Old(j) /\ Old(k)
        BY <3>2, <4>2 DEF Inv, RegionsDisjoint
      <4>3. CASE Old(j) /\ Part(k)
        BY <3>1, <3>2, <4>3
      <4>4. CASE Part(j) /\ Old(k)
        BY <3>1, <3>2, <4>4
      <4>5. CASE Part(j) /\ Part(k)
        <5>1. Len(memory_regions') = n + 1 /\ {j, k} = {region, n + 1}
          BY <1>3, <2>3, <3>2, <4>5
        <5>2. memory_regions'[region].end = os /\ memory_regions'[n + 1].start = oe
          BY <2>3, <5>1
        <5> HIDE DEF os, oe, r
        <5>3. memory_regions'[region].end <= memory_regions'[n + 1].start
          BY <2>2, <5>2
        <5> QED
          BY <3>2, <5>1, <5>3
      <4> QED
        BY <4>1, <4>2, <4>3, <4>4, <4>5
    <3> QED
      BY <3>2 DEF RegionsDisjoint
  <2>8. SectionsTakenOut'
    <3>1. SUFFICES ASSUME NEW j \in 1 .. Len(memory_regions'),
                          NEW t \in 1 .. Len(mbi), mbi[t].type = "elf",
                          NEW i \in 1 .. Len(mbi[t].items),
                          memory_regions'[j].type = "AVAILABLE",
                          Loaded(mbi[t].items[i]),
                          Done(t, i) \/ (t = tag /\ i = item /\ j < region + 1)
                   PROVE  Outside(mbi[t].items[i], memory_regions'[j])
      BY <1>1, <1>6 DEF SectionsTakenOut
    <3> DEFINE x == mbi[t].items[i]
               q == memory_regions'[j]
    <3>2. SectionStart(x) \in Nat /\ SectionEnd(x) \in Nat
      <4>1. x \in Item
        BY MbiType DEF Inv
      <4> QED
        BY <4>1, RoundingType
    <3>3. CASE j \in 1 .. n /\ j # region /\ q = memory_regions[j]
      <4>1. Done(t, i) \/ (t = tag /\ i = item /\ j < region)
        BY <1>3, <3>1, <3>3
      <4> QED
        BY <1>1, <3>1, <3>3, <4>1 DEF Inv, SectionsTakenOut
    <3>4. CASE /\ j \in {region, n + 1}
               /\ q.start \in Nat /\ q.end \in Nat
               /\ q.start < q.end
               /\ r.start <= q.start /\ q.end <= r.end
               /\ \/ q.end = os /\ os = SectionStart(s)
                  \/ q.start = oe /\ oe = SectionEnd(s)
      <4>1. CASE Done(t, i)
        <5>1. Outside(x, r)
          BY <1>1, <1>3, <1>8, <3>1, <4>1 DEF Inv, SectionsTakenOut
        <5>2. r.start \in Nat /\ r.end \in Nat
          BY <1>3, RegionType
        <5> DEFINE a == SectionStart(x)
                   b == SectionEnd(x)
        <5>3. /\ a \in Nat /\ b \in Nat
              /\ b <= r.start \/ r.end <= a \/ b <= a
              /\ r.start <= q.start /\ q.end <= r.end
              /\ q.start \in Nat /\ q.end \in Nat
          BY <3>2, <3>4, <5>1 DEF Outside
        <5> HIDE DEF x, q, r, a, b
        <5>4. b <= q.start \/ q.end <= a \/ b <= a
          BY <5>2, <5>3
        <5> QED
          BY <5>4 DEF Outside, x, q, a, b
      <4>2. CASE t = tag /\ i = item
        <5>1. x = s
          BY <1>2, <4>2
        <5>2. Outside(s, q)
          <6> HIDE DEF q, os, oe, s
          <6> QED
            BY <1>2, <2>2, <3>4 DEF Outside
        <5> QED
          BY <5>1, <5>2
      <4> QED
        BY <3>1, <4>1, <4>2
    <3> QED
      BY <2>5, <3>1, <3>3, <3>4
  <2> QED
    BY <1>4, <2>4, <2>6, <2>7, <2>8 DEF Inv
<1> QED
  BY <1>7, <1>8

\* The steps that only move on: no region changes, and each section that
\* counts as dealt with afterwards is already outside every available region.
LEMMA MovingOnInv ==
    ASSUME Inv, pc = "tags", pc' \in {"tags", "idle"},
           UNCHANGED <<memory_regions, countVars, bootUnchanged>>,
           tag' \in Nat \ {0}, item' \in Nat \ {0}, region' \in Nat \ {0},
           \A t, i \in Nat : Done(t, i) => t < tag' \/ (t = tag' /\ i < item'),
           \A t \in 1 .. Len(mbi) : \A i \in 1 .. Len(mbi[t].items) :
              /\ mbi[t].type = "elf"
              /\ Loaded(mbi[t].items[i])
              /\ \/ pc' # "tags"
                 \/ t < tag' \/ (t = tag' /\ i < item')
                 \/ t = tag' /\ i = item' /\ region' # 1
              => Done(t, i) \/ (t = tag /\ i = item /\ region > Len(memory_regions))
    PROVE  Inv'
<1>1. mbi' = mbi /\ memory_regions' = memory_regions
  BY DEF bootUnchanged
<1>2. ListBehind' /\ OnlyUsablePages' /\ FreeListIntact'
  BY BootKeepsLists
<1>3. TypeOK'
  BY DEF Inv, TypeOK, bootUnchanged, countVars, listVars, callVars
<1>4. RegionsFromMap'
  <2>1. \A r, t, i : Within(r, t, i)' <=> Within(r, t, i)
    BY <1>1 DEF Within
  <2>2. \A t, i \in Nat : Done(t, i) => Done(t, i)'
    BY DEF Done
  <2>3. \A t \in 1 .. Len(mbi) : t \in Nat /\ \A i \in 1 .. Len(mbi[t].items) : i \in Nat
    BY MbiType DEF Inv
  <2> QED
    BY <1>1, <2>1, <2>2, <2>3 DEF Inv, RegionsFromMap
<1>5. RegionsDisjoint'
  BY <1>1 DEF Inv, RegionsDisjoint
<1>6. SectionsTakenOut'
  <2>1. SUFFICES ASSUME NEW j \in 1 .. Len(memory_regions), NEW t \in 1 .. Len(mbi),
                        mbi[t].type = "elf",
                        NEW i \in 1 .. Len(mbi[t].items),
                        memory_regions[j].type = "AVAILABLE",
                        Loaded(mbi[t].items[i]),
                        pc' = "tags" => \/ t < tag' \/ (t = tag' /\ i < item')
                                        \/ t = tag' /\ i = item' /\ j < region'
                 PROVE  Outside(mbi[t].items[i], memory_regions[j])
    BY <1>1 DEF SectionsTakenOut, Done
  <2>2. memory_regions \in Seq(Region)
    BY DEF Inv, TypeOK
  <2>3. Done(t, i) \/ (t = tag /\ i = item /\ region > Len(memory_regions))
    BY <2>1, <2>2
  <2>4. Done(t, i) \/ (t = tag /\ i = item /\ j < region)
    BY <2>2, <2>3 DEF Inv, TypeOK
  <2> QED
    BY <2>1, <2>4 DEF Inv, SectionsTakenOut
<1> QED
  BY <1>2, <1>3, <1>4, <1>5, <1>6 DEF Inv

\* Moving on to the next section preserves the invariant.
LEMMA SectionDoneInv ==
    ASSUME Inv, SectionDone
    PROVE  Inv'
<1>1. /\ pc = "tags" /\ pc' = "tags" /\ InTag("elf")
      /\ tag' = tag /\ item' = item + 1 /\ region' = 1
      /\ UNCHANGED <<memory_regions, countVars, bootUnchanged>>
      /\ ~Loaded(thisItem) \/ region > Len(memory_regions)
  BY DEF SectionDone, InTag, NextItem
<1>2. tag \in Nat \ {0} /\ item \in Nat \ {0}
  BY DEF Inv, TypeOK
<1>3. \A t, i \in Nat : Done(t, i) => t < tag' \/ (t = tag' /\ i < item')
  BY <1>1, <1>2 DEF Done
<1>4. ASSUME NEW t \in 1 .. Len(mbi), NEW i \in 1 .. Len(mbi[t].items),
             Loaded(mbi[t].items[i]),
             t < tag' \/ (t = tag' /\ i < item') \/ (t = tag' /\ i = item' /\ region' # 1)
      PROVE  Done(t, i) \/ (t = tag /\ i = item /\ region > Len(memory_regions))
  <2>1. Len(mbi[t].items) \in Nat
    BY MbiType DEF Inv
  <2>2. Done(t, i) \/ (t = tag /\ i = item)
    BY <1>1, <1>2, <1>4, <2>1 DEF Done
  <2>3. t = tag /\ i = item => Loaded(thisItem)
    BY <1>4 DEF thisItem
  <2> QED
    BY <1>1, <2>2, <2>3
<1> QED
  BY <1>1, <1>2, <1>3, <1>4, MovingOnInv

\* Moving on to the next tag preserves the invariant.
LEMMA NextTagInv ==
    ASSUME Inv, NextTag
    PROVE  Inv'
<1>1. /\ pc = "tags" /\ pc' = "tags" /\ tag <= Len(mbi)
      /\ tag' = tag + 1 /\ item' = 1 /\ region' = 1
      /\ UNCHANGED <<memory_regions, countVars, bootUnchanged>>
      /\ mbi[tag].type # "elf" \/ item > Len(mbi[tag].items)
  BY DEF NextTag
<1>2. tag \in Nat \ {0} /\ item \in Nat \ {0}
  BY DEF Inv, TypeOK
<1>3. \A t, i \in Nat : Done(t, i) => t < tag' \/ (t = tag' /\ i < item')
  BY <1>1, <1>2 DEF Done
<1>4. ASSUME NEW t \in 1 .. Len(mbi), NEW i \in 1 .. Len(mbi[t].items),
             mbi[t].type = "elf",
             t < tag' \/ (t = tag' /\ i < item') \/ (t = tag' /\ i = item' /\ region' # 1)
      PROVE  Done(t, i)
  <2>1. Len(mbi[t].items) \in Nat
    BY MbiType DEF Inv
  <2>2. t < tag \/ t = tag
    BY <1>1, <1>2, <1>4, <2>1
  <2>3. t = tag => i < item
    BY <1>1, <1>2, <1>4, <2>1
  <2> QED
    BY <2>2, <2>3 DEF Done
<1> QED
  BY <1>1, <1>2, <1>3, <1>4, MovingOnInv

\* When MMU_init returns, every tag of sections is behind it: nothing is left
\* after the last tag, and the end tag or a malformed one comes after them.
LEMMA InitReturnsInv ==
    ASSUME Inv, InitReturns
    PROVE  Inv'
<1>1. /\ pc = "tags" /\ pc' = "idle"
      /\ tag' = tag /\ item' = item /\ region' = region
      /\ UNCHANGED <<memory_regions, countVars, bootUnchanged>>
      /\ tag <= Len(mbi) => mbi[tag].type \in {"end", "invalid"}
  BY DEF InitReturns
<1>2. tag \in Nat \ {0} /\ item \in Nat \ {0} /\ region \in Nat \ {0}
  BY DEF Inv, TypeOK
<1>3. \A t, i \in Nat : Done(t, i) => t < tag' \/ (t = tag' /\ i < item')
  BY <1>1 DEF Done
<1>4. ASSUME NEW t \in 1 .. Len(mbi), NEW i \in 1 .. Len(mbi[t].items), mbi[t].type = "elf"
      PROVE  Done(t, i)
  <2>1. mbi \in Seq(Tag) /\ Ordered(mbi)
    BY MbiType DEF Inv
  <2>2. CASE tag > Len(mbi)
    BY <1>2, <2>1, <2>2 DEF Done
  <2>3. CASE tag <= Len(mbi)
    <3>1. tag \in 1 .. Len(mbi) /\ mbi[tag].type \in {"end", "invalid"}
      BY <1>1, <1>2, <2>1, <2>3
    <3>2. t < tag
      BY <1>4, <2>1, <3>1 DEF Ordered
    <3> QED
      BY <3>2 DEF Done
  <2> QED
    BY <1>2, <2>1, <2>2, <2>3
<1> QED
  BY <1>1, <1>2, <1>3, <1>4, MovingOnInv

-----------------------------------------------------------------------------
(* The steps of MMU_pf_alloc and MMU_pf_free.                              *)

\* No step after MMU_init touches the region table.
LEMMA TableKept ==
    ASSUME Inv, pc # "tags", pc' # "tags", UNCHANGED mapVars
    PROVE  /\ RegionsFromMap' /\ RegionsDisjoint' /\ SectionsTakenOut'
           /\ UsablePages' = UsablePages
<1>1. UNCHANGED <<mbi, tag, item, memory_regions>>
  BY DEF mapVars
<1>2. \A r, t, i : Within(r, t, i)' <=> Within(r, t, i)
  BY <1>1 DEF Within
<1>3. \A t, i : Done(t, i)' <=> Done(t, i)
  BY <1>1 DEF Done
<1>4. RegionsFromMap' /\ RegionsDisjoint'
  BY <1>1, <1>2, <1>3 DEF Inv, RegionsFromMap, RegionsDisjoint
<1>5. SectionsTakenOut'
  BY <1>1 DEF Inv, SectionsTakenOut
<1> QED
  BY <1>1, <1>4, <1>5, UsablePagesFixed

\* A usable page is a page, and not the null pointer.
LEMMA UsablePageType ==
    ASSUME NEW p \in UsablePages
    PROVE  p \in Pages /\ p \in Nat /\ p # NULL
BY SizesAssumption DEF UsablePages, AvailablePages, Pages, NULL

\* Pushing a page that is not listed keeps the list intact.
LEMMA PushKeepsList ==
    ASSUME TypeOK, FreeListIntact, NEW p \in Pages, p \notin ListedPages, Push(p)
    PROVE  /\ FreeListIntact'
           /\ chain' \in Seq(Pages)
           /\ Len(chain') = Len(chain) + 1
           /\ chain'[Len(chain) + 1] = p
           /\ \A i \in 1 .. Len(chain) : chain'[i] = chain[i]
           /\ ListedPages' = ListedPages \cup {p}
           /\ word0' \in [Pages -> Pages \cup {NULL, Junk}]
           /\ free_page_head' \in Pages \cup {NULL}
<1> DEFINE n == Len(chain)
<1>1. /\ word0' = [word0 EXCEPT ![p] = free_page_head]
      /\ free_page_head' = p
      /\ chain' = Append(chain, p)
  BY DEF Push
<1>2. chain \in Seq(Pages) /\ n \in Nat
  BY DEF TypeOK
<1>3. /\ chain' \in Seq(Pages) /\ Len(chain') = n + 1 /\ chain'[n + 1] = p
      /\ \A i \in 1 .. n : chain'[i] = chain[i]
  BY <1>1, <1>2
<1>4. \A i \in 1 .. n : chain[i] # p /\ chain[i] \in Pages
  BY <1>2 DEF ListedPages
<1>5. ListedPages' = ListedPages \cup {p}
  <2>1. \A i \in 1 .. n + 1 : i \in 1 .. n \/ i = n + 1
    BY <1>2
  <2>2. \A i \in 1 .. n : i \in 1 .. n + 1
    BY <1>2
  <2>3. n + 1 \in 1 .. n + 1
    BY <1>2
  <2> QED
    BY <1>3, <2>1, <2>2, <2>3 DEF ListedPages
<1>6. /\ word0' \in [Pages -> Pages \cup {NULL, Junk}]
      /\ word0'[p] = free_page_head
      /\ \A q \in Pages : q # p => word0'[q] = word0[q]
  BY <1>1 DEF TypeOK
<1>7. free_page_head' = IF chain' = << >> THEN NULL ELSE chain'[Len(chain')]
  BY <1>1, <1>2, <1>3
<1>8. ASSUME NEW i \in 1 .. n + 1
      PROVE  /\ word0'[chain'[i]] = IF i = 1 THEN NULL ELSE chain'[i - 1]
             /\ \A k \in 1 .. n + 1 : chain'[i] = chain'[k] => i = k
  <2>1. CASE i \in 1 .. n
    <3>1. word0'[chain'[i]] = word0[chain[i]]
      BY <1>3, <1>4, <1>6, <2>1
    <3>2. i # 1 => chain'[i - 1] = chain[i - 1]
      BY <1>2, <1>3, <2>1
    <3> QED
      BY <1>2, <1>3, <1>4, <2>1, <3>1, <3>2 DEF FreeListIntact
  <2>2. CASE i = n + 1
    <3>1. word0'[chain'[i]] = IF n = 0 THEN NULL ELSE chain[n]
      <4>1. chain = << >> <=> n = 0
        BY <1>2
      <4> QED
        BY <1>3, <1>6, <2>2, <4>1 DEF FreeListIntact
    <3>2. n # 0 => chain'[n] = chain[n]
      BY <1>2, <1>3
    <3> QED
      BY <1>2, <1>3, <1>4, <2>2, <3>1, <3>2
  <2> QED
    BY <1>2, <2>1, <2>2
<1>9. FreeListIntact'
  BY <1>3, <1>7, <1>8 DEF FreeListIntact
<1> QED
  BY <1>1, <1>3, <1>5, <1>6, <1>9

\* Popping takes the last pushed page off an intact list.
LEMMA PopKeepsList ==
    ASSUME TypeOK, FreeListIntact, Pop
    PROVE  /\ FreeListIntact'
           /\ chain' \in Seq(Pages)
           /\ free_page_head \in Pages
           /\ free_page_head \in ListedPages
           /\ ListedPages' = ListedPages \ {free_page_head}
           /\ word0' \in [Pages -> Pages \cup {NULL, Junk}]
           /\ free_page_head' \in Pages \cup {NULL}
<1> DEFINE n == Len(chain)
           p == free_page_head
<1>1. /\ p # NULL
      /\ p' = word0[p]
      /\ word0' = [word0 EXCEPT ![p] = 0]
      /\ chain' = SubSeq(chain, 1, n - 1)
  BY DEF Pop
<1>2. chain \in Seq(Pages) /\ n \in Nat
  BY DEF TypeOK
<1>3. n # 0 /\ p = chain[n] /\ p \in Pages
  <2>1. chain # << >>
    BY <1>1 DEF FreeListIntact
  <2>2. n # 0
    BY <1>2, <2>1
  <2> QED
    BY <1>2, <2>1, <2>2 DEF FreeListIntact
<1>4. /\ chain' \in Seq(Pages) /\ Len(chain') = n - 1
      /\ \A i \in 1 .. n - 1 : chain'[i] = chain[i]
  <2>1. 1 \in 1 .. n + 1 /\ n - 1 \in 0 .. n /\ 1 <= n - 1 + 1
    BY <1>2, <1>3
  <2>2. \A i \in 1 .. n - 1 : chain[i] \in Pages
    BY <1>2
  <2>3. chain' = [i \in 1 .. n - 1 |-> chain[i]]
    BY <1>1, <1>2, <1>3
  <2> QED
    BY <1>2, <1>3, <2>1, <2>2, <2>3
<1>5. \A i \in 1 .. n - 1 : chain[i] # p /\ chain[i] \in Pages
  BY <1>2, <1>3 DEF FreeListIntact
<1>6. /\ p \in ListedPages
      /\ ListedPages' = ListedPages \ {p}
  <2>1. n \in 1 .. n /\ \A i \in 1 .. n : i \in 1 .. n - 1 \/ i = n
    BY <1>2, <1>3
  <2>2. \A i \in 1 .. n - 1 : i \in 1 .. n
    BY <1>2
  <2> QED
    BY <1>3, <1>4, <1>5, <2>1, <2>2 DEF ListedPages
<1>7. /\ word0' \in [Pages -> Pages \cup {NULL, Junk}]
      /\ \A q \in Pages : q # p => word0'[q] = word0[q]
  BY <1>1, <1>3 DEF TypeOK, NULL
<1>8. p' = IF n = 1 THEN NULL ELSE chain[n - 1]
  <2>1. n \in 1 .. n
    BY <1>2, <1>3
  <2>2. word0[chain[n]] = IF n = 1 THEN NULL ELSE chain[n - 1]
    BY <2>1 DEF FreeListIntact
  <2> QED
    BY <1>1, <1>3, <2>2
<1>9. p' = IF chain' = << >> THEN NULL ELSE chain'[Len(chain')]
  <2>1. chain' = << >> <=> n = 1
    BY <1>2, <1>3, <1>4
  <2>2. n # 1 => chain'[n - 1] = chain[n - 1]
    BY <1>2, <1>3, <1>4
  <2> QED
    BY <1>4, <1>8, <2>1, <2>2
<1>10. ASSUME NEW i \in 1 .. n - 1
       PROVE  /\ word0'[chain'[i]] = IF i = 1 THEN NULL ELSE chain'[i - 1]
              /\ \A k \in 1 .. n - 1 : chain'[i] = chain'[k] => i = k
  <2>1. i \in 1 .. n /\ (i # 1 => i - 1 \in 1 .. n - 1)
    BY <1>2
  <2>2. word0'[chain'[i]] = word0[chain[i]]
    BY <1>4, <1>5, <1>7
  <2>3. \A k \in 1 .. n - 1 : k \in 1 .. n
    BY <1>2
  <2> QED
    BY <1>4, <2>1, <2>2, <2>3 DEF FreeListIntact
<1>11. FreeListIntact'
  BY <1>4, <1>9, <1>10 DEF FreeListIntact
<1>12. p' \in Pages \cup {NULL}
  <2>1. n \in Nat /\ n # 0
    BY <1>2, <1>3
  <2> HIDE DEF n
  <2>2. n # 1 => n - 1 \in 1 .. n
    BY <2>1
  <2> QED
    BY <1>2, <1>8, <2>2 DEF n
<1> QED
  BY <1>3, <1>4, <1>6, <1>7, <1>11, <1>12

\* The first page looked at in a region is a page number.
LEMMA FirstPageType ==
    ASSUME TypeOK, NEW j \in Nat \ {0}
    PROVE  FirstPage(j) \in Nat
<1>1. j <= Len(memory_regions) => memory_regions[j].start \in Nat
  BY RegionType DEF TypeOK
<1> QED
  BY <1>1, SizesAssumption DEF FirstPage, Clamp

\* A call of MMU_pf_alloc preserves the invariant: with the list not built,
\* its loop starts with nothing listed.
LEMMA PfAllocInv ==
    ASSUME Inv, PfAlloc
    PROVE  Inv'
<1>1. /\ pc = "idle" /\ pc' \in {"pop", "listing"}
      /\ UNCHANGED <<allocUnchanged, free_pages, free_page_head, word0, chain, callVars>>
      /\ free_list_initialized' = TRUE
  BY DEF PfAlloc, Inv, TypeOK
<1>2. UNCHANGED mapVars
  BY <1>1 DEF allocUnchanged
<1>3. /\ RegionsFromMap' /\ RegionsDisjoint' /\ SectionsTakenOut'
      /\ UsablePages' = UsablePages
  BY <1>1, <1>2, TableKept
<1>4. OnlyUsablePages' /\ FreeListIntact'
  BY <1>1, <1>3 DEF Inv, OnlyUsablePages, FreeListIntact, ListedPages, callVars
<1>5. CASE free_list_initialized
  <2>1. pc' = "pop" /\ region' = region /\ addr' = addr
    BY <1>5 DEF PfAlloc
  <2>2. TypeOK'
    BY <1>1, <2>1 DEF Inv, TypeOK, allocUnchanged, mapVars, callVars
  <2>3. ListBehind'
    BY <1>1, <2>1 DEF ListBehind
  <2> QED
    BY <1>3, <1>4, <2>2, <2>3 DEF Inv
<1>6. CASE ~free_list_initialized
  <2>1. pc' = "listing" /\ region' = 1 /\ addr' = FirstPage(1)
    BY <1>6 DEF PfAlloc
  <2>2. TypeOK'
    <3>1. addr' \in Nat
      BY <2>1, FirstPageType DEF Inv
    <3> QED
      BY <1>1, <2>1, <3>1 DEF Inv, TypeOK, allocUnchanged, mapVars, callVars
  <2>3. chain' = << >> /\ owned' = {}
    BY <1>1, <1>6 DEF Inv, ListBehind, callVars
  <2>4. 1 <= Len(memory_regions) => addr' >= Clamp(memory_regions[1].start)
    <3>1. 1 <= Len(memory_regions) => addr' = Clamp(memory_regions[1].start)
      BY <2>1 DEF FirstPage
    <3>2. addr' \in Nat
      BY <2>1, FirstPageType DEF Inv
    <3> QED
      BY <3>1, <3>2
  <2>5. ASSUME NEW p \in Pages, NEW j \in 1 .. Len(memory_regions),
               p >= LowLimit, InRegion(p, memory_regions[j]),
               j < 1 \/ (j = 1 /\ p < FirstPage(1))
        PROVE  FALSE
    <3>1. /\ memory_regions \in Seq(Region) /\ p \in Nat
          /\ j = 1 /\ memory_regions[1].start \in Nat /\ memory_regions[1].start <= p
      BY <2>5, RegionType, SizesAssumption DEF Inv, TypeOK, Pages, InRegion
    <3> QED
      BY <2>5, <3>1, SizesAssumption DEF FirstPage, Clamp
  <2>6. ListBehind'
    <3>1. memory_regions' = memory_regions
      BY <1>2 DEF mapVars
    <3>2. Clamp(memory_regions[1].start)' = Clamp(memory_regions[1].start)
      BY <3>1 DEF Clamp
    <3> QED
      BY <1>1, <2>1, <2>3, <2>4, <2>5, <3>1, <3>2 DEF ListBehind, Clamp, Past, InRegion
  <2> QED
    BY <1>3, <1>4, <2>2, <2>6 DEF Inv
<1> QED
  BY <1>5, <1>6

\* Listing the page at addr: it is usable, and no listed page is at or ahead
\* of it in its region or in another region that contains it.
LEMMA ListPageInv ==
    ASSUME Inv, ListPage
    PROVE  Inv'
<1> DEFINE r == memory_regions[region]
<1>1. /\ pc = "listing" /\ pc' = "listing"
      /\ region <= Len(memory_regions) /\ region' = region
      /\ r.type = "AVAILABLE" /\ addr < r.end
      /\ Push(addr) /\ addr' = addr + 1
      /\ UNCHANGED <<allocUnchanged, free_pages, free_list_initialized, callVars>>
  BY DEF ListPage, InListedRegion
<1>2. UNCHANGED mapVars
  BY <1>1 DEF allocUnchanged
<1>3. /\ RegionsFromMap' /\ RegionsDisjoint' /\ SectionsTakenOut'
      /\ UsablePages' = UsablePages
  BY <1>1, <1>2, TableKept
<1>4. /\ memory_regions \in Seq(Region) /\ region \in 1 .. Len(memory_regions)
      /\ addr \in Nat /\ r.start \in Nat /\ r.end \in Nat
  BY <1>1, RegionType DEF Inv, TypeOK
<1>5. free_list_initialized /\ owned = {}
  BY <1>1 DEF Inv, ListBehind
<1>6. r.start <= addr /\ LowLimit <= addr
  <2>1. addr >= Clamp(r.start)
    BY <1>1 DEF Inv, ListBehind
  <2> HIDE DEF r
  <2> QED
    BY <1>4, <2>1, SizesAssumption DEF Clamp
<1>7. InRegion(addr, r)
  BY <1>1, <1>6 DEF InRegion
<1>8. addr \in UsablePages
  BY <1>1, <1>4, <1>6, <1>7, RegionPagesUsable DEF Inv
<1>9. \A i \in 1 .. Len(chain) : chain[i] \in Nat
  BY DEF Inv, TypeOK, Pages
<1>10. addr \notin ListedPages
  <2>1. SUFFICES ASSUME NEW i \in 1 .. Len(chain), chain[i] = addr
                 PROVE  FALSE
    BY DEF ListedPages
  <2>2. PICK j \in 1 .. Len(memory_regions) :
           /\ InRegion(chain[i], memory_regions[j])
           /\ j < region \/ (j = region /\ chain[i] < addr)
    BY <1>1 DEF Inv, ListBehind, Past
  <2>3. j # region
    BY <1>4, <2>1, <2>2
  <2> DEFINE q == memory_regions[j]
  <2>4. /\ q.start \in Nat /\ q.end \in Nat
        /\ q.start <= addr /\ addr < q.end
        /\ q.end <= r.start \/ r.end <= q.start
    BY <1>1, <1>4, <2>1, <2>2, <2>3, RegionType DEF Inv, RegionsDisjoint, InRegion
  <2> HIDE DEF q, r
  <2> QED
    BY <1>1, <1>4, <1>6, <2>4
<1>11. /\ FreeListIntact' /\ chain' \in Seq(Pages)
       /\ Len(chain') = Len(chain) + 1
       /\ chain'[Len(chain) + 1] = addr
       /\ \A i \in 1 .. Len(chain) : chain'[i] = chain[i]
       /\ ListedPages' = ListedPages \cup {addr}
       /\ word0' \in [Pages -> Pages \cup {NULL, Junk}]
       /\ free_page_head' \in Pages \cup {NULL}
  BY <1>1, <1>8, <1>10, UsablePageType, PushKeepsList DEF Inv
<1>12. TypeOK'
  BY <1>1, <1>4, <1>11 DEF Inv, TypeOK, allocUnchanged, mapVars, callVars
<1>13. OnlyUsablePages'
  BY <1>1, <1>3, <1>5, <1>8, <1>11 DEF Inv, OnlyUsablePages, callVars
<1>14. ListBehind'
  <2>1. memory_regions' = memory_regions /\ owned' = {} /\ free_list_initialized' = TRUE
    BY <1>1, <1>2, <1>5 DEF mapVars, callVars, Inv, TypeOK
  <2>2. addr' >= Clamp(r.start)
    <3>1. addr >= Clamp(r.start) /\ Clamp(r.start) \in Nat
      BY <1>1, <1>4, SizesAssumption DEF Inv, ListBehind, Clamp
    <3> HIDE DEF r
    <3> QED
      BY <1>1, <1>4, <3>1
  <2>3. ASSUME NEW i \in 1 .. Len(chain')
        PROVE  \E j \in 1 .. Len(memory_regions) :
                  /\ InRegion(chain'[i], memory_regions[j])
                  /\ j < region \/ (j = region /\ chain'[i] < addr + 1)
    <3>1. Len(chain) \in Nat
      BY DEF Inv, TypeOK
    <3>2. CASE i \in 1 .. Len(chain)
      <4>1. PICK j \in 1 .. Len(memory_regions) :
               /\ InRegion(chain[i], memory_regions[j])
               /\ j < region \/ (j = region /\ chain[i] < addr)
        BY <1>1, <3>2 DEF Inv, ListBehind, Past
      <4>2. chain'[i] = chain[i] /\ chain[i] \in Nat
        BY <1>9, <1>11, <3>2
      <4>3. j < region \/ (j = region /\ chain[i] < addr + 1)
        BY <1>4, <4>1, <4>2
      <4> QED
        BY <4>1, <4>2, <4>3
    <3>3. CASE i = Len(chain) + 1
      <4>1. chain'[i] = addr /\ addr < addr + 1
        BY <1>4, <1>11, <3>3
      <4> QED
        BY <1>4, <1>7, <4>1
    <3> QED
      BY <1>11, <3>1, <3>2, <3>3
  <2>4. ASSUME NEW p \in Pages, NEW j \in 1 .. Len(memory_regions),
               p >= LowLimit, InRegion(p, memory_regions[j]),
               j < region \/ (j = region /\ p < addr + 1)
        PROVE  p \in ListedPages'
    <3>1. p \in Nat
      BY SizesAssumption DEF Pages
    <3>2. p = addr \/ j < region \/ (j = region /\ p < addr)
      BY <1>4, <2>4, <3>1
    <3> QED
      BY <1>1, <1>11, <2>4, <3>2 DEF Inv, ListBehind, Past
  <2> QED
    BY <1>1, <2>1, <2>2, <2>3, <2>4 DEF ListBehind, Clamp, InRegion, Past
<1> QED
  BY <1>3, <1>11, <1>12, <1>13, <1>14 DEF Inv

\* The steps of the listing loop that list nothing.
LEMMA ListLoopInv ==
    ASSUME Inv, ListUnmappedPage \/ ListNextRegion \/ ListBuilt
    PROVE  Inv'
<1>1. /\ pc = "listing" /\ pc' \in {"listing", "pop", "halted"}
      /\ UNCHANGED <<allocUnchanged, free_pages, listVars, callVars>>
  BY DEF ListUnmappedPage, ListNextRegion, ListBuilt
<1>2. UNCHANGED mapVars
  BY <1>1 DEF allocUnchanged
<1>3. /\ RegionsFromMap' /\ RegionsDisjoint' /\ SectionsTakenOut'
      /\ UsablePages' = UsablePages
  BY <1>1, <1>2, TableKept
<1>4. OnlyUsablePages' /\ FreeListIntact'
  BY <1>1, <1>3 DEF Inv, OnlyUsablePages, FreeListIntact, ListedPages, callVars, listVars
<1>5. /\ memory_regions' = memory_regions /\ chain' = chain /\ owned' = owned
      /\ free_list_initialized' = free_list_initialized
      /\ free_list_initialized /\ owned = {}
  BY <1>1, <1>2 DEF Inv, ListBehind, mapVars, listVars, callVars
<1>6. CASE ListUnmappedPage \/ ListBuilt
  <2>1. /\ pc' \in {"pop", "halted"} /\ region' = region /\ addr' = addr
    BY <1>6 DEF ListUnmappedPage, ListBuilt
  <2>2. TypeOK'
    BY <1>1, <2>1 DEF Inv, TypeOK, allocUnchanged, mapVars, listVars, callVars
  <2>3. ListBehind'
    BY <1>5, <2>1 DEF ListBehind
  <2> QED
    BY <1>3, <1>4, <2>2, <2>3 DEF Inv
<1>7. CASE ListNextRegion
  <2>1. /\ pc' = "listing" /\ region' = region + 1 /\ addr' = FirstPage(region + 1)
    BY <1>1, <1>7 DEF ListNextRegion
  <2>2. region \in Nat \ {0} /\ region + 1 \in Nat \ {0} /\ FirstPage(region + 1) \in Nat
    <3>1. region \in Nat \ {0} /\ region + 1 \in Nat \ {0}
      BY DEF Inv, TypeOK
    <3> QED
      BY <3>1, FirstPageType DEF Inv
  <2>3. TypeOK'
    BY <1>1, <2>1, <2>2 DEF Inv, TypeOK, allocUnchanged, mapVars, listVars, callVars
  <2>4. region + 1 <= Len(memory_regions) =>
           FirstPage(region + 1) >= Clamp(memory_regions[region + 1].start)
    BY <2>2 DEF FirstPage
  <2>5. ASSUME NEW i \in 1 .. Len(chain)
        PROVE  \E j \in 1 .. Len(memory_regions) :
                  /\ InRegion(chain[i], memory_regions[j])
                  /\ j < region + 1
    <3>1. PICK j \in 1 .. Len(memory_regions) :
             /\ InRegion(chain[i], memory_regions[j])
             /\ j < region \/ j = region
      BY <1>1 DEF Inv, ListBehind, Past
    <3>2. j < region + 1
      BY <2>2, <3>1
    <3> QED
      BY <3>1, <3>2
  <2>6. ASSUME NEW p \in Pages, NEW j \in 1 .. Len(memory_regions),
               p >= LowLimit, InRegion(p, memory_regions[j]),
               j < region + 1 \/ (j = region + 1 /\ p < FirstPage(region + 1))
        PROVE  p \in ListedPages
    <3>1. /\ p \in Nat /\ memory_regions \in Seq(Region)
          /\ memory_regions[j].start \in Nat /\ memory_regions[j].end \in Nat
          /\ memory_regions[j].start <= p /\ p < memory_regions[j].end
          /\ memory_regions[j].type = "AVAILABLE"
      BY <2>6, RegionType, SizesAssumption DEF Inv, TypeOK, Pages, InRegion
    <3>2. CASE j = region + 1 /\ p < FirstPage(region + 1)
      BY <2>6, <3>1, <3>2, SizesAssumption DEF FirstPage, Clamp
    <3>3. CASE j = region
      <4>1. ~(addr < memory_regions[j].end)
        BY <1>7, <3>1, <3>3 DEF ListNextRegion, InListedRegion
      <4>2. addr \in Nat
        BY DEF Inv, TypeOK
      <4>3. p < addr
        BY <3>1, <4>1, <4>2
      <4> QED
        BY <1>1, <2>6, <3>3, <4>3 DEF Inv, ListBehind, Past
    <3>4. CASE j < region
      BY <1>1, <2>6, <3>4 DEF Inv, ListBehind, Past
    <3> QED
      BY <2>2, <2>6, <3>2, <3>3, <3>4
  <2>7. ListBehind'
    BY <1>5, <2>1, <2>4, <2>5, <2>6 DEF ListBehind, Clamp, InRegion, Past, ListedPages
  <2> QED
    BY <1>3, <1>4, <2>3, <2>7 DEF Inv
<1> QED
  BY <1>6, <1>7

\* Taking the head of the list preserves the invariant.
LEMMA PopInv ==
    ASSUME Inv, Pop
    PROVE  Inv'
<1>1. /\ pc = "pop" /\ pc' = "idle"
      /\ UNCHANGED <<allocUnchanged, region, addr, free_list_initialized>>
      /\ ret' = free_page_head
      /\ owned' = owned \cup {free_page_head}
      /\ free_pages' = free_pages - 1
  BY DEF Pop
<1>2. UNCHANGED mapVars
  BY <1>1 DEF allocUnchanged
<1>3. /\ RegionsFromMap' /\ RegionsDisjoint' /\ SectionsTakenOut'
      /\ UsablePages' = UsablePages
  BY <1>1, <1>2, TableKept
<1>4. /\ FreeListIntact' /\ chain' \in Seq(Pages)
      /\ free_page_head \in Pages /\ free_page_head \in ListedPages
      /\ ListedPages' = ListedPages \ {free_page_head}
      /\ word0' \in [Pages -> Pages \cup {NULL, Junk}]
      /\ free_page_head' \in Pages \cup {NULL}
  BY PopKeepsList DEF Inv
<1>5. TypeOK'
  BY <1>1, <1>4 DEF Inv, TypeOK, allocUnchanged, mapVars
<1>6. OnlyUsablePages'
  BY <1>1, <1>3, <1>4 DEF Inv, OnlyUsablePages
<1>7. ListBehind'
  BY <1>1 DEF Inv, ListBehind
<1> QED
  BY <1>3, <1>4, <1>5, <1>6, <1>7 DEF Inv

\* Returning NULL preserves the invariant.
LEMMA OutOfMemoryInv ==
    ASSUME Inv, OutOfMemory
    PROVE  Inv'
<1>1. /\ pc = "pop" /\ pc' = "idle" /\ ret' = NULL
      /\ UNCHANGED <<allocUnchanged, free_pages, region, addr, listVars, owned>>
  BY DEF OutOfMemory
<1>2. UNCHANGED mapVars
  BY <1>1 DEF allocUnchanged
<1>3. /\ RegionsFromMap' /\ RegionsDisjoint' /\ SectionsTakenOut'
      /\ UsablePages' = UsablePages
  BY <1>1, <1>2, TableKept
<1>4. OnlyUsablePages' /\ FreeListIntact'
  BY <1>1, <1>3 DEF Inv, OnlyUsablePages, FreeListIntact, ListedPages, listVars
<1>5. TypeOK'
  BY <1>1 DEF Inv, TypeOK, allocUnchanged, mapVars, listVars
<1>6. ListBehind'
  BY <1>1 DEF Inv, ListBehind, listVars
<1> QED
  BY <1>3, <1>4, <1>5, <1>6 DEF Inv

\* MMU_pf_free of a page the caller holds, or of NULL, preserves the
\* invariant.
LEMMA PfFreeInv ==
    ASSUME Inv, NEW pf \in owned \cup {NULL}, PfFree(pf)
    PROVE  Inv'
<1>1. /\ pc = "idle" /\ pc' = "idle"
      /\ UNCHANGED <<allocUnchanged, region, addr, free_list_initialized, ret>>
  BY DEF PfFree
<1>2. UNCHANGED mapVars
  BY <1>1 DEF allocUnchanged
<1>3. /\ RegionsFromMap' /\ RegionsDisjoint' /\ SectionsTakenOut'
      /\ UsablePages' = UsablePages
  BY <1>1, <1>2, TableKept
<1>4. CASE pf = NULL
  <2>1. UNCHANGED <<free_pages, free_page_head, word0, chain, owned>>
    BY <1>4 DEF PfFree
  <2>2. OnlyUsablePages' /\ FreeListIntact'
    BY <1>3, <2>1 DEF Inv, OnlyUsablePages, FreeListIntact, ListedPages
  <2>3. TypeOK'
    BY <1>1, <2>1 DEF Inv, TypeOK, allocUnchanged, mapVars
  <2>4. ListBehind'
    BY <1>1, <2>1 DEF Inv, ListBehind
  <2> QED
    BY <1>3, <2>2, <2>3, <2>4 DEF Inv
<1>5. CASE pf # NULL
  <2>1. /\ Push(pf) /\ free_pages' = free_pages + 1
        /\ owned' = owned \ {pf}
    BY <1>5 DEF PfFree
  <2>2. /\ pf \in owned /\ pf \in UsablePages /\ pf \in Pages
        /\ pf \notin ListedPages
    BY <1>5, UsablePageType DEF Inv, OnlyUsablePages
  <2>3. /\ FreeListIntact' /\ chain' \in Seq(Pages)
        /\ ListedPages' = ListedPages \cup {pf}
        /\ word0' \in [Pages -> Pages \cup {NULL, Junk}]
        /\ free_page_head' \in Pages \cup {NULL}
    BY <2>1, <2>2, PushKeepsList DEF Inv
  <2>4. OnlyUsablePages'
    BY <1>3, <2>1, <2>2, <2>3 DEF Inv, OnlyUsablePages
  <2>5. TypeOK'
    BY <1>1, <2>1, <2>3 DEF Inv, TypeOK, allocUnchanged, mapVars
  <2>6. ListBehind'
    BY <1>1, <2>2 DEF Inv, ListBehind
  <2> QED
    BY <1>3, <2>3, <2>4, <2>5, <2>6 DEF Inv
<1> QED
  BY <1>4, <1>5

\* A caller that writes into its own page does not disturb the list.
LEMMA WritePageInv ==
    ASSUME Inv, NEW p \in owned, WritePage(p)
    PROVE  Inv'
<1>1. /\ pc = "idle" /\ pc' = "idle"
      /\ word0' = [word0 EXCEPT ![p] = Junk]
      /\ UNCHANGED <<allocUnchanged, free_pages, region, addr, free_list_initialized,
                     free_page_head, chain, callVars>>
  BY DEF WritePage
<1>2. UNCHANGED mapVars
  BY <1>1 DEF allocUnchanged
<1>3. /\ RegionsFromMap' /\ RegionsDisjoint' /\ SectionsTakenOut'
      /\ UsablePages' = UsablePages
  BY <1>1, <1>2, TableKept
<1>4. OnlyUsablePages'
  BY <1>1, <1>3 DEF Inv, OnlyUsablePages, ListedPages, callVars
<1>5. TypeOK'
  BY <1>1 DEF Inv, TypeOK, allocUnchanged, mapVars, callVars
<1>6. \A i \in 1 .. Len(chain) : word0'[chain[i]] = word0[chain[i]]
  <2>1. \A i \in 1 .. Len(chain) : chain[i] \in Pages /\ chain[i] # p
    BY DEF Inv, OnlyUsablePages, ListedPages, TypeOK
  <2> QED
    BY <1>1, <2>1 DEF Inv, TypeOK
<1>7. FreeListIntact'
  BY <1>1, <1>6 DEF Inv, FreeListIntact
<1>8. ListBehind'
  BY <1>1 DEF Inv, ListBehind, callVars
<1> QED
  BY <1>3, <1>4, <1>5, <1>7, <1>8 DEF Inv

-----------------------------------------------------------------------------

\* The invariant holds before MMU_init runs.
LEMMA InitInv == Init => Inv
<1> SUFFICES ASSUME Init
             PROVE  Inv
  OBVIOUS
<1>1. mbi \in BootInfos /\ pc = "tags" /\ tag = 1 /\ item = 1 /\ region = 1 /\ addr = 0
  BY DEF Init
<1>2. memory_regions = << >> /\ chain = << >> /\ owned = {} /\ ~free_list_initialized
  BY DEF Init
<1>3. TypeOK
  <2>1. word0 = [p \in Pages |-> Junk]
    BY DEF Init
  <2>2. word0 \in [Pages -> Pages \cup {NULL, Junk}]
    BY <2>1
  <2>3. /\ total_pages = 0 /\ free_pages = 0 /\ reserved_pages = 0
        /\ free_page_head = NULL /\ ret = NULL /\ free_list_initialized = FALSE
    BY DEF Init
  <2>4. memory_regions \in Seq(Region) /\ chain \in Seq(Pages)
    BY <1>2
  <2>5. /\ tag \in Nat \ {0} /\ item \in Nat \ {0} /\ region \in Nat \ {0} /\ addr \in Nat
        /\ total_pages \in Int /\ free_pages \in Int /\ reserved_pages \in Int
    BY <1>1, <2>3
  <2>6. free_page_head \in Pages \cup {NULL} /\ ret \in Pages \cup {NULL} /\ owned \subseteq Pages
    BY <1>2, <2>3
  <2>7. free_list_initialized \in BOOLEAN
    BY <2>3
  <2>8. pc \in {"tags", "idle", "listing", "pop", "halted"}
    BY <1>1
  <2> QED
    BY <1>1, <2>2, <2>4, <2>5, <2>6, <2>7, <2>8 DEF TypeOK
<1>4. RegionsFromMap /\ RegionsDisjoint /\ SectionsTakenOut
  BY <1>2 DEF RegionsFromMap, RegionsDisjoint, SectionsTakenOut
<1>5. ListBehind /\ OnlyUsablePages /\ FreeListIntact
  BY <1>1, <1>2 DEF Init, ListBehind, OnlyUsablePages, ListedPages, FreeListIntact
<1> QED
  BY <1>3, <1>4, <1>5 DEF Inv

\* Every step preserves the invariant.
LEMMA NextInv == Inv /\ [Next]_vars => Inv'
<1> SUFFICES ASSUME Inv, [Next]_vars
             PROVE  Inv'
  OBVIOUS
<1>1. CASE BootStep
  BY <1>1, MmapEntryInv, ReserveInRegionInv, SectionDoneInv, NextTagInv, InitReturnsInv
     DEF BootStep
<1>2. CASE AllocStep
  BY <1>2, ListPageInv, ListLoopInv, PopInv, OutOfMemoryInv DEF AllocStep
<1>3. CASE Callers
  BY <1>3, PfAllocInv, PfFreeInv, WritePageInv DEF Callers
<1>4. CASE UNCHANGED vars
  <2>1. UNCHANGED <<mbi, tag, item, memory_regions, pc, region, addr, total_pages,
                    free_pages, reserved_pages, free_list_initialized, free_page_head,
                    word0, chain, ret, owned>>
    BY <1>4 DEF vars, mapVars, countVars, listVars, callVars
  <2>2. TypeOK' /\ RegionsDisjoint' /\ FreeListIntact'
    BY <2>1 DEF Inv, TypeOK, RegionsDisjoint, FreeListIntact
  <2>3. RegionsFromMap' /\ SectionsTakenOut'
    BY <2>1 DEF Inv, RegionsFromMap, SectionsTakenOut, Done, Within
  <2>4. OnlyUsablePages'
    BY <2>1, UsablePagesFixed DEF Inv, OnlyUsablePages, ListedPages
  <2>5. ListBehind'
    BY <2>1 DEF Inv, ListBehind, Clamp, InRegion, Past, ListedPages
  <2> QED
    BY <2>2, <2>3, <2>4, <2>5 DEF Inv
<1> QED
  BY <1>1, <1>2, <1>3, <1>4 DEF Next

\* The invariant holds in every reachable state.
THEOREM Invariance == Spec => []Inv
BY InitInv, NextInv, PTL DEF Spec

\* Every variable keeps its type: region bounds stay page numbers, and links,
\* return values and listed pages stay pages of the machine.
THEOREM TypeCorrect == Spec => []TypeOK
<1>1. Inv => TypeOK
  BY DEF Inv
<1> QED
  BY <1>1, Invariance, PTL

\* The free list threaded through the pages is never broken, circular or
\* shared, for any boot structure and any sequence of calls and stores.
THEOREM FreeListSafe == Spec => []FreeListIntact
<1>1. Inv => FreeListIntact
  BY DEF Inv
<1> QED
  BY <1>1, Invariance, PTL

\* MMU_pf_alloc never returns a page of the kernel image, of the first
\* megabyte, outside the available memory, or that another caller holds.
THEOREM PagesSafe == Spec => []OnlyUsablePages
<1>1. Inv => OnlyUsablePages
  BY DEF Inv
<1> QED
  BY <1>1, Invariance, PTL

-----------------------------------------------------------------------------
(* Refinement.                                                             *)

\* The region table offers only usable pages once the sections are out of it.
LEMMA ListableUsable == Inv /\ pc # "tags" => ListablePages \subseteq UsablePages
<1> SUFFICES ASSUME Inv, pc # "tags", NEW p \in ListablePages
             PROVE  p \in UsablePages
  OBVIOUS
<1>1. p \in Pages /\ p \in Nat /\ p >= LowLimit
  BY SizesAssumption DEF ListablePages, Pages
<1>2. PICK j \in 1 .. Len(memory_regions) : InRegion(p, memory_regions[j])
  BY DEF ListablePages
<1> QED
  BY <1>1, <1>2, RegionPagesUsable DEF Inv

\* When the listing loop ends, the list is exactly what the table offers.
LEMMA ListIsTable ==
    ASSUME Inv, pc = "listing", region > Len(memory_regions)
    PROVE  ListedPages = ListablePages
<1>1. /\ memory_regions \in Seq(Region) /\ region \in Nat
      /\ \A j \in 1 .. Len(memory_regions) : j < region
  BY DEF Inv, TypeOK
<1>2. ListedPages \subseteq ListablePages
  <2>1. SUFFICES ASSUME NEW i \in 1 .. Len(chain)
                 PROVE  chain[i] \in ListablePages
    BY DEF ListedPages
  <2>2. chain[i] \in UsablePages
    BY DEF Inv, OnlyUsablePages, ListedPages
  <2>3. \E j \in 1 .. Len(memory_regions) : InRegion(chain[i], memory_regions[j])
    BY DEF Inv, ListBehind
  <2> QED
    BY <2>2, <2>3 DEF ListablePages, UsablePages, AvailablePages
<1>3. ListablePages \subseteq ListedPages
  BY <1>1 DEF ListablePages, Inv, ListBehind, Past
<1> QED
  BY <1>2, <1>3

\* The free frames of the abstract allocator, case by case.
LEMMA FreeFramesCases == Inv =>
    /\ pc = "tags" => FreeFrames = {}
    /\ pc = "idle" /\ ~free_list_initialized => FreeFrames = ListablePages
    /\ pc \in {"listing", "halted"} => FreeFrames = ListablePages
    /\ pc = "pop" => FreeFrames = ListedPages
    /\ pc = "idle" /\ free_list_initialized => FreeFrames = ListedPages
<1>1. Inv /\ pc = "pop" => free_list_initialized
  BY DEF Inv, ListBehind
<1> QED
  BY <1>1 DEF FreeFrames

\* FreeFramesCases in the next state.
LEMMA FreeFramesCasesNext == Inv' =>
    /\ pc' = "tags" => FreeFrames' = {}
    /\ pc' = "idle" /\ ~free_list_initialized' => FreeFrames' = ListablePages'
    /\ pc' \in {"listing", "halted"} => FreeFrames' = ListablePages'
    /\ pc' = "pop" => FreeFrames' = ListedPages'
    /\ pc' = "idle" /\ free_list_initialized' => FreeFrames' = ListedPages'
<1>1. (Inv =>
         /\ pc = "tags" => FreeFrames = {}
         /\ pc = "idle" /\ ~free_list_initialized => FreeFrames = ListablePages
         /\ pc \in {"listing", "halted"} => FreeFrames = ListablePages
         /\ pc = "pop" => FreeFrames = ListedPages
         /\ pc = "idle" /\ free_list_initialized => FreeFrames = ListedPages)'
  BY FreeFramesCases, PTL
<1> QED
  BY <1>1

\* The steps of MMU_init are steps of the abstract allocator: its last one
\* brings it up, the others are not seen.
LEMMA BootRefines ==
    ASSUME Inv, Inv', BootStep
    PROVE  [Allocator!Next]_(Allocator!vars)
<1>1. /\ pc = "tags" /\ UNCHANGED bootUnchanged
      /\ pc' = "tags" \/ InitReturns
  BY DEF BootStep, MmapEntry, ReserveInRegion, SectionDone, NextTag, InitReturns, InTag
<1>2. /\ ret' = ret /\ owned' = owned /\ mbi' = mbi
      /\ UsablePages' = UsablePages
      /\ FreeFrames = {}
  BY <1>1, UsablePagesFixed, FreeFramesCases DEF bootUnchanged, callVars
<1>3. CASE pc' = "tags"
  <2>1. FreeFrames' = {}
    BY <1>3, FreeFramesCasesNext
  <2> QED
    BY <1>1, <1>2, <1>3, <2>1 DEF Allocator!vars
<1>4. CASE InitReturns
  <2>1. pc' = "idle" /\ ~free_list_initialized'
    BY <1>1, <1>4 DEF InitReturns, bootUnchanged, listVars, Inv, ListBehind
  <2>2. FreeFrames' = ListablePages'
    BY <2>1, FreeFramesCasesNext
  <2>3. ListablePages' \subseteq UsablePages'
    <3>1. (Inv /\ pc # "tags" => ListablePages \subseteq UsablePages)'
      BY ListableUsable, PTL
    <3> QED
      BY <2>1, <3>1
  <2>4. Allocator!Boot
    BY <1>1, <1>2, <2>1, <2>2, <2>3 DEF Allocator!Boot
  <2> QED
    BY <2>4 DEF Allocator!Next
<1> QED
  BY <1>1, <1>3, <1>4

\* The steps inside MMU_pf_alloc are steps of the abstract allocator: Pop
\* hands out a free frame, OutOfMemory happens only with none, and building
\* the list is not seen.
LEMMA AllocRefines ==
    ASSUME Inv, Inv', AllocStep \/ PfAlloc
    PROVE  [Allocator!Next]_(Allocator!vars)
<1>1. /\ pc \in {"idle", "listing", "pop"} /\ pc' \in {"idle", "listing", "pop", "halted"}
      /\ mbi' = mbi /\ memory_regions' = memory_regions
  BY DEF AllocStep, ListPage, ListUnmappedPage, ListNextRegion, ListBuilt, Pop, OutOfMemory,
         PfAlloc, allocUnchanged, mapVars
<1>2. UsablePages' = UsablePages /\ ListablePages' = ListablePages
  BY <1>1, UsablePagesFixed DEF ListablePages
<1>3. CASE Pop
  <2>1. /\ pc = "pop" /\ pc' = "idle" /\ free_list_initialized'
        /\ ret' = free_page_head /\ owned' = owned \cup {free_page_head}
    BY <1>3 DEF Pop, Inv, ListBehind
  <2>2. FreeFrames = ListedPages /\ FreeFrames' = ListedPages'
    BY <2>1, FreeFramesCases, FreeFramesCasesNext
  <2>3. free_page_head \in ListedPages /\ ListedPages' = ListedPages \ {free_page_head}
    BY <1>3, PopKeepsList DEF Inv
  <2>4. Allocator!Alloc
    BY <1>2, <2>1, <2>2, <2>3 DEF Allocator!Alloc
  <2> QED
    BY <2>4 DEF Allocator!Next
<1>4. CASE OutOfMemory
  <2>1. /\ pc = "pop" /\ pc' = "idle" /\ free_list_initialized'
        /\ free_page_head = NULL /\ ret' = NULL /\ owned' = owned /\ chain' = chain
    BY <1>4 DEF OutOfMemory, Inv, ListBehind, listVars
  <2>2. FreeFrames = ListedPages /\ FreeFrames' = ListedPages
    BY <2>1, FreeFramesCases, FreeFramesCasesNext DEF ListedPages
  <2>3. chain = << >>
    <3>1. chain # << >> => chain[Len(chain)] = NULL /\ Len(chain) \in 1 .. Len(chain)
      BY <2>1 DEF Inv, TypeOK, FreeListIntact
    <3>2. \A i \in 1 .. Len(chain) : chain[i] # NULL
      BY UsablePageType DEF Inv, OnlyUsablePages, ListedPages
    <3> QED
      BY <3>1, <3>2
  <2>4. ListedPages = {}
    BY <2>3 DEF ListedPages
  <2>5. Allocator!AllocFails
    BY <1>2, <2>1, <2>2, <2>4 DEF Allocator!AllocFails, Allocator!NULL, NULL
  <2> QED
    BY <2>5 DEF Allocator!Next
<1>5. CASE PfAlloc \/ ListPage \/ ListUnmappedPage \/ ListNextRegion \/ ListBuilt
  <2>1. ret' = ret /\ owned' = owned /\ pc # "tags" /\ pc' # "tags"
    BY <1>1, <1>5 DEF PfAlloc, ListPage, ListUnmappedPage, ListNextRegion, ListBuilt, callVars
  <2>2. CASE PfAlloc /\ free_list_initialized
    <3>1. pc = "idle" /\ pc' = "pop" /\ chain' = chain
      BY <2>2 DEF PfAlloc
    <3> QED
      BY <1>2, <2>1, <2>2, <3>1, FreeFramesCases, FreeFramesCasesNext
         DEF Allocator!vars, ListedPages
  <2>3. CASE PfAlloc /\ ~free_list_initialized
    <3>1. pc = "idle" /\ pc' = "listing"
      BY <2>3 DEF PfAlloc
    <3> QED
      BY <1>2, <2>1, <2>3, <3>1, FreeFramesCases, FreeFramesCasesNext DEF Allocator!vars
  <2>4. CASE ListPage \/ ListUnmappedPage \/ ListNextRegion
    <3>1. pc = "listing" /\ pc' \in {"listing", "halted"}
      BY <2>4 DEF ListPage, ListUnmappedPage, ListNextRegion
    <3> QED
      BY <1>2, <2>1, <3>1, FreeFramesCases, FreeFramesCasesNext DEF Allocator!vars
  <2>5. CASE ListBuilt
    <3>1. pc = "listing" /\ pc' = "pop" /\ region > Len(memory_regions) /\ chain' = chain
      BY <2>5 DEF ListBuilt, listVars
    <3> QED
      BY <1>2, <2>1, <3>1, ListIsTable, FreeFramesCases, FreeFramesCasesNext
         DEF Allocator!vars, ListedPages
  <2> QED
    BY <1>5, <2>2, <2>3, <2>4, <2>5
<1> QED
  BY <1>3, <1>4, <1>5 DEF AllocStep

\* Calls, MMU_pf_free and the writes of callers are steps of the abstract
\* allocator, or not seen.
LEMMA CallersRefine ==
    ASSUME Inv, Inv', NEW p \in owned \cup {NULL}, PfFree(p) \/ (p \in owned /\ WritePage(p))
    PROVE  [Allocator!Next]_(Allocator!vars)
<1>1. /\ pc = "idle" /\ pc' = "idle" /\ ret' = ret
      /\ free_list_initialized' = free_list_initialized
      /\ mbi' = mbi /\ memory_regions' = memory_regions
  BY DEF PfFree, WritePage, allocUnchanged, mapVars, callVars
<1>2. UsablePages' = UsablePages /\ ListablePages' = ListablePages
  BY <1>1, UsablePagesFixed DEF ListablePages
<1>3. CASE chain' = chain /\ owned' = owned
  BY <1>1, <1>2, <1>3, FreeFramesCases, FreeFramesCasesNext DEF Allocator!vars, ListedPages
<1>4. CASE PfFree(p) /\ p # NULL
  <2>1. /\ Push(p) /\ owned' = owned \ {p} /\ p \in owned
    BY <1>4 DEF PfFree
  <2>2. free_list_initialized /\ p \notin ListedPages /\ p \in Pages
    BY <2>1 DEF Inv, ListBehind, OnlyUsablePages, TypeOK
  <2>3. ListedPages' = ListedPages \cup {p}
    BY <2>1, <2>2, PushKeepsList DEF Inv
  <2>4. Allocator!Free(p)
    BY <1>1, <1>2, <2>1, <2>2, <2>3, FreeFramesCases, FreeFramesCasesNext DEF Allocator!Free
  <2> QED
    BY <2>1, <2>4 DEF Allocator!Next
<1> QED
  BY <1>3, <1>4 DEF PfFree, WritePage, callVars

\* The page allocator of mmu.c, with its lazily built list inside the free
\* pages, implements the abstract allocator: what it returns was free and is
\* then held by the caller alone, and it returns NULL only when nothing is free.
THEOREM Refinement == Spec => AllocatorSpec
<1>1. Init => Allocator!Init
  BY DEF Init, Allocator!Init, FreeFrames, Allocator!NULL, NULL
<1>2. Inv /\ Inv' /\ [Next]_vars => [Allocator!Next]_(Allocator!vars)
  <2> SUFFICES ASSUME Inv, Inv', [Next]_vars
               PROVE  [Allocator!Next]_(Allocator!vars)
    OBVIOUS
  <2>1. CASE BootStep
    BY <2>1, BootRefines
  <2>2. CASE AllocStep \/ PfAlloc
    BY <2>2, AllocRefines
  <2>3. CASE \E p \in owned \cup {NULL} : PfFree(p)
    BY <2>3, CallersRefine
  <2>4. CASE \E p \in owned : WritePage(p)
    BY <2>4, CallersRefine
  <2>5. CASE UNCHANGED vars
    <3>1. UNCHANGED <<mbi, memory_regions, pc, free_list_initialized, chain, ret, owned>>
      BY <2>5 DEF vars, mapVars, listVars, callVars
    <3>2. UsablePages' = UsablePages /\ ListablePages' = ListablePages /\ ListedPages' = ListedPages
      BY <3>1, UsablePagesFixed DEF ListablePages, ListedPages
    <3>3. FreeFrames' = FreeFrames
      BY <3>1, <3>2 DEF FreeFrames
    <3> QED
      BY <3>1, <3>2, <3>3 DEF Allocator!vars
  <2> QED
    BY <2>1, <2>2, <2>3, <2>4, <2>5 DEF Next, Callers
<1> QED
  BY <1>1, <1>2, Invariance, PTL DEF Spec, AllocatorSpec, Allocator!Spec
-----------------------------------------------------------------------------
(* No page is lost.  The argument is a second induction on top of Inv.     *)

\* Page p is offered by the i-th item of tag t, an entry that has been read.
Offered(p, t, i) ==
    /\ mbi[t].type = "mmap"
    /\ pc = "tags" => Done(t, i)
    /\ mbi[t].items[i].relevant
    /\ EntryStart(mbi[t].items[i]) <= p /\ p < EntryEnd(mbi[t].items[i])

\* The converse of RegionsFromMap: as long as the table is not full, a page
\* that was offered is still in a region, if it is not one of the kernel's.
PagesKept ==
    Len(memory_regions) < MaxRegions =>
       \A p \in Pages \ KernelPages, t \in 1 .. Len(mbi) : \A i \in 1 .. Len(mbi[t].items) :
          Offered(p, t, i) => \E j \in 1 .. Len(memory_regions) : InRegion(p, memory_regions[j])

\* TakeOut keeps the pages of its region that it does not take out, unless it
\* finds the table full.
LEMMA TakeOutKeeps ==
    ASSUME memory_regions \in Seq(Region),
           NEW j \in 1 .. Len(memory_regions),
           NEW os \in Nat, NEW oe \in Nat, os < oe,
           memory_regions[j].start <= os, oe <= memory_regions[j].end,
           Len(TakeOut(j, os, oe)) < MaxRegions,
           NEW p \in Nat, InRegion(p, memory_regions[j]), p < os \/ oe <= p
    PROVE  \E k \in 1 .. Len(TakeOut(j, os, oe)) : InRegion(p, TakeOut(j, os, oe)[k])
<1> DEFINE r == memory_regions[j]
           n == Len(memory_regions)
           new == TakeOut(j, os, oe)
           half == [start |-> oe, end |-> r.end, type |-> "AVAILABLE"]
<1>1. /\ r \in Region /\ n \in Nat /\ j \in 1 .. n
      /\ r.start \in Nat /\ r.end \in Nat /\ r.start <= os /\ oe <= r.end
      /\ r.type = "AVAILABLE" /\ r.start <= p /\ p < r.end
  BY RegionType DEF InRegion
<1>2. ASSUME NEW q \in Region
      PROVE  LET m == [memory_regions EXCEPT ![j] = q]
             IN  m \in Seq(Region) /\ Len(m) = n /\ m[j] = q
  OBVIOUS
<1>3. CASE os = r.start /\ oe = r.end
  BY <1>1, <1>3
<1>4. CASE os = r.start /\ oe # r.end
  <2> DEFINE q == [r EXCEPT !.start = oe]
  <2>1. new = [memory_regions EXCEPT ![j] = q]
    BY <1>4 DEF TakeOut
  <2>2. q \in Region /\ q.type = "AVAILABLE" /\ q.start = oe /\ q.end = r.end
    BY <1>1 DEF Region
  <2>3. InRegion(p, q)
    BY <1>1, <1>4, <2>2 DEF InRegion
  <2>4. Len(new) = n /\ new[j] = q
    BY <1>2, <2>1, <2>2
  <2> QED
    BY <1>1, <2>3, <2>4
<1> DEFINE q == [r EXCEPT !.end = os]
<1>5. q \in Region /\ q.type = "AVAILABLE" /\ q.start = r.start /\ q.end = os
  BY <1>1 DEF Region
<1>6. CASE os # r.start /\ oe = r.end
  <2>1. new = [memory_regions EXCEPT ![j] = q]
    BY <1>6 DEF TakeOut
  <2>2. InRegion(p, q)
    BY <1>1, <1>5, <1>6 DEF InRegion
  <2>3. Len(new) = n /\ new[j] = q
    BY <1>2, <1>5, <2>1
  <2> QED
    BY <1>1, <2>2, <2>3
<1>7. CASE os # r.start /\ oe # r.end
  <2> DEFINE m == [memory_regions EXCEPT ![j] = q]
  <2>1. n < MaxRegions
    <3>1. CASE ~(n < MaxRegions)
      <4> DEFINE g == [r EXCEPT !.type = "RESERVED"]
      <4>1. new = [memory_regions EXCEPT ![j] = g]
        BY <1>7, <3>1 DEF TakeOut
      <4>2. g \in Region
        BY <1>1 DEF Region
      <4>3. Len(new) = n
        BY <1>2, <4>1, <4>2
      <4> QED
        BY <3>1, <4>3
    <3> QED
      BY <3>1
  <2>2. new = Append(m, half)
    BY <1>7, <2>1 DEF TakeOut
  <2>3. half \in Region /\ half.type = "AVAILABLE" /\ half.start = oe /\ half.end = r.end
    BY <1>1 DEF Region
  <2>4. m \in Seq(Region) /\ Len(m) = n /\ m[j] = q
    BY <1>2, <1>5
  <2>5. Len(new) = n + 1 /\ new[n + 1] = half /\ new[j] = q
    BY <1>1, <2>2, <2>3, <2>4
  <2>6. InRegion(p, q) \/ InRegion(p, half)
    BY <1>1, <1>5, <2>3 DEF InRegion
  <2>7. j \in 1 .. Len(new) /\ n + 1 \in 1 .. Len(new)
    BY <1>1, <2>5
  <2> QED
    BY <2>5, <2>6, <2>7
<1> QED
  BY <1>3, <1>4, <1>6, <1>7

\* A recorded entry brings all its pages with it.
LEMMA MmapEntryKeeps ==
    ASSUME Inv, PagesKept, MmapEntry
    PROVE  PagesKept'
<1> DEFINE e == thisItem
           n == Len(memory_regions)
           fresh == [start |-> EntryStart(e), end |-> EntryEnd(e), type |-> "AVAILABLE"]
<1>1. /\ pc = "tags" /\ pc' = "tags" /\ mbi' = mbi
      /\ tag' = tag /\ item' = item + 1
      /\ InTag("mmap")
  BY DEF MmapEntry, InTag, NextItem, bootUnchanged
<1>2. /\ e = mbi[tag].items[item]
      /\ EntryStart(e) \in Nat /\ EntryEnd(e) \in Nat
  BY <1>1, ItemType, RoundingType DEF Inv, thisItem
<1>3. memory_regions \in Seq(Region) /\ n \in Nat /\ item \in Nat /\ tag \in Nat
  BY DEF Inv, TypeOK
<1>4. KernelPages' = KernelPages
  BY <1>1 DEF KernelPages
<1>5. SUFFICES ASSUME Len(memory_regions') < MaxRegions,
                      NEW p \in Pages \ KernelPages,
                      NEW t \in 1 .. Len(mbi), NEW i \in 1 .. Len(mbi[t].items),
                      Offered(p, t, i)'
               PROVE  \E j \in 1 .. Len(memory_regions') : InRegion(p, memory_regions'[j])
  BY <1>1, <1>4 DEF PagesKept, InRegion
<1>6. /\ Offered(p, t, i) \/ (t = tag /\ i = item)
      /\ t = tag /\ i = item => e.relevant /\ EntryStart(e) <= p /\ p < EntryEnd(e)
  <2>1. Len(mbi[t].items) \in Nat
    BY MbiType DEF Inv
  <2>2. Done(t, i) \/ (t = tag /\ i = item)
    BY <1>1, <1>3, <1>5, <2>1 DEF Offered, Done
  <2> QED
    BY <1>1, <1>2, <1>5, <2>2 DEF Offered
<1>7. p \in Nat
  BY DEF Pages
<1>8. CASE ~Records(e)
  <2>1. memory_regions' = memory_regions
    BY <1>8 DEF MmapEntry
  <2>2. e.relevant => EntryStart(e) >= EntryEnd(e)
    BY <1>2, <1>5, <1>8, <2>1 DEF Records
  <2>3. Offered(p, t, i)
    BY <1>2, <1>6, <1>7, <2>2
  <2> QED
    BY <1>5, <2>1, <2>3 DEF PagesKept
<1>9. CASE Records(e)
  <2>1. memory_regions' = Append(memory_regions, fresh)
    BY <1>9 DEF MmapEntry
  <2>2. fresh \in Region
    BY <1>2 DEF Region
  <2>3. /\ Len(memory_regions') = n + 1
        /\ memory_regions'[n + 1] = fresh
        /\ \A k \in 1 .. n : memory_regions'[k] = memory_regions[k] /\ k \in 1 .. n + 1
    BY <1>3, <2>1, <2>2
  <2>4. CASE Offered(p, t, i)
    <3>1. n < MaxRegions
      BY <1>9 DEF Records
    <3>2. PICK j \in 1 .. n : InRegion(p, memory_regions[j])
      BY <2>4, <3>1 DEF PagesKept
    <3> QED
      BY <2>3, <3>2
  <2>5. CASE t = tag /\ i = item
    <3>1. InRegion(p, fresh)
      BY <1>6, <2>5 DEF InRegion
    <3>2. n + 1 \in 1 .. n + 1
      BY <1>3
    <3> QED
      BY <2>3, <3>1, <3>2
  <2> QED
    BY <1>6, <2>4, <2>5
<1> QED
  BY <1>8, <1>9

\* Taking out a section keeps all pages that are not the kernel's.
LEMMA ReserveInRegionKeeps ==
    ASSUME Inv, PagesKept, ReserveInRegion
    PROVE  PagesKept'
<1> DEFINE s == thisItem
           r == memory_regions[region]
           n == Len(memory_regions)
           os == OverlapStart(s, r)
           oe == OverlapEnd(s, r)
<1>1. /\ pc = "tags" /\ pc' = "tags" /\ mbi' = mbi
      /\ tag' = tag /\ item' = item
      /\ InTag("elf") /\ Loaded(s)
  BY DEF ReserveInRegion, InTag, bootUnchanged
<1>2. /\ tag \in 1 .. Len(mbi) /\ mbi[tag].type = "elf"
      /\ item \in 1 .. Len(mbi[tag].items)
      /\ s \in Item /\ s = mbi[tag].items[item]
      /\ SectionStart(s) \in Nat /\ SectionEnd(s) \in Nat
  BY <1>1, ItemType, RoundingType DEF Inv, InTag, thisItem
<1>3. /\ memory_regions \in Seq(Region) /\ n \in Nat
      /\ region \in 1 .. n /\ r \in Region /\ r.start \in Nat /\ r.end \in Nat
  BY RegionType DEF Inv, TypeOK, ReserveInRegion
<1>4. KernelPages' = KernelPages
  BY <1>1 DEF KernelPages
<1>5. SUFFICES ASSUME Len(memory_regions') < MaxRegions,
                      NEW p \in Pages \ KernelPages,
                      NEW t \in 1 .. Len(mbi), NEW i \in 1 .. Len(mbi[t].items),
                      Offered(p, t, i)
               PROVE  \E j \in 1 .. Len(memory_regions') : InRegion(p, memory_regions'[j])
  BY <1>1, <1>4 DEF PagesKept, InRegion, Offered, Done
<1>6. p \in Nat /\ p \in Pages
  BY DEF Pages
<1>7. CASE ~(r.type = "AVAILABLE" /\ Overlaps(s, r))
  <2>1. memory_regions' = memory_regions
    BY <1>7 DEF ReserveInRegion
  <2> QED
    BY <1>5, <2>1 DEF PagesKept
<1>8. CASE r.type = "AVAILABLE" /\ Overlaps(s, r)
  <2>1. memory_regions' = TakeOut(region, os, oe)
    BY <1>8 DEF ReserveInRegion
  <2>2. /\ os \in Nat /\ oe \in Nat /\ os < oe
        /\ r.start <= os /\ oe <= r.end
        /\ SectionStart(s) <= os /\ oe <= SectionEnd(s)
    BY <1>2, <1>3, <1>8, OverlapBounds DEF Overlaps
  <2>3. TakenOut(memory_regions', region, os, oe)
    <3>1. memory_regions[region].start <= os /\ oe <= memory_regions[region].end
      BY <2>2
    <3>2. memory_regions[region].type = "AVAILABLE"
      BY <1>8
    <3> HIDE DEF os, oe
    <3> QED
      BY <1>3, <2>1, <2>2, <3>1, <3>2, TakeOutParts
  <2>4. /\ Len(memory_regions') \in {n, n + 1}
        /\ \A k \in 1 .. n : k # region => memory_regions'[k] = memory_regions[k]
    BY <2>3 DEF TakenOut
  <2>5. n < MaxRegions
    BY <1>3, <1>5, <2>4, SizesAssumption
  <2>6. PICK j \in 1 .. n : InRegion(p, memory_regions[j])
    BY <1>5, <2>5 DEF PagesKept
  <2>7. CASE j # region
    <3>1. memory_regions'[j] = memory_regions[j] /\ j \in 1 .. Len(memory_regions')
      BY <1>3, <2>4, <2>7
    <3> QED
      BY <2>6, <3>1
  <2>8. CASE j = region
    <3>1. p < os \/ oe <= p
      <4>1. CASE os <= p /\ p < oe
        <5>1. SectionStart(s) <= p /\ p < SectionEnd(s)
          <6> HIDE DEF os, oe, s
          <6> QED
            BY <1>2, <1>6, <2>2, <4>1
        <5>2. p \in KernelPages
          BY <1>1, <1>2, <1>6, <5>1 DEF KernelPages
        <5> QED
          BY <5>2
      <4> HIDE DEF os, oe
      <4> QED
        BY <1>6, <2>2, <4>1
    <3>2. InRegion(p, memory_regions[region])
      BY <2>6, <2>8
    <3>3. memory_regions[region].start <= os /\ oe <= memory_regions[region].end
      BY <2>2
    <3> HIDE DEF os, oe
    <3> QED
      BY <1>3, <1>5, <1>6, <2>1, <2>2, <3>1, <3>2, <3>3, TakeOutKeeps
  <2> QED
    BY <2>7, <2>8
<1> QED
  BY <1>7, <1>8

\* So does every step that leaves the table alone and deals with no entry.
LEMMA TableLeftAlone ==
    ASSUME Inv, PagesKept, UNCHANGED <<mbi, memory_regions>>,
           \A t \in 1 .. Len(mbi) : \A i \in 1 .. Len(mbi[t].items) :
              mbi[t].type = "mmap" /\ (pc' = "tags" => Done(t, i)') => (pc = "tags" => Done(t, i))
    PROVE  PagesKept'
<1>1. KernelPages' = KernelPages
  BY DEF KernelPages
<1>2. \A p \in Pages, t \in 1 .. Len(mbi) : \A i \in 1 .. Len(mbi[t].items) :
         Offered(p, t, i)' => Offered(p, t, i)
  BY DEF Offered
<1> QED
  BY <1>1, <1>2 DEF PagesKept, InRegion

\* MMU_init moves on, and returns, past entries only that it has read.
LEMMA MovingOnReads ==
    ASSUME Inv, SectionDone \/ NextTag \/ InitReturns,
           NEW t \in 1 .. Len(mbi), NEW i \in 1 .. Len(mbi[t].items),
           mbi[t].type = "mmap", pc' = "tags" => Done(t, i)'
    PROVE  Done(t, i)
<1>0. /\ pc = "tags" /\ UNCHANGED <<mbi, memory_regions>>
      /\ tag \in Nat \ {0} /\ item \in Nat \ {0}
      /\ mbi \in Seq(Tag) /\ Ordered(mbi)
  BY MbiType DEF Inv, TypeOK, SectionDone, NextTag, InitReturns, InTag, bootUnchanged
<1>1. Len(mbi[t].items) \in Nat
  BY MbiType DEF Inv
<1>2. CASE SectionDone
  <2>1. pc' = "tags" /\ tag' = tag /\ item' = item + 1 /\ mbi[tag].type = "elf"
    BY <1>2 DEF SectionDone, NextItem, InTag
  <2> QED
    BY <1>0, <1>1, <2>1 DEF Done
<1>3. CASE NextTag
  <2>1. /\ pc' = "tags" /\ tag' = tag + 1 /\ item' = 1
        /\ mbi[tag].type = "mmap" => item > Len(mbi[tag].items)
    BY <1>0, <1>3 DEF NextTag
  <2>2. t < tag \/ t = tag
    BY <1>0, <1>1, <2>1 DEF Done
  <2> QED
    BY <1>0, <1>1, <2>1, <2>2 DEF Done
<1>4. CASE InitReturns
  <2>1. tag <= Len(mbi) => mbi[tag].type \in {"end", "invalid"}
    BY <1>4 DEF InitReturns
  <2>2. CASE tag > Len(mbi)
    BY <1>0, <2>2 DEF Done
  <2>3. CASE tag <= Len(mbi)
    <3>1. tag \in 1 .. Len(mbi)
      BY <1>0, <2>3
    <3>2. t < tag
      BY <1>0, <2>1, <2>3, <3>1 DEF Ordered
    <3> QED
      BY <3>2 DEF Done
  <2> QED
    BY <1>0, <2>2, <2>3
<1> QED
  BY <1>2, <1>3, <1>4

LEMMA MovingOnKeeps ==
    ASSUME Inv, PagesKept, SectionDone \/ NextTag \/ InitReturns
    PROVE  PagesKept'
<1>1. pc = "tags" /\ UNCHANGED <<mbi, memory_regions>>
  BY DEF SectionDone, NextTag, InitReturns, InTag, bootUnchanged
<1> QED
  BY <1>1, MovingOnReads, TableLeftAlone

\* After MMU_init the table is not touched.
LEMMA CallsKeep ==
    ASSUME Inv, PagesKept, AllocStep \/ Callers \/ UNCHANGED vars
    PROVE  PagesKept'
<1>1. UNCHANGED <<mbi, tag, item, memory_regions>> /\ (pc' = "tags" <=> pc = "tags")
  BY DEF AllocStep, ListPage, ListUnmappedPage, ListNextRegion, ListBuilt, Pop, OutOfMemory,
         Callers, PfAlloc, PfFree, WritePage, allocUnchanged, mapVars, vars
<1> QED
  BY <1>1, TableLeftAlone DEF Done

\* Once MMU_init has returned, the table that has not filled up offers every
\* usable page.
LEMMA UsableListable ==
    ASSUME Inv, PagesKept, pc # "tags", Len(memory_regions) < MaxRegions
    PROVE  ListablePages = UsablePages
<1>1. ASSUME NEW p \in UsablePages
      PROVE  p \in ListablePages
  <2>1. p \in Pages \ KernelPages /\ p >= LowLimit /\ p \in AvailablePages
    BY DEF UsablePages, AvailablePages
  <2>2. PICK t \in 1 .. Len(mbi) : \E i \in 1 .. Len(mbi[t].items) : Offered(p, t, i)
    BY <2>1 DEF AvailablePages, Offered
  <2>3. PICK i \in 1 .. Len(mbi[t].items) : Offered(p, t, i)
    BY <2>2
  <2>4. \E j \in 1 .. Len(memory_regions) : InRegion(p, memory_regions[j])
    BY <2>1, <2>3 DEF PagesKept
  <2> QED
    BY <2>1, <2>4 DEF ListablePages
<1> QED
  BY <1>1, ListableUsable

\* Each step keeps NoPageLost: the list is complete when it is built, and from
\* then on a page moves between the list and its owner.
LEMMA NothingLostStep ==
    ASSUME Inv, PagesKept, NoPageLost, [Next]_vars
    PROVE  NoPageLost'
<1>1. CASE UNCHANGED vars
  BY <1>1 DEF NoPageLost, UsablePages, AvailablePages, KernelPages, ListedPages,
              vars, mapVars, listVars, callVars
<1>2. CASE BootStep
  <2>1. ~free_list_initialized'
    BY <1>2 DEF BootStep, MmapEntry, ReserveInRegion, SectionDone, NextTag, InitReturns, InTag,
                bootUnchanged, listVars, Inv, ListBehind
  <2> QED
    BY <2>1 DEF NoPageLost
<1>3. ASSUME AllocStep \/ Callers
      PROVE  /\ pc # "tags" /\ UsablePages' = UsablePages
             /\ memory_regions' = memory_regions
  BY <1>3 DEF AllocStep, ListPage, ListUnmappedPage, ListNextRegion, ListBuilt, Pop, OutOfMemory,
              Callers, PfAlloc, PfFree, WritePage, allocUnchanged, mapVars,
              UsablePages, AvailablePages, KernelPages
<1>4. CASE ListPage \/ ListUnmappedPage \/ ListNextRegion
  BY <1>4 DEF ListPage, ListUnmappedPage, ListNextRegion, NoPageLost
<1>5. CASE ListBuilt
  <2>1. /\ pc = "listing" /\ region > Len(memory_regions)
        /\ ListedPages' = ListedPages /\ owned' = owned
    BY <1>5 DEF ListBuilt, listVars, callVars, ListedPages
  <2>2. ListedPages = ListablePages /\ owned = {}
    BY <2>1, ListIsTable DEF Inv, ListBehind
  <2> QED
    BY <1>3, <1>5, <2>1, <2>2, UsableListable DEF NoPageLost, AllocStep
<1>6. CASE Pop
  <2>1. /\ pc = "pop" /\ free_list_initialized
        /\ owned' = owned \cup {free_page_head}
    BY <1>6 DEF Pop, Inv, ListBehind
  <2>2. free_page_head \in ListedPages /\ ListedPages' = ListedPages \ {free_page_head}
    BY <1>6, PopKeepsList DEF Inv
  <2> QED
    BY <1>3, <1>6, <2>1, <2>2 DEF NoPageLost, AllocStep
<1>7. CASE OutOfMemory
  <2>1. /\ pc = "pop" /\ free_list_initialized /\ owned' = owned
        /\ ListedPages' = ListedPages
    BY <1>7 DEF OutOfMemory, listVars, ListedPages, Inv, ListBehind
  <2> QED
    BY <1>3, <1>7, <2>1 DEF NoPageLost, AllocStep
<1>8. CASE PfAlloc
  <2>1. /\ pc = "idle" /\ owned' = owned
        /\ ListedPages' = ListedPages
        /\ pc' = "listing" \/ free_list_initialized
    BY <1>8 DEF PfAlloc, callVars, ListedPages
  <2> QED
    BY <1>3, <1>8, <2>1 DEF NoPageLost, Callers
<1>9. ASSUME NEW pf \in owned \cup {NULL}, PfFree(pf)
      PROVE  NoPageLost'
  <2>1. pc = "idle" /\ free_list_initialized' = free_list_initialized
    BY <1>9 DEF PfFree
  <2>2. CASE pf = NULL
    <3>1. owned' = owned /\ ListedPages' = ListedPages
      BY <1>9, <2>2 DEF PfFree, ListedPages
    <3> QED
      BY <1>3, <1>9, <2>1, <3>1 DEF NoPageLost, Callers
  <2>3. CASE pf # NULL
    <3>1. Push(pf) /\ owned' = owned \ {pf} /\ pf \in owned
      BY <1>9, <2>3 DEF PfFree
    <3>2. pf \in Pages /\ pf \notin ListedPages
      BY <3>1 DEF Inv, TypeOK, OnlyUsablePages
    <3>3. ListedPages' = ListedPages \cup {pf}
      BY <3>1, <3>2, PushKeepsList DEF Inv
    <3> QED
      BY <1>3, <1>9, <2>1, <3>1, <3>3 DEF NoPageLost, Callers
  <2> QED
    BY <2>2, <2>3
<1>10. ASSUME NEW p \in owned, WritePage(p)
       PROVE  NoPageLost'
  <2>1. /\ pc = "idle" /\ free_list_initialized' = free_list_initialized
        /\ owned' = owned /\ ListedPages' = ListedPages
    BY <1>10 DEF WritePage, callVars, ListedPages
  <2> QED
    BY <1>3, <1>10, <2>1 DEF NoPageLost, Callers
<1> QED
  BY <1>1, <1>2, <1>4, <1>5, <1>6, <1>7, <1>8, <1>9, <1>10 DEF Next, AllocStep, Callers

\* As long as the region table has not filled up, every usable page is on the
\* list or held by a caller once the list exists, however the kernel's sections
\* trim and split the regions.
THEOREM NothingLost == Spec => []NoPageLost
<1>1. Init => PagesKept /\ NoPageLost
  <2> SUFFICES ASSUME Init
               PROVE  PagesKept /\ NoPageLost
    OBVIOUS
  <2>1. ~free_list_initialized /\ pc = "tags" /\ tag = 1 /\ item = 1 /\ mbi \in Seq(Tag)
    BY BootAssumption DEF Init
  <2>2. \A t \in 1 .. Len(mbi) : mbi[t] \in Tag
    BY <2>1
  <2>3. ASSUME NEW t \in 1 .. Len(mbi), NEW i \in 1 .. Len(mbi[t].items)
        PROVE  ~Done(t, i)
    <3>1. mbi[t].items \in Seq(Item)
      BY <2>2 DEF Tag
    <3> QED
      BY <2>1, <3>1 DEF Done
  <2> QED
    BY <2>1, <2>3 DEF PagesKept, Offered, NoPageLost
<1>2. Inv /\ PagesKept /\ NoPageLost /\ [Next]_vars => PagesKept' /\ NoPageLost'
  BY MmapEntryKeeps, ReserveInRegionKeeps, MovingOnKeeps, CallsKeep, NothingLostStep
     DEF Next, BootStep
<1> QED
  BY <1>1, <1>2, Invariance, PTL DEF Spec
-----------------------------------------------------------------------------
(* The statistics.  Counts is StatisticsExact for a structure read in part. *)

\* The pages of the entries read so far, and those still in a region.
ReadPages ==
    {p \in Pages : \E t \in 1 .. Len(mbi) : \E i \in 1 .. Len(mbi[t].items) : Offered(p, t, i)}
TablePages ==
    {p \in Pages : \E j \in 1 .. Len(memory_regions) : InRegion(p, memory_regions[j])}

Counts ==
    Len(memory_regions) < MaxRegions =>
       /\ total_pages = Cardinality(ReadPages)
       /\ reserved_pages = Cardinality(ReadPages \ TablePages)
       /\ free_pages + Cardinality(owned) = Cardinality(TablePages)

\* Sets of pages are finite, and their elements numbers.
LEMMA PagesFinite ==
    /\ Pages \subseteq Nat
    /\ \A S : S \subseteq Pages => IsFiniteSet(S) /\ Cardinality(S) \in Nat
<1>1. Pages \subseteq Nat
  BY SizesAssumption DEF Pages
<1>2. IsFiniteSet(Pages)
  BY FS_Interval, SizesAssumption DEF Pages
<1>3. ASSUME NEW S, S \subseteq Pages
      PROVE  IsFiniteSet(S) /\ Cardinality(S) \in Nat
  <2>1. S \in SUBSET Pages
    BY <1>3
  <2>2. IsFiniteSet(S)
    BY <1>2, <2>1, FS_Subset
  <2> QED
    BY <2>2, FS_CardinalityType
<1> QED
  BY <1>1, <1>3

\* The pages from a to b.
LEMMA Span ==
    ASSUME NEW a \in Nat, NEW b \in Nat, b <= TopPage
    PROVE  {p \in Pages : a <= p /\ p < b} = a .. b - 1
<1>1. ASSUME NEW p
      PROVE  p \in Pages /\ a <= p /\ p < b <=> p \in a .. b - 1
  <2>1. p \in a .. b - 1 <=> p \in Nat /\ a <= p /\ p < b
    OBVIOUS
  <2>2. p \in Pages <=> p \in Nat /\ p < TopPage
    BY SizesAssumption DEF Pages
  <2>3. p \in Nat /\ p < b => p < TopPage
    BY SizesAssumption
  <2> QED
    BY <2>1, <2>2, <2>3
<1> QED
  BY <1>1

\* An interval of pages that is added, or taken away, counts for its length.
LEMMA AddPages ==
    ASSUME NEW S, S \subseteq Pages, NEW a \in Nat, NEW b \in Nat, a < b, NEW T, T = a .. b - 1
    PROVE  /\ S \cap T = {} => Cardinality(S \cup T) = Cardinality(S) + (b - a)
           /\ T \subseteq S => Cardinality(S \ T) = Cardinality(S) - (b - a)
<1>2. IsFiniteSet(T) /\ Cardinality(T) = b - a
  <2>1. a \in Int /\ b - 1 \in Int /\ ~(a > b - 1) /\ (b - 1) - a + 1 = b - a
    OBVIOUS
  <2>2. IsFiniteSet(a .. b - 1) /\ Cardinality(a .. b - 1) = (b - 1) - a + 1
    BY <2>1, FS_Interval
  <2> QED
    BY <2>1, <2>2
<1>3. \A U : U \subseteq Pages => IsFiniteSet(U) /\ Cardinality(U) \in Nat
  BY PagesFinite
<1>4. ASSUME NEW U, U \subseteq Pages, U \cap T = {}
      PROVE  Cardinality(U \cup T) = Cardinality(U) + (b - a)
  <2>1. IsFiniteSet(U) /\ Cardinality(U) \in Nat
    BY <1>3, <1>4
  <2>2. Cardinality(U \cup T) = Cardinality(U) + Cardinality(T) - Cardinality(U \cap T)
    BY <1>2, <2>1, FS_Union
  <2>3. Cardinality(U \cap T) = 0
    BY <1>4, FS_EmptySet
  <2> QED
    BY <1>2, <2>1, <2>2, <2>3
<1>5. ASSUME T \subseteq S
      PROVE  Cardinality(S \ T) = Cardinality(S) - (b - a)
  <2>1. (S \ T) \cup T = S /\ (S \ T) \cap T = {} /\ S \ T \subseteq Pages
    BY <1>5
  <2>2. Cardinality(S) = Cardinality(S \ T) + (b - a)
    BY <1>4, <2>1
  <2>3. Cardinality(S \ T) \in Nat
    BY <1>3, <2>1
  <2> QED
    BY <2>2, <2>3
<1> QED
  BY <1>4, <1>5

\* The pages of the table are those of entries that were read.
LEMMA TableWasRead == Inv => TablePages \subseteq ReadPages
<1> SUFFICES ASSUME Inv, NEW p \in TablePages
             PROVE  p \in ReadPages
  OBVIOUS
<1>1. p \in Pages /\ p \in Nat
  BY PagesFinite DEF TablePages
<1>2. PICK j \in 1 .. Len(memory_regions) : InRegion(p, memory_regions[j])
  BY DEF TablePages
<1> DEFINE r == memory_regions[j]
<1>3. PICK t \in 1 .. Len(mbi) : \E i \in 1 .. Len(mbi[t].items) : Done(t, i) /\ Within(r, t, i)
  BY <1>2 DEF Inv, RegionsFromMap, InRegion
<1>4. PICK i \in 1 .. Len(mbi[t].items) : Done(t, i) /\ Within(r, t, i)
  BY <1>3
<1>5. mbi[t].items[i] \in Item
  BY MbiType DEF Inv
<1>6. EntryStart(mbi[t].items[i]) \in Nat /\ EntryEnd(mbi[t].items[i]) \in Nat
  BY <1>5, RoundingType
<1>7. r.start \in Nat /\ r.end \in Nat
  BY RegionType DEF Inv, TypeOK
<1>8. EntryStart(mbi[t].items[i]) <= p /\ p < EntryEnd(mbi[t].items[i])
  <2>1. r.start <= p /\ p < r.end
    BY <1>2 DEF InRegion
  <2>2. EntryStart(mbi[t].items[i]) <= r.start /\ r.end <= EntryEnd(mbi[t].items[i])
    BY <1>4 DEF Within
  <2> HIDE DEF r
  <2> QED
    BY <1>1, <1>6, <1>7, <2>1, <2>2
<1> QED
  BY <1>1, <1>4, <1>8 DEF ReadPages, Offered, Within

\* TakeOut leaves pages of the regions it found, and none that it takes out.
LEMMA TakeOutLeaves ==
    ASSUME memory_regions \in Seq(Region), RegionsDisjoint,
           NEW j \in 1 .. Len(memory_regions),
           memory_regions[j].type = "AVAILABLE",
           NEW os \in Nat, NEW oe \in Nat, os < oe,
           memory_regions[j].start <= os, oe <= memory_regions[j].end,
           NEW p \in Nat, NEW k \in 1 .. Len(TakeOut(j, os, oe)),
           InRegion(p, TakeOut(j, os, oe)[k])
    PROVE  /\ p < os \/ oe <= p
           /\ \E l \in 1 .. Len(memory_regions) : InRegion(p, memory_regions[l])
<1> DEFINE r == memory_regions[j]
           n == Len(memory_regions)
           new == TakeOut(j, os, oe)
<1>1. TakenOut(new, j, os, oe)
  BY TakeOutParts
<1>2. /\ n \in Nat /\ r.start \in Nat /\ r.end \in Nat /\ r.start <= os /\ oe <= r.end
      /\ r.type = "AVAILABLE"
  BY RegionType
<1>3. Len(new) \in {n, n + 1} /\ new \in Seq(Region) /\ k \in 1 .. Len(new)
  BY <1>1 DEF TakenOut
<1>4. new[k].start \in Nat /\ new[k].end \in Nat
  <2>1. new[k] \in Region
    <3> HIDE DEF new
    <3> QED
      BY <1>3
  <2> QED
    BY <2>1 DEF Region
<1>5. new[k].type = "AVAILABLE" /\ new[k].start <= p /\ p < new[k].end
  BY DEF InRegion
<1>6. CASE k \in 1 .. n /\ k # j
  <2>1. new[k] = memory_regions[k]
    BY <1>1, <1>6 DEF TakenOut
  <2>2. new[k].end <= r.start \/ r.end <= new[k].start
    BY <1>5, <1>6, <2>1 DEF RegionsDisjoint
  <2>3. p < os \/ oe <= p
    <3> HIDE DEF r, new
    <3> QED
      BY <1>2, <1>4, <1>5, <2>2
  <2> QED
    BY <1>6, <2>1, <2>3
<1>7. CASE k = j
  <2>1. /\ r.start <= new[k].start /\ new[k].end <= r.end
        /\ new[k].end = os \/ new[k].start = oe
    BY <1>1, <1>5, <1>7 DEF TakenOut
  <2>2. (p < os \/ oe <= p) /\ r.start <= p /\ p < r.end
    <3> HIDE DEF r, new
    <3> QED
      BY <1>2, <1>4, <1>5, <2>1
  <2> QED
    BY <1>2, <2>2 DEF InRegion
<1>8. CASE k \notin 1 .. n
  <2>1. k = n + 1 /\ Len(new) = n + 1
    BY <1>2, <1>3, <1>8
  <2>2. new[k].start = oe /\ new[k].end = r.end
    BY <1>1, <2>1 DEF TakenOut
  <2>3. oe <= p /\ r.start <= p /\ p < r.end
    <3> HIDE DEF r, new
    <3> QED
      BY <1>2, <1>4, <1>5, <2>2
  <2> QED
    BY <1>2, <2>3 DEF InRegion
<1> QED
  BY <1>6, <1>7, <1>8

\* An entry that is recorded adds its pages, and no page twice.
LEMMA MmapEntryCounts ==
    ASSUME Inv, Counts, MmapEntry
    PROVE  Counts'
<1> DEFINE e == thisItem
           n == Len(memory_regions)
           es == EntryStart(e)
           ee == EntryEnd(e)
           N == {p \in Pages : es <= p /\ p < ee}
           fresh == [start |-> es, end |-> ee, type |-> "AVAILABLE"]
<1>1. /\ pc = "tags" /\ pc' = "tags" /\ mbi' = mbi /\ owned' = owned
      /\ tag' = tag /\ item' = item + 1
      /\ InTag("mmap") /\ mbi[tag].type = "mmap"
  BY DEF MmapEntry, InTag, NextItem, bootUnchanged, callVars
<1>2. /\ tag \in 1 .. Len(mbi) /\ item \in 1 .. Len(mbi[tag].items)
      /\ e \in Item /\ e = mbi[tag].items[item] /\ es \in Nat /\ ee \in Nat
  BY <1>1, ItemType, RoundingType DEF Inv, thisItem
<1>3. /\ memory_regions \in Seq(Region) /\ n \in Nat /\ item \in Nat /\ tag \in Nat
      /\ total_pages \in Int /\ free_pages \in Int /\ reserved_pages \in Int
  BY DEF Inv, TypeOK
<1>4. ASSUME NEW t \in 1 .. Len(mbi), NEW i \in 1 .. Len(mbi[t].items)
      PROVE  Done(t, i)' <=> Done(t, i) \/ (t = tag /\ i = item)
  <2>1. Len(mbi[t].items) \in Nat
    BY MbiType DEF Inv
  <2> QED
    BY <1>1, <1>3, <2>1 DEF Done
<1>5. e.relevant => ReadPages' = ReadPages \cup N
  <2>1. ASSUME e.relevant, NEW p \in Pages
        PROVE  p \in ReadPages' <=> p \in ReadPages \/ (es <= p /\ p < ee)
    <3>1. ASSUME NEW t \in 1 .. Len(mbi), NEW i \in 1 .. Len(mbi[t].items)
          PROVE  Offered(p, t, i)' <=>
                    Offered(p, t, i) \/ (t = tag /\ i = item /\ es <= p /\ p < ee)
      BY <1>1, <1>2, <1>4, <2>1 DEF Offered
    <3> HIDE DEF e, es, ee
    <3> QED
      BY <1>1, <1>2, <3>1 DEF ReadPages
  <2>2. ReadPages' \subseteq Pages /\ ReadPages \subseteq Pages
    BY DEF ReadPages, Pages
  <2> QED
    BY <2>1, <2>2
<1>6. ~e.relevant => ReadPages' = ReadPages
  <2>1. ASSUME ~e.relevant, NEW p \in Pages
        PROVE  p \in ReadPages' <=> p \in ReadPages
    <3>1. ASSUME NEW t \in 1 .. Len(mbi), NEW i \in 1 .. Len(mbi[t].items)
          PROVE  Offered(p, t, i)' <=> Offered(p, t, i)
      BY <1>1, <1>2, <1>4, <2>1 DEF Offered
    <3> QED
      BY <1>1, <3>1 DEF ReadPages
  <2>2. ReadPages' \subseteq Pages /\ ReadPages \subseteq Pages
    BY DEF ReadPages, Pages
  <2> QED
    BY <2>1, <2>2
<1>7. CASE ~Records(e)
  <2>1. UNCHANGED <<memory_regions, countVars>>
    BY <1>7 DEF MmapEntry
  <2>2. ASSUME n < MaxRegions
        PROVE  ReadPages' = ReadPages
    <3>1. e.relevant => ~(es < ee)
      BY <1>7, <2>2 DEF Records
    <3>2. e.relevant => N = {}
      <4>1. ASSUME e.relevant, NEW p \in Pages
            PROVE  ~(es <= p /\ p < ee)
        <5>1. p \in Nat /\ ~(es < ee)
          BY <3>1, <4>1, PagesFinite
        <5> HIDE DEF es, ee
        <5> QED
          BY <1>2, <5>1
      <4> QED
        BY <4>1
    <3> QED
      BY <1>5, <1>6, <3>2
  <2>3. TablePages' = TablePages
    BY <2>1 DEF TablePages, InRegion, Pages
  <2> QED
    BY <1>1, <2>1, <2>2, <2>3 DEF Counts, countVars
<1>8. CASE Records(e)
  <2>1. /\ memory_regions' = Append(memory_regions, fresh)
        /\ total_pages' = total_pages + (ee - es)
        /\ free_pages' = free_pages + (ee - es)
        /\ reserved_pages' = reserved_pages
        /\ e.relevant /\ es < ee /\ n < MaxRegions
    BY <1>8 DEF MmapEntry, Records
  <2>2. /\ fresh \in Region /\ fresh.start = es /\ fresh.end = ee /\ fresh.type = "AVAILABLE"
    BY <1>2 DEF Region
  <2>3. /\ Len(memory_regions') = n + 1
        /\ memory_regions'[n + 1] = fresh
        /\ \A k \in 1 .. n : memory_regions'[k] = memory_regions[k] /\ k \in 1 .. n + 1
    BY <1>3, <2>1, <2>2
  <2>4. TablePages' = TablePages \cup N
    <3>1. ASSUME NEW p \in Pages
          PROVE  p \in TablePages' <=> p \in TablePages \/ (es <= p /\ p < ee)
      <4>1. InRegion(p, fresh) <=> es <= p /\ p < ee
        BY <2>2 DEF InRegion
      <4>2. \A k \in 1 .. n + 1 : k \in 1 .. n \/ k = n + 1
        BY <1>3
      <4>3. n + 1 \in 1 .. n + 1
        BY <1>3
      <4> HIDE DEF fresh, n
      <4> QED
        BY <2>3, <4>1, <4>2, <4>3 DEF TablePages, n
    <3>2. TablePages' \subseteq Pages /\ TablePages \subseteq Pages
      BY DEF TablePages, Pages
    <3> QED
      BY <3>1, <3>2
  <2>5. ee <= TopPage
    BY <1>1, <1>2, <2>1, MbiType DEF Inv, Disjoint
  <2>6. ReadPages \cap N = {}
    <3>1. SUFFICES ASSUME NEW p \in Pages, es <= p, p < ee, p \in ReadPages
                   PROVE  FALSE
      OBVIOUS
    <3>2. PICK t \in 1 .. Len(mbi) : \E i \in 1 .. Len(mbi[t].items) : Offered(p, t, i)
      BY <3>1 DEF ReadPages
    <3>3. PICK i \in 1 .. Len(mbi[t].items) : Offered(p, t, i)
      BY <3>2
    <3> DEFINE f == mbi[t].items[i]
    <3>4. /\ mbi[t].type = "mmap" /\ f.relevant /\ Done(t, i)
          /\ EntryStart(f) <= p /\ p < EntryEnd(f)
      BY <1>1, <3>3 DEF Offered
    <3>5. ~(t = tag /\ i = item)
      <4>1. Len(mbi[t].items) \in Nat
        BY MbiType DEF Inv
      <4> QED
        BY <1>3, <3>4, <4>1 DEF Done
    <3>6. EntryEnd(f) <= es \/ ee <= EntryStart(f)
      BY <1>1, <1>2, <2>1, <3>4, <3>5, MbiType DEF Inv, Disjoint
    <3>7. EntryStart(f) \in Nat /\ EntryEnd(f) \in Nat /\ p \in Nat
      <4>1. f \in Item
        BY MbiType DEF Inv
      <4> QED
        BY <4>1, RoundingType, PagesFinite
    <3> HIDE DEF f, es, ee
    <3> QED
      BY <1>2, <3>1, <3>4, <3>6, <3>7
  <2>7. TablePages \subseteq ReadPages /\ ReadPages \subseteq Pages
    BY TableWasRead DEF ReadPages
  <2>8. ReadPages' = ReadPages \cup N
    BY <1>5, <2>1
  <2>9. ReadPages' \ TablePages' = ReadPages \ TablePages
    BY <2>4, <2>6, <2>7, <2>8
  <2>10. /\ Cardinality(ReadPages \cup N) = Cardinality(ReadPages) + (ee - es)
         /\ Cardinality(TablePages \cup N) = Cardinality(TablePages) + (ee - es)
    <3>1. TablePages \subseteq Pages /\ TablePages \cap N = {} /\ N = es .. ee - 1
      <4>1. TablePages \subseteq Pages /\ TablePages \cap N = {}
        BY <2>6, <2>7
      <4>2. N = es .. ee - 1
        <5> HIDE DEF es, ee
        <5> QED
          BY <1>2, <2>5, Span
      <4> QED
        BY <4>1, <4>2
    <3> HIDE DEF N, es, ee
    <3>2. ASSUME NEW S, S \subseteq Pages, S \cap N = {}
          PROVE  Cardinality(S \cup N) = Cardinality(S) + (ee - es)
      <4>1. es \in Nat /\ ee \in Nat /\ es < ee /\ N = es .. ee - 1
        BY <1>2, <2>1, <3>1
      <4> QED
        BY <3>2, <4>1, AddPages
    <3> QED
      BY <2>6, <2>7, <3>1, <3>2
  <2>11. /\ total_pages = Cardinality(ReadPages)
         /\ reserved_pages = Cardinality(ReadPages \ TablePages)
         /\ free_pages + Cardinality(owned) = Cardinality(TablePages)
    BY <2>1 DEF Counts
  <2>12. Cardinality(owned) \in Nat /\ Cardinality(TablePages) \in Nat
    BY <2>7, PagesFinite DEF Inv, TypeOK
  <2>13. free_pages' + Cardinality(owned') = Cardinality(TablePages')
    <3> HIDE DEF es, ee, N
    <3> QED
      BY <1>1, <1>2, <1>3, <2>1, <2>4, <2>10, <2>11, <2>12
  <2> QED
    BY <2>1, <2>8, <2>9, <2>10, <2>11, <2>13 DEF Counts
<1> QED
  BY <1>7, <1>8

\* What is taken out of a region was counted as free, and is counted as
\* reserved from then on.
LEMMA ReserveInRegionCounts ==
    ASSUME Inv, Counts, ReserveInRegion
    PROVE  Counts'
<1> DEFINE s == thisItem
           r == memory_regions[region]
           n == Len(memory_regions)
           os == OverlapStart(s, r)
           oe == OverlapEnd(s, r)
           O == {p \in Pages : os <= p /\ p < oe}
<1>1. /\ pc = "tags" /\ pc' = "tags" /\ mbi' = mbi /\ owned' = owned
      /\ tag' = tag /\ item' = item
      /\ InTag("elf")
  BY DEF ReserveInRegion, InTag, bootUnchanged, callVars
<1>2. s \in Item
  BY <1>1, ItemType DEF Inv, InTag
<1>3. /\ memory_regions \in Seq(Region) /\ n \in Nat
      /\ region \in 1 .. n /\ r \in Region /\ r.start \in Nat /\ r.end \in Nat
      /\ total_pages \in Int /\ free_pages \in Int /\ reserved_pages \in Int
  BY RegionType DEF Inv, TypeOK, ReserveInRegion
<1>4. ReadPages' = ReadPages
  BY <1>1 DEF ReadPages, Offered, Done, Pages
<1>5. CASE ~(r.type = "AVAILABLE" /\ Overlaps(s, r))
  <2>1. UNCHANGED <<memory_regions, countVars>>
    BY <1>5 DEF ReserveInRegion
  <2>2. TablePages' = TablePages
    BY <2>1 DEF TablePages, InRegion, Pages
  <2> QED
    BY <1>1, <1>4, <2>1, <2>2 DEF Counts, countVars
<1>6. CASE r.type = "AVAILABLE" /\ Overlaps(s, r)
  <2>1. /\ memory_regions' = TakeOut(region, os, oe)
        /\ free_pages' = free_pages - (oe - os)
        /\ reserved_pages' = reserved_pages + (oe - os)
        /\ total_pages' = total_pages
    BY <1>6 DEF ReserveInRegion
  <2>2. /\ os \in Nat /\ oe \in Nat /\ os < oe
        /\ r.start <= os /\ oe <= r.end
    BY <1>2, <1>3, <1>6, OverlapBounds DEF Overlaps
  <2>3. RegionsDisjoint /\ memory_regions[region].type = "AVAILABLE"
        /\ memory_regions[region].start <= os /\ oe <= memory_regions[region].end
    BY <1>6, <2>2 DEF Inv
  <2>4. /\ Len(memory_regions') \in {n, n + 1}
        /\ \A k \in 1 .. n : k # region => memory_regions'[k] = memory_regions[k]
    <3>1. TakenOut(memory_regions', region, os, oe)
      <4> HIDE DEF os, oe
      <4> QED
        BY <1>3, <2>1, <2>2, <2>3, TakeOutParts
    <3> QED
      BY <3>1 DEF TakenOut
  <2>5. SUFFICES ASSUME Len(memory_regions') < MaxRegions
                 PROVE  /\ total_pages' = Cardinality(ReadPages')
                        /\ reserved_pages' = Cardinality(ReadPages' \ TablePages')
                        /\ free_pages' + Cardinality(owned') = Cardinality(TablePages')
    BY DEF Counts
  <2>6. n < MaxRegions
    BY <1>3, <2>4, <2>5, SizesAssumption
  <2>7. O \subseteq TablePages
    <3>1. ASSUME NEW p \in Pages, os <= p, p < oe
          PROVE  InRegion(p, r)
      <4>1. p \in Nat /\ r.type = "AVAILABLE"
        BY <1>6, PagesFinite
      <4>2. r.start <= p /\ p < r.end
        <5> HIDE DEF os, oe, r
        <5> QED
          BY <1>3, <2>2, <3>1, <4>1
      <4> QED
        BY <4>1, <4>2 DEF InRegion
    <3> QED
      BY <1>3, <3>1 DEF TablePages
  <2>8. TablePages' = TablePages \ O
    <3>1. ASSUME NEW p \in Pages, p \in TablePages'
          PROVE  p \in TablePages /\ ~(os <= p /\ p < oe)
      <4>1. PICK k \in 1 .. Len(memory_regions') : InRegion(p, memory_regions'[k])
        BY <3>1 DEF TablePages, InRegion
      <4>2. p \in Nat
        BY PagesFinite
      <4>3. /\ p < os \/ oe <= p
            /\ \E l \in 1 .. Len(memory_regions) : InRegion(p, memory_regions[l])
        <5> HIDE DEF os, oe
        <5> QED
          BY <1>3, <2>1, <2>2, <2>3, <4>1, <4>2, TakeOutLeaves
      <4>4. ~(os <= p /\ p < oe)
        <5> HIDE DEF os, oe
        <5> QED
          BY <2>2, <4>2, <4>3
      <4> QED
        BY <4>3, <4>4 DEF TablePages
    <3>2. ASSUME NEW p \in Pages, p \in TablePages, ~(os <= p /\ p < oe)
          PROVE  p \in TablePages'
      <4>1. PICK j \in 1 .. n : InRegion(p, memory_regions[j])
        BY <3>2 DEF TablePages
      <4>2. p \in Nat
        BY PagesFinite
      <4>3. \E k \in 1 .. Len(memory_regions') : InRegion(p, memory_regions'[k])
        <5>1. CASE j # region
          <6>1. memory_regions'[j] = memory_regions[j] /\ j \in 1 .. Len(memory_regions')
            BY <1>3, <2>4, <5>1
          <6> QED
            BY <4>1, <6>1
        <5>2. CASE j = region
          <6>1. p < os \/ oe <= p
            <7> HIDE DEF os, oe
            <7> QED
              BY <2>2, <3>2, <4>2
          <6>2. InRegion(p, memory_regions[region])
            BY <4>1, <5>2
          <6> HIDE DEF os, oe
          <6> QED
            BY <1>3, <2>1, <2>2, <2>3, <2>5, <4>2, <6>1, <6>2, TakeOutKeeps
        <5> QED
          BY <5>1, <5>2
      <4> QED
        BY <4>3 DEF TablePages, InRegion, Pages
    <3>3. TablePages' \subseteq Pages /\ TablePages \subseteq Pages
      BY DEF TablePages, Pages
    <3> QED
      BY <3>1, <3>2, <3>3
  <2>9. TablePages \subseteq ReadPages /\ ReadPages \subseteq Pages
    BY TableWasRead DEF ReadPages
  <2>10. oe <= TopPage
    <3>1. PICK t \in 1 .. Len(mbi) : \E i \in 1 .. Len(mbi[t].items) : Within(r, t, i)
      BY <1>3, <1>6 DEF Inv, RegionsFromMap
    <3>2. PICK i \in 1 .. Len(mbi[t].items) : Within(r, t, i)
      BY <3>1
    <3>3. mbi[t].items[i] \in Item
      BY MbiType DEF Inv
    <3>4. EntryEnd(mbi[t].items[i]) <= TopPage /\ EntryEnd(mbi[t].items[i]) \in Nat
      BY <3>2, <3>3, MbiType, RoundingType DEF Inv, Disjoint, Within
    <3>5. r.end <= EntryEnd(mbi[t].items[i])
      BY <3>2 DEF Within
    <3> HIDE DEF r, oe
    <3> QED
      BY <1>3, <2>2, <3>4, <3>5, SizesAssumption
  <2>11. /\ total_pages = Cardinality(ReadPages)
         /\ reserved_pages = Cardinality(ReadPages \ TablePages)
         /\ free_pages + Cardinality(owned) = Cardinality(TablePages)
    BY <2>6 DEF Counts
  <2>12. /\ Cardinality(TablePages \ O) = Cardinality(TablePages) - (oe - os)
         /\ Cardinality((ReadPages \ TablePages) \cup O)
               = Cardinality(ReadPages \ TablePages) + (oe - os)
    <3>1. /\ TablePages \subseteq Pages /\ O = os .. oe - 1
          /\ ReadPages \ TablePages \subseteq Pages /\ (ReadPages \ TablePages) \cap O = {}
      <4>1. /\ TablePages \subseteq Pages
            /\ ReadPages \ TablePages \subseteq Pages /\ (ReadPages \ TablePages) \cap O = {}
        BY <2>7, <2>9
      <4>2. O = os .. oe - 1
        <5> HIDE DEF os, oe
        <5> QED
          BY <2>2, <2>10, Span
      <4> QED
        BY <4>1, <4>2
    <3> HIDE DEF O, os, oe
    <3>2. ASSUME NEW S, S \subseteq Pages
          PROVE  /\ S \cap O = {} => Cardinality(S \cup O) = Cardinality(S) + (oe - os)
                 /\ O \subseteq S => Cardinality(S \ O) = Cardinality(S) - (oe - os)
      <4>1. os \in Nat /\ oe \in Nat /\ os < oe /\ O = os .. oe - 1
        BY <2>2, <3>1
      <4> QED
        BY <3>2, <4>1, AddPages
    <3> QED
      BY <2>2, <2>7, <2>9, <2>10, <3>1, <3>2
  <2>13. ReadPages \ (TablePages \ O) = (ReadPages \ TablePages) \cup O
    BY <2>7, <2>9
  <2>14. /\ Cardinality(owned) \in Nat /\ Cardinality(TablePages) \in Nat
         /\ Cardinality(ReadPages \ TablePages) \in Nat
    <3>1. /\ owned \subseteq Pages /\ TablePages \subseteq Pages
          /\ ReadPages \ TablePages \subseteq Pages
      BY <2>9 DEF Inv, TypeOK
    <3> QED
      BY <3>1, PagesFinite
  <2>15. free_pages' + Cardinality(owned') = Cardinality(TablePages')
    <3> HIDE DEF os, oe, O
    <3> QED
      BY <1>1, <1>3, <2>1, <2>2, <2>8, <2>11, <2>12, <2>14
  <2>16. reserved_pages' = Cardinality(ReadPages' \ TablePages')
    <3> HIDE DEF os, oe, O
    <3> QED
      BY <1>4, <2>1, <2>8, <2>11, <2>12, <2>13
  <2> QED
    BY <1>4, <2>1, <2>11, <2>15, <2>16
<1> QED
  BY <1>5, <1>6

\* The same pages, and the same numbers.
LEMMA CountsStay ==
    ASSUME Inv, Counts, UNCHANGED <<mbi, memory_regions, total_pages, reserved_pages>>,
           free_pages' + Cardinality(owned') = free_pages + Cardinality(owned),
           \A t \in 1 .. Len(mbi) : \A i \in 1 .. Len(mbi[t].items) :
              mbi[t].type = "mmap" =>
                 ((pc' = "tags" => Done(t, i)') <=> (pc = "tags" => Done(t, i)))
    PROVE  Counts'
<1>1. \A p \in Pages, t \in 1 .. Len(mbi) : \A i \in 1 .. Len(mbi[t].items) :
         Offered(p, t, i)' <=> Offered(p, t, i)
  BY DEF Offered
<1>2. ReadPages' = ReadPages /\ TablePages' = TablePages
  BY <1>1 DEF ReadPages, TablePages, InRegion, Pages
<1> QED
  BY <1>2 DEF Counts

\* A page that changes hands is counted once, by the manager or by its owner.
LEMMA CallsCount ==
    ASSUME Inv, AllocStep \/ Callers \/ UNCHANGED vars
    PROVE  free_pages' + Cardinality(owned') = free_pages + Cardinality(owned)
<1>1. owned \subseteq Pages /\ free_pages \in Int
  BY DEF Inv, TypeOK
<1>2. IsFiniteSet(owned) /\ Cardinality(owned) \in Nat
  BY <1>1, PagesFinite
<1>3. CASE Pop
  <2>1. /\ free_pages' = free_pages - 1 /\ owned' = owned \cup {free_page_head}
    BY <1>3 DEF Pop
  <2>2. free_page_head \notin owned
    BY <1>3, PopKeepsList DEF Inv, OnlyUsablePages
  <2>3. Cardinality(owned') = Cardinality(owned) + 1
    BY <1>2, <2>1, <2>2, FS_AddElement
  <2> QED
    BY <1>1, <1>2, <2>1, <2>3
<1>4. ASSUME NEW pf \in owned \cup {NULL}, PfFree(pf)
      PROVE  free_pages' + Cardinality(owned') = free_pages + Cardinality(owned)
  <2>1. CASE pf = NULL
    BY <1>4, <2>1 DEF PfFree
  <2>2. CASE pf # NULL
    <3>1. free_pages' = free_pages + 1 /\ owned' = owned \ {pf} /\ pf \in owned
      BY <1>4, <2>2 DEF PfFree
    <3>2. Cardinality(owned') = Cardinality(owned) - 1
      BY <1>2, <3>1, FS_RemoveElement
    <3> QED
      BY <1>1, <1>2, <3>1, <3>2
  <2> QED
    BY <2>1, <2>2
<1>5. CASE \/ ListPage \/ ListUnmappedPage \/ ListNextRegion \/ ListBuilt \/ OutOfMemory
           \/ PfAlloc \/ (\E p \in owned : WritePage(p)) \/ UNCHANGED vars
  <2>1. free_pages' = free_pages /\ owned' = owned
    BY <1>5 DEF ListPage, ListUnmappedPage, ListNextRegion, ListBuilt, OutOfMemory, PfAlloc,
                WritePage, callVars, vars, countVars
  <2> QED
    BY <2>1
<1> QED
  BY <1>3, <1>4, <1>5 DEF AllocStep, Callers

\* Every step keeps the counts.
LEMMA CountsKept ==
    ASSUME Inv, Counts, [Next]_vars
    PROVE  Counts'
<1>1. CASE SectionDone \/ NextTag \/ InitReturns
  <2>1. /\ pc = "tags" /\ tag \in Nat /\ item \in Nat
        /\ UNCHANGED <<mbi, memory_regions, total_pages, reserved_pages, free_pages, owned>>
    BY <1>1 DEF Inv, TypeOK, SectionDone, NextTag, InitReturns, InTag, bootUnchanged, countVars,
                callVars
  <2>2. ASSUME NEW t \in 1 .. Len(mbi), NEW i \in 1 .. Len(mbi[t].items), Done(t, i), pc' = "tags"
        PROVE  Done(t, i)'
    <3>1. Len(mbi[t].items) \in Nat
      BY MbiType DEF Inv
    <3>2. (tag' = tag /\ item' = item + 1) \/ tag' = tag + 1
      BY <1>1, <2>2 DEF SectionDone, NextTag, InitReturns, NextItem
    <3> QED
      BY <2>1, <2>2, <3>1, <3>2 DEF Done
  <2> QED
    BY <1>1, <2>1, <2>2, MovingOnReads, CountsStay
<1>2. CASE AllocStep \/ Callers \/ UNCHANGED vars
  <2>1. /\ UNCHANGED <<mbi, tag, item, memory_regions, total_pages, reserved_pages>>
        /\ pc' = "tags" <=> pc = "tags"
    BY <1>2 DEF AllocStep, ListPage, ListUnmappedPage, ListNextRegion, ListBuilt, Pop, OutOfMemory,
                Callers, PfAlloc, PfFree, WritePage, allocUnchanged, mapVars, vars, countVars
  <2> QED
    BY <1>2, <2>1, CallsCount, CountsStay DEF Done
<1> QED
  BY <1>1, <1>2, MmapEntryCounts, ReserveInRegionCounts DEF Next, BootStep

\* The statistics of MMU_init, MMU_pf_alloc and MMU_pf_free are exact, however
\* the sections overlap the entries and each other, as long as the table has
\* not filled up.
THEOREM NumbersRight == Spec => []StatisticsExact
<1>1. Init => PagesKept /\ Counts
  <2> SUFFICES ASSUME Init
               PROVE  PagesKept /\ Counts
    OBVIOUS
  <2>1. /\ pc = "tags" /\ tag = 1 /\ item = 1 /\ mbi \in Seq(Tag) /\ memory_regions = << >>
        /\ total_pages = 0 /\ free_pages = 0 /\ reserved_pages = 0 /\ owned = {}
    BY BootAssumption DEF Init
  <2>2. ASSUME NEW t \in 1 .. Len(mbi), NEW i \in 1 .. Len(mbi[t].items)
        PROVE  ~Done(t, i)
    <3>1. mbi[t] \in Tag
      BY <2>1
    <3>2. mbi[t].items \in Seq(Item)
      BY <3>1 DEF Tag
    <3> QED
      BY <2>1, <3>2 DEF Done
  <2>3. ReadPages = {} /\ TablePages = {}
    BY <2>1, <2>2 DEF ReadPages, TablePages, Offered
  <2>4. PagesKept
    BY <2>1, <2>2 DEF PagesKept, Offered
  <2> QED
    BY <2>1, <2>3, <2>4, FS_EmptySet DEF Counts
<1>2. Inv /\ PagesKept /\ Counts /\ [Next]_vars => PagesKept' /\ Counts'
  BY MmapEntryKeeps, ReserveInRegionKeeps, MovingOnKeeps, CallsKeep, CountsKept DEF Next, BootStep
<1>3. Inv /\ PagesKept /\ Counts => StatisticsExact
  <2> SUFFICES ASSUME Inv, PagesKept, Counts, pc # "tags", Len(memory_regions) < MaxRegions
               PROVE  /\ total_pages = Cardinality(AvailablePages)
                      /\ reserved_pages = Cardinality(AvailablePages \cap KernelPages)
                      /\ free_pages + Cardinality(owned) = Cardinality(AvailablePages \ KernelPages)
    BY DEF StatisticsExact
  <2>1. ReadPages = AvailablePages
    BY DEF ReadPages, AvailablePages, Offered
  <2>2. TablePages = AvailablePages \ KernelPages
    <3>1. ASSUME NEW p \in TablePages
          PROVE  p \notin KernelPages
      <4>1. PICK j \in 1 .. Len(memory_regions) : InRegion(p, memory_regions[j])
        BY DEF TablePages
      <4>2. p \in Nat
        BY PagesFinite DEF TablePages
      <4> QED
        BY <4>1, <4>2, RegionPagesNotKernel DEF Inv
    <3>2. TablePages \subseteq AvailablePages
      BY <2>1, TableWasRead
    <3>3. ASSUME NEW p \in AvailablePages \ KernelPages
          PROVE  p \in TablePages
      <4>1. p \in Pages
        BY DEF AvailablePages
      <4>2. PICK t \in 1 .. Len(mbi) : \E i \in 1 .. Len(mbi[t].items) : Offered(p, t, i)
        BY <2>1 DEF ReadPages
      <4>3. \E j \in 1 .. Len(memory_regions) : InRegion(p, memory_regions[j])
        BY <4>1, <4>2 DEF PagesKept
      <4> QED
        BY <4>1, <4>3 DEF TablePages
    <3> QED
      BY <3>1, <3>2, <3>3
  <2>3. ReadPages \ TablePages = AvailablePages \cap KernelPages
    BY <2>1, <2>2
  <2> QED
    BY <2>1, <2>2, <2>3 DEF Counts
<1> QED
  BY <1>1, <1>2, <1>3, Invariance, PTL DEF Spec
=============================================================================
