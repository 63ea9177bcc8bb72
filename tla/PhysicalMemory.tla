--------------------------- MODULE PhysicalMemory ---------------------------
(***************************************************************************)
(* The physical memory manager of src/kernel/mmu.c (lines 1 to 243):       *)
(* MMU_init reads the Multiboot2 tags into memory_regions, the first       *)
(* MMU_pf_alloc threads every available page into a free list kept in the  *)
(* pages themselves, and MMU_pf_alloc and MMU_pf_free pop and push it.     *)
(*                                                                         *)
(* Memory is counted in pages: page p is the bytes p * PageSize onwards.   *)
(* The tags keep byte addresses, since the rounding is the code's.  Each   *)
(* loop iteration of the code is one step.                                 *)
(***************************************************************************)
EXTENDS Integers, Sequences, FiniteSets

CONSTANTS
    PageSize,       \* PAGE_SIZE, in bytes
    TopPage,        \* no page of the machine is at or above this one
    LowLimit,       \* the page at 0x100000: pages below it are not listed
    IdentityLimit,  \* the first page boot.asm does not identity-map (1 GB)
    MaxRegions,     \* MAX_MEMORY_REGIONS
    BootInfos       \* the Multiboot2 structures the boot loader may pass

NULL == 0       \* page 0 is the null pointer
Junk == -1      \* any first word of a page that is not a list link

Pages == 0 .. TopPage - 1

\* A tag is its type with its entries (mmap) or section headers (elf).  An
\* entry is relevant when it is MULTIBOOT_MEMORY_AVAILABLE, a section when it
\* has SHF_ALLOC.
Item == [addr : Nat, len : Nat, relevant : BOOLEAN]
Tag == [type : {"mmap", "elf", "other", "end", "invalid"}, items : Seq(Item)]

AlignDown(a) == a \div PageSize
AlignUp(a) == (a + PageSize - 1) \div PageSize

\* The pages an mmap entry offers (only whole ones) and those a kernel
\* section touches (every one).
EntryStart(e) == AlignUp(e.addr)
EntryEnd(e) == AlignDown(e.addr + e.len)
SectionStart(s) == AlignDown(s.addr)
SectionEnd(s) == AlignUp(s.addr + s.len)

\* The section occupies memory and is not empty.
Loaded(s) == s.relevant /\ s.len # 0

\* The memory map comes before the ELF sections, and neither the end tag nor
\* a malformed tag hides an entry or a section.
Ordered(info) ==
    \A t, u \in 1 .. Len(info) :
       /\ info[t].type = "elf" /\ info[u].type = "mmap" => u < t
       /\ info[t].type \in {"mmap", "elf"} /\ info[u].type \in {"end", "invalid"} => t < u

\* Available entries end inside the machine and share no page.
Disjoint(info) ==
    \A t, u \in 1 .. Len(info) :
       info[t].type = "mmap" /\ info[u].type = "mmap" =>
          \A i \in 1 .. Len(info[t].items), k \in 1 .. Len(info[u].items) :
             LET e == info[t].items[i]
                 f == info[u].items[k]
             IN  e.relevant /\ f.relevant =>
                    /\ EntryEnd(e) <= TopPage
                    /\ \/ t = u /\ i = k
                       \/ EntryEnd(e) <= EntryStart(f)
                       \/ EntryEnd(f) <= EntryStart(e)

ASSUME SizesAssumption ==
    /\ PageSize \in Nat \ {0}
    /\ TopPage \in Nat
    /\ LowLimit \in Nat \ {0}
    /\ IdentityLimit \in Nat
    /\ MaxRegions \in Nat

ASSUME BootAssumption ==
    \A info \in BootInfos : info \in Seq(Tag) /\ Ordered(info) /\ Disjoint(info)

-----------------------------------------------------------------------------
VARIABLES
    mbi,                    \* the Multiboot2 structure given to MMU_init
    pc,                     \* "tags", "idle", "listing", "pop" or "halted"
    tag, item, region,      \* the loop indices of the tag, its items, a region
    addr,                   \* the page init_free_page_list is at
    memory_regions,         \* the region table; its length is num_memory_regions
    total_pages, free_pages, reserved_pages,
    free_list_initialized,
    free_page_head,
    word0,                  \* the first word of each page: the next pointer
    ret,                    \* the value MMU_pf_alloc returned last
    owned,                  \* history: the pages callers hold
    chain                   \* history: the listed pages, the head last

mapVars == <<mbi, tag, item, memory_regions>>
countVars == <<total_pages, free_pages, reserved_pages>>
listVars == <<free_list_initialized, free_page_head, word0, chain>>
callVars == <<ret, owned>>
vars == <<mapVars, pc, region, addr, countVars, listVars, callVars>>

Region == [start : Nat, end : Nat, type : {"AVAILABLE", "RESERVED"}]

Init ==
    /\ mbi \in BootInfos
    /\ pc = "tags"
    /\ tag = 1 /\ item = 1 /\ region = 1
    /\ addr = 0
    /\ memory_regions = << >>
    /\ total_pages = 0 /\ free_pages = 0 /\ reserved_pages = 0
    /\ free_list_initialized = FALSE
    /\ free_page_head = NULL
    /\ word0 = [p \in Pages |-> Junk]
    /\ ret = NULL
    /\ owned = {}
    /\ chain = << >>

-----------------------------------------------------------------------------
(* MMU_init: the tag loop, process_mmap_tag, process_elf_sections_tag.     *)

InTag(type) ==
    /\ pc = "tags"
    /\ tag <= Len(mbi)
    /\ mbi[tag].type = type
    /\ item <= Len(mbi[tag].items)

thisItem == mbi[tag].items[item]

NextItem == item' = item + 1 /\ region' = 1 /\ UNCHANGED tag

bootUnchanged == <<mbi, addr, listVars, callVars>>

\* An entry that is not available, has no whole page, or finds the table full
\* (lines 19, 24, 35) adds nothing.
Records(e) ==
    /\ e.relevant
    /\ Len(memory_regions) < MaxRegions
    /\ EntryStart(e) < EntryEnd(e)

MmapEntry ==
    /\ InTag("mmap")
    /\ LET e == thisItem
           n == EntryEnd(e) - EntryStart(e)
       IN  IF Records(e)
           THEN /\ memory_regions' =
                      Append(memory_regions, [start |-> EntryStart(e),
                                              end   |-> EntryEnd(e),
                                              type  |-> "AVAILABLE"])
                /\ total_pages' = total_pages + n
                /\ free_pages' = free_pages + n
                /\ UNCHANGED reserved_pages
           ELSE UNCHANGED <<memory_regions, countVars>>
    /\ NextItem
    /\ UNCHANGED <<pc, bootUnchanged>>

\* The part of region r that section s occupies, from the larger start to the
\* smaller end (lines 80 to 87).
OverlapStart(s, r) == IF SectionStart(s) > r.start THEN SectionStart(s) ELSE r.start
OverlapEnd(s, r) == IF SectionEnd(s) < r.end THEN SectionEnd(s) ELSE r.end
Overlaps(s, r) == OverlapStart(s, r) < OverlapEnd(s, r)

\* A mistake: the second half of a split is lost.
TakeOutNoSplit(j, os, oe) ==
    LET r == memory_regions[j]
    IN  CASE os = r.start /\ oe = r.end ->
               [memory_regions EXCEPT ![j].type = "RESERVED"]
          [] os = r.start /\ oe # r.end ->
               [memory_regions EXCEPT ![j].start = oe]
          [] OTHER ->
               [memory_regions EXCEPT ![j].end = os]

\* The table after pages os .. oe-1 of its region j are taken out: the region
\* disappears, is trimmed at one end, or is split when there is room for the
\* second half, and is given up entirely when there is none.
TakeOut(j, os, oe) ==
    LET r == memory_regions[j]
    IN  CASE os = r.start /\ oe = r.end ->
               [memory_regions EXCEPT ![j].type = "RESERVED"]
          [] os = r.start /\ oe # r.end ->
               [memory_regions EXCEPT ![j].start = oe]
          [] os # r.start /\ oe = r.end ->
               [memory_regions EXCEPT ![j].end = os]
          [] os # r.start /\ oe # r.end /\ Len(memory_regions) < MaxRegions ->
               Append([memory_regions EXCEPT ![j].end = os],
                      [start |-> oe, end |-> r.end, type |-> "AVAILABLE"])
          [] OTHER ->
               [memory_regions EXCEPT ![j].type = "RESERVED"]

\* One pass of the inner loop of process_elf_sections_tag.  Its bound is the
\* current length of the table, so the halves it appends are visited too.
ReserveInRegion ==
    /\ InTag("elf")
    /\ Loaded(thisItem)
    /\ region <= Len(memory_regions)
    /\ LET s == thisItem
           r == memory_regions[region]
           n == OverlapEnd(s, r) - OverlapStart(s, r)
       IN  IF r.type = "AVAILABLE" /\ Overlaps(s, r)
           THEN /\ memory_regions' = TakeOut(region, OverlapStart(s, r), OverlapEnd(s, r))
                /\ free_pages' = free_pages - n
                /\ reserved_pages' = reserved_pages + n
                /\ UNCHANGED total_pages
           ELSE UNCHANGED <<memory_regions, countVars>>
    /\ region' = region + 1
    /\ UNCHANGED <<tag, item, pc, bootUnchanged>>

\* A section that is skipped, or that has been taken out of every region.
SectionDone ==
    /\ InTag("elf")
    /\ ~Loaded(thisItem) \/ region > Len(memory_regions)
    /\ NextItem
    /\ UNCHANGED <<memory_regions, pc, countVars, bootUnchanged>>

NextTag ==
    /\ pc = "tags"
    /\ tag <= Len(mbi)
    /\ \/ mbi[tag].type = "other"
       \/ mbi[tag].type \in {"mmap", "elf"} /\ item > Len(mbi[tag].items)
    /\ tag' = tag + 1 /\ item' = 1 /\ region' = 1
    /\ UNCHANGED <<memory_regions, pc, countVars, bootUnchanged>>

\* MMU_init returns at the end of the structure, at the end tag, or at a tag
\* whose size is wrong.
InitReturns ==
    /\ pc = "tags"
    /\ tag <= Len(mbi) => mbi[tag].type \in {"end", "invalid"}
    /\ pc' = "idle"
    /\ UNCHANGED <<memory_regions, tag, item, region, countVars, bootUnchanged>>

-----------------------------------------------------------------------------
(* MMU_pf_alloc and MMU_pf_free.                                           *)

allocUnchanged == <<mapVars, total_pages, reserved_pages>>

\* A mistake: the first megabyte is listed too.
ClampNothing(p) == p

Clamp(p) == IF p < LowLimit THEN LowLimit ELSE p

\* The first page init_free_page_list looks at in region j.
FirstPage(j) ==
    IF j <= Len(memory_regions) THEN Clamp(memory_regions[j].start) ELSE 0

\* A mistake: the list is built without being marked as built.
PfAllocUnmarked ==
    /\ pc = "idle"
    /\ IF free_list_initialized
       THEN pc' = "pop" /\ UNCHANGED <<region, addr>>
       ELSE pc' = "listing" /\ region' = 1 /\ addr' = FirstPage(1)
    /\ UNCHANGED <<allocUnchanged, free_pages, listVars, callVars>>

\* The call; the first one builds the list before anything else.
PfAlloc ==
    /\ pc = "idle"
    /\ IF free_list_initialized
       THEN pc' = "pop" /\ UNCHANGED <<region, addr, free_list_initialized>>
       ELSE /\ pc' = "listing"
            /\ free_list_initialized' = TRUE
            /\ region' = 1
            /\ addr' = FirstPage(1)
    /\ UNCHANGED <<allocUnchanged, free_pages, free_page_head, word0, chain, callVars>>

\* A mistake of one: the last page is not listed.
InListedRegionMinusOne ==
    /\ memory_regions[region].type = "AVAILABLE"
    /\ addr + 1 < memory_regions[region].end

InListedRegion ==
    /\ memory_regions[region].type = "AVAILABLE"
    /\ addr < memory_regions[region].end

\* A mistake: the old head is not linked.
PushUnlinked(p) ==
    /\ word0' = [word0 EXCEPT ![p] = NULL]
    /\ free_page_head' = p
    /\ chain' = Append(chain, p)

\* add_page_to_free_list writes the link into the page itself.
Push(p) ==
    /\ word0' = [word0 EXCEPT ![p] = free_page_head]
    /\ free_page_head' = p
    /\ chain' = Append(chain, p)

ListPage ==
    /\ pc = "listing"
    /\ region <= Len(memory_regions)
    /\ InListedRegion
    /\ addr < IdentityLimit
    /\ Push(addr)
    /\ addr' = addr + 1
    /\ UNCHANGED <<allocUnchanged, free_pages, pc, region, free_list_initialized, callVars>>

\* The write of the link faults when the page is not mapped: the page fault
\* handler finds no demand-paged entry for it and halts the machine.
ListUnmappedPage ==
    /\ pc = "listing"
    /\ region <= Len(memory_regions)
    /\ InListedRegion
    /\ addr >= IdentityLimit
    /\ pc' = "halted"
    /\ UNCHANGED <<allocUnchanged, free_pages, region, addr, listVars, callVars>>

\* A mistake: a region that is not available ends the loop's progress.
ListNextRegionStuck ==
    /\ pc = "listing"
    /\ region <= Len(memory_regions)
    /\ ~InListedRegion
    /\ region' = IF memory_regions[region].type = "AVAILABLE" THEN region + 1 ELSE region
    /\ addr' = FirstPage(region + 1)
    /\ UNCHANGED <<allocUnchanged, free_pages, pc, listVars, callVars>>

ListNextRegion ==
    /\ pc = "listing"
    /\ region <= Len(memory_regions)
    /\ ~InListedRegion
    /\ region' = region + 1
    /\ addr' = FirstPage(region + 1)
    /\ UNCHANGED <<allocUnchanged, free_pages, pc, listVars, callVars>>

ListBuilt ==
    /\ pc = "listing"
    /\ region > Len(memory_regions)
    /\ pc' = "pop"
    /\ UNCHANGED <<allocUnchanged, free_pages, region, addr, listVars, callVars>>

\* The head is taken and cleared.
Pop ==
    /\ pc = "pop"
    /\ free_page_head # NULL
    /\ ret' = free_page_head
    /\ free_page_head' = word0[free_page_head]
    /\ word0' = [word0 EXCEPT ![free_page_head] = 0]
    /\ free_pages' = free_pages - 1
    /\ owned' = owned \cup {free_page_head}
    /\ chain' = SubSeq(chain, 1, Len(chain) - 1)
    /\ pc' = "idle"
    /\ UNCHANGED <<allocUnchanged, region, addr, free_list_initialized>>

OutOfMemory ==
    /\ pc = "pop"
    /\ free_page_head = NULL
    /\ ret' = NULL
    /\ pc' = "idle"
    /\ UNCHANGED <<allocUnchanged, free_pages, region, addr, listVars, owned>>

\* A mistake: a page given back is not counted.
PfFreeUncounted(pf) ==
    /\ pc = "idle"
    /\ IF pf = NULL
       THEN UNCHANGED <<free_page_head, word0, chain, owned>>
       ELSE Push(pf) /\ owned' = owned \ {pf}
    /\ UNCHANGED <<allocUnchanged, free_pages, pc, region, addr, free_list_initialized, ret>>

\* A caller gives back a page it holds; NULL is refused.
PfFree(pf) ==
    /\ pc = "idle"
    /\ IF pf = NULL
       THEN UNCHANGED <<free_pages, free_page_head, word0, chain, owned>>
       ELSE /\ Push(pf)
            /\ free_pages' = free_pages + 1
            /\ owned' = owned \ {pf}
    /\ UNCHANGED <<allocUnchanged, pc, region, addr, free_list_initialized, ret>>

\* A caller stores into a page it holds, its first word included.
WritePage(p) ==
    /\ pc = "idle"
    /\ word0' = [word0 EXCEPT ![p] = Junk]
    /\ UNCHANGED <<allocUnchanged, free_pages, pc, region, addr, free_list_initialized,
                   free_page_head, chain, callVars>>

BootStep == MmapEntry \/ ReserveInRegion \/ SectionDone \/ NextTag \/ InitReturns
AllocStep == ListPage \/ ListUnmappedPage \/ ListNextRegion \/ ListBuilt \/ Pop \/ OutOfMemory
Callers ==
    \/ PfAlloc
    \/ \E pf \in owned \cup {NULL} : PfFree(pf)
    \/ \E p \in owned : WritePage(p)

Next == BootStep \/ AllocStep \/ Callers

Spec == Init /\ [][Next]_vars

\* Straight-line code of the only processor keeps running.
FairSpec == Spec /\ WF_vars(BootStep) /\ WF_vars(AllocStep)

-----------------------------------------------------------------------------
(* What the manager must guarantee.                                        *)

\* The pages of the machine an available entry offers whole, and those a
\* loaded kernel section touches.
AvailablePages ==
    {p \in Pages :
       \E t \in 1 .. Len(mbi) :
          /\ mbi[t].type = "mmap"
          /\ \E i \in 1 .. Len(mbi[t].items) :
                LET e == mbi[t].items[i]
                IN  e.relevant /\ EntryStart(e) <= p /\ p < EntryEnd(e)}

KernelPages ==
    {p \in Pages :
       \E t \in 1 .. Len(mbi) :
          /\ mbi[t].type = "elf"
          /\ \E i \in 1 .. Len(mbi[t].items) :
                LET s == mbi[t].items[i]
                IN  Loaded(s) /\ SectionStart(s) <= p /\ p < SectionEnd(s)}

\* The pages that may be handed out: offered by the boot loader, outside the
\* kernel image and not in the first megabyte.
UsablePages == {p \in AvailablePages \ KernelPages : p >= LowLimit}

InRegion(p, r) == r.type = "AVAILABLE" /\ r.start <= p /\ p < r.end

ListedPages == {chain[i] : i \in 1 .. Len(chain)}

TypeOK ==
    /\ mbi \in BootInfos
    /\ pc \in {"tags", "idle", "listing", "pop", "halted"}
    /\ tag \in Nat \ {0} /\ item \in Nat \ {0} /\ region \in Nat \ {0}
    /\ addr \in Nat
    /\ memory_regions \in Seq(Region)
    /\ total_pages \in Int /\ free_pages \in Int /\ reserved_pages \in Int
    /\ free_list_initialized \in BOOLEAN
    /\ free_page_head \in Pages \cup {NULL}
    /\ word0 \in [Pages -> Pages \cup {NULL, Junk}]
    /\ ret \in Pages \cup {NULL}
    /\ owned \subseteq Pages
    /\ chain \in Seq(Pages)

\* Following the links from free_page_head visits every listed page exactly
\* once and ends at NULL, whatever callers write into the pages they hold and
\* in whatever order pages come back (add_page_to_free_list, MMU_pf_alloc).
FreeListIntact ==
    /\ free_page_head = IF chain = << >> THEN NULL ELSE chain[Len(chain)]
    /\ \A i \in 1 .. Len(chain) :
          /\ word0[chain[i]] = IF i = 1 THEN NULL ELSE chain[i - 1]
          /\ \A k \in 1 .. Len(chain) : chain[i] = chain[k] => i = k

\* No page is listed and held, and neither kind is a page of the kernel image,
\* of the first megabyte or outside the available memory, although the region
\* table was trimmed and split section by section.
OnlyUsablePages ==
    /\ ListedPages \cap owned = {}
    /\ ListedPages \subseteq UsablePages
    /\ owned \subseteq UsablePages

\* Once the list is built no usable page is lost: each one is listed or held.
\* (A table that has filled up loses memory; the code says so in a warning.)
NoPageLost ==
    /\ free_list_initialized
    /\ pc \in {"idle", "pop"}
    /\ Len(memory_regions) < MaxRegions
    => UsablePages = ListedPages \cup owned

\* The statistics MMU_init prints and MMU_pf_alloc and MMU_pf_free maintain
\* are the true counts, however the sections overlap the entries and each
\* other, as long as the table has not filled up.
StatisticsExact ==
    /\ pc # "tags"
    /\ Len(memory_regions) < MaxRegions
    => /\ total_pages = Cardinality(AvailablePages)
       /\ reserved_pages = Cardinality(AvailablePages \cap KernelPages)
       /\ free_pages + Cardinality(owned) = Cardinality(AvailablePages \ KernelPages)

-----------------------------------------------------------------------------
(* The inductive invariant behind FreeListIntact and OnlyUsablePages.      *)

\* The i-th item of tag t has been dealt with.
Done(t, i) == t < tag \/ (t = tag /\ i < item)

\* Region r lies in the i-th item of tag t, an available entry.
Within(r, t, i) ==
    /\ mbi[t].type = "mmap"
    /\ mbi[t].items[i].relevant
    /\ EntryStart(mbi[t].items[i]) <= r.start
    /\ r.end <= EntryEnd(mbi[t].items[i])

\* Every available region is a non-empty part of one entry already read.
RegionsFromMap ==
    \A j \in 1 .. Len(memory_regions) :
       LET r == memory_regions[j]
       IN  r.type = "AVAILABLE" =>
              /\ r.start < r.end
              /\ \E t \in 1 .. Len(mbi) : \E i \in 1 .. Len(mbi[t].items) :
                    Done(t, i) /\ Within(r, t, i)

\* Available regions share no page, so no page is listed twice.
RegionsDisjoint ==
    \A j, k \in 1 .. Len(memory_regions) :
       LET r == memory_regions[j]
           q == memory_regions[k]
       IN  r.type = "AVAILABLE" /\ q.type = "AVAILABLE" /\ j # k =>
              r.end <= q.start \/ q.end <= r.start

\* A section that has been dealt with, in all regions or in the first ones, is
\* outside the available ones.
Outside(s, r) ==
    SectionEnd(s) <= r.start \/ r.end <= SectionStart(s) \/ SectionEnd(s) <= SectionStart(s)

SectionsTakenOut ==
    \A j \in 1 .. Len(memory_regions), t \in 1 .. Len(mbi) :
       mbi[t].type = "elf" =>
          \A i \in 1 .. Len(mbi[t].items) :
             LET r == memory_regions[j]
                 s == mbi[t].items[i]
             IN  /\ r.type = "AVAILABLE"
                 /\ Loaded(s)
                 /\ pc = "tags" => Done(t, i) \/ (t = tag /\ i = item /\ j < region)
                 => Outside(s, r)

\* The position of init_free_page_list is past page p of region j.
Past(p, j) == j < region \/ (j = region /\ p < addr)

\* The list holds the pages behind (region, addr), all of them and no other,
\* and is used only once it is built.
ListBehind ==
    /\ pc = "tags" => ~free_list_initialized
    /\ pc \in {"listing", "pop"} => free_list_initialized
    /\ ~free_list_initialized => chain = << >> /\ owned = {}
    /\ pc = "listing" =>
          /\ owned = {}
          /\ region <= Len(memory_regions) => addr >= Clamp(memory_regions[region].start)
          /\ \A i \in 1 .. Len(chain) :
                \E j \in 1 .. Len(memory_regions) :
                   InRegion(chain[i], memory_regions[j]) /\ Past(chain[i], j)
          /\ \A p \in Pages, j \in 1 .. Len(memory_regions) :
                p >= LowLimit /\ InRegion(p, memory_regions[j]) /\ Past(p, j) => p \in ListedPages

Inv ==
    /\ TypeOK
    /\ RegionsFromMap
    /\ RegionsDisjoint
    /\ SectionsTakenOut
    /\ ListBehind
    /\ OnlyUsablePages
    /\ FreeListIntact

-----------------------------------------------------------------------------
(* Refinement, progress, and what the comments of the code promise.        *)

\* The allocator behind the lazy list: the frames that can be allocated are
\* those of the region table until the list exists, then those on the list.
ListablePages ==
    {p \in Pages :
       p >= LowLimit /\ \E j \in 1 .. Len(memory_regions) : InRegion(p, memory_regions[j])}

FreeFrames ==
    CASE pc = "tags" -> {}
      [] pc # "tags" /\ (~free_list_initialized \/ pc \in {"listing", "halted"}) -> ListablePages
      [] OTHER -> ListedPages

Allocator == INSTANCE FrameAllocator
             WITH usable <- UsablePages, up <- (pc # "tags"), free <- FreeFrames

\* The manager implements the abstract allocator: MMU_pf_alloc returns NULL
\* only when no frame is left, and otherwise a frame nobody holds.
AllocatorSpec == Allocator!Spec

\* MMU_init and every MMU_pf_alloc return, the one that builds the list too,
\* unless it has halted the machine.
CallsReturn == (pc # "idle") ~> (pc \in {"idle", "halted"})

\* boot.asm:96 and mmu.c:275 take physical memory to be identity mapped: the
\* manager never touches a page that is not.
PhysicalMemoryMapped == pc # "halted"
=============================================================================
