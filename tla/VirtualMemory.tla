---------------------------- MODULE VirtualMemory ----------------------------
(***************************************************************************)
(* The virtual memory of src/kernel/mmu.c (lines 245 to 511): the page     *)
(* table walk of get_pte, map_page and unmap_page, the demand-paged kernel *)
(* heap behind kernel_brk, and the page fault handler, with the TLB of the *)
(* processor.  Frames come from the allocator that FrameAllocator          *)
(* specifies and PhysicalMemory implements: any free one, or none.         *)
(*                                                                         *)
(* Addresses are page numbers.  A call is one step per table of its walk,  *)
(* and one for what it does with the entry it finds.  Interrupt handlers   *)
(* do not use this code, so calls do not interleave.                       *)
(***************************************************************************)
EXTENDS Integers, FiniteSets

CONSTANTS
    Frames,      \* the frames MMU_pf_alloc may hand out
    Root,        \* p4_table of boot.asm
    PdptHeap,    \* pdpt_heap of boot.asm
    BootSlot,    \* the entry of p4_table that boot.asm points to it
    Entries,     \* ENTRY_PER_TABLE
    HeapBase,    \* KERNEL_HEAP_ADR
    MaxPages,    \* bound: heap pages ever allocated
    MaxCall,     \* bound: pages of one MMU_alloc_pages
    Windows,     \* pages outside the heap that callers map frames at
    Values,      \* what a page may hold
    Absent,      \* an entry that is 0
    Demand,      \* an entry that is PTE_DEMAND_PAGING and not PTE_PRESENT
    None         \* no frame

Tables == Frames \cup {Root, PdptHeap}
HeapPages == HeapBase .. HeapBase + MaxPages - 1
Slots == 0 .. Entries - 1

\* The pages that an entry of a table of each level stands for, and those that
\* the four levels tell apart.
Span == <<Entries * Entries * Entries, Entries * Entries, Entries, 1>>
AllPages == Entries * Entries * Entries * Entries

\* A present entry is the frame it points to.
Entry == Tables \cup {Absent, Demand}

ASSUME VirtualAssumption ==
    /\ Entries \in Nat /\ Entries > 1
    /\ BootSlot \in Slots
    /\ HeapBase \in Nat /\ MaxPages \in Nat /\ MaxCall \in Nat \ {0}
    /\ Windows \cap HeapPages = {}
    /\ Windows \cup HeapPages \subseteq 0 .. AllPages - 1
    /\ 0 \in Values /\ Values # {0}
    /\ Root # PdptHeap /\ Root \notin Frames /\ PdptHeap \notin Frames
    /\ Absent # Demand /\ {Absent, Demand, None} \cap Tables = {}

VARIABLES
    table,      \* the frames, read as page tables
    data,       \* the frames, read as what callers store in them
    tlb,        \* the cached translation of each page
    free,       \* the frames MMU_pf_alloc has left
    kernel_brk,
    op,         \* the call in progress
    va, at, level,   \* its walk: the page, the table reached, and its level
    start, num, done,   \* the first page of a multi-page call, its length, progress
    arg,        \* the frame map_page is given
    live,       \* history: the heap pages callers hold
    held,       \* history: the frames callers took from MMU_pf_alloc
    val         \* the value the last load returned

memory == <<table, data, tlb, free>>
walk == <<va, at, level>>
loop == <<start, num, done>>
callers == <<live, held, val>>
vars == <<memory, kernel_brk, op, walk, loop, arg, callers>>

EmptyTable == [k \in Slots |-> Absent]

\* What earlier use leaves in a frame: anything but zeros.
Leftover(f) == [k \in Slots |-> f]
Dirty == CHOOSE x \in Values : x # 0

Init ==
    /\ table = [t \in Tables |-> CASE t = Root -> [EmptyTable EXCEPT ![BootSlot] = PdptHeap]
                                   [] t = PdptHeap -> EmptyTable
                                   [] OTHER -> Leftover(t)]
    /\ data = [f \in Frames |-> Dirty]
    /\ tlb = [v \in HeapPages \cup Windows |-> None]
    /\ free = Frames
    /\ kernel_brk = HeapBase
    /\ op = "idle"
    /\ va = 0 /\ at = Root /\ level = 0
    /\ start = 0 /\ num = 0 /\ done = 0
    /\ arg = None
    /\ live = {} /\ held = {} /\ val = 0

\* A mistake: the frame stays on the free list.
PfAllocShared(f) == data' = [data EXCEPT ![f] = 0] /\ UNCHANGED free

\* MMU_pf_alloc returns frame f, cleared: the table it may become is empty.
PfAlloc(f) ==
    /\ free' = free \ {f}
    /\ data' = [data EXCEPT ![f] = 0]

-----------------------------------------------------------------------------
(* get_page_indices, the walk, and get_pte.                                *)

Index(v, l) == (v \div Span[l]) % Entries

\* The entry the walk is at.
entry == table[at][Index(va, level)]

Present(e) == e \in Tables

\* Setting the entry the walk is at, in tables tb.
Set(tb, e) == [tb EXCEPT ![at][Index(va, level)] = e]

\* What the processor, or virt_to_phys, finds for page v: its entry in the last
\* table, or Absent when a table is missing.
Below(t, v, l) == IF Present(t) THEN table[t][Index(v, l)] ELSE Absent
Lookup(v) == Below(Below(Below(table[Root][Index(v, 1)], v, 2), v, 3), v, 4)

StartWalk(v) == va' = v /\ at' = Root /\ level' = 1
EndWalk == va' = 0 /\ at' = Root /\ level' = 0
Return == op' = "idle" /\ EndWalk /\ start' = 0 /\ num' = 0 /\ done' = 0 /\ arg' = None

\* create_if_not_exist
creating == op \in {"page", "pages", "map"}

\* A mistake: the level is not counted.
DescendForever ==
    /\ level \in 1 .. 3
    /\ Present(entry)
    /\ at' = entry
    /\ UNCHANGED <<memory, kernel_brk, op, va, level, loop, arg, callers>>

Descend ==
    /\ level \in 1 .. 3
    /\ Present(entry)
    /\ at' = entry
    /\ level' = level + 1
    /\ UNCHANGED <<memory, kernel_brk, op, va, loop, arg, callers>>

\* A missing table is allocated, cleared and linked.
AddTable ==
    /\ level \in 1 .. 3
    /\ ~Present(entry)
    /\ creating
    /\ \E f \in free :
          /\ PfAlloc(f)
          /\ table' = [Set(table, f) EXCEPT ![f] = EmptyTable]
          /\ at' = f
    /\ level' = level + 1
    /\ UNCHANGED <<tlb, kernel_brk, op, va, loop, arg, callers>>

\* get_pte returns NULL.
noPte ==
    /\ level \in 1 .. 3
    /\ ~Present(entry)
    /\ creating => free = {}

\* get_pte returns the entry in the last table.
gotPte == level = 4

-----------------------------------------------------------------------------
(* MMU_alloc_page and MMU_alloc_pages.                                     *)

AllocPage ==
    /\ op = "idle"
    /\ kernel_brk < HeapBase + MaxPages
    /\ op' = "page"
    /\ kernel_brk' = kernel_brk + 1
    /\ StartWalk(kernel_brk)
    /\ UNCHANGED <<memory, loop, arg, callers>>

\* A mistake: the entry is not marked for demand paging.
PageAllocatedUnmarked ==
    /\ op = "page" /\ gotPte
    /\ table' = Set(table, Absent)
    /\ live' = live \cup {va}
    /\ Return
    /\ UNCHANGED <<data, tlb, free, kernel_brk, held, val>>

PageAllocated ==
    /\ op = "page" /\ gotPte
    /\ table' = Set(table, Demand)
    /\ live' = live \cup {va}
    /\ Return
    /\ UNCHANGED <<data, tlb, free, kernel_brk, held, val>>

PageFails ==
    /\ op = "page" /\ noPte
    /\ Return
    /\ UNCHANGED <<memory, kernel_brk, callers>>

AllocPages(n) ==
    /\ op = "idle"
    /\ kernel_brk + n <= HeapBase + MaxPages
    /\ op' = "pages"
    /\ start' = kernel_brk /\ num' = n /\ done' = 0
    /\ StartWalk(kernel_brk)
    /\ UNCHANGED <<memory, kernel_brk, arg, callers>>

\* One iteration of the loop, the last of which returns.
NextAllocated ==
    /\ op = "pages" /\ gotPte
    /\ table' = Set(table, Demand)
    /\ kernel_brk' = kernel_brk + 1
    /\ IF done + 1 < num
       THEN /\ done' = done + 1
            /\ StartWalk(kernel_brk + 1)
            /\ UNCHANGED <<op, start, num, arg, live>>
       ELSE /\ live' = live \cup (start .. start + num - 1)
            /\ Return
    /\ UNCHANGED <<data, tlb, free, held, val>>

\* A mistake: the pages set up so far are left behind.
PagesFailLeaving ==
    /\ op = "pages" /\ noPte
    /\ Return
    /\ UNCHANGED <<memory, kernel_brk, callers>>

\* MMU_free_pages takes back the pages set up so far.
PagesFail ==
    /\ op = "pages" /\ noPte
    /\ IF done = 0
       THEN Return
       ELSE /\ op' = "free" /\ num' = done /\ done' = 0
            /\ StartWalk(start)
            /\ UNCHANGED <<start, arg>>
    /\ UNCHANGED <<memory, kernel_brk, callers>>

-----------------------------------------------------------------------------
(* MMU_free_page and MMU_free_pages.                                       *)

\* MMU_free_page is the case n = 1.  Freeing again what is already free is
\* tolerated, so the pages are any of the heap.
FreePages(v, n) ==
    /\ op = "idle"
    /\ v .. v + n - 1 \subseteq HeapPages
    /\ op' = "free"
    /\ start' = v /\ num' = n /\ done' = 0
    /\ StartWalk(v)
    /\ UNCHANGED <<memory, kernel_brk, arg, callers>>

\* A mistake: the frame is not given back.
GiveBackNothing(f) ==
    /\ free' = free
    /\ data' = [data EXCEPT ![f] = Dirty]

\* MMU_pf_free of frame f, whose contents are no longer its caller's.
GiveBack(f) ==
    /\ free' = free \cup {f}
    /\ data' = [data EXCEPT ![f] = Dirty]

NextFree ==
    IF done + 1 < num
    THEN done' = done + 1 /\ StartWalk(va + 1) /\ UNCHANGED <<op, start, num, arg>>
    ELSE Return

\* A mistake: no invlpg.
PageFreedNoFlush ==
    /\ op = "free" /\ gotPte
    /\ IF Present(entry)
       THEN /\ GiveBack(entry)
            /\ table' = [Set(table, Absent) EXCEPT ![entry] = Leftover(entry)]
       ELSE table' = Set(table, Absent) /\ UNCHANGED <<free, data>>
    /\ live' = live \ {va}
    /\ NextFree
    /\ UNCHANGED <<tlb, kernel_brk, held, val>>

PageFreed ==
    /\ op = "free" /\ gotPte
    /\ IF Present(entry)
       THEN /\ GiveBack(entry)
            /\ table' = [Set(table, Absent) EXCEPT ![entry] = Leftover(entry)]
       ELSE table' = Set(table, Absent) /\ UNCHANGED <<free, data>>
    /\ tlb' = [tlb EXCEPT ![va] = None]
    /\ live' = live \ {va}
    /\ NextFree
    /\ UNCHANGED <<kernel_brk, held, val>>

NothingToFree ==
    /\ op = "free" /\ noPte
    /\ NextFree
    /\ UNCHANGED <<memory, kernel_brk, callers>>

-----------------------------------------------------------------------------
(* map_page, unmap_page, and callers of the frame allocator.               *)

TakeFrame ==
    /\ op = "idle"
    /\ Windows # {}
    /\ \E f \in free :
          /\ PfAlloc(f)
          /\ table' = [table EXCEPT ![f] = EmptyTable]
          /\ held' = held \cup {f}
    /\ UNCHANGED <<tlb, kernel_brk, op, walk, loop, arg, live, val>>

\* A caller gives a frame back when no window shows it.
ReturnFrame(f) ==
    /\ op = "idle"
    /\ \A w \in Windows : Lookup(w) # f
    /\ GiveBack(f)
    /\ table' = [table EXCEPT ![f] = Leftover(f)]
    /\ held' = held \ {f}
    /\ UNCHANGED <<tlb, kernel_brk, op, walk, loop, arg, live, val>>

MapPage(w, f) ==
    /\ op = "idle"
    /\ op' = "map"
    /\ arg' = f
    /\ StartWalk(w)
    /\ UNCHANGED <<memory, kernel_brk, loop, callers>>

PageMapped ==
    /\ op = "map" /\ gotPte
    /\ table' = Set(table, arg)
    /\ tlb' = [tlb EXCEPT ![va] = None]
    /\ Return
    /\ UNCHANGED <<data, free, kernel_brk, callers>>

MapFails ==
    /\ op = "map" /\ noPte
    /\ Return
    /\ UNCHANGED <<memory, kernel_brk, callers>>

UnmapPage(w) ==
    /\ op = "idle"
    /\ op' = "unmap"
    /\ StartWalk(w)
    /\ UNCHANGED <<memory, kernel_brk, loop, arg, callers>>

PageUnmapped ==
    /\ op = "unmap" /\ gotPte
    /\ IF Present(entry)
       THEN table' = Set(table, Absent) /\ tlb' = [tlb EXCEPT ![va] = None]
       ELSE UNCHANGED <<table, tlb>>
    /\ Return
    /\ UNCHANGED <<data, free, kernel_brk, callers>>

NothingToUnmap ==
    /\ op = "unmap" /\ noPte
    /\ Return
    /\ UNCHANGED <<memory, kernel_brk, callers>>

-----------------------------------------------------------------------------
(* Loads and stores of the kernel, through the TLB, and the page fault     *)
(* handler.  A faulting access is retried, as the next access of the page. *)

\* The frame an access to page v uses, None when it faults.
Translate(v) ==
    IF tlb[v] # None THEN tlb[v] ELSE IF Lookup(v) \in Frames THEN Lookup(v) ELSE None

\* The translation is cached.
Use(v, f) ==
    /\ op = "idle"
    /\ f # None
    /\ tlb' = [tlb EXCEPT ![v] = f]
    /\ UNCHANGED <<table, free, kernel_brk, op, walk, loop, arg, live, held>>

Load(v) ==
    /\ Use(v, Translate(v))
    /\ val' = data[Translate(v)]
    /\ UNCHANGED data

Store(v, x) ==
    /\ Use(v, Translate(v))
    /\ data' = [data EXCEPT ![Translate(v)] = x]
    /\ UNCHANGED val

\* A load from a window; what it returns is not followed.
Touch(w) ==
    /\ Use(w, Translate(w))
    /\ UNCHANGED <<data, val>>

\* The processor may drop a translation at any time.
Evict(v) ==
    /\ op = "idle"
    /\ tlb' = [tlb EXCEPT ![v] = None]
    /\ UNCHANGED <<table, data, free, kernel_brk, op, walk, loop, arg, callers>>

PageFault(v) ==
    /\ op = "idle"
    /\ Translate(v) = None
    /\ op' = "fault"
    /\ StartWalk(v)
    /\ UNCHANGED <<memory, kernel_brk, loop, arg, callers>>

\* A demand-paged page gets a cleared frame.
PageIn ==
    /\ op = "fault" /\ gotPte
    /\ entry = Demand
    /\ \E f \in free :
          /\ PfAlloc(f)
          /\ table' = [Set(table, f) EXCEPT ![f] = EmptyTable]
    /\ tlb' = [tlb EXCEPT ![va] = None]
    /\ Return
    /\ UNCHANGED <<kernel_brk, callers>>

\* Any other fault, or no frame left: the handler prints and halts.
Halt ==
    /\ op = "fault"
    /\ noPte \/ (gotPte /\ (entry # Demand \/ free = {}))
    /\ op' = "halted" /\ EndWalk
    /\ UNCHANGED <<memory, kernel_brk, loop, arg, callers>>

CallStep ==
    \/ Descend \/ AddTable
    \/ PageAllocated \/ PageFails \/ NextAllocated \/ PagesFail
    \/ PageFreed \/ NothingToFree
    \/ PageMapped \/ MapFails \/ PageUnmapped \/ NothingToUnmap
    \/ PageIn \/ Halt

\* Callers use the heap pages they hold.
Callers ==
    \/ AllocPage
    \/ \E n \in 1 .. MaxCall : AllocPages(n)
    \/ \E v \in HeapPages, n \in 1 .. MaxCall : FreePages(v, n)
    \/ \E v \in live : Load(v) \/ PageFault(v) \/ \E x \in Values : Store(v, x)
    \/ TakeFrame
    \/ \E f \in held : ReturnFrame(f) \/ \E w \in Windows : MapPage(w, f)
    \/ \E w \in Windows : UnmapPage(w) \/ Touch(w) \/ \E x \in Values : Store(w, x)

Next == CallStep \/ Callers \/ \E v \in HeapPages \cup Windows : Evict(v)

Spec == Init /\ [][Next]_vars

-----------------------------------------------------------------------------
(* Properties.                                                             *)

TypeOK ==
    /\ table \in [Tables -> [Slots -> Entry]]
    /\ data \in [Frames -> Values]
    /\ tlb \in [HeapPages \cup Windows -> Tables \cup {None}]
    /\ free \subseteq Frames
    /\ kernel_brk \in HeapBase .. HeapBase + MaxPages
    /\ op \in {"idle", "page", "pages", "free", "map", "unmap", "fault", "halted"}
    /\ va \in {0} \cup HeapPages \cup Windows
    /\ at \in Tables /\ level \in 0 .. 4
    /\ start \in {0} \cup HeapPages
    /\ num \in 0 .. MaxCall /\ done \in 0 .. MaxCall
    /\ arg \in Frames \cup {None}
    /\ live \subseteq HeapPages /\ held \subseteq Frames
    /\ val \in Values

\* The tables of each level, and the frames pages are mapped to.
Linked(ts) == {table[t][k] : t \in ts, k \in Slots} \cap Tables
Pdpts == Linked({Root})
Pds == Linked(Pdpts)
Pts == Linked(Pds)
Mapped == Linked(Pts)

Links(f) ==
    {l \in ({Root} \cup Pdpts \cup Pds \cup Pts) \X Slots : table[l[1]][l[2]] = f}

\* Every frame has exactly one use: it is free, it was taken by a caller, or
\* exactly one entry of the tree points to it.  So no two pages share a frame,
\* no page table is mapped, no freed frame is still mapped, and none is lost,
\* whichever of the calls have failed half way.
FramesUsedOnce ==
    TypeOK /\ \A f \in Frames :
       \/ f \in free /\ f \notin held /\ Links(f) = {}
       \/ /\ f \notin free /\ f \in held /\ f \notin Pdpts \cup Pds \cup Pts
          /\ \A v \in HeapPages : Lookup(v) # f
       \/ f \notin free /\ f \notin held /\ Cardinality(Links(f)) = 1

\* The TLB never holds a translation the tables no longer have.
TlbCoherent ==
    \A v \in HeapPages \cup Windows : tlb[v] # None => tlb[v] = Lookup(v)

\* Between calls the pages callers hold are demand-paged or mapped, and every
\* other heap page is neither: a failed MMU_alloc_pages left nothing behind.
HeapMatchesTables ==
    op = "idle" =>
       \A v \in HeapPages : v \in live <=> Lookup(v) # Absent

\* An access to a page the caller holds halts the machine only when memory has
\* run out.
HaltsOnlyWhenFull == op = "halted" => free = {}

Contents ==
    [v \in HeapPages |->
       IF v \in live /\ Lookup(v) \in Frames THEN data[Lookup(v)] ELSE 0]

Heap == INSTANCE KernelHeap WITH Pages <- HeapPages, content <- Contents

\* Callers of the heap see zeroed private pages that keep what is stored.
HeapSpec == Heap!Spec

\* The table steps a call may still take: those of the page it is at and of the
\* pages after it, and for MMU_alloc_pages those of taking pages back.
StepsLeft ==
    LET pages == IF op \in {"pages", "free"} THEN num - done ELSE 1
        undo == IF op = "pages" THEN num ELSE 0
    IN  IF op \in {"idle", "halted"} THEN 0 ELSE 5 * (pages + undo) - level

\* Each step of a call brings its end nearer, the taking back of pages too: the
\* loops of get_pte, MMU_alloc_pages and MMU_free_pages end.
CallsShorten == [][CallStep => StepsLeft' < StepsLeft]_vars
=============================================================================
