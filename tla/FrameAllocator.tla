--------------------------- MODULE FrameAllocator ---------------------------
(***************************************************************************)
(* What the physical frame allocator of mmu.c promises its callers         *)
(* (MMU_pf_alloc and MMU_pf_free), without regions, lists or counters:     *)
(* once the memory map has been read, some of the usable frames are free;  *)
(* an allocation hands out a free frame, or NULL when there is none; a     *)
(* free gives an owned frame back.                                         *)
(***************************************************************************)
EXTENDS Naturals

VARIABLES
    usable,  \* the frames that may ever be handed out; fixed by the machine
    up,      \* TRUE once MMU_init has returned
    free,    \* the frames that can be allocated
    owned,   \* the frames held by callers
    ret      \* what the last MMU_pf_alloc returned

vars == <<usable, up, free, owned, ret>>

NULL == 0

Init ==
    /\ up = FALSE
    /\ free = {}
    /\ owned = {}
    /\ ret = NULL

\* The memory map has been read: any part of the usable memory may turn out
\* to be managed (the region table is finite), nothing else.
Boot ==
    /\ ~up
    /\ up' = TRUE
    /\ free' \in SUBSET usable
    /\ UNCHANGED <<usable, owned, ret>>

Alloc ==
    /\ up
    /\ \E f \in free :
          /\ ret' = f
          /\ free' = free \ {f}
          /\ owned' = owned \cup {f}
    /\ UNCHANGED <<usable, up>>

AllocFails ==
    /\ up
    /\ free = {}
    /\ ret' = NULL
    /\ UNCHANGED <<usable, up, free, owned>>

Free(f) ==
    /\ up
    /\ f \in owned
    /\ owned' = owned \ {f}
    /\ free' = free \cup {f}
    /\ UNCHANGED <<usable, up, ret>>

Next == Boot \/ Alloc \/ AllocFails \/ \E f \in owned : Free(f)

Spec == Init /\ [][Next]_vars
=============================================================================
