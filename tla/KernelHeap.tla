----------------------------- MODULE KernelHeap -----------------------------
(***************************************************************************)
(* What the kernel heap of mmu.c promises its callers (MMU_alloc_page,     *)
(* MMU_alloc_pages, MMU_free_page, MMU_free_pages and plain loads and      *)
(* stores), without page tables, frames, faults or a TLB: a page that was  *)
(* allocated reads as zero until it is written, and then as the value      *)
(* written last, until it is freed.                                        *)
(***************************************************************************)
EXTENDS Integers

CONSTANTS
    Pages,    \* the heap's virtual pages, a set of integers
    Values,   \* what a page may hold; 0 is one of them
    MaxCall   \* the most pages allocated at once

VARIABLES
    live,     \* the pages callers hold
    content,  \* what the live ones hold
    val       \* the value the last load returned

vars == <<live, content, val>>

Init ==
    /\ live = {}
    /\ content = [v \in Pages |-> 0]
    /\ val = 0

\* n consecutive pages nobody holds, all zero.
Alloc(first, n) ==
    LET new == first .. first + n - 1
    IN  /\ new \subseteq Pages \ live
        /\ live' = live \cup new
        /\ UNCHANGED <<content, val>>

\* content is kept at 0 outside the live pages.
Free(v) ==
    /\ v \in live
    /\ live' = live \ {v}
    /\ content' = [content EXCEPT ![v] = 0]
    /\ UNCHANGED val

Store(v, x) ==
    /\ v \in live
    /\ content' = [content EXCEPT ![v] = x]
    /\ UNCHANGED <<live, val>>

Load(v) ==
    /\ v \in live
    /\ val' = content[v]
    /\ UNCHANGED <<live, content>>

Next ==
    \/ \E first \in Pages, n \in 1 .. MaxCall : Alloc(first, n)
    \/ \E v \in Pages : Free(v) \/ Load(v) \/ \E x \in Values : Store(v, x)

Spec == Init /\ [][Next]_vars
=============================================================================
