---------------------------- MODULE SwapAllocator ----------------------------
(***************************************************************************)
(* The swap file page allocator of Redis 1.3.6 (redis.c, "Virtual Memory", *)
(* vmFindContiguousPages and the bitmap helpers), with the blocking        *)
(* swap-out and swap-in that allocate and free page runs.                   *)
(*                                                                         *)
(* The bitmap is the set of used pages.  vmFindContiguousPages is           *)
(* translated step by step: the scan starts at vm_next_page, wraps at       *)
(* vm_pages (resetting the count of free pages when it lands on page 0),    *)
(* and jumps forward by random() % REDIS_VM_MAX_RANDOM_JUMP after          *)
(* REDIS_VM_MAX_RANDOM_JUMP/4 pages without a free one; the random jump    *)
(* makes it return a set of possible outcomes.                             *)
(***************************************************************************)
EXTENDS Naturals, FiniteSets

CONSTANTS
  NPages,          \* server.vm_pages
  MaxRun,          \* the largest object, in pages (rdbSavedObjectPages)
  MaxNearPages,    \* REDIS_VM_MAX_NEAR_PAGES
  MaxRandomJump    \* REDIS_VM_MAX_RANDOM_JUMP

ASSUME NPages \in Nat \ {0} /\ MaxRun \in 1..NPages
ASSUME MaxNearPages \in Nat \ {0} /\ MaxRandomJump \in Nat /\ MaxRandomJump \div 4 >= 2

Pages == 0..(NPages - 1)
Sizes == 1..MaxRun

VARIABLES
  vm_bitmap,      \* the used pages
  vm_next_page,   \* server.vm_next_page: where the next scan starts
  vm_near_pages,  \* server.vm_near_pages: scans since the last reset
  swapped         \* the runs [page, pages] of the objects on the swap file

vars == <<vm_bitmap, vm_next_page, vm_near_pages, swapped>>

Run(p, n) == p .. (p + n - 1)

\* vmFreePage
FreePage(used, p) == p \notin used

\* The while loop of vmFindContiguousPages from a given offset: the set of
\* its possible results, [ok |-> TRUE, first, next] or [ok |-> FALSE].
RECURSIVE Scan(_, _, _, _, _, _)
Scan(used, base, n, offset, since_jump, numfree) ==
  IF offset >= NPages THEN {[ok |-> FALSE]}
  ELSE
    LET this0 == base + offset
        this == IF this0 >= NPages THEN this0 - NPages ELSE this0
        nf0 == IF this0 >= NPages /\ this = 0 THEN 0 ELSE numfree
        nf == IF FreePage(used, this) THEN nf0 + 1 ELSE 0
        sj == since_jump + 1
    IN IF nf = n THEN {[ok |-> TRUE, first |-> this - (n - 1), next |-> this + 1]}
       ELSE IF nf = 0 /\ sj >= MaxRandomJump \div 4
         THEN UNION {Scan(used, base, n, offset + r, 0, nf) : r \in 0..(MaxRandomJump - 1)}
         ELSE Scan(used, base, n, offset + 1, sj, nf)

\* vmFindContiguousPages: the counter of near allocations restarts the
\* scan at page 0 when it reaches REDIS_VM_MAX_NEAR_PAGES, and is bumped
\* on every call; a success moves vm_next_page past the run found.
Restart == vm_near_pages = MaxNearPages
FindBase == IF Restart THEN 0 ELSE vm_next_page
FindNear == (IF Restart THEN 0 ELSE vm_near_pages) + 1
FindContiguousPages(n) == Scan(vm_bitmap, FindBase, n, 0, 0, 0)

\* vmSwapObjectBlocking: find n pages (or return REDIS_ERR), write the
\* object (which may fail, leaving the pages free), then mark them used.
SwapOut(n) ==
  /\ \E res \in FindContiguousPages(n) :
       /\ vm_near_pages' = FindNear
       /\ IF ~res.ok
            THEN UNCHANGED <<vm_bitmap, vm_next_page, swapped>>
            ELSE /\ vm_next_page' = res.next
                 /\ \E written \in BOOLEAN :
                      IF written
                        THEN /\ vm_bitmap' = vm_bitmap \cup Run(res.first, n)
                             /\ swapped' = swapped \cup {[page |-> res.first, pages |-> n]}
                        ELSE UNCHANGED <<vm_bitmap, swapped>>

\* vmLoadObject (or the deletion of a swapped key): vmMarkPagesFree of the
\* object's run.
SwapIn(o) ==
  /\ o \in swapped
  /\ vm_bitmap' = vm_bitmap \ Run(o.page, o.pages)
  /\ swapped' = swapped \ {o}
  /\ UNCHANGED <<vm_next_page, vm_near_pages>>

\* vmInit: an empty bitmap, vm_next_page = vm_near_pages = 0
Init ==
  /\ vm_bitmap = {}
  /\ vm_next_page = 0
  /\ vm_near_pages = 0
  /\ swapped = {}

Next == (\E n \in Sizes : SwapOut(n)) \/ (\E o \in swapped : SwapIn(o))

Spec == Init /\ [][Next]_vars

-----------------------------------------------------------------------------
(* Properties                                                              *)

\* the runs of n free pages inside the swap file
FreeRuns(used, n) == {p \in Pages : Run(p, n) \subseteq Pages /\ Run(p, n) \cap used = {}}

\* spec.md (4.J): "Allocation finds N contiguous free pages via linear
\* scan from the cursor, wrapping": vmFindContiguousPages reports
\* REDIS_ERR only when the swap file has no run of n free pages.
FindsRoomWhenFree ==
  \A n \in Sizes :
     (\E res \in FindContiguousPages(n) : ~res.ok) => FreeRuns(vm_bitmap, n) = {}
=============================================================================
