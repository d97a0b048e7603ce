-------------------------------- MODULE Pmm ---------------------------------
(***************************************************************************)
(* The physical memory manager, src/src/mem/pmm.c, from the moment kmain   *)
(* has built the node list (module PmmBoot) onwards.  Nodes are numbered   *)
(* in list order, which is ascending address order; 0 is the null pointer. *)
(* Addresses are page numbers.                                             *)
(*                                                                         *)
(* The three list heads share the one next field of every node, which is   *)
(* why the lists are modelled as pointers: pmm_free pushes a node on a     *)
(* free list without unlinking it from pmm_free_list (in spite of its      *)
(* name, the list of the nodes that are handed out).                       *)
(***************************************************************************)
EXTENDS Naturals, FiniteSets

CONSTANTS
    N,        \* number of nodes, one for each frame
    Addr,     \* the addr field: the page number of each node's frame
    TWO_GB    \* the first page number above 2 GiB

ASSUME NAssumption == N \in Nat \ {0}

ASSUME AddrAssumption ==
    /\ TWO_GB \in Nat
    /\ Addr \in [1..N -> Nat]
    /\ \A i, j \in 1..N : i < j => Addr[i] < Addr[j]
    /\ Addr[1] < TWO_GB    \* the first free frame follows the kernel image

VARIABLES
    next,            \* the next field of every node
    pmm_low,         \* head of the free frames below 2 GiB
    pmm_high,        \* head of the free frames from 2 GiB on
    pmm_free_list,   \* head of the handed-out nodes
    holders,         \* how many callers each frame has been handed to
    reserved,        \* what pmm_clear_blocks removed
    phase            \* kmain's progress, and how the kernel stopped

vars == <<next, pmm_low, pmm_high, pmm_free_list, holders, reserved, phase>>

Node == 1..N
NULL == 0

IsHigh(n) == Addr[n] >= TWO_GB

owned == {n \in Node : holders[n] > 0}

(* Where following next from the pointer h leads: the nodes, and NULL if   *)
(* the list ends.                                                          *)
Visited(h) ==
    LET walk[i \in Nat] ==
            IF i = 0 THEN h
            ELSE IF walk[i - 1] = NULL THEN NULL ELSE next[walk[i - 1]]
    IN  {walk[i] : i \in 0..N}

Init ==
    /\ next = [n \in Node |-> IF n = N THEN NULL ELSE n + 1]
    /\ pmm_low = 1
    /\ pmm_high = NULL
    /\ pmm_free_list = NULL
    /\ holders = [n \in Node |-> 0]
    /\ reserved = {}
    /\ phase = "built"

-----------------------------------------------------------------------------

(* Cut the list in front of the first node at or above 2 GiB.              *)
pmm_init_final ==
    /\ phase = "built"
    /\ \/ \E n \in Node \ {N} :
              /\ IsHigh(n + 1)
              /\ ~IsHigh(n)
              /\ pmm_high' = n + 1
              /\ next' = [next EXCEPT ![n] = NULL]
       \/ /\ ~IsHigh(N)
          /\ UNCHANGED <<pmm_high, next>>
    /\ phase' = "split"
    /\ UNCHANGED <<pmm_low, pmm_free_list, holders, reserved>>

(* Reserve the pages start..end-1 for the frame buffer.  It runs before    *)
(* any allocation, when the high list is pmm_high, pmm_high + 1, ..., N;   *)
(* the walk stops at the first node at or above end, and that node is      *)
(* skipped along with the reserved ones.                                   *)
pmm_clear_blocks(start, end) ==
    LET high   == {n \in Node : pmm_high # NULL /\ n >= pmm_high}
        before == {n \in high : Addr[n] + 1 <= start}
        after  == {n \in high : Addr[n] >= end}
    IN  /\ phase = "split"
        /\ \/ \E s \in before, e \in after :
                  /\ \A n \in before : n <= s
                  /\ \A n \in after : n >= e
                  /\ next' = [next EXCEPT ![s] = next[e]]
                  /\ reserved' = (s + 1)..e
           \/ /\ before = {} \/ after = {}
              /\ UNCHANGED <<next, reserved>>
        /\ phase' = "running"
        /\ UNCHANGED <<pmm_low, pmm_high, pmm_free_list, holders>>

(* A node popped from a free list goes to the front of pmm_free_list.      *)
HandOut(n) ==
    /\ next' = [next EXCEPT ![n] = pmm_free_list]
    /\ pmm_free_list' = n
    /\ holders' = [holders EXCEPT ![n] = @ + 1]
    /\ UNCHANGED <<reserved, phase>>

Stop(how) ==
    /\ phase' = how
    /\ UNCHANGED <<next, pmm_low, pmm_high, pmm_free_list, holders, reserved>>

pmm_alloc_low ==
    /\ phase = "running"
    /\ \/ /\ pmm_low = NULL
          /\ Stop("out of memory")
       \/ /\ pmm_low # NULL
          /\ HandOut(pmm_low)
          /\ pmm_low' = next[pmm_low]
          /\ UNCHANGED pmm_high

(* Faulty variant: the high list keeps the node that was handed out.       *)
pmm_alloc_high_no_pop ==
    /\ phase = "running"
    /\ \/ /\ pmm_high = NULL
          /\ pmm_alloc_low
       \/ /\ pmm_high # NULL
          /\ HandOut(pmm_high)
          /\ UNCHANGED <<pmm_low, pmm_high>>

(* With the high list empty this is pmm_alloc_low (the page_unmap of the   *)
(* low address that follows concerns module PageTable).                    *)
pmm_alloc_high ==
    /\ phase = "running"
    /\ \/ /\ pmm_high = NULL
          /\ pmm_alloc_low
       \/ /\ pmm_high # NULL
          /\ HandOut(pmm_high)
          /\ pmm_high' = next[pmm_high]
          /\ UNCHANGED pmm_low

(* Faulty variant: every frame is returned to the low list.                *)
pmm_free_one_list(n) ==
    /\ phase = "running"
    /\ n \in Visited(pmm_free_list)
    /\ next' = [next EXCEPT ![n] = pmm_low]
    /\ pmm_low' = n
    /\ holders' = [holders EXCEPT ![n] = @ - 1]
    /\ UNCHANGED <<pmm_high, pmm_free_list, reserved, phase>>

(* The node is searched in pmm_free_list and pushed on its free list; the  *)
(* search panics at the end of the list, and never ends on a cyclic one.   *)
pmm_free(n) ==
    /\ phase = "running"
    /\ \/ /\ n \in Visited(pmm_free_list)
          /\ \/ /\ IsHigh(n)
                /\ next' = [next EXCEPT ![n] = pmm_high]
                /\ pmm_high' = n
                /\ UNCHANGED pmm_low
             \/ /\ ~IsHigh(n)
                /\ next' = [next EXCEPT ![n] = pmm_low]
                /\ pmm_low' = n
                /\ UNCHANGED pmm_high
          /\ holders' = [holders EXCEPT ![n] = @ - 1]
          /\ UNCHANGED <<pmm_free_list, reserved, phase>>
       \/ /\ n \notin Visited(pmm_free_list)
          /\ NULL \in Visited(pmm_free_list)
          /\ Stop("cannot find node")
       \/ /\ n \notin Visited(pmm_free_list)
          /\ NULL \notin Visited(pmm_free_list)
          /\ Stop("endless search")

(* Callers free what they hold; the frame buffer is any range of pages.    *)
Next ==
    \/ pmm_init_final
    \/ \E start, end \in 1..(Addr[N] + 2) : start < end /\ pmm_clear_blocks(start, end)
    \/ pmm_alloc_low
    \/ pmm_alloc_high
    \/ \E n \in owned : pmm_free(n)

Spec == Init /\ [][Next]_vars

-----------------------------------------------------------------------------

TypeOK ==
    /\ next \in [Node -> Node \cup {NULL}]
    /\ {pmm_low, pmm_high, pmm_free_list} \subseteq Node \cup {NULL}
    /\ holders \in [Node -> Nat]
    /\ reserved \subseteq Node
    /\ phase \in {"built", "split", "running", "out of memory",
                  "cannot find node", "endless search"}

(* The list at h, linked by nx, is f[1], ..., f[k]: no node occurs twice,  *)
(* each points to the one after it, and the last one to NULL.              *)
Chain(nx, h, k, f) ==
    /\ h = IF k = 0 THEN NULL ELSE f[1]
    /\ \A i, j \in 1..k : f[i] = f[j] => i = j
    /\ \A i \in 1..k : nx[f[i]] = IF i = k THEN NULL ELSE f[i + 1]

(* Every frame is in exactly one place: the low list f, the high list g,   *)
(* with a caller, or reserved.                                             *)
Placed(k, f, m, g) ==
    /\ \A i \in 1..k : f[i] \notin owned \cup reserved
    /\ \A j \in 1..m : g[j] \notin owned \cup reserved
    /\ owned \cap reserved = {}
    /\ \A n \in Node : \/ n \in owned \cup reserved
                       \/ \E i \in 1..k : n = f[i]
                       \/ \E j \in 1..m : n = g[j]

(* Whatever the order of allocations and frees, and although pmm_free      *)
(* leaves a freed node on pmm_free_list, the two free lists stay finite    *)
(* lists without repetition: pmm_low holds frames below 2 GiB, pmm_high    *)
(* frames above, neither holds a frame that a caller has or that is        *)
(* reserved, and no frame is lost.                                         *)
FreeListsSound ==
    phase # "built" =>
        \E k \in 0..N : \E f \in [1..k -> Node] :
            /\ Chain(next, pmm_low, k, f) /\ \A i \in 1..k : ~IsHigh(f[i])
            /\ \E m \in 0..N : \E g \in [1..m -> Node] :
                /\ Chain(next, pmm_high, m, g) /\ \A j \in 1..m : IsHigh(g[j])
                /\ Placed(k, f, m, g)

Callers == INSTANCE FrameAllocator WITH Frame <- Node

(* The allocator implements FrameAllocator: pmm_alloc_low and              *)
(* pmm_alloc_high only ever hand out a frame that nobody holds.            *)
ImplementsFrameAllocator == Callers!Spec

(* "pmm: free: cannot find node!" (pmm.c:136) is an assertion: whoever     *)
(* frees a frame that it holds is not told that the frame is unknown.      *)
FreeFindsNode == phase # "cannot find node"
=============================================================================
