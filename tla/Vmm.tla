-------------------------------- MODULE Vmm ---------------------------------
(***************************************************************************)
(* The allocator of kernel virtual addresses, src/src/mem/vmm.c.  Its free *)
(* list is a doubly linked list over nodes that live in whole pages: used  *)
(* nodes describe free blocks, empty ones (start and size 0) wait at the   *)
(* tail.  The list is kept as one record of its fields and updated in the  *)
(* order of the code's assignments.  Addresses and sizes are in pages,     *)
(* counted from 1.  The list of allocated blocks is a function from start  *)
(* to pages; it grows page by page, and its order has no effect.           *)
(***************************************************************************)
EXTENDS Naturals, FiniteSets, FiniteSetsExt

CONSTANTS
    V,          \* pages of virtual addresses to give away
    K,          \* list nodes in a page (128)
    MaxPages    \* bound: pages of list nodes

ASSUME SizeAssumption == V \in Nat \ {0} /\ K \in Nat \ {0, 1} /\ MaxPages \in Nat \ {0}

VARIABLES
    list,       \* the fields of every node, vmm_head, vmm_tail, and pages in use
    alloc,      \* the allocated blocks
    backed,     \* the virtual pages mapped to a frame of their own
    full,       \* history: every list node has been in use at once
    phase       \* "running", or how the kernel stopped

vars == <<list, alloc, backed, full, phase>>

Node == 1..(K * MaxPages)
NULL == 0

(* The pages of the block of n pages at a.                                 *)
Block(a, n) == a..(a + n - 1)

(* set_up_page_for_free_list: the nodes of page p are linked up, and its   *)
(* last one becomes the tail; nothing links to the page yet.               *)
SetUpPage(l, p) ==
    LET first == (p - 1) * K + 1
        last  == p * K
    IN  [l EXCEPT
          !.prev = [n \in Node |-> IF n \in first..last
                                   THEN IF n = first THEN NULL ELSE n - 1 ELSE @[n]],
          !.next = [n \in Node |-> IF n \in first..last
                                   THEN IF n = last THEN NULL ELSE n + 1 ELSE @[n]],
          !.tail = last,
          !.pages = p]

Init ==
    LET zero == [n \in Node |-> 0]
        l    == [start |-> zero, size |-> zero, prev |-> zero, next |-> zero,
                 head |-> 1, tail |-> NULL, pages |-> 0]
    IN  /\ list = [SetUpPage(l, 1) EXCEPT !.start[1] = 1, !.size[1] = V]
        /\ alloc = <<>>
        /\ backed = {}
        /\ full = FALSE
        /\ phase = "running"

(* Where a walk along next from vmm_head is after i steps.                 *)
Walk(l) ==
    LET w[i \in 0..(K * MaxPages)] ==
            IF i = 0 THEN l.head
            ELSE LET m == w[i - 1] IN IF m = NULL THEN NULL ELSE l.next[m]
    IN  w

(* The first node of the walk that is in S, or NULL.                       *)
First(l, S) ==
    LET w    == Walk(l)
        hits == {i \in DOMAIN w : w[i] \in S}
    IN  IF hits = {} THEN NULL ELSE w[Min(hits)]

(* The kernel halts in the middle of a call.                               *)
Stop(how) == phase' = how /\ UNCHANGED <<list, alloc, backed, full>>

(* The list becomes l; a tail node in use means that all nodes are.        *)
SetList(l) ==
    /\ list' = l
    /\ full' = (full \/ l.size[l.tail] # 0)

(* Faulty variant: the node behind keeps its link to the removed one.      *)
vmm_list_remove_node_half(l, n) ==
    LET empty == [l EXCEPT !.start[n] = 0, !.size[n] = 0]
        out   == IF l.prev[n] # NULL
                 THEN [empty EXCEPT !.next[empty.prev[n]] = empty.next[n]]
                 ELSE [empty EXCEPT !.head = empty.next[n]]
        moved == [out EXCEPT !.next[n] = NULL, !.prev[n] = out.tail]
    IN  [moved EXCEPT !.next = [@ EXCEPT ![moved.tail] = n], !.tail = n]

(* Empty node n, unlink it and append it at the tail.  A tail node has no  *)
(* successor to correct, and is appended to itself.                        *)
vmm_list_remove_node(l, n) ==
    LET empty == [l EXCEPT !.start[n] = 0, !.size[n] = 0]
        back  == IF empty.next[n] # NULL
                 THEN [empty EXCEPT !.prev[empty.next[n]] = empty.prev[n]] ELSE empty
        out   == IF back.prev[n] # NULL
                 THEN [back EXCEPT !.next[back.prev[n]] = back.next[n]]
                 ELSE [back EXCEPT !.head = back.next[n]]
        moved == [out EXCEPT !.next[n] = NULL, !.prev[n] = out.tail]
    IN  [moved EXCEPT !.next = [@ EXCEPT ![moved.tail] = n], !.tail = n]

alloc_list_add_node(a, pages) ==
    [b \in DOMAIN alloc \cup {a} |-> IF b = a THEN pages ELSE alloc[b]]

alloc_list_find_and_remove(a) == [b \in DOMAIN alloc \ {a} |-> alloc[b]]

(* Faulty variant: a block cut from a free block leaves its start behind.  *)
vmm_alloc_keep_start(pages) ==
    LET n == First(list, {m \in Node : list.size[m] >= pages})
        a == list.start[n]
    IN  /\ phase = "running" /\ n # NULL
        /\ SetList(IF list.size[n] = pages THEN vmm_list_remove_node(list, n)
                   ELSE [list EXCEPT !.size[n] = @ - pages])
        /\ alloc' = alloc_list_add_node(a, pages)
        /\ backed' = backed \cup Block(a, pages)
        /\ UNCHANGED phase

(* First fit: an exact fit removes the node, otherwise it shrinks.  Every  *)
(* page gets a frame of its own.                                           *)
vmm_alloc(pages) ==
    LET n == First(list, {m \in Node : list.size[m] >= pages})
        a == list.start[n]
    IN  /\ phase = "running"
        /\ \/ /\ n = NULL
              /\ Stop("out of memory")
           \/ /\ n # NULL
              /\ SetList(IF list.size[n] = pages THEN vmm_list_remove_node(list, n)
                         ELSE [list EXCEPT !.start[n] = @ + pages, !.size[n] = @ - pages])
              /\ alloc' = alloc_list_add_node(a, pages)
              /\ backed' = backed \cup Block(a, pages)
              /\ UNCHANGED phase

(* Node m takes in the block from a up to but excluding e, which borders   *)
(* on it to the right or else to the left.                                 *)
Borders(l, m, a, e) == a = l.start[m] + l.size[m] \/ e = l.start[m]

Expand(l, m, a, e) ==
    [l EXCEPT !.start[m] = IF a = @ + l.size[m] THEN @ ELSE @ - (e - a),
              !.size[m] = l.size[m] + (e - a)]

(* The second merge: another node that borders on the grown one takes it   *)
(* in, and the grown one is removed.                                       *)
MergeAgain(l, m) ==
    LET a     == l.start[m]
        e     == a + l.size[m]
        other == First(l, {k \in Node : Borders(l, k, a, e)})
    IN  IF other = NULL THEN l
        ELSE vmm_list_remove_node(Expand(l, other, a, e), m)

(* A page of nodes is set up and linked to the last node of the list.      *)
AppendPage(l) ==
    LET last == First(l, {k \in Node : l.next[k] = NULL})
    IN  [SetUpPage(l, l.pages + 1) EXCEPT !.next[last] = l.pages * K + 1]

(* The tail node moves to the head and describes the pages at a.           *)
TailToHead(l, a, pages) ==
    LET n     == l.tail
        cut   == [l EXCEPT !.tail = l.prev[n], !.next[l.prev[n]] = NULL]
        moved == [cut EXCEPT !.prev[n] = NULL, !.next[n] = cut.head,
                             !.start[n] = a, !.size[n] = pages]
    IN  [moved EXCEPT !.prev[moved.head] = n, !.head = n]

(* No node to merge with: the tail node takes the block.  If it is in use  *)
(* a page of nodes is appended first.                                      *)
PushHead(l, a, pages) ==
    TailToHead(IF l.start[l.tail] # 0 THEN AppendPage(l) ELSE l, a, pages)

(* Without a block to merge with, the code follows vmm_head and writes     *)
(* through the pointer to the node before the tail.                        *)
CanPush(l) ==
    /\ l.head # NULL
    /\ (l.start[l.tail] # 0 \/ l.prev[l.tail] # NULL)

(* Bound: a used tail asks for a page of nodes.                            *)
PageLeft(l) == l.start[l.tail] # 0 => l.pages < MaxPages

(* Faulty variant: the frame of the first page of the block is not freed.  *)
vmm_free_leak(a) ==
    LET e == a + alloc[a]
        m == First(list, {k \in Node : Borders(list, k, a, e)})
    IN  /\ phase = "running"
        /\ (m # NULL \/ (CanPush(list) /\ PageLeft(list)))
        /\ SetList(IF m # NULL THEN MergeAgain(Expand(list, m, a, e), m)
                   ELSE PushHead(list, a, alloc[a]))
        /\ alloc' = alloc_list_find_and_remove(a)
        /\ backed' = backed \ Block(a + 1, alloc[a] - 1)
        /\ UNCHANGED phase

(* Free the block at a: its frames are released, and its addresses merged  *)
(* into the free list.                                                     *)
vmm_free(a) ==
    LET e == a + alloc[a]
        m == First(list, {k \in Node : Borders(list, k, a, e)})
    IN  /\ phase = "running"
        /\ \/ /\ m = NULL /\ ~CanPush(list)
              /\ Stop("null dereference")
           \/ /\ m # NULL \/ (CanPush(list) /\ PageLeft(list))
              /\ SetList(IF m # NULL THEN MergeAgain(Expand(list, m, a, e), m)
                         ELSE PushHead(list, a, alloc[a]))
              /\ alloc' = alloc_list_find_and_remove(a)
              /\ backed' = backed \ Block(a, alloc[a])
              /\ UNCHANGED phase

Next ==
    \/ \E pages \in 1..V : vmm_alloc(pages)
    \/ \E a \in DOMAIN alloc : vmm_free(a)

Spec == Init /\ [][Next]_vars

-----------------------------------------------------------------------------

TypeOK ==
    /\ list.start \in [Node -> 0..V] /\ list.size \in [Node -> 0..V]
    /\ list.prev \in [Node -> Node \cup {NULL}] /\ list.next \in [Node -> Node \cup {NULL}]
    /\ {list.head, list.tail} \subseteq Node \cup {NULL} /\ list.pages \in 1..MaxPages
    /\ DOMAIN alloc \subseteq 1..V /\ \A a \in DOMAIN alloc : alloc[a] \in 1..V
    /\ backed \subseteq 1..V /\ full \in BOOLEAN
    /\ phase \in {"running", "out of memory", "null dereference"}

(* The nodes on the list that describe a free block.                       *)
Used == {n \in {Walk(list)[i] : i \in DOMAIN Walk(list)} \ {NULL} : list.size[n] # 0}

(* The blocks, free or allocated, that virtual page p is in.               *)
FreeBlocksOf(p) == {n \in Used : p \in Block(list.start[n], list.size[n])}
AllocatedBlocksOf(p) == {a \in DOMAIN alloc : p \in Block(a, alloc[a])}
BlocksOf(p) == Cardinality(FreeBlocksOf(p)) + Cardinality(AllocatedBlocksOf(p))

(* No virtual page is in two blocks at once, allocated or on the list, and *)
(* as long as the nodes have not all been in use none is lost.  (When they *)
(* have, vmm_list_remove_node may be asked to remove the tail.)            *)
AddressesAccountedFor ==
    \A p \in 1..V : BlocksOf(p) <= 1 /\ (~full => BlocksOf(p) = 1)

(* "Add virtual addresses back to linked list for future use": no address  *)
(* is lost, even if the nodes have all been in use.  vmm_free does not     *)
(* keep this.                                                              *)
NoAddressLost == \A p \in 1..V : BlocksOf(p) = 1

(* The loops of vmm_alloc and vmm_free along next end, always: the list    *)
(* never closes into a ring, although a removed tail node points to        *)
(* itself.  And until all nodes have been in use the list keeps its shape: *)
(* it is linked both ways from vmm_head to vmm_tail, it holds every node,  *)
(* the used nodes come first (vmm_free relies on an unused tail node), and *)
(* no two of their blocks are neighbours, so that a request fails only if  *)
(* no run of free pages is long enough.                                    *)
ListWellFormed ==
    LET w == Walk(list)
        k == K * list.pages
    IN  /\ TypeOK
        /\ w[K * MaxPages] = NULL
        /\ ~full =>
              /\ \A i \in 0..(k - 1) :
                    w[i] # NULL /\ list.prev[w[i]] = IF i = 0 THEN NULL ELSE w[i - 1]
              /\ \A i, j \in 0..(k - 1) : w[i] = w[j] => i = j
              /\ w[k - 1] = list.tail /\ list.next[list.tail] = NULL
              /\ \A i \in 1..(k - 1) : list.size[w[i]] # 0 => list.size[w[i - 1]] # 0
              /\ \A m, n \in Used : list.start[m] + list.size[m] # list.start[n]

(* Exactly the allocated pages have a frame, always.                       *)
FramesFollowBlocks == backed = UNION {Block(a, alloc[a]) : a \in DOMAIN alloc}
=============================================================================
