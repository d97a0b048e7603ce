------------------------------- MODULE Vmalloc ------------------------------
(***************************************************************************)
(* The kernel heap, src/src/mem/vmalloc.c: a list of blocks of whole pages *)
(* from vmm_alloc, each with a node header, a bitmap and 8-byte sections.  *)
(* Addresses and sizes are bytes.  A call of vmalloc or vrealloc goes on   *)
(* over the recursion of vmalloc: each round either finds room or adds a   *)
(* block.  The bitmap of a block is the set of its used sections, searched *)
(* and marked as in HeapBitmap.                                            *)
(***************************************************************************)
EXTENDS Integers, Sequences, FiniteSets, FiniteSetsExt

CONSTANTS
    PAGE_SIZE,  \* bytes in a page (4096)
    PerPage,    \* sections in a page (504)
    Request,    \* the sizes that callers ask for
    Pages,      \* bound: pages of virtual addresses (vmm_alloc)
    MaxChunks   \* bound: chunks in use at a time

(* Evaluated in module Heap.                                               *)
SizeAssumption ==
    /\ {PAGE_SIZE, PerPage, Pages, MaxChunks} \subseteq Nat \ {0}
    /\ Request \subseteq Nat
    /\ PerPage % 8 = 0 /\ PerPage * 8 + PerPage \div 8 <= PAGE_SIZE

VARIABLES
    heap,       \* the list of blocks from heap_head to heap_tail
    chunks,     \* the chunks that callers hold
    call,       \* the call of vmalloc or vrealloc in progress
    phase       \* "running", or how the kernel stopped

vars == <<heap, chunks, call, phase>>

SECTION_SIZE == 8
NodeHeader == 24        \* sizeof(struct HeapBitmapNode)
ChunkHeader == 8        \* sizeof(struct HeapBlockHeader)
NoCall == [size |-> 0, asked |-> 0, old |-> {}, grown |-> 0]

ceil_u64_div(a, b) ==
    LET floor == a \div b
    IN  IF floor * b = a THEN floor ELSE floor + 1

(* The bytes of a block of n sections behind its node header.              *)
BlockTotal(n) == n * SECTION_SIZE + ceil_u64_div(n, 8)

BlockPages(n) == ceil_u64_div(BlockTotal(n), PAGE_SIZE)

(* The block of n sections at page p that add_block sets up.               *)
NewNode(p, n) == [page |-> p, bitmap_size |-> n, total_size |-> BlockTotal(n), used |-> {}]

Mem(b)  == b.page * PAGE_SIZE + NodeHeader
Data(b) == Mem(b) + ceil_u64_div(b.bitmap_size, 8)

Span(p, n) == p..(p + n - 1)
Taken == UNION {Span(heap[k].page, BlockPages(heap[k].bitmap_size)) : k \in DOMAIN heap}

(* vmm_alloc finds pages that are not in use.                              *)
vmm_alloc(n) == {p \in 1..Pages : Span(p, n) \subseteq (1..Pages) \ Taken}

Init ==
    /\ heap = <<NewNode(1, PerPage)>>
    /\ chunks = {}
    /\ call = NoCall
    /\ phase = "running"

(* Where the runs of n free sections in block b begin that follow a used   *)
(* section or open the block.                                              *)
Runs(b, n) ==
    {s \in {0} \cup {k + 1 : k \in b.used} :
        s + n <= b.bitmap_size /\ b.used \cap Span(s, n) = {}}

(* The first block with room for n sections, or 0.                         *)
BlockWithRoom(n) ==
    LET hits == {k \in DOMAIN heap : Runs(heap[k], n) # {}}
    IN  IF hits = {} THEN 0 ELSE Min(hits)

(* Faulty variant: the lookup tests only where a block begins.             *)
BlockOf_open(a) ==
    LET hits == {k \in DOMAIN heap : Data(heap[k]) <= a}
    IN  IF hits = {} THEN 0 ELSE Min(hits)

(* The block in which vfree looks up the chunk header at a, or 0.          *)
BlockOf(a) ==
    LET hits == {k \in DOMAIN heap : Data(heap[k]) <= a /\ a <= Mem(heap[k]) + heap[k].total_size}
    IN  IF hits = {} THEN 0 ELSE Min(hits)

Header(c) == c.mem - ChunkHeader

(* Faulty variant: one section too many is cleared.                        *)
Sections_long(b, c) == Span((Header(c) - Data(b)) \div SECTION_SIZE, c.sections + 1)

(* The sections of chunk c of block b, by the arithmetic of vfree.         *)
Sections(b, c) == Span((Header(c) - Data(b)) \div SECTION_SIZE, c.sections)

(* The list without its k-th block.                                        *)
Unlinked(h, k) == [j \in 1..(Len(h) - 1) |-> h[IF j < k THEN j ELSE j + 1]]

(* vfree in heap h of a chunk that was looked up in block k, including     *)
(* release_if_unused: the head is kept, any other unused block released.   *)
Freed(h, k, c) ==
    LET g == [h EXCEPT ![k].used = @ \ Sections(h[k], c)]
    IN  IF k # 1 /\ g[k].used = {} THEN Unlinked(g, k) ELSE g

(* The bytes of chunk c reach beyond the pages of block b.                 *)
Overhangs(b, c) ==
    Header(c) + c.sections * SECTION_SIZE > (b.page + BlockPages(b.bitmap_size)) * PAGE_SIZE

vmalloc(size) ==
    /\ phase = "running" /\ call = NoCall /\ Cardinality(chunks) < MaxChunks
    /\ call' = [NoCall EXCEPT !.size = size + ChunkHeader, !.asked = size]
    /\ UNCHANGED <<heap, chunks, phase>>

vrealloc(c, size) ==
    /\ phase = "running" /\ call = NoCall
    /\ call' = [NoCall EXCEPT !.size = size + ChunkHeader, !.asked = size, !.old = {c}]
    /\ UNCHANGED <<heap, chunks, phase>>

(* A round of vmalloc finds room.  vrealloc then frees the old chunk.  The *)
(* owner writes to the chunk: what lies behind the block may be destroyed. *)
Return ==
    LET n == ceil_u64_div(call.size, SECTION_SIZE)
        k == BlockWithRoom(n)
        s == Min(Runs(heap[k], n))
        c == [mem |-> Data(heap[k]) + s * SECTION_SIZE + ChunkHeader,
              sections |-> n, asked |-> call.asked]
        h == [heap EXCEPT ![k].used = @ \cup Span(s, n)]
    IN  /\ phase = "running" /\ call # NoCall /\ k # 0
        /\ chunks' = (chunks \cup {c}) \ call.old
        /\ heap' = IF call.old = {} THEN h
                   ELSE LET o == CHOOSE x \in call.old : TRUE IN Freed(h, BlockOf(Header(o)), o)
        /\ call' = NoCall
        /\ phase' \in IF Overhangs(heap[k], c) THEN {"running", "overwritten"} ELSE {"running"}

(* A round finds no room: add_block, and vmalloc calls itself with a size  *)
(* that has the header added once more.                                    *)
Grow ==
    LET n == ceil_u64_div(call.size, PerPage * SECTION_SIZE) * PerPage
    IN  /\ phase = "running" /\ call # NoCall
        /\ BlockWithRoom(ceil_u64_div(call.size, SECTION_SIZE)) = 0
        /\ \/ /\ vmm_alloc(BlockPages(n)) = {}
              /\ phase' = "out_of_memory"
              /\ UNCHANGED <<heap, call>>
           \/ /\ \E p \in vmm_alloc(BlockPages(n)) : heap' = Append(heap, NewNode(p, n))
              /\ call' = [call EXCEPT !.size = @ + ChunkHeader, !.grown = @ + 1]
              /\ UNCHANGED phase
        /\ UNCHANGED chunks

(* A chunk that is in no block panics: "vfree: something is very wrong".   *)
vfree(c) ==
    LET k == BlockOf(Header(c))
    IN  /\ phase = "running" /\ call = NoCall
        /\ k # 0
        /\ heap' = Freed(heap, k, c)
        /\ chunks' = chunks \ {c}
        /\ UNCHANGED <<call, phase>>

Next ==
    \/ \E size \in Request : vmalloc(size) \/ \E c \in chunks : vrealloc(c, size)
    \/ Return \/ Grow
    \/ \E c \in chunks : vfree(c)

Spec == Init /\ [][Next]_vars

-----------------------------------------------------------------------------

TypeOK ==
    /\ \A k \in DOMAIN heap :
          /\ heap[k].page \in 1..Pages /\ heap[k].bitmap_size % PerPage = 0
          /\ heap[k].used \subseteq 0..(heap[k].bitmap_size - 1)
    /\ \A c \in chunks : c.mem \in Nat /\ c.sections \in Nat /\ c.asked \in Request
    /\ call.size \in Nat /\ call.grown \in Nat /\ call.old \subseteq chunks
    /\ phase \in {"running", "searching", "out_of_memory", "overwritten"}

(* No two chunks share a byte, across blocks too, each is as long as its   *)
(* caller asked for, and it reaches behind the pages of its block by no    *)
(* more than the node header that add_block leaves out of its sum.         *)
ChunksDisjoint ==
    /\ \A c \in chunks, k \in DOMAIN heap : BlockOf(Header(c)) = k =>
          Header(c) + c.sections * SECTION_SIZE
              <= (heap[k].page + BlockPages(heap[k].bitmap_size)) * PAGE_SIZE + NodeHeader
    /\ \A c \in chunks : c.sections * SECTION_SIZE - ChunkHeader >= c.asked
    /\ \A c, d \in chunks : c # d =>
          \/ Header(c) + c.sections * SECTION_SIZE <= Header(d)
          \/ Header(d) + d.sections * SECTION_SIZE <= Header(c)

(* vfree finds the block of every chunk (it does not panic), and the used  *)
(* sections of a block are exactly those of the chunks that vfree will     *)
(* find there, each of one chunk: none leaks and none is freed early.  The *)
(* recursion of vmalloc ends after two rounds at most, although each asks  *)
(* for 8 bytes more than the block added by the one before was made for.   *)
SectionsAccountedFor ==
    /\ TypeOK /\ call.grown <= 2
    /\ \A c \in chunks : BlockOf(Header(c)) # 0
    /\ \A k \in DOMAIN heap :
          LET mine == {c \in chunks : BlockOf(Header(c)) = k}
          IN  /\ heap[k].used = UNION {Sections(heap[k], c) : c \in mine}
              /\ \A c, d \in mine : c # d => Sections(heap[k], c) \cap Sections(heap[k], d) = {}

(* "in a block with 504 sections: 63 byte bitmap, 4032 byte data": they    *)
(* fit into the pages of the block.  add_block does not keep this.         *)
ChunksInsidePages ==
    \A c \in chunks : ~Overhangs(heap[BlockOf(Header(c))], c)
=============================================================================
