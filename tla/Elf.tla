-------------------------------- MODULE Elf ---------------------------------
(***************************************************************************)
(* The program loader, elf_load in src/src/proc/elf.c: for each segment to *)
(* load it takes frames, maps them, copies the segment through its virtual *)
(* addresses and clears the rest; then it maps the stack.  It returns a    *)
(* context that lists the frames.                                          *)
(***************************************************************************)
EXTENDS Integers, Sequences, FiniteSets

CONSTANTS
    PAGE_SIZE,
    Program,        \* sequences of program headers that a file may have
    VPages,         \* pages of virtual memory below the stack
    StackPages      \* pages of the stack

ASSUME ElfAssumption == PAGE_SIZE \in Nat \ {0} /\ VPages \in Nat /\ StackPages \in Nat \ {0}

VARIABLES
    ph,         \* the program headers of the file
    pc,         \* the step: "open", "map", "copy", "stack", or how it ended
    i, j,       \* the header and the page that are next
    pages,      \* the frames of the current segment (segment_pages)
    ctx,        \* ctx.segments, ctx.proc_stack_pages
    frames,     \* frames taken from pmm_alloc_high so far: 1..frames
    table,      \* the page table, 0 where nothing is mapped
    mem         \* the bytes of each frame

vars == <<ph, pc, i, j, pages, ctx, frames, table, mem>>

(* Bytes: of the file (segment and offset), zero, or what a frame held.    *)
Junk == <<"junk">>
Zero == <<"zero">>
FileByte(s, o) == <<"file", s, o>>

NoContext == [segments |-> <<>>, stack |-> <<>>]

ceil_u64_div(a, b) == (a + b - 1) \div b

LOWER_HALF_MEM_MAX == (VPages + StackPages) * PAGE_SIZE
PageOf(addr) == addr \div PAGE_SIZE

Init ==
    /\ ph \in Program
    /\ pc = "open" /\ i = 1 /\ j = 0
    /\ pages = <<>> /\ ctx = NoContext
    /\ frames = 0
    /\ table = [p \in 0..(VPages + StackPages) |-> 0]
    /\ mem = <<>>

(* failure1, failure2: the file is missing or its header is not accepted.  *)
Fail ==
    /\ pc = "open"
    /\ pc' = "failed"
    /\ UNCHANGED <<ph, i, j, pages, ctx, frames, table, mem>>

Accept ==
    /\ pc = "open"
    /\ pc' = "map"
    /\ UNCHANGED <<ph, i, j, pages, ctx, frames, table, mem>>

(* A header that is not of a segment to load (p_type 1) is skipped.        *)
Skip ==
    /\ pc = "map" /\ i <= Len(ph) /\ ~ph[i].load
    /\ i' = i + 1
    /\ UNCHANGED <<ph, pc, j, pages, ctx, frames, table, mem>>

(* pmm_alloc_high and page_map of the page of addr.                        *)
TakeFrame(addr) ==
    /\ frames' = frames + 1
    /\ table' = [table EXCEPT ![PageOf(addr)] = frames + 1]
    /\ mem' = Append(mem, [o \in 0..(PAGE_SIZE - 1) |-> Junk])

(* Faulty variant: one page fewer, as if the size were rounded down.       *)
segment_num_pages_floor(s) == s.memsz \div PAGE_SIZE

segment_num_pages(s) == ceil_u64_div(s.memsz, PAGE_SIZE)

MapPage ==
    /\ pc = "map" /\ i <= Len(ph) /\ ph[i].load
    /\ j < segment_num_pages(ph[i])
    /\ TakeFrame(ph[i].vaddr + j * PAGE_SIZE)
    /\ pages' = Append(pages, frames + 1)
    /\ j' = j + 1
    /\ UNCHANGED <<ph, pc, i, ctx>>

(* memcpy and memset through the mapped addresses, and the new entry of    *)
(* ctx.segments; a byte on a page that is not mapped is a page fault.      *)
Copy ==
    LET s == ph[i]
        addresses == s.vaddr..(s.vaddr + s.memsz - 1)
        at(f, o)  == {a \in addresses : table[PageOf(a)] = f /\ a % PAGE_SIZE = o}
        byte(a)   == IF a - s.vaddr < s.filesz THEN FileByte(i, a - s.vaddr) ELSE Zero
    IN  /\ pc = "map" /\ i <= Len(ph) /\ s.load
        /\ j = segment_num_pages(s)
        /\ \/ /\ \E a \in addresses : table[PageOf(a)] = 0
              /\ pc' = "page fault"
              /\ UNCHANGED <<i, j, pages, ctx, mem>>
           \/ /\ \A a \in addresses : table[PageOf(a)] # 0
              /\ mem' = [f \in 1..frames |-> [o \in 0..(PAGE_SIZE - 1) |->
                           IF at(f, o) = {} THEN mem[f][o] ELSE byte(CHOOSE a \in at(f, o) : TRUE)]]
              /\ ctx' = [ctx EXCEPT !.segments = Append(@, [vaddr |-> s.vaddr, pages |-> pages])]
              /\ i' = i + 1 /\ j' = 0 /\ pages' = <<>>
              /\ UNCHANGED pc
        /\ UNCHANGED <<ph, frames, table>>

(* Faulty variant: the frame is not entered in ctx.proc_stack_pages.       *)
MapStack_unlisted ==
    /\ pc = "map" /\ i > Len(ph) /\ j < StackPages
    /\ TakeFrame(LOWER_HALF_MEM_MAX - (StackPages - j) * PAGE_SIZE)
    /\ j' = j + 1
    /\ UNCHANGED <<ph, pc, i, pages, ctx>>

MapStack ==
    /\ pc = "map" /\ i > Len(ph) /\ j < StackPages
    /\ TakeFrame(LOWER_HALF_MEM_MAX - (StackPages - j) * PAGE_SIZE)
    /\ ctx' = [ctx EXCEPT !.stack = Append(@, frames + 1)]
    /\ j' = j + 1
    /\ UNCHANGED <<ph, pc, i, pages>>

Return ==
    /\ pc = "map" /\ i > Len(ph) /\ j = StackPages
    /\ pc' = "loaded"
    /\ UNCHANGED <<ph, i, j, pages, ctx, frames, table, mem>>

Next == Fail \/ Accept \/ Skip \/ MapPage \/ Copy \/ MapStack \/ Return

Spec == Init /\ [][Next]_vars

-----------------------------------------------------------------------------

TypeOK ==
    /\ pc \in {"open", "map", "loaded", "failed", "page fault"}
    /\ i \in 1..(Len(ph) + 1) /\ j \in Nat /\ frames \in Nat
    /\ \A p \in DOMAIN table : table[p] \in 0..frames
    /\ Len(mem) = frames /\ \A k \in DOMAIN pages : pages[k] \in 1..frames

(* The byte that the program finds at an address.                          *)
ByteAt(a) == IF table[PageOf(a)] = 0 THEN Junk ELSE mem[table[PageOf(a)]][a % PAGE_SIZE]

Loaded(k) ==
    \A o \in 0..(ph[k].memsz - 1) :
        ByteAt(ph[k].vaddr + o) = IF o < ph[k].filesz THEN FileByte(k, o) ELSE Zero

(* A loader gives every segment its p_memsz bytes: what the file has for   *)
(* it, and zero behind that ("we need to allocate p_memsz bytes for the    *)
(* segment").  elf_load does not keep this.                                *)
SegmentsLoaded ==
    pc \in {"loaded", "page fault"} => \A k \in 1..Len(ph) : ph[k].load => Loaded(k)

PagesOf(k) == PageOf(ph[k].vaddr)..PageOf(ph[k].vaddr + ph[k].memsz - 1)

Alone(k) == \A m \in 1..Len(ph) : m # k /\ ph[m].load => PagesOf(k) \cap PagesOf(m) = {}

(* elf_load gives a segment that shares no page with another its p_memsz   *)
(* bytes, and it faults only in one that does not start on a page.         *)
SegmentsAloneLoaded ==
    /\ pc = "loaded" => \A k \in 1..Len(ph) : ph[k].load /\ Alone(k) => Loaded(k)
    /\ pc = "page fault" => ph[i].vaddr % PAGE_SIZE # 0

Listed ==
    UNION {{ctx.segments[k].pages[m] : m \in DOMAIN ctx.segments[k].pages} : k \in DOMAIN ctx.segments}
        \cup {ctx.stack[m] : m \in DOMAIN ctx.stack}

(* The context lists every frame that was taken, also one that a later     *)
(* mapping of the same page has replaced, so that all can be given back    *)
(* when the program ends.                                                  *)
ContextComplete == TypeOK /\ (pc = "loaded" => Listed = 1..frames)
=============================================================================
