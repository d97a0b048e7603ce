----------------------------- MODULE PageTable ------------------------------
(***************************************************************************)
(* The page tables, src/src/mem/page.c: a PML4 and below it tables of      *)
(* three levels (PDPT, PDT, PT), each in a page frame from kcalloc_page.   *)
(* A virtual page is the tuple of its four indexes.  The free frames are a *)
(* stack, as pmm_low is.  A freed table keeps its contents, and whatever   *)
(* points to it, until its frame is handed out and cleared again.          *)
(***************************************************************************)
EXTENDS Integers, Sequences, FiniteSets, Functions

CONSTANTS
    Index,      \* indexes into a table (0..511)
    KernelPage, \* virtual pages that are mapped for the kernel
    UserPage,   \* virtual pages that are mapped for programs
    Frame,      \* page frames below 2 GiB, for tables
    LowAlias,   \* for some of them, the virtual page with the same address
    Phys        \* page frames that pages are mapped to

PML4 == 0
Table == Frame \cup {PML4}
VPage == KernelPage \cup UserPage

ASSUME PageAssumption ==
    /\ Frame \subseteq Nat \ {PML4} /\ PML4 \notin Phys /\ -1 \notin Phys
    /\ \E few \in SUBSET Frame : LowAlias \in [few -> UserPage]
    /\ VPage \subseteq Index \X Index \X Index \X Index
    /\ IsFiniteSet(Frame)

(* Programs are in the lower half of the address space, what the kernel    *)
(* maps is in the upper half: they share no entry of the PML4.             *)
ASSUME HalvesAssumption == \A k \in KernelPage, u \in UserPage : k[1] # u[1]

VARIABLES
    mem,        \* mem.tables: the entries of each table, mem.free: the free frames
    want,       \* for each virtual page, what it was last mapped to
    remapped,   \* pages that were mapped while they were mapped
    late,       \* pages that were mapped through a table in the free list
    aliased,    \* pages that pmm_alloc_high has unmapped
    tlb,        \* the translations the processor has cached, 0 if none
    reused,     \* a frame was handed out while the page tables led to it
    phase       \* "running", or how the kernel stopped

vars == <<mem, want, remapped, late, aliased, tlb, reused, phase>>

(* A table that was handed out again holds what its new owner writes: the  *)
(* model ends there.                                                       *)
Running == phase = "running" /\ ~reused

(* An entry that is not present; the address is left in it.                *)
Absent == [to |-> 0, user |-> FALSE]
Present(e) == e # Absent

Empty == [i \in Index |-> Absent]
Unmapped == Absent

Init ==
    /\ \E order \in [1..Cardinality(Frame) -> Frame] :
          /\ \A a, b \in DOMAIN order : order[a] <= order[b] <=> a <= b
          /\ mem = [tables |-> [t \in Table |-> Empty], free |-> order]
    /\ want = [v \in VPage |-> Unmapped]
    /\ remapped = {} /\ late = {} /\ aliased = {}
    /\ tlb = [v \in VPage |-> 0]
    /\ reused = FALSE
    /\ phase = "running"

(* The table that page v reaches at a level: 1 is the PML4, 4 the PT.      *)
At(m, v, level) ==
    LET step(t, i) == IF t = -1 \/ ~Present(m.tables[t][i]) THEN -1 ELSE m.tables[t][i].to
        t2 == step(PML4, v[1])
        t3 == step(t2, v[2])
        t4 == step(t3, v[3])
    IN  <<PML4, t2, t3, t4>>[level]

(* 0 if an entry on the way is not present.                                *)
page_virt_to_phys_addr(v) ==
    LET pt == At(mem, v, 4)
    IN  IF pt = -1 \/ ~Present(mem.tables[pt][v[4]]) THEN 0 ELSE mem.tables[pt][v[4]].to

(* The tables on the way of page v, and all that the page tables lead to.  *)
TablesOf(m, v) == {At(m, v, level) : level \in 2..4} \ {-1}
Reachable(m) == UNION {TablesOf(m, v) : v \in VPage}

(* Entry i of table t gets a new, cleared table.                           *)
NewTable(m, t, i, user) ==
    LET f == Head(m.free)
    IN  [tables |-> [[m.tables EXCEPT ![f] = Empty] EXCEPT ![t][i] = [to |-> f, user |-> user]],
         free |-> Tail(m.free)]

(* Faulty variant: tables are never open to programs.                      *)
Ensure_kernel(m, v, level, user) ==
    LET t == At(m, v, level)
    IN  IF Present(m.tables[t][v[level]]) THEN m ELSE NewTable(m, t, v[level], FALSE)

(* A missing table below entry v[level] is allocated.  A table that exists *)
(* keeps its flags.                                                        *)
Ensure(m, v, level, user) ==
    LET t == At(m, v, level)
    IN  IF Present(m.tables[t][v[level]]) THEN m ELSE NewTable(m, t, v[level], user)

(* How many tables page_map allocates.                                     *)
Missing(v) == Cardinality({level \in 2..4 : At(mem, v, level) = -1})

page_map(v, phys, user) ==
    LET need == Missing(v)
        m    == Ensure(Ensure(Ensure(mem, v, 1, user), v, 2, user), v, 3, user)
        pt   == At(m, v, 4)
    IN  /\ Running
        /\ \/ /\ need > Len(mem.free)
              /\ phase' = "out_of_memory" /\ UNCHANGED <<mem, want, remapped, late, aliased, tlb, reused>>
           \/ /\ need <= Len(mem.free)
              /\ mem' = [m EXCEPT !.tables[pt][v[4]] = [to |-> phys, user |-> user]]
              /\ want' = [want EXCEPT ![v] = [to |-> phys, user |-> user]]
              /\ remapped' = IF want[v] # Unmapped THEN remapped \cup {v} ELSE remapped
              /\ late' = IF TablesOf(mem, v) \cap Range(mem.free) # {}
                         THEN late \cup {v} ELSE late \ {v}
              /\ aliased' = aliased \ {v}
              /\ reused' = (\E k \in 1..need : mem.free[k] \in Reachable(mem))
              /\ UNCHANGED <<tlb, phase>>

(* Faulty variant: a table is freed if v is alone in it, whatever the      *)
(* tables below hold.                                                      *)
AloneFrom_itself(m, v, first) ==
    {level \in first..4 : \A i \in Index \ {v[level]} :
                               ~Present(m.tables[At(m, v, level)][i])}

(* The levels from `first' on at which v is alone in its table and in      *)
(* every table below.                                                      *)
AloneFrom(m, v, first) ==
    {level \in first..4 : \A l \in level..4 : \A i \in Index \ {v[l]} :
                               ~Present(m.tables[At(m, v, l)][i])}

(* The tables that page_unmap frees, in the order PDPT, PDT, PT.  The      *)
(* entries that point to them stay.                                        *)
Freed(m, v) ==
    LET n == Cardinality(AloneFrom(m, v, 2)) IN [k \in 1..n |-> At(m, v, k + 4 - n)]

(* pmm_free pushes each frame onto the free list.                          *)
Push(s, free) == [k \in 1..Len(s) |-> s[Len(s) + 1 - k]] \o free

FreesAgain(m, v) == Range(Freed(m, v)) \cap Range(m.free) # {}

(* Faulty variant: it returns once it has freed a table.                   *)
Cleared_return(m, v) ==
    [tables |-> IF Freed(m, v) # <<>> THEN m.tables
                ELSE [m.tables EXCEPT ![At(m, v, 4)][v[4]] = Absent],
     free |-> Push(Freed(m, v), m.free)]

(* What page_unmap leaves in memory.                                       *)
Cleared(m, v) ==
    [tables |-> [m.tables EXCEPT ![At(m, v, 4)][v[4]] = Absent],
     free |-> Push(Freed(m, v), m.free)]

(* Faulty variant: the processor's copy is not invalidated.                *)
Invalidate_not(v) == UNCHANGED tlb

(* Only an entry that is present is cleared and invalidated (invplg).      *)
Invalidate(v) ==
    tlb' = IF Present(mem.tables[At(mem, v, 4)][v[4]]) THEN [tlb EXCEPT ![v] = 0] ELSE tlb

(* Unmapping v with memory m; nothing can be said of memory once a table   *)
(* is freed that is in the free list.                                      *)
Unmap(m, v) ==
    \/ /\ FreesAgain(m, v)
       /\ phase' = "freed_twice" /\ UNCHANGED <<mem, tlb>>
    \/ /\ ~FreesAgain(m, v)
       /\ mem' = Cleared(m, v) /\ Invalidate(v) /\ UNCHANGED phase

(* It does nothing if a table on the way is missing.                       *)
page_unmap(v) ==
    /\ Running /\ At(mem, v, 4) # -1
    /\ Unmap(mem, v)
    /\ want' = [want EXCEPT ![v] = Unmapped]
    /\ remapped' = remapped \ {v} /\ late' = late \ {v} /\ aliased' = aliased \ {v}
    /\ UNCHANGED reused

(* With no frame left above 2 GiB, pmm_alloc_high takes one below and      *)
(* calls page_unmap with its physical address: the page of a program with  *)
(* the same virtual address is unmapped.                                   *)
pmm_alloc_high ==
    /\ Running /\ mem.free # <<>>
    /\ LET low  == Head(mem.free)
           m    == [mem EXCEPT !.free = Tail(@)]
           hits == low \in DOMAIN LowAlias /\ At(m, LowAlias[low], 4) # -1
       IN  /\ \/ ~hits /\ mem' = m /\ UNCHANGED <<aliased, tlb, phase>>
              \/ /\ hits /\ Unmap(m, LowAlias[low])
                 /\ aliased' = aliased \cup {v \in {LowAlias[low]} : want[v] # Unmapped}
           /\ reused' = (low \in Reachable(mem))
           /\ UNCHANGED <<want, remapped, late>>

(* Another part of the kernel takes a page and clears it.                  *)
kcalloc_page ==
    /\ Running /\ mem.free # <<>>
    /\ mem' = [tables |-> [mem.tables EXCEPT ![Head(mem.free)] = Empty], free |-> Tail(mem.free)]
    /\ reused' = (Head(mem.free) \in Reachable(mem))
    /\ UNCHANGED <<want, remapped, late, aliased, tlb, phase>>

(* The processor uses page v and caches its translation.                   *)
Access(v) ==
    /\ Running /\ tlb[v] = 0 /\ page_virt_to_phys_addr(v) # 0
    /\ tlb' = [tlb EXCEPT ![v] = page_virt_to_phys_addr(v)]
    /\ UNCHANGED <<mem, want, remapped, late, aliased, reused, phase>>

Next ==
    \/ \E v \in KernelPage, p \in Phys : page_map(v, p, FALSE)
    \/ \E v \in UserPage, p \in Phys : page_map(v, p, TRUE)
    \/ \E v \in VPage : page_unmap(v)
    \/ pmm_alloc_high
    \/ kcalloc_page
    \/ \E v \in VPage : Access(v)

Spec == Init /\ [][Next]_vars

-----------------------------------------------------------------------------

TypeOK ==
    /\ \A t \in Table, i \in Index : mem.tables[t][i].to \in Table \cup Phys
    /\ \A k \in DOMAIN mem.free : mem.free[k] \in Frame
    /\ want \in [VPage -> [to : Phys \cup {0}, user : BOOLEAN]]
    /\ {remapped, late, aliased} \subseteq SUBSET VPage /\ tlb \in [VPage -> Phys \cup {0}]
    /\ reused \in BOOLEAN
    /\ phase \in {"running", "out_of_memory", "freed_twice"}

(* A virtual page translates to the frame that it was last mapped to, and  *)
(* an unmapped one to nothing (vmm_alloc: "unmap virtual address, allocate *)
(* page frame, map to new page frame").  page_unmap does not keep this.    *)
Translates ==
    \A v \in VPage : page_virt_to_phys_addr(v) = IF v \in aliased THEN 0 ELSE want[v].to

(* This holds until the frame of a table that page_unmap has freed is      *)
(* handed out again, although the page tables go on using freed tables;    *)
(* but a page of a program is lost if pmm_alloc_high hands out the frame   *)
(* below 2 GiB with its address.                                           *)
TranslatesUntilReuse == TypeOK /\ (Running => Translates)

(* Until then too, a page of a program is open to it at every level, and   *)
(* a page of the kernel is not: the flag of a table that is shared was set *)
(* by whoever came first.                                                  *)
ProtectionUntilReuse ==
    Running => \A v \in VPage \ aliased : want[v] # Unmapped =>
        (\A level \in 1..4 : mem.tables[At(mem, v, level)][v[level]].user) <=> want[v].user

(* page_unmap never frees a table that another page still needs: a page    *)
(* lies below a freed table only if it was mapped through it afterwards,   *)
(* as the entries that lead there stay.  So only unmapping such a page, or *)
(* one that is not mapped, frees a table for the second time.              *)
FreedTablesUnneeded ==
    Running => \A v \in VPage \ (late \cup aliased) :
        want[v] # Unmapped => TablesOf(mem, v) \cap Range(mem.free) = {}

(* The processor never keeps using a frame that a page was mapped to       *)
(* before, unless the page was mapped again without page_unmap: page_map   *)
(* invalidates nothing, page_unmap does.                                   *)
NoStaleTranslation ==
    phase # "freed_twice" => \A v \in VPage \ remapped : tlb[v] \in {0, want[v].to}
=============================================================================
