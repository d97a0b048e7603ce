-------------------------- MODULE PageTableProofs ---------------------------
(***************************************************************************)
(* The page tables of src/src/mem/page.c for every set of pages, frames    *)
(* and indexes: as long as no frame is handed out that the page tables     *)
(* still lead to, they are a tree whose leaves are the mappings that were  *)
(* asked for, page_unmap frees no table that another page needs, and the   *)
(* processor's translations are those of the tables.                       *)
(***************************************************************************)
EXTENDS PageTable, FiniteSetTheorems, TLAPS

(* What the model stores in a table.                                       *)
Entry == [to : Table \cup Phys, user : BOOLEAN]

(* What it stores in memory: every frame as a table, and the free frames.  *)
Memory == [tables : [Table -> [Index -> Entry]], free : Seq(Frame)]

(* No frame is twice in the list.                                          *)
Distinct(s) == \A a, b \in DOMAIN s : s[a] = s[b] => a = b

(* Pages v and w go through the same entries at the first levels.          *)
Same(v, w, level) == \A j \in 1..level : v[j] = w[j]

(* The tables below the PML4 are a tree: every table on the way of a page  *)
(* is a page frame, and a table is shared only by pages that agree on      *)
(* every index above it, at the same level.                                *)
Path(m) ==
    /\ \A v \in VPage, l \in 2..4 : At(m, v, l) \in Frame \cup {-1}
    /\ \A v, w \in VPage, l, k \in 2..4 :
          At(m, v, l) = At(m, w, k) /\ At(m, v, l) # -1 => l = k /\ Same(v, w, l - 1)

(* The entry of a page in its PT, absent if there is no PT.                *)
LeafOf(m, v) == IF At(m, v, 4) = -1 THEN Absent ELSE m.tables[At(m, v, 4)][v[4]]

(* Every entry that leads to a table of a page of a program is open to     *)
(* programs.                                                               *)
Open(m) ==
    \A v \in UserPage, l \in 1..3 :
        At(m, v, l + 1) # -1 => m.tables[At(m, v, l)][v[l]].user = TRUE

(* The shape of memory until a table is handed out again.                  *)
Shape(m) == Path(m) /\ Open(m) /\ Distinct(m.free)

(* A leaf is what page_map was last asked for, unless page_unmap or        *)
(* pmm_alloc_high has cleared it.                                          *)
Leaves == \A v \in VPage : LeafOf(mem, v) = IF v \in aliased THEN Absent ELSE want[v]

(* Pages of programs are mapped for programs, those of the kernel are not. *)
Wanted ==
    \A v \in VPage : want[v] # Unmapped => want[v].to \in Phys /\ (want[v].user <=> v \in UserPage)

(* No translation is cached of a page without a leaf, and none that is out *)
(* of date of a page that was not mapped over.                             *)
Cached ==
    /\ \A v \in VPage : want[v] = Unmapped \/ v \in aliased => tlb[v] = 0
    /\ \A v \in VPage \ remapped : tlb[v] \in {0, want[v].to}

(* The types, of memory as a record of functions.                          *)
Types ==
    /\ mem \in Memory
    /\ want \in [VPage -> [to : Phys \cup {0}, user : BOOLEAN]]
    /\ remapped \subseteq VPage /\ late \subseteq VPage /\ aliased \subseteq VPage
    /\ tlb \in [VPage -> Phys \cup {0}]
    /\ reused \in BOOLEAN
    /\ phase \in {"running", "out_of_memory", "freed_twice"}

(* The inductive invariant.                                                *)
IInv ==
    /\ Types
    /\ Wanted
    /\ Running => Shape(mem) /\ Leaves /\ Cached /\ FreedTablesUnneeded
    /\ NoStaleTranslation

-----------------------------------------------------------------------------

(* One step of At.                                                         *)
Hop(m, t, i) == IF t = -1 \/ ~Present(m.tables[t][i]) THEN -1 ELSE m.tables[t][i].to

(* At follows one entry per level.                                         *)
LEMMA Hops ==
    ASSUME NEW m, NEW v
    PROVE  /\ At(m, v, 1) = PML4
           /\ At(m, v, 2) = Hop(m, At(m, v, 1), v[1])
           /\ At(m, v, 3) = Hop(m, At(m, v, 2), v[2])
           /\ At(m, v, 4) = Hop(m, At(m, v, 3), v[3])
BY Zenon DEF At, Hop

(* The same for a level that is a variable.                                *)
LEMMA HopAt ==
    ASSUME NEW m, NEW v, NEW l \in 1..3
    PROVE  At(m, v, l + 1) = Hop(m, At(m, v, l), v[l])
<1>1. l = 1 \/ l = 2 \/ l = 3
  OBVIOUS
<1> QED BY <1>1, Hops

(* A table below a missing one is missing.                                 *)
LEMMA Gap ==
    ASSUME NEW m, NEW v, NEW l \in 2..3, At(m, v, l) = -1
    PROVE  \A k \in l..4 : At(m, v, k) = -1
BY Hops DEF Hop

(* Memory n has the entries of memory m on the way of page v.              *)
KeepsWay(m, n, v) ==
    \A l \in 1..3 : At(m, v, l) # -1 =>
        n.tables[At(m, v, l)][v[l]] = m.tables[At(m, v, l)][v[l]]

(* Then v is led through the same tables in n.                             *)
LEMMA SameWay ==
    ASSUME NEW m, NEW n, NEW v, KeepsWay(m, n, v)
    PROVE  \A l \in 1..4 : At(n, v, l) = At(m, v, l)
<1>0. PML4 # -1
  BY DEF PML4
<1>1. At(n, v, 1) = At(m, v, 1) /\ At(m, v, 1) # -1
  BY Hops, <1>0, Zenon
<1>2. At(n, v, 2) = At(m, v, 2)
  BY Hops, <1>1 DEF Hop, KeepsWay
<1>3. At(n, v, 3) = At(m, v, 3)
  BY Hops, <1>2 DEF Hop, KeepsWay
<1>4. At(n, v, 4) = At(m, v, 4)
  BY Hops, <1>3 DEF Hop, KeepsWay
<1>5. \A l \in 1..4 : l = 1 \/ l = 2 \/ l = 3 \/ l = 4
  OBVIOUS
<1> QED BY <1>1, <1>2, <1>3, <1>4, <1>5, Zenon

(* Pages that agree on the first indexes share the tables above.           *)
LEMMA SharedWay ==
    ASSUME NEW m, NEW v, NEW w, NEW level \in 1..4, Same(v, w, level - 1)
    PROVE  \A l \in 1..level : At(m, v, l) = At(m, w, l)
<1>1. At(m, v, 1) = At(m, w, 1)
  BY Hops, Zenon
<1>2. level >= 2 => At(m, v, 2) = At(m, w, 2)
  BY Hops, <1>1 DEF Same
<1>3. level >= 3 => At(m, v, 3) = At(m, w, 3)
  BY Hops, <1>2 DEF Same
<1>4. level >= 4 => At(m, v, 4) = At(m, w, 4)
  BY Hops, <1>3 DEF Same
<1>5. \A l \in 1..level : l = 1 \/ l = 2 \/ l = 3 \/ l = 4
  OBVIOUS
<1> QED BY <1>1, <1>2, <1>3, <1>4, <1>5

(* A table below the PML4 is in a frame, one that is reachable.            *)
LEMMA InFrame ==
    ASSUME NEW m, Path(m), NEW v \in VPage, NEW l \in 1..4, At(m, v, l) # -1
    PROVE  /\ At(m, v, l) \in Table
           /\ l # 1 => At(m, v, l) \in Frame /\ At(m, v, l) \in Reachable(m)
           /\ l = 1 => At(m, v, l) = PML4
BY Hops DEF Path, Table, Reachable, TablesOf

(* The tables on the way of two pages coincide level by level only.        *)
LEMMA OneLevel ==
    ASSUME NEW m, Path(m), NEW v \in VPage, NEW w \in VPage, NEW l \in 1..4, NEW k \in 1..4,
           At(m, v, l) # -1, At(m, v, l) = At(m, w, k)
    PROVE  l = k /\ Same(v, w, l - 1)
<1>1. PML4 \notin Frame
  BY PageAssumption, Zenon
<1>2. CASE l = 1
  BY <1>1, <1>2, InFrame DEF Same
<1>3. CASE k = 1
  BY <1>1, <1>3, InFrame DEF Same
<1>4. CASE l # 1 /\ k # 1
  BY <1>4 DEF Path
<1> QED BY <1>2, <1>3, <1>4, Zenon

(* Memory n leads every page through the same tables as memory m.          *)
SameAt(m, n) == \A v \in VPage, l \in 1..4 : At(n, v, l) = At(m, v, l)

(* Clearing a frame that the page tables do not lead to changes no way.    *)
LEMMA Clearing ==
    ASSUME NEW m \in Memory, Path(m), NEW f \in Frame, f \notin Reachable(m),
           NEW n, n.tables = [m.tables EXCEPT ![f] = Empty]
    PROVE  SameAt(m, n)
<1> SUFFICES ASSUME NEW v \in VPage PROVE \A l \in 1..4 : At(n, v, l) = At(m, v, l)
  BY Zenon DEF SameAt
<1>1. ASSUME NEW l \in 1..4, At(m, v, l) # -1
      PROVE  n.tables[At(m, v, l)] = m.tables[At(m, v, l)]
  <2>1. At(m, v, l) # f /\ At(m, v, l) \in Table
    BY <1>1, InFrame, PageAssumption
  <2> QED BY <2>1, Zenon DEF Memory
<1>2. KeepsWay(m, n, v)
  BY <1>1 DEF KeepsWay
<1> QED BY <1>2, SameWay

(* In memory n, entry v[level] leads to f, and otherwise it leads as m.    *)
Links(m, n, v, level, f) ==
    \A w \in VPage, l \in 1..4 :
        At(n, w, l) = IF Same(v, w, level) /\ l = level + 1 THEN f ELSE At(m, w, l)

(* Entry v[level] of a table starts to lead to a cleared frame.            *)
LEMMA Linking ==
    ASSUME NEW m \in Memory, Path(m), NEW v \in VPage, NEW level \in 1..3,
           NEW f \in Frame, NEW user \in BOOLEAN, f \notin Reachable(m), m.tables[f] = Empty,
           At(m, v, level) # -1, At(m, v, level + 1) = -1,
           NEW n, n.tables = [m.tables EXCEPT ![At(m, v, level)][v[level]] =
                                                 [to |-> f, user |-> user]]
    PROVE  Links(m, n, v, level, f)
<1> DEFINE t == At(m, v, level)
<1>1. t \in Table /\ f # t /\ f # -1 /\ f \in Table
  BY InFrame, PageAssumption DEF PML4, Table
<1>2. v \in Index \X Index \X Index \X Index /\ v[level] \in Index
  BY PageAssumption
<1>3. /\ n.tables[t][v[level]] = [to |-> f, user |-> user]
      /\ n.tables[f] = Empty
      /\ \A x \in Table, i \in Index : x # t \/ i # v[level] => n.tables[x][i] = m.tables[x][i]
  BY <1>1, <1>2 DEF Memory
<1> SUFFICES ASSUME NEW w \in VPage
             PROVE  \A l \in 1..4 :
               At(n, w, l) = IF Same(v, w, level) /\ l = level + 1 THEN f ELSE At(m, w, l)
  BY Zenon DEF Links
<1>4. w \in Index \X Index \X Index \X Index /\ \A l \in 1..4 : w[l] \in Index
  BY PageAssumption
<1>5. CASE ~Same(v, w, level)
  <2>1. ASSUME NEW l \in 1..3, At(m, w, l) # -1
        PROVE  n.tables[At(m, w, l)][w[l]] = m.tables[At(m, w, l)][w[l]]
    <3>1. At(m, w, l) = t => w[l] # v[level]
      <4> SUFFICES ASSUME At(m, w, l) = t, w[l] = v[level] PROVE FALSE
        BY Zenon
      <4>1. l = level /\ Same(v, w, level - 1)
        BY <2>1, OneLevel
      <4> QED BY <4>1, <1>5 DEF Same
    <3>2. At(m, w, l) \in Table
      BY <2>1, InFrame
    <3> QED BY <1>3, <1>4, <3>1, <3>2
  <2>2. KeepsWay(m, n, w)
    BY <2>1, Zenon DEF KeepsWay
  <2>3. \A l \in 1..4 : At(n, w, l) = At(m, w, l)
    BY <2>2, SameWay
  <2> QED BY <2>3, <1>5, Zenon
<1>6. CASE Same(v, w, level)
  <2>1. Same(v, w, level - 1)
    BY <1>6 DEF Same
  <2>2. \A l \in 1..level : At(m, v, l) = At(m, w, l)
    BY <2>1, SharedWay
  <2>3. ASSUME NEW l \in 1..3, l < level
        PROVE  At(m, w, l) # -1 => n.tables[At(m, w, l)][w[l]] = m.tables[At(m, w, l)][w[l]]
    <3>1. At(m, w, l) # -1 => At(m, w, l) # t /\ At(m, w, l) \in Table
      BY <2>3, OneLevel, InFrame
    <3> QED BY <3>1, <1>3, <1>4
  <2>4. At(m, w, level) = t /\ w[level] = v[level] /\ t # -1
    BY <2>2, <1>6 DEF Same
  <2>5. \A l \in 1..4 : l > level => At(m, w, l) = -1
    <3>1. At(m, w, level + 1) = -1
      BY <1>6, SharedWay, level + 1 \in 1..4, (level + 1) - 1 = level
    <3>2. CASE level + 1 = 4
      BY <3>1, <3>2
    <3>3. CASE level + 1 \in 2..3
      BY <3>1, <3>3, Gap
    <3> QED BY <3>2, <3>3
  <2>6. \A i \in Index : ~Present(n.tables[f][i])
    BY <1>3, Zenon DEF Present, Empty
  <2>7. Present([to |-> f, user |-> user])
    BY PageAssumption, Zenon DEF Present, Absent, PML4
  <2>8. At(n, w, 1) = At(m, w, 1)
    BY Hops, Zenon
  <2>a. Hop(n, At(m, w, level), w[level]) = f
    BY <2>4, <2>7, <1>3 DEF Hop
  <2>b. \A l \in 1..3 : l < level => Hop(n, At(m, w, l), w[l]) = Hop(m, At(m, w, l), w[l])
    BY <2>3, Zenon DEF Hop
  <2>9. CASE level = 1
    <3>1. At(n, w, 2) = f
      BY <2>8, <2>9, <2>a, Hops
    <3>2. At(n, w, 3) = -1
      BY <3>1, <1>4, <2>6, Hops, Zenon DEF Hop
    <3>3. At(n, w, 4) = -1
      BY <3>2, Hops, Zenon DEF Hop
    <3> QED BY <2>8, <3>1, <3>2, <3>3, <2>5, <2>9, <1>6
  <2>10. CASE level = 2
    <3>1. At(n, w, 2) = At(m, w, 2)
      BY <2>8, <2>10, <2>b, Hops
    <3>2. At(n, w, 3) = f
      BY <3>1, <2>10, <2>a, Hops
    <3>3. At(n, w, 4) = -1
      BY <3>2, <1>4, <2>6, Hops, Zenon DEF Hop
    <3> QED BY <2>8, <3>1, <3>2, <3>3, <2>5, <2>10, <1>6
  <2>11. CASE level = 3
    <3>1. At(n, w, 2) = At(m, w, 2)
      BY <2>8, <2>11, <2>b, Hops
    <3>2. At(n, w, 3) = At(m, w, 3)
      BY <3>1, <2>11, <2>b, Hops
    <3>3. At(n, w, 4) = f
      BY <3>2, <2>11, <2>a, Hops
    <3> QED BY <2>8, <3>1, <3>2, <3>3, <2>5, <2>11, <1>6
  <2> QED BY <2>9, <2>10, <2>11
<1> QED BY <1>5, <1>6, Zenon

(* Tables have entries, and a page has an index at every level.            *)
LEMMA Indexes ==
    ASSUME NEW v \in VPage
    PROVE  \A l \in 1..4 : v[l] \in Index
<1>1. v \in Index \X Index \X Index \X Index
  BY PageAssumption, Zenon
<1> QED BY <1>1

(* Pages that agree with a third agree with each other.                    *)
LEMMA SameTrans ==
    ASSUME NEW u, NEW v, NEW w, NEW l, Same(u, v, l), Same(u, w, l)
    PROVE  Same(v, w, l)
BY Zenon DEF Same

(* The tables a memory leads to depend on At alone.                        *)
LEMMA SameReach ==
    ASSUME NEW m, NEW n, SameAt(m, n)
    PROVE  Reachable(n) = Reachable(m) /\ (Path(m) => Path(n))
<1>1. \A v \in VPage : TablesOf(n, v) = TablesOf(m, v)
  BY DEF TablesOf, SameAt
<1>2. Reachable(n) = Reachable(m)
  BY <1>1, Zenon DEF Reachable
<1>3. Path(m) => Path(n)
  BY DEF Path, SameAt
<1> QED BY <1>2, <1>3, Zenon

(* The entries that the operations write are entries.                      *)
LEMMA EntryTypes ==
    /\ Absent \in Entry /\ Empty \in [Index -> Entry]
    /\ \A f \in Frame, u \in BOOLEAN : [to |-> f, user |-> u] \in Entry
    /\ \A p \in Phys, u \in BOOLEAN : [to |-> p, user |-> u] \in Entry
<1>1. Absent \in Entry
  BY Zenon DEF Entry, Absent, Table, PML4
<1>2. Empty \in [Index -> Entry]
  BY <1>1, Zenon DEF Empty
<1> QED BY <1>1, <1>2, Zenon DEF Entry, Table

(* An entry that is present leads somewhere.                               *)
LEMMA Leads ==
    ASSUME NEW m \in Memory, NEW t \in Table, NEW i \in Index
    PROVE  m.tables[t][i].to # -1
<1>1. m.tables[t][i] \in Entry
  BY Zenon DEF Memory
<1>2. -1 \notin Table \cup Phys
  BY PageAssumption DEF Table, PML4
<1> QED BY <1>1, <1>2, Zenon DEF Entry

(* Taking a frame from the free list.                                      *)
LEMMA HeadTail ==
    ASSUME NEW s \in Seq(Frame), s # <<>>
    PROVE  /\ Head(s) \in Frame /\ Tail(s) \in Seq(Frame)
           /\ Head(s) = s[1] /\ 1 \in DOMAIN s
           /\ Len(Tail(s)) = Len(s) - 1
           /\ \A k \in 1..(Len(s) - 1) : Tail(s)[k] = s[k + 1]
           /\ Distinct(s) => Distinct(Tail(s)) /\ Head(s) \notin Range(Tail(s))
           /\ Range(Tail(s)) \subseteq Range(s) /\ Head(s) \in Range(s)
<1>1. /\ Head(s) \in Frame /\ Tail(s) \in Seq(Frame)
      /\ Head(s) = s[1] /\ 1 \in DOMAIN s /\ DOMAIN s = 1..Len(s) /\ Len(s) \in Nat
      /\ Len(Tail(s)) = Len(s) - 1 /\ DOMAIN Tail(s) = 1..(Len(s) - 1)
      /\ \A k \in 1..(Len(s) - 1) : Tail(s)[k] = s[k + 1]
  OBVIOUS
<1>2. \A k \in 1..(Len(s) - 1) : k + 1 \in DOMAIN s /\ k + 1 # 1
  BY <1>1
<1>3. Range(Tail(s)) \subseteq Range(s) /\ Head(s) \in Range(s)
  BY <1>1, <1>2 DEF Range
<1>4. ASSUME Distinct(s) PROVE Distinct(Tail(s)) /\ Head(s) \notin Range(Tail(s))
  <2>1. Head(s) \notin Range(Tail(s))
    BY <1>1, <1>2, <1>4 DEF Range, Distinct
  <2>2. ASSUME NEW a \in 1..(Len(s) - 1), NEW b \in 1..(Len(s) - 1), Tail(s)[a] = Tail(s)[b]
        PROVE  a = b
    <3>1. s[a + 1] = s[b + 1] /\ a + 1 \in DOMAIN s /\ b + 1 \in DOMAIN s
      BY <2>2, <1>1, <1>2, Zenon
    <3>2. a + 1 = b + 1
      BY <3>1, <1>4, Zenon DEF Distinct
    <3> QED BY <3>2
  <2> QED BY <2>1, <2>2, <1>1, Zenon DEF Distinct
<1> QED BY <1>1, <1>3, <1>4, Zenon

(* What a new table does to a memory whose free list it comes from.        *)
LEMMA NewTableType ==
    ASSUME NEW m \in Memory, m.free # <<>>, NEW t, NEW i \in Index, NEW user \in BOOLEAN
    PROVE  NewTable(m, t, i, user) \in Memory
<1> DEFINE f == Head(m.free)
           c == [m.tables EXCEPT ![f] = Empty]
           d == [c EXCEPT ![t][i] = [to |-> f, user |-> user]]
<1>1. f \in Frame /\ Tail(m.free) \in Seq(Frame)
  BY HeadTail, Zenon DEF Memory
<1>2. c \in [Table -> [Index -> Entry]]
  BY EntryTypes, Zenon DEF Memory
<1>3. d \in [Table -> [Index -> Entry]]
  <2>1. [to |-> f, user |-> user] \in Entry
    BY <1>1, EntryTypes, Zenon
  <2> HIDE DEF c
  <2>2. CASE t \in Table
    BY <1>2, <2>1, <2>2, Zenon
  <2>3. CASE t \notin Table
    BY <1>2, <2>3, Zenon
  <2> QED BY <2>2, <2>3, Zenon
<1>4. NewTable(m, t, i, user) = [tables |-> d, free |-> Tail(m.free)]
  BY Zenon DEF NewTable
<1> HIDE DEF d
<1> QED BY <1>1, <1>3, <1>4 DEF Memory

(* The flag with which a page of a program is mapped.                      *)
Opens(v, user) == v \in UserPage => user = TRUE

(* Memory m, in which the table of v below the given level is missing and  *)
(* the next free frame is not in use.                                      *)
Grows(m, v, level, user) ==
    /\ m \in Memory /\ Shape(m) /\ v \in VPage /\ level \in 1..3
    /\ user \in BOOLEAN /\ Opens(v, user)
    /\ m.free # <<>> /\ Head(m.free) \notin Reachable(m)
    /\ At(m, v, level) # -1 /\ At(m, v, level + 1) = -1

(* Memory n is m with that table in the next free frame.                   *)
HasGrown(m, n, v, level) ==
    /\ n \in Memory /\ Shape(n) /\ n.free = Tail(m.free)
    /\ Links(m, n, v, level, Head(m.free))
    /\ \A w \in VPage : LeafOf(n, w) = LeafOf(m, w)

(* That is what NewTable makes of memory m: only the ways of pages that    *)
(* share the new table change, and no leaf does.                           *)
LEMMA Grown ==
    ASSUME NEW m, NEW v, NEW level, NEW user, Grows(m, v, level, user),
           NEW n, n = NewTable(m, At(m, v, level), v[level], user)
    PROVE  HasGrown(m, n, v, level)
<1> USE SMTT(30)
<1> SUFFICES ASSUME m \in Memory, Shape(m), v \in VPage, level \in 1..3,
                    user \in BOOLEAN, Opens(v, user),
                    m.free # <<>>, Head(m.free) \notin Reachable(m),
                    At(m, v, level) # -1, At(m, v, level + 1) = -1
             PROVE  HasGrown(m, n, v, level)
  BY Zenon DEF Grows
<1> DEFINE f == Head(m.free)
           t == At(m, v, level)
           c == [tables |-> [m.tables EXCEPT ![f] = Empty], free |-> Tail(m.free)]
<1>0. Path(m) /\ Open(m) /\ Distinct(m.free)
  BY Zenon DEF Shape
<1>1. f \in Frame /\ Tail(m.free) \in Seq(Frame) /\ f \in Table /\ f # -1 /\ f \notin Reachable(m)
  <2>1. m.free \in Seq(Frame)
    BY Zenon DEF Memory
  <2>2. f \in Frame /\ Tail(m.free) \in Seq(Frame)
    BY <2>1, HeadTail, Zenon
  <2> QED BY <2>2, PageAssumption DEF Table
<1>2. c \in Memory
  BY <1>1, EntryTypes, Zenon DEF Memory
<1>3. c.tables = [m.tables EXCEPT ![f] = Empty]
  BY Zenon
<1>4. c.tables[f] = Empty
  BY <1>1, Zenon DEF Memory
<1>5. n.tables = [c.tables EXCEPT ![t][v[level]] = [to |-> f, user |-> user]] /\ n.free = Tail(m.free)
  BY Zenon DEF NewTable
<1>6. v[level] \in Index
  BY Indexes
<1>7. n \in Memory
  BY <1>6, NewTableType, Zenon
<1> HIDE DEF c, f, t
<1>8. SameAt(m, c)
  BY <1>0, <1>1, <1>3, Clearing, Zenon
<1>9. Path(c) /\ f \notin Reachable(c)
  BY <1>0, <1>1, <1>8, SameReach, Zenon
<1>10. At(c, v, level) = t /\ At(c, v, level + 1) = -1
  BY <1>8 DEF t, SameAt
<1>11. Links(c, n, v, level, f)
  <2>1. At(c, v, level) # -1
    BY <1>10, Zenon DEF t
  <2>2. n.tables = [c.tables EXCEPT ![At(c, v, level)][v[level]] = [to |-> f, user |-> user]]
    BY <1>5, <1>10, Zenon
  <2> QED BY <2>1, <2>2, <1>1, <1>2, <1>4, <1>9, <1>10, Linking, Zenon
<1>12. Links(m, n, v, level, f)
  BY <1>8, <1>11, ZenonT(60) DEF Links, SameAt
<1>13. t \in Table /\ t # f
  BY <1>0, <1>1, InFrame, PageAssumption, SMTT(30) DEF t
<1>14. /\ \A x \in Table : x # f /\ x # t => n.tables[x] = m.tables[x]
       /\ \A i \in Index : i # v[level] => n.tables[t][i] = m.tables[t][i]
       /\ n.tables[t][v[level]] = [to |-> f, user |-> user]
       /\ n.tables[f] = Empty
  <2>1. \A x \in Table : x # f => c.tables[x] = m.tables[x]
    BY <1>3, Zenon DEF Memory
  <2> QED BY <2>1, <1>1, <1>2, <1>4, <1>5, <1>6, <1>13, SMTT(30) DEF Memory
<1>15. \A w \in VPage, l \in 2..4 : At(m, w, l) # f
  BY <1>0, <1>1, InFrame
<1>16. Path(n)
  <2>1. \A w \in VPage, l \in 2..4 : At(n, w, l) \in Frame \cup {-1}
    BY <1>0, <1>1, <1>12 DEF Path, Links
  <2>2. ASSUME NEW a \in VPage, NEW b \in VPage, NEW l \in 2..4, NEW k \in 2..4,
               At(n, a, l) = At(n, b, k), At(n, a, l) # -1
        PROVE  l = k /\ Same(a, b, l - 1)
    <3>1. CASE Same(v, a, level) /\ l = level + 1
      <4>1. Same(v, b, level) /\ k = level + 1
        BY <2>2, <3>1, <1>12, <1>15 DEF Links
      <4> QED BY <3>1, <4>1, SameTrans
    <3>2. CASE ~(Same(v, a, level) /\ l = level + 1)
      <4>1. At(n, a, l) = At(m, a, l)
        BY <3>2, <1>12 DEF Links
      <4>2. At(n, b, k) # f
        BY <2>2, <4>1, <1>15, Zenon
      <4>3. At(n, b, k) = At(m, b, k)
        BY <4>2, <1>12 DEF Links
      <4> QED BY <4>1, <4>3, <2>2, <1>0, ZenonT(60) DEF Path
    <3> QED BY <3>1, <3>2, ZenonT(60)
  <2> QED BY <2>1, <2>2, Zenon DEF Path
<1>17. Open(n)
  <2> SUFFICES ASSUME NEW w \in UserPage, NEW l \in 1..3, At(n, w, l + 1) # -1
               PROVE  n.tables[At(n, w, l)][w[l]].user = TRUE
    BY Zenon DEF Open
  <2>0. w \in VPage
    BY Zenon DEF VPage
  <2>1. CASE Same(v, w, level) /\ l = level
    <3>1. At(n, w, l) = t /\ w[l] = v[level]
      <4>1. At(n, w, l) = At(m, w, l)
        BY <2>0, <2>1, <1>12, SMTT(30) DEF Links
      <4>2. Same(v, w, level - 1)
        BY <2>1 DEF Same
      <4>3. level \in 1..4 /\ level \in 1..level
        OBVIOUS
      <4>4. At(m, v, level) = At(m, w, level)
        BY <4>2, <4>3, SharedWay, ZenonT(60)
      <4> QED BY <2>1, <4>1, <4>4, SMTT(30) DEF Same, t
    <3>2. v[1] = w[1]
      BY <2>1 DEF Same
    <3>3. v \in UserPage
      BY <3>2, HalvesAssumption, Zenon DEF VPage
    <3> QED BY <3>1, <3>3, <1>14, SMTT(30) DEF Opens
  <2>2. CASE ~(Same(v, w, level) /\ l = level)
    <3>1. At(m, w, l + 1) # -1
      BY <2>0, <2>2, <1>12 DEF Links
    <3>2. At(m, w, l) # -1 /\ Present(m.tables[At(m, w, l)][w[l]])
      BY <3>1, Hops DEF Hop
    <3>3. At(n, w, l) = At(m, w, l)
      <4>1. CASE Same(v, w, level) /\ l = level + 1
        <5>1. At(m, w, l) = At(m, v, l)
          <6>1. l \in 1..4 /\ l \in 1..l /\ Same(v, w, l - 1)
            BY <4>1
          <6> QED BY <6>1, SharedWay, ZenonT(60)
        <5> QED BY <4>1, <5>1, <3>2, Zenon
      <4> QED BY <4>1, <2>0, <1>12 DEF Links
    <3>4. ~Present(m.tables[t][v[level]])
      <4>1. At(m, v, level + 1) = Hop(m, t, v[level])
        BY HopAt, Zenon DEF t
      <4>2. m.tables[t][v[level]].to # -1
        BY <1>6, <1>13, Leads, Zenon
      <4> QED BY <4>1, <4>2, Zenon DEF Hop, t
    <3>5. At(m, w, l) \in Table /\ At(m, w, l) # f /\ w[l] \in Index
      BY <2>0, <3>2, <1>0, <1>1, InFrame, Indexes, PageAssumption
    <3>6. n.tables[At(m, w, l)][w[l]] = m.tables[At(m, w, l)][w[l]]
      BY <3>2, <3>4, <3>5, <1>14, Zenon
    <3> QED BY <3>1, <3>3, <3>6, <1>0, Zenon DEF Open
  <2> QED BY <2>1, <2>2, Zenon
<1>18. ASSUME NEW w \in VPage PROVE LeafOf(n, w) = LeafOf(m, w)
  <2>1. CASE Same(v, w, level) /\ level = 3
    <3>1. At(n, w, 4) = f
      BY <2>1, <1>12 DEF Links
    <3>2. At(m, w, 4) = -1
      BY <2>1, SharedWay, SMTT(30)
    <3>3. n.tables[f][w[4]] = Absent
      BY <1>14, Indexes DEF Empty
    <3> QED BY <3>1, <3>2, <3>3, <1>1, Zenon DEF LeafOf
  <2>2. CASE ~(Same(v, w, level) /\ level = 3)
    <3>1. At(n, w, 4) = At(m, w, 4)
      BY <2>2, <1>12 DEF Links
    <3>2. ASSUME At(m, w, 4) # -1 PROVE n.tables[At(m, w, 4)] = m.tables[At(m, w, 4)]
      <4>1. At(m, w, 4) # t
        <5>1. level \in 1..4 /\ level # 4 /\ t = At(m, v, level)
          BY DEF t
        <5> QED BY <5>1, <3>2, <1>0, OneLevel
      <4>2. At(m, w, 4) # f /\ At(m, w, 4) \in Table
        BY <3>2, <1>0, <1>15, InFrame
      <4> QED BY <4>1, <4>2, <1>14, Zenon
    <3> QED BY <3>1, <3>2, Zenon DEF LeafOf
  <2> QED BY <2>1, <2>2, Zenon
<1>19. Distinct(n.free)
  <2>1. m.free \in Seq(Frame)
    BY Zenon DEF Memory
  <2>2. Distinct(Tail(m.free))
    BY <2>1, <1>0, HeadTail, Zenon
  <2> QED BY <2>2, <1>5, Zenon
<1> QED BY <1>5, <1>7, <1>12, <1>16, <1>17, <1>18, <1>19, Zenon DEF Shape, HasGrown, f

(* Two pages of one PT have different entries in it.                       *)
LEMMA OtherPage ==
    ASSUME NEW v \in VPage, NEW w \in VPage, v # w, Same(v, w, 3)
    PROVE  v[4] # w[4]
<1>1. v \in Index \X Index \X Index \X Index /\ w \in Index \X Index \X Index \X Index
  BY PageAssumption, Zenon
<1>2. v[1] = w[1] /\ v[2] = w[2] /\ v[3] = w[3]
  BY DEF Same
<1> QED BY <1>1, <1>2

(* Memory n differs from m in the leaf of v, which is e.                   *)
Written(m, n, v, e) ==
    /\ n.tables \in [Table -> [Index -> Entry]]
    /\ SameAt(m, n) /\ Path(n) /\ Open(n)
    /\ LeafOf(n, v) = e
    /\ \A w \in VPage \ {v} : LeafOf(n, w) = LeafOf(m, w)

(* Writing a page's entry in its PT changes the leaf of that page alone.   *)
LEMMA LeafWrite ==
    ASSUME NEW m \in Memory, Path(m), Open(m), NEW v \in VPage, At(m, v, 4) # -1, NEW e \in Entry,
           NEW n, n.tables = [m.tables EXCEPT ![At(m, v, 4)][v[4]] = e]
    PROVE  Written(m, n, v, e)
<1> DEFINE t == At(m, v, 4)
<1>1. t \in Table /\ v[4] \in Index
  BY InFrame, Indexes
<1>2. /\ n.tables \in [Table -> [Index -> Entry]]
      /\ n.tables[t][v[4]] = e
      /\ \A x \in Table, i \in Index : x # t \/ i # v[4] => n.tables[x][i] = m.tables[x][i]
  BY <1>1 DEF Memory
<1>3. ASSUME NEW w \in VPage PROVE KeepsWay(m, n, w)
  <2> SUFFICES ASSUME NEW l \in 1..3, At(m, w, l) # -1
               PROVE  n.tables[At(m, w, l)][w[l]] = m.tables[At(m, w, l)][w[l]]
    BY Zenon DEF KeepsWay
  <2>1. At(m, w, l) # t /\ At(m, w, l) \in Table /\ w[l] \in Index
    BY OneLevel, InFrame, Indexes
  <2> QED BY <2>1, <1>2, Zenon
<1>4. SameAt(m, n)
  BY <1>3, SameWay DEF SameAt
<1>5. Path(n)
  BY <1>4, SameReach, Zenon
<1>6. Open(n)
  <2> SUFFICES ASSUME NEW w \in UserPage, NEW l \in 1..3, At(n, w, l + 1) # -1
               PROVE  n.tables[At(n, w, l)][w[l]].user = TRUE
    BY Zenon DEF Open
  <2>0. w \in VPage
    BY Zenon DEF VPage
  <2>1. At(n, w, l) = At(m, w, l) /\ At(m, w, l + 1) # -1
    BY <1>4, <2>0, SMTT(30) DEF SameAt
  <2>2. At(m, w, l) # -1
    BY <2>1, HopAt DEF Hop
  <2>3. n.tables[At(m, w, l)][w[l]] = m.tables[At(m, w, l)][w[l]]
    BY <2>0, <2>2, <1>3, Zenon DEF KeepsWay
  <2> QED BY <2>1, <2>3, Zenon DEF Open
<1>7. LeafOf(n, v) = e
  BY <1>2, <1>4 DEF LeafOf, SameAt
<1>8. ASSUME NEW w \in VPage \ {v} PROVE LeafOf(n, w) = LeafOf(m, w)
  <2>1. At(n, w, 4) = At(m, w, 4)
    BY <1>4 DEF SameAt
  <2>2. ASSUME At(m, w, 4) # -1 PROVE n.tables[At(m, w, 4)][w[4]] = m.tables[At(m, w, 4)][w[4]]
    <3>1. At(m, w, 4) \in Table /\ w[4] \in Index
      BY <2>2, InFrame, Indexes
    <3>2. At(m, w, 4) = t => v[4] # w[4]
      <4> SUFFICES ASSUME At(m, w, 4) = t PROVE v[4] # w[4]
        BY Zenon
      <4>1. Same(v, w, 4 - 1)
        BY OneLevel
      <4> QED BY <4>1, OtherPage
    <3> QED BY <3>1, <3>2, <1>2, Zenon
  <2> QED BY <2>1, <2>2, Zenon DEF LeafOf
<1> QED BY <1>2, <1>4, <1>5, <1>6, <1>7, <1>8, Zenon DEF Written

(* Memory m after page_map has taken n frames for v, whose first missing   *)
(* table in memory b is at level q.                                        *)
Extends(b, m, v, q, n) ==
    /\ m \in Memory /\ Shape(m)
    /\ Len(m.free) = Len(b.free) - n
    /\ \A k \in 1..(Len(b.free) - n) : m.free[k] = b.free[k + n]
    /\ \A w \in VPage, l \in 1..4 :
          At(m, w, l) = IF l \in q..(q + n - 1) /\ Same(v, w, l - 1) THEN b.free[l + 1 - q]
                        ELSE At(b, w, l)
    /\ \A w \in VPage : LeafOf(m, w) = LeafOf(b, w)

(* The tables of v are missing from level q on.                            *)
FirstGap(m, v, q) == \A l \in 2..4 : At(m, v, l) = -1 <=> l >= q

(* Ensure leaves memory alone if the table is there.                       *)
LEMMA EnsureOld ==
    ASSUME NEW m, NEW v, NEW level \in 1..3, NEW user, At(m, v, level + 1) # -1
    PROVE  Ensure(m, v, level, user) = m
BY HopAt, Zenon DEF Ensure, Hop

(* Otherwise it adds the table.                                            *)
LEMMA EnsureNew ==
    ASSUME NEW m \in Memory, Path(m), NEW v \in VPage, NEW level \in 1..3, NEW user,
           At(m, v, level) # -1, At(m, v, level + 1) = -1
    PROVE  Ensure(m, v, level, user) = NewTable(m, At(m, v, level), v[level], user)
<1>1. At(m, v, level) \in Table /\ v[level] \in Index
  BY InFrame, Indexes
<1>2. m.tables[At(m, v, level)][v[level]].to # -1
  BY <1>1, Leads, Zenon
<1>3. ~Present(m.tables[At(m, v, level)][v[level]])
  BY <1>2, HopAt, Zenon DEF Hop
<1> QED BY <1>3, Zenon DEF Ensure

(* Memory b has the frames that page_map needs for v, none of them in use. *)
Ready(b, v, q, user) ==
    /\ b \in Memory /\ Shape(b) /\ v \in VPage /\ user \in BOOLEAN /\ Opens(v, user)
    /\ FirstGap(b, v, q) /\ 5 - q <= Len(b.free)
    /\ \A k \in 1..(5 - q) : b.free[k] \notin Reachable(b)

(* Each missing level takes one more frame.                                *)
LEMMA ExtendsStep ==
    ASSUME NEW b, NEW v, NEW q \in 2..4, NEW user, Ready(b, v, q, user),
           NEW n \in 0..2, q + n <= 4, NEW m, Extends(b, m, v, q, n)
    PROVE  Extends(b, Ensure(m, v, q + n - 1, user), v, q, n + 1)
<1> USE SMTT(30)
<1> SUFFICES ASSUME b \in Memory, Distinct(b.free), v \in VPage, FirstGap(b, v, q),
                    n < Len(b.free), \A k \in 1..(n + 1) : b.free[k] \notin Reachable(b),
                    user \in BOOLEAN, Opens(v, user)
             PROVE  Extends(b, Ensure(m, v, q + n - 1, user), v, q, n + 1)
  <2>1. /\ b \in Memory /\ Distinct(b.free) /\ v \in VPage /\ FirstGap(b, v, q)
        /\ user \in BOOLEAN /\ Opens(v, user)
    BY Zenon DEF Ready, Shape
  <2>2. b.free \in Seq(Frame)
    BY <2>1, Zenon DEF Memory
  <2>3. n < Len(b.free) /\ \A k \in 1..(n + 1) : b.free[k] \notin Reachable(b)
    BY <2>2, SMTT(30) DEF Ready
  <2> QED BY <2>1, <2>3, Zenon
<1> DEFINE level == q + n - 1
           f == b.free[n + 1]
           new == NewTable(m, At(m, v, level), v[level], user)
<1>0. /\ level \in 1..3 /\ level + 1 \in 2..4 /\ level + 1 = q + n
      /\ b.free \in Seq(Frame) /\ m.free \in Seq(Frame) /\ Len(b.free) \in Nat
      /\ m \in Memory /\ Shape(m)
  BY DEF Extends, Memory
<1>1. \A k \in 1..Len(b.free) : b.free[k] \in Frame
  BY <1>0
<1>2. m.free # <<>> /\ Head(m.free) = f /\ f \in Frame /\ n + 1 \in 1..Len(b.free)
  <2>1. Len(m.free) > 0
    BY <1>0 DEF Extends
  <2>2. m.free # <<>> /\ Head(m.free) = m.free[1]
    BY <2>1, <1>0, HeadTail
  <2> QED BY <2>2, <1>0, <1>1 DEF Extends
<1>3. f \notin Reachable(m)
  <2> SUFFICES ASSUME NEW w \in VPage, NEW l \in 2..4, f = At(m, w, l) PROVE FALSE
    BY DEF Reachable, TablesOf
  <2>1. CASE l \in q..(q + n - 1) /\ Same(v, w, l - 1)
    <3>1. f = b.free[l + 1 - q] /\ l + 1 - q \in 1..n
      BY <2>1 DEF Extends
    <3>2. l + 1 - q \in DOMAIN b.free /\ n + 1 \in DOMAIN b.free /\ l + 1 - q # n + 1
      BY <3>1, <1>0, <1>2
    <3> QED BY <3>1, <3>2, ZenonT(60) DEF Distinct
  <2>2. CASE ~(l \in q..(q + n - 1) /\ Same(v, w, l - 1))
    <3>1. f = At(b, w, l)
      BY <2>2 DEF Extends
    <3>2. f # -1
      BY <1>2, PageAssumption
    <3>3. f \in Reachable(b)
      BY <3>1, <3>2 DEF Reachable, TablesOf
    <3> QED BY <3>3
  <2> QED BY <2>1, <2>2, ZenonT(60)
<1>4. At(m, v, level) # -1
  <2>1. CASE n = 0
    <3>1. At(m, v, level) = At(b, v, level)
      BY <2>1, <1>0 DEF Extends
    <3>2. level = 1 \/ (level \in 2..4 /\ ~(level >= q))
      BY <2>1, <1>0
    <3>3. At(b, v, 1) # -1
      BY Hops DEF PML4
    <3> QED BY <3>1, <3>2, <3>3, ZenonT(60) DEF FirstGap
  <2>2. CASE n # 0
    <3>1. Same(v, v, level - 1) /\ level \in q..(q + n - 1) /\ level + 1 - q = n
      BY <2>2, <1>0 DEF Same
    <3>2. At(m, v, level) = b.free[level + 1 - q]
      <4>1. level \in 1..4
        BY <1>0
      <4> HIDE DEF level
      <4> QED BY <3>1, <4>1, Zenon DEF Extends
    <3>3. b.free[n] \in Frame
      BY <2>2, <1>0, <1>1
    <3> QED BY <3>1, <3>2, <3>3, PageAssumption
  <2> QED BY <2>1, <2>2, Zenon
<1>5. At(m, v, level + 1) = -1
  <2>1. At(m, v, level + 1) = At(b, v, level + 1)
    BY <1>0 DEF Extends
  <2> QED BY <2>1, <1>0 DEF FirstGap
<1>6. HasGrown(m, new, v, level) /\ Links(m, new, v, level, f)
  <2>1. Grows(m, v, level, user)
    BY <1>0, <1>2, <1>3, <1>4, <1>5, Zenon DEF Grows
  <2>2. new = NewTable(m, At(m, v, level), v[level], user)
    BY Zenon
  <2> HIDE DEF level, new
  <2>3. HasGrown(m, new, v, level)
    BY <2>1, <2>2, Grown, Zenon
  <2> QED BY <2>3, <1>2, Zenon DEF HasGrown
<1>b. /\ new \in Memory /\ Shape(new) /\ new.free = Tail(m.free)
      /\ \A w \in VPage : LeafOf(new, w) = LeafOf(m, w)
  BY <1>6, Zenon DEF HasGrown
<1> HIDE DEF new
<1>7. /\ Len(new.free) = Len(b.free) - (n + 1)
      /\ \A k \in 1..(Len(b.free) - (n + 1)) : new.free[k] = b.free[k + (n + 1)]
  <2>1. /\ Len(Tail(m.free)) = Len(m.free) - 1
        /\ \A k \in 1..(Len(m.free) - 1) : Tail(m.free)[k] = m.free[k + 1]
    BY <1>0, <1>2, HeadTail, Zenon
  <2>2. Len(m.free) = Len(b.free) - n /\ \A k \in 1..(Len(b.free) - n) : m.free[k] = b.free[k + n]
    BY Zenon DEF Extends
  <2>3. ASSUME NEW k \in 1..(Len(b.free) - (n + 1)) PROVE new.free[k] = b.free[k + (n + 1)]
    <3>1. k + 1 \in 1..(Len(b.free) - n) /\ (k + 1) + n = k + (n + 1)
      BY <1>0
    <3>2. k \in 1..(Len(m.free) - 1)
      BY <1>0, <2>2
    <3>3. new.free[k] = m.free[k + 1]
      BY <3>2, <2>1, <1>b, Zenon
    <3>4. m.free[k + 1] = b.free[k + (n + 1)]
      BY <3>1, <2>2, Zenon
    <3> QED BY <3>3, <3>4, Zenon
  <2>4. Len(new.free) = Len(b.free) - (n + 1)
    BY <2>1, <2>2, <1>0, <1>b
  <2> QED BY <2>3, <2>4, Zenon
<1>8. ASSUME NEW w \in VPage, NEW l \in 1..4
      PROVE  At(new, w, l) = IF l \in q..(q + (n + 1) - 1) /\ Same(v, w, l - 1)
                             THEN b.free[l + 1 - q] ELSE At(b, w, l)
  <2>1. CASE l = q + n /\ Same(v, w, l - 1)
    <3>1. l = level + 1 /\ l - 1 = level /\ l + 1 - q = n + 1 /\ l \in q..(q + (n + 1) - 1)
      BY <2>1
    <3>2. At(new, w, l) = f
      BY <2>1, <3>1, <1>6, Zenon DEF Links
    <3> QED BY <3>1, <3>2, <2>1, Zenon
  <2>2. CASE ~(l = q + n /\ Same(v, w, l - 1))
    <3>1. At(new, w, l) = At(m, w, l)
      <4>1. ~(Same(v, w, level) /\ l = level + 1)
        BY <2>2, <1>0, level = (level + 1) - 1
      <4> QED BY <4>1, <1>6, Zenon DEF Links
    <3>2. (l \in q..(q + (n + 1) - 1) /\ Same(v, w, l - 1)) <=>
             (l \in q..(q + n - 1) /\ Same(v, w, l - 1))
      BY <2>2
    <3> QED BY <3>1, <3>2, Zenon DEF Extends
  <2> QED BY <2>1, <2>2, Zenon
<1>9. \A w \in VPage : LeafOf(new, w) = LeafOf(b, w)
  BY <1>b, Zenon DEF Extends
<1>10. Extends(b, new, v, q, n + 1)
  BY <1>b, <1>7, <1>8, <1>9, ZenonT(60) DEF Extends
<1>11. Ensure(m, v, level, user) = new
  BY <1>0, <1>4, <1>5, EnsureNew DEF new, Shape
<1> QED BY <1>10, <1>11, Zenon

(* Memory after the three tables have been looked up or allocated.         *)
MapMemory(m, v, user) ==
    Ensure(Ensure(Ensure(m, v, 1, user), v, 2, user), v, 3, user)

(* Ensure takes at most one frame, whatever the tables hold.               *)
LEMMA EnsureType ==
    ASSUME NEW m \in Memory, m.free # <<>>, NEW v \in VPage, NEW level \in 1..3,
           NEW user \in BOOLEAN
    PROVE  /\ Ensure(m, v, level, user) \in Memory
           /\ Len(Ensure(m, v, level, user).free) \in Nat
           /\ Len(Ensure(m, v, level, user).free) >= Len(m.free) - 1
<1>1. CASE Ensure(m, v, level, user) = m
  BY <1>1 DEF Memory
<1>2. CASE Ensure(m, v, level, user) = NewTable(m, At(m, v, level), v[level], user)
  <2>1. Ensure(m, v, level, user) \in Memory
    BY <1>2, NewTableType, Indexes
  <2>2. Ensure(m, v, level, user).free = Tail(m.free)
    BY <1>2 DEF NewTable
  <2>3. m.free \in Seq(Frame)
    BY Zenon DEF Memory
  <2> QED BY <2>1, <2>2, <2>3
<1> QED BY <1>1, <1>2, ZenonT(60) DEF Ensure

(* Memory keeps its type even if a frame was reused.                       *)
LEMMA MapType ==
    ASSUME NEW b \in Memory, NEW v \in VPage, NEW q \in 2..5, NEW user \in BOOLEAN,
           FirstGap(b, v, q), 5 - q <= Len(b.free)
    PROVE  MapMemory(b, v, user) \in Memory
<1> DEFINE e1 == Ensure(b, v, 1, user)
           e2 == Ensure(e1, v, 2, user)
           e3 == Ensure(e2, v, 3, user)
<1>2. \A l \in 1..3 : l + 1 < q => Ensure(b, v, l, user) = b
  BY EnsureOld DEF FirstGap
<1>3. MapMemory(b, v, user) = e3
  BY Zenon DEF MapMemory
<1>a. \A m \in Memory : m.free \in Seq(Frame) /\ (Len(m.free) > 0 => m.free # <<>>)
  BY DEF Memory
<1>4. CASE q = 5
  BY <1>2, <1>3, <1>4
<1>5. CASE q = 4
  <2>1. e1 = b /\ e2 = b
    BY <1>2, <1>5
  <2> QED BY <2>1, <1>3, <1>5, <1>a, EnsureType
<1>6. CASE q = 3
  <2>1. e1 = b
    BY <1>2, <1>6
  <2>2. e2 \in Memory /\ Len(e2.free) \in Nat /\ Len(e2.free) >= Len(b.free) - 1
    BY <2>1, <1>6, <1>a, EnsureType
  <2> HIDE DEF e2
  <2>3. e2.free # <<>>
    BY <2>2, <1>6, <1>a
  <2> QED BY <2>2, <2>3, <1>3, EnsureType
<1>7. CASE q = 2
  <2>1. e1 \in Memory /\ Len(e1.free) \in Nat /\ Len(e1.free) >= Len(b.free) - 1
    BY <1>7, <1>a, EnsureType
  <2> HIDE DEF e1
  <2>2. e1.free # <<>>
    BY <2>1, <1>7, <1>a
  <2>3. e2 \in Memory /\ Len(e2.free) \in Nat /\ Len(e2.free) >= Len(e1.free) - 1
    BY <2>1, <2>2, EnsureType
  <2> HIDE DEF e2
  <2>4. e2.free # <<>>
    BY <2>1, <2>3, <1>7, <1>a
  <2> QED BY <2>3, <2>4, <1>3, EnsureType
<1> QED BY <1>4, <1>5, <1>6, <1>7

-----------------------------------------------------------------------------

(* Page v is alone in its table at a level.                                *)
Alone(m, v, l) == \A i \in Index \ {v[l]} : ~Present(m.tables[At(m, v, l)][i])

(* The free list after frames were pushed onto it.                         *)
LEMMA Pushed ==
    ASSUME NEW s \in Seq(Frame), NEW free \in Seq(Frame), Distinct(s), Distinct(free),
           Range(s) \cap Range(free) = {}
    PROVE  /\ Push(s, free) \in Seq(Frame) /\ Distinct(Push(s, free))
           /\ Range(Push(s, free)) \subseteq Range(s) \cup Range(free)
<1> DEFINE r == [k \in 1..Len(s) |-> s[Len(s) + 1 - k]]
           p == Push(s, free)
<1>1. r \in Seq(Frame) /\ Len(r) = Len(s) /\ Len(s) \in Nat /\ Len(free) \in Nat
  OBVIOUS
<1>2. \A k \in 1..Len(s) : r[k] = s[Len(s) + 1 - k] /\ Len(s) + 1 - k \in 1..Len(s)
  BY <1>1
<1>3. p = r \o free
  BY Zenon DEF Push
<1> HIDE DEF r, p
<1>4. p \in Seq(Frame) /\ Len(p) = Len(s) + Len(free) /\ DOMAIN p = 1..(Len(s) + Len(free))
  BY <1>1, <1>3
<1>5. \A k \in 1..(Len(s) + Len(free)) :
          \/ k \in 1..Len(s) /\ p[k] = s[Len(s) + 1 - k]
          \/ k - Len(s) \in 1..Len(free) /\ p[k] = free[k - Len(s)]
  BY <1>1, <1>2, <1>3
<1>6. DOMAIN s = 1..Len(s) /\ DOMAIN free = 1..Len(free)
  OBVIOUS
<1>7. Range(p) \subseteq Range(s) \cup Range(free)
  BY <1>2, <1>4, <1>5, <1>6, ZenonT(60) DEF Range
<1>8. ASSUME NEW a \in 1..(Len(s) + Len(free)), NEW b \in 1..(Len(s) + Len(free)), p[a] = p[b]
      PROVE  a = b
  <2>1. CASE a \in 1..Len(s) /\ p[a] = s[Len(s) + 1 - a]
    <3>1. b \in 1..Len(s) /\ p[b] = s[Len(s) + 1 - b]
      <4>1. p[a] \in Range(s)
        BY <2>1, <1>2, <1>6, Zenon DEF Range
      <4>2. \A k \in 1..Len(free) : p[b] # free[k]
        BY <4>1, <1>6, <1>8, Zenon DEF Range
      <4> QED BY <4>2, <1>5, Zenon
    <3>2. Len(s) + 1 - a = Len(s) + 1 - b
      BY <2>1, <3>1, <1>2, <1>6, <1>8, ZenonT(60) DEF Distinct
    <3> QED BY <3>2, <1>1
  <2>2. CASE a - Len(s) \in 1..Len(free) /\ p[a] = free[a - Len(s)]
    <3>1. b - Len(s) \in 1..Len(free) /\ p[b] = free[b - Len(s)]
      <4>1. p[a] \in Range(free)
        BY <2>2, <1>6, Zenon DEF Range
      <4>2. \A k \in 1..Len(s) : p[b] # s[k]
        BY <4>1, <1>6, <1>8, Zenon DEF Range
      <4> QED BY <4>2, <1>2, <1>5, Zenon
    <3>2. a - Len(s) = b - Len(s)
      BY <2>2, <3>1, <1>6, <1>8, Zenon DEF Distinct
    <3> QED BY <3>2, <1>1
  <2> QED BY <2>1, <2>2, <1>5, Zenon
<1> QED BY <1>4, <1>7, <1>8, Zenon DEF Distinct, p

(* A page with a PT has every table above it.                              *)
LEMMA Complete ==
    ASSUME NEW m, NEW v, At(m, v, 4) # -1
    PROVE  \A l \in 1..4 : At(m, v, l) # -1
<1>1. At(m, v, 3) # -1 /\ At(m, v, 2) # -1
  BY Gap
<1>2. At(m, v, 1) # -1
  BY Hops DEF PML4
<1>3. \A l \in 1..4 : l = 1 \/ l = 2 \/ l = 3 \/ l = 4
  OBVIOUS
<1> QED BY <1>1, <1>2, <1>3, Zenon

(* A page with a leaf has entries that are present all the way.            *)
LEMMA Whole ==
    ASSUME NEW m, NEW w, LeafOf(m, w) # Absent
    PROVE  \A l \in 1..4 : At(m, w, l) # -1 /\ Present(m.tables[At(m, w, l)][w[l]])
<1>1. At(m, w, 4) # -1 /\ Present(m.tables[At(m, w, 4)][w[4]])
  BY Zenon DEF LeafOf, Present
<1>2. \A l \in 1..4 : At(m, w, l) # -1
  BY <1>1, Complete, Zenon
<1>3. ASSUME NEW l \in 1..3 PROVE Present(m.tables[At(m, w, l)][w[l]])
  <2>1. At(m, w, l + 1) # -1
    BY <1>2
  <2> QED BY <2>1, HopAt, Zenon DEF Hop
<1> QED BY <1>1, <1>2, <1>3

(* Another page that is mapped is below no table that page_unmap frees.    *)
LEMMA Unneeded ==
    ASSUME NEW m, Path(m), NEW v \in VPage, NEW q \in 2..5, \A l \in q..4 : Alone(m, v, l),
           NEW w \in VPage, w # v, LeafOf(m, w) # Absent,
           NEW j \in q..4, NEW l \in 2..4, At(m, w, l) = At(m, v, j)
    PROVE  FALSE
<1>1. \A x \in 1..4 : At(m, w, x) # -1 /\ Present(m.tables[At(m, w, x)][w[x]]) /\ w[x] \in Index
  BY Whole, Indexes, ZenonT(60)
<1>2. l = j /\ Same(w, v, l - 1)
  BY <1>1, OneLevel
<1>3. ASSUME NEW x \in q..4, Same(w, v, x - 1) PROVE Same(w, v, x)
  <2>1. x \in 1..4 /\ x \in 1..x
    OBVIOUS
  <2>2. At(m, w, x) = At(m, v, x)
    BY <2>1, <1>3, SharedWay, Zenon
  <2>3. w[x] = v[x]
    BY <2>1, <2>2, <1>1, Zenon DEF Alone
  <2> QED BY <2>3, <1>3 DEF Same
<1>4. Same(w, v, 3) /\ Same(w, v, 4)
  <2>1. CASE l = 4
    BY <2>1, <1>2, <1>3
  <2>2. CASE l = 3
    <3>1. Same(w, v, 3)
      BY <2>2, <1>2, <1>3, Zenon
    <3>2. Same(w, v, 4)
      BY <3>1, <1>3
    <3> QED BY <3>1, <3>2, Zenon
  <2>3. CASE l = 2
    <3>1. Same(w, v, 2)
      BY <2>3, <1>2, <1>3, Zenon
    <3>2. Same(w, v, 3)
      BY <3>1, <2>3, <1>2, <1>3
    <3>3. Same(w, v, 4)
      BY <3>2, <1>3
    <3> QED BY <3>2, <3>3, Zenon
  <2> QED BY <2>1, <2>2, <2>3
<1>5. w[4] = v[4]
  BY <1>4 DEF Same
<1> QED BY <1>4, <1>5, OtherPage, Zenon

(* At and the leaves depend on the tables alone.                           *)
LEMMA SameTables ==
    ASSUME NEW m, NEW n, n.tables = m.tables
    PROVE  SameAt(m, n) /\ (\A v \in VPage : LeafOf(n, v) = LeafOf(m, v)) /\ (Open(m) => Open(n))
<1>1. \A v \in VPage : KeepsWay(m, n, v)
  BY Zenon DEF KeepsWay
<1>2. SameAt(m, n)
  BY <1>1, SameWay DEF SameAt
<1>3. \A v \in VPage : LeafOf(n, v) = LeafOf(m, v)
  BY <1>2 DEF LeafOf, SameAt
<1>4. ASSUME Open(m) PROVE Open(n)
  <2>1. \A v \in UserPage, l \in 1..4 : At(n, v, l) = At(m, v, l)
    BY <1>2, Zenon DEF SameAt, VPage
  <2> QED BY <2>1, <1>4 DEF Open
<1> QED BY <1>2, <1>3, <1>4, Zenon

(* Taking a frame without clearing it changes no table.                    *)
LEMMA Popped ==
    ASSUME NEW m \in Memory, Shape(m), m.free # <<>>,
           NEW n, n = [m EXCEPT !.free = Tail(@)]
    PROVE  /\ n \in Memory /\ Shape(n) /\ SameAt(m, n)
           /\ \A v \in VPage : LeafOf(n, v) = LeafOf(m, v)
           /\ Range(n.free) \subseteq Range(m.free)
<1>1. Path(m) /\ Open(m) /\ Distinct(m.free) /\ m.free \in Seq(Frame)
  BY Zenon DEF Shape, Memory
<1>2. n.tables = m.tables /\ n.free = Tail(m.free) /\ n = [tables |-> m.tables, free |-> Tail(m.free)]
  BY Zenon DEF Memory
<1>3. /\ Tail(m.free) \in Seq(Frame) /\ Distinct(Tail(m.free))
      /\ Range(Tail(m.free)) \subseteq Range(m.free)
  BY <1>1, HeadTail, Zenon
<1>4. n \in Memory
  BY <1>2, <1>3, Zenon DEF Memory
<1>5. SameAt(m, n) /\ (\A v \in VPage : LeafOf(n, v) = LeafOf(m, v)) /\ Open(n)
  BY <1>1, <1>2, SameTables, Zenon
<1>6. Path(n)
  BY <1>1, <1>5, SameReach, Zenon
<1> QED BY <1>2, <1>3, <1>4, <1>5, <1>6, Zenon DEF Shape

-----------------------------------------------------------------------------

(* The missing tables of a page are its last ones.                         *)
LEMMA Gaps ==
    ASSUME NEW m, NEW v
    PROVE  \E q \in 2..5 : FirstGap(m, v, q)
<1>1. CASE At(m, v, 2) = -1
  <2>1. FirstGap(m, v, 2)
    BY <1>1, Gap DEF FirstGap
  <2> QED BY <2>1
<1>2. CASE At(m, v, 2) # -1 /\ At(m, v, 3) = -1
  <2>1. \A k \in 3..4 : At(m, v, k) = -1
    BY <1>2, Gap
  <2>2. FirstGap(m, v, 3)
    BY <1>2, <2>1 DEF FirstGap
  <2> QED BY <2>2
<1>3. CASE At(m, v, 2) # -1 /\ At(m, v, 3) # -1 /\ At(m, v, 4) = -1
  <2>1. FirstGap(m, v, 4)
    BY <1>3 DEF FirstGap
  <2> QED BY <2>1
<1>4. CASE At(m, v, 2) # -1 /\ At(m, v, 3) # -1 /\ At(m, v, 4) # -1
  <2>1. FirstGap(m, v, 5)
    BY <1>4 DEF FirstGap
  <2> QED BY <2>1
<1> QED BY <1>1, <1>2, <1>3, <1>4, Zenon

(* So Missing counts the levels from the first gap on.                     *)
LEMMA MissingCount ==
    ASSUME NEW v, NEW q \in 2..5, FirstGap(mem, v, q)
    PROVE  Missing(v) = 5 - q
<1>1. {level \in 2..4 : At(mem, v, level) = -1} = q..4
  BY DEF FirstGap
<1>2. Cardinality(q..4) = 5 - q
  BY FS_Interval
<1> QED BY <1>1, <1>2, Zenon DEF Missing

(* They take as many frames as levels are missing.                         *)
LEMMA Maps ==
    ASSUME NEW b, NEW v, NEW q \in 2..5, NEW user, Ready(b, v, q, user)
    PROVE  Extends(b, MapMemory(b, v, user), v, q, 5 - q)
<1> DEFINE e1 == Ensure(b, v, 1, user)
           e2 == Ensure(e1, v, 2, user)
           e3 == Ensure(e2, v, 3, user)
<1>1. Extends(b, b, v, q, 0)
  <2>1. b \in Memory /\ Shape(b) /\ b.free \in Seq(Frame)
    BY Zenon DEF Ready, Memory
  <2> QED BY <2>1 DEF Extends
<1>2. \A l \in 1..3 : l + 1 < q => Ensure(b, v, l, user) = b
  BY EnsureOld DEF Ready, FirstGap
<1>3. MapMemory(b, v, user) = e3
  BY Zenon DEF MapMemory
<1>4. CASE q = 5
  BY <1>1, <1>2, <1>3, <1>4
<1>5. CASE q = 4
  <2>1. e1 = b /\ e2 = b
    BY <1>2, <1>5
  <2>2. Extends(b, Ensure(b, v, q + 0 - 1, user), v, q, 0 + 1)
    BY <1>1, <1>5, ExtendsStep
  <2> QED BY <2>1, <2>2, <1>3, <1>5
<1>6. CASE q = 3
  <2>1. e1 = b
    BY <1>2, <1>6
  <2>2. Extends(b, Ensure(b, v, q + 0 - 1, user), v, q, 0 + 1)
    BY <1>1, <1>6, ExtendsStep
  <2>3. Extends(b, e2, v, q, 1)
    BY <2>1, <2>2, <1>6
  <2> HIDE DEF e2
  <2>4. Extends(b, Ensure(e2, v, q + 1 - 1, user), v, q, 1 + 1)
    BY <2>3, <1>6, ExtendsStep
  <2> QED BY <2>4, <1>3, <1>6
<1>7. CASE q = 2
  <2>2. Extends(b, Ensure(b, v, q + 0 - 1, user), v, q, 0 + 1)
    BY <1>1, <1>7, ExtendsStep
  <2>3. Extends(b, e1, v, q, 1)
    BY <2>2, <1>7
  <2> HIDE DEF e1
  <2>4. Extends(b, Ensure(e1, v, q + 1 - 1, user), v, q, 1 + 1)
    BY <2>3, <1>7, ExtendsStep
  <2>5. Extends(b, e2, v, q, 2)
    BY <2>4, <1>7
  <2> HIDE DEF e2
  <2>6. Extends(b, Ensure(e2, v, q + 2 - 1, user), v, q, 2 + 1)
    BY <2>5, <1>7, ExtendsStep
  <2> QED BY <2>6, <1>3, <1>7
<1> QED BY <1>4, <1>5, <1>6, <1>7, SMTT(30)

(* page_unmap frees the tables of v from some level on.                    *)
LEMMA FreedFrom ==
    ASSUME NEW m, NEW v
    PROVE  \E q \in 2..5 :
              /\ \A l \in q..4 : Alone(m, v, l)
              /\ Freed(m, v) = [k \in 1..(5 - q) |-> At(m, v, k + q - 1)]
<1> DEFINE S == AloneFrom(m, v, 2)
<1>1. S = {level \in 2..4 : \A l \in level..4 : Alone(m, v, l)}
  BY Zenon DEF AloneFrom, Alone
<1>2. \E q \in 2..5 : S = q..4 /\ \A l \in q..4 : Alone(m, v, l)
  <2> HIDE DEF S
  <2>1. CASE ~Alone(m, v, 4)
    <3>1. S = 5..4
      BY <1>1, <2>1
    <3> QED BY <3>1
  <2>2. CASE Alone(m, v, 4) /\ ~Alone(m, v, 3)
    <3>1. S = 4..4
      BY <1>1, <2>2
    <3> QED BY <3>1, <2>2
  <2>3. CASE Alone(m, v, 4) /\ Alone(m, v, 3) /\ ~Alone(m, v, 2)
    <3>1. S = 3..4
      BY <1>1, <2>3
    <3>2. \A l \in 3..4 : Alone(m, v, l)
      BY <2>3
    <3> QED BY <3>1, <3>2
  <2>4. CASE Alone(m, v, 4) /\ Alone(m, v, 3) /\ Alone(m, v, 2)
    <3>1. \A l \in 2..4 : Alone(m, v, l)
      BY <2>4
    <3>2. S = 2..4
      BY <1>1, <3>1
    <3> QED BY <3>1, <3>2
  <2> QED BY <2>1, <2>2, <2>3, <2>4, Zenon
<1>3. PICK q \in 2..5 : S = q..4 /\ \A l \in q..4 : Alone(m, v, l)
  BY <1>2, Zenon
<1>4. Cardinality(S) = 5 - q
  <2>1. Cardinality(q..4) = 5 - q
    BY FS_Interval
  <2> HIDE DEF S
  <2> QED BY <2>1, <1>3, Zenon
<1>5. Freed(m, v) = [k \in 1..(5 - q) |-> At(m, v, k + 4 - (5 - q))]
  BY <1>4, Zenon DEF Freed
<1>6. \A k \in 1..(5 - q) : k + 4 - (5 - q) = k + q - 1
  OBVIOUS
<1> HIDE DEF S
<1>7. Freed(m, v) = [k \in 1..(5 - q) |-> At(m, v, k + q - 1)]
  BY <1>5, <1>6, Zenon
<1> QED BY <1>3, <1>7, Zenon

-----------------------------------------------------------------------------

(* Memory n after page_unmap(v): v has lost its leaf, and no page that is  *)
(* mapped has lost a table that was not free before.                       *)
HasUnmapped(m, n, v) ==
    /\ n \in Memory /\ Shape(n) /\ SameAt(m, n)
    /\ LeafOf(n, v) = Absent
    /\ \A w \in VPage \ {v} : LeafOf(n, w) = LeafOf(m, w)
    /\ \A w \in VPage \ {v} :
          LeafOf(m, w) # Absent /\ TablesOf(m, w) \cap Range(m.free) = {}
          => TablesOf(n, w) \cap Range(n.free) = {}

(* That is what page_unmap makes of memory m.                              *)
LEMMA Unmapping ==
    ASSUME NEW m \in Memory, Shape(m), NEW v \in VPage, At(m, v, 4) # -1,
           ~FreesAgain(m, v), NEW n, n = Cleared(m, v)
    PROVE  HasUnmapped(m, n, v)
<1> USE SMTT(30)
<1>1. Path(m) /\ Open(m) /\ Distinct(m.free) /\ m.free \in Seq(Frame)
  BY Zenon DEF Shape, Memory
<1>2. n.tables = [m.tables EXCEPT ![At(m, v, 4)][v[4]] = Absent]
      /\ n.free = Push(Freed(m, v), m.free) /\ n = [tables |-> n.tables, free |-> n.free]
  BY Zenon DEF Cleared
<1>3. /\ n.tables \in [Table -> [Index -> Entry]]
      /\ SameAt(m, n) /\ Path(n) /\ Open(n)
      /\ LeafOf(n, v) = Absent
      /\ \A w \in VPage \ {v} : LeafOf(n, w) = LeafOf(m, w)
  <2>1. Written(m, n, v, Absent)
    BY <1>1, <1>2, LeafWrite, EntryTypes, Zenon
  <2> QED BY <2>1, Zenon DEF Written
<1>4. PICK q \in 2..5 :
          /\ \A l \in q..4 : Alone(m, v, l)
          /\ Freed(m, v) = [k \in 1..(5 - q) |-> At(m, v, k + q - 1)]
  BY FreedFrom
<1> DEFINE s == Freed(m, v)
<1>5. \A k \in 1..(5 - q) : k + q - 1 \in q..4 /\ k + q - 1 \in 2..4 /\ s[k] = At(m, v, k + q - 1)
  BY <1>4
<1>6. \A k \in 1..(5 - q) : s[k] \in Frame /\ s[k] # -1
  <2>1. \A l \in 2..4 : At(m, v, l) # -1 /\ At(m, v, l) \in Frame
    BY <1>1, Complete, InFrame
  <2> QED BY <2>1, <1>5, Zenon
<1>7. s \in Seq(Frame) /\ DOMAIN s = 1..(5 - q)
  <2>1. s = [k \in 1..(5 - q) |-> At(m, v, k + q - 1)] /\ 5 - q \in Nat
    BY <1>4
  <2>2. \A k \in 1..(5 - q) : At(m, v, k + q - 1) \in Frame
    BY <1>5, <1>6, Zenon
  <2> HIDE DEF s
  <2>3. s \in [1..(5 - q) -> Frame]
    BY <2>1, <2>2, Zenon
  <2>4. \A n1 \in Nat : \A f \in [1..n1 -> Frame] : f \in Seq(Frame) /\ DOMAIN f = 1..n1
    OBVIOUS
  <2> QED BY <2>1, <2>3, <2>4, Zenon
<1> HIDE DEF s
<1>8. Distinct(s)
  <2> SUFFICES ASSUME NEW a \in 1..(5 - q), NEW b \in 1..(5 - q), s[a] = s[b] PROVE a = b
    BY <1>7, Zenon DEF Distinct
  <2>1. At(m, v, a + q - 1) = At(m, v, b + q - 1) /\ At(m, v, a + q - 1) # -1
    BY <1>5, <1>6, Zenon
  <2>2. a + q - 1 = b + q - 1
    BY <2>1, <1>1, <1>5, OneLevel, SMTT(30)
  <2> QED BY <2>2
<1>9. Range(s) \cap Range(m.free) = {}
  BY Zenon DEF FreesAgain, s
<1>10. /\ n.free \in Seq(Frame) /\ Distinct(n.free)
       /\ Range(n.free) \subseteq Range(s) \cup Range(m.free)
  BY <1>1, <1>2, <1>7, <1>8, <1>9, Pushed, SMTT(30) DEF s
<1>11. n \in Memory /\ Shape(n)
  BY <1>2, <1>3, <1>10, Zenon DEF Memory, Shape
<1>12. ASSUME NEW w \in VPage \ {v}, LeafOf(m, w) # Absent,
              TablesOf(m, w) \cap Range(m.free) = {}
       PROVE  TablesOf(n, w) \cap Range(n.free) = {}
  <2>1. TablesOf(n, w) = TablesOf(m, w)
    BY <1>3, SMTT(30) DEF TablesOf, SameAt
  <2>2. ASSUME NEW x \in TablesOf(m, w), x \in Range(s) PROVE FALSE
    <3>1. PICK k \in 1..(5 - q) : x = At(m, v, k + q - 1)
      BY <2>2, <1>5, <1>7, Zenon DEF Range
    <3>2. PICK l \in 2..4 : x = At(m, w, l)
      BY <2>2, Zenon DEF TablesOf
    <3>3. k + q - 1 \in q..4 /\ At(m, w, l) = At(m, v, k + q - 1)
      BY <3>1, <3>2, <1>5, Zenon
    <3> DEFINE j == k + q - 1
    <3> HIDE DEF j
    <3>4. j \in q..4 /\ At(m, w, l) = At(m, v, j)
      BY <3>3, Zenon DEF j
    <3> QED BY <3>4, <1>1, <1>4, <1>12, Unneeded
  <2> QED BY <2>1, <2>2, <1>10, <1>12, ZenonT(60)
<1> QED BY <1>3, <1>11, <1>12, Zenon DEF HasUnmapped

(* Empty tables and ascending frames.                                      *)
LEMMA InitIInv == Init => IInv
<1> SUFFICES ASSUME Init PROVE IInv
  BY Zenon
<1>1. PICK order \in [1..Cardinality(Frame) -> Frame] :
          /\ \A a, b \in DOMAIN order : order[a] <= order[b] <=> a <= b
          /\ mem = [tables |-> [t \in Table |-> Empty], free |-> order]
  BY Zenon DEF Init
<1>2. /\ want = [v \in VPage |-> Absent] /\ remapped = {} /\ late = {} /\ aliased = {}
      /\ tlb = [v \in VPage |-> 0] /\ reused = FALSE /\ phase = "running"
  BY Zenon DEF Init, Unmapped
<1>3. Cardinality(Frame) \in Nat
  BY PageAssumption, FS_CardinalityType, Zenon
<1>4. order \in Seq(Frame) /\ DOMAIN order = 1..Cardinality(Frame)
  BY <1>3
<1>5. mem \in Memory
  BY <1>1, <1>4, EntryTypes, Zenon DEF Memory
<1>6. Distinct(mem.free)
  <2>1. \A a, b \in 1..Cardinality(Frame) : order[a] = order[b] => a = b
    BY <1>1, <1>3, <1>4, PageAssumption
  <2> QED BY <1>1, <1>4, <2>1 DEF Distinct
<1>7. \A v \in VPage, l \in 2..4 : At(mem, v, l) = -1
  <2> SUFFICES ASSUME NEW v \in VPage PROVE \A l \in 2..4 : At(mem, v, l) = -1
    BY Zenon
  <2>1. mem.tables[PML4][v[1]] = Absent
    BY <1>1, Indexes DEF Table, Empty
  <2>2. At(mem, v, 2) = -1
    BY <2>1, Hops, Zenon DEF Hop, Present
  <2> QED BY <2>2, Gap
<1>8. Path(mem)
  BY <1>7, Zenon DEF Path
<1>9. Open(mem)
  <2>1. \A v \in UserPage, l \in 1..3 : v \in VPage /\ l + 1 \in 2..4
    BY DEF VPage
  <2> QED BY <2>1, <1>7, Zenon DEF Open
<1>10. Shape(mem)
  BY <1>6, <1>8, <1>9, Zenon DEF Shape
<1>11. Leaves
  BY <1>2, <1>7 DEF Leaves, LeafOf
<1>12. Wanted /\ Cached /\ FreedTablesUnneeded /\ NoStaleTranslation
  BY <1>2, Zenon DEF Wanted, Cached, FreedTablesUnneeded, NoStaleTranslation, Unmapped
<1>13. Types
  BY <1>2, <1>5, Zenon DEF Types, Absent
<1> QED BY <1>10, <1>11, <1>12, <1>13, Zenon DEF IInv

(* While the kernel runs and no table was reused.                          *)
Inside == Shape(mem) /\ Leaves /\ Cached /\ FreedTablesUnneeded

(* Whatever else a step does, it keeps the invariant if it keeps these.    *)
LEMMA StepParts ==
    ASSUME Types', Wanted', Running' => Inside', NoStaleTranslation'
    PROVE  IInv'
BY Zenon DEF IInv, Inside

(* Invalidating a page whose PT exists leaves no cached translation of it. *)
LEMMA Invalidated ==
    ASSUME IInv, Running, NEW v \in VPage, At(mem, v, 4) # -1, Invalidate(v)
    PROVE  tlb' = [tlb EXCEPT ![v] = 0]
<1>1. Leaves /\ Cached /\ tlb \in [VPage -> Phys \cup {0}]
  BY Zenon DEF IInv, Types
<1>2. CASE Present(mem.tables[At(mem, v, 4)][v[4]])
  BY <1>2, Zenon DEF Invalidate
<1>3. CASE ~Present(mem.tables[At(mem, v, 4)][v[4]])
  <2>1. LeafOf(mem, v) = Absent
    BY <1>3, Zenon DEF LeafOf, Present
  <2>2. tlb[v] = 0
    BY <2>1, <1>1, Zenon DEF Leaves, Cached, Unmapped
  <2>3. tlb' = tlb
    BY <1>3, Zenon DEF Invalidate
  <2> QED BY <1>1, <2>2, <2>3, Zenon
<1> QED BY <1>2, <1>3, Zenon

(* One lemma per action: page_unmap,                                       *)
LEMMA UnmapIInv ==
    ASSUME IInv, NEW v \in VPage, page_unmap(v)
    PROVE  IInv'
<1> USE SMTT(30)
<1>1. /\ Running /\ At(mem, v, 4) # -1 /\ Unmap(mem, v)
      /\ want' = [want EXCEPT ![v] = Absent]
      /\ remapped' = remapped \ {v} /\ late' = late \ {v} /\ aliased' = aliased \ {v}
      /\ reused' = reused
  BY Zenon DEF page_unmap, Unmapped
<1>2. Types /\ Wanted /\ Shape(mem) /\ Leaves /\ Cached /\ FreedTablesUnneeded
  BY <1>1, Zenon DEF IInv
<1>3. /\ want' \in [VPage -> [to : Phys \cup {0}, user : BOOLEAN]]
      /\ remapped' \subseteq VPage /\ late' \subseteq VPage /\ aliased' \subseteq VPage
      /\ reused' \in BOOLEAN
  <2>1. Absent \in [to : Phys \cup {0}, user : BOOLEAN]
    BY Zenon DEF Absent
  <2> QED BY <2>1, <1>1, <1>2, Zenon DEF Types
<1>4. /\ want'[v] = Absent
      /\ \A w \in VPage \ {v} : want'[w] = want[w]
  BY <1>1, <1>2, Zenon DEF Types
<1>5. Wanted'
  BY <1>2, <1>4, Zenon DEF Wanted, Unmapped
<1>6. CASE FreesAgain(mem, v) /\ phase' = "freed_twice" /\ mem' = mem /\ tlb' = tlb
  <2>1. Types'
    BY <1>2, <1>3, <1>6, Zenon DEF Types
  <2> QED BY <2>1, <1>5, <1>6, StepParts, Zenon DEF Running, NoStaleTranslation
<1>7. CASE ~FreesAgain(mem, v) /\ mem' = Cleared(mem, v) /\ Invalidate(v) /\ phase' = phase
  <2>1. HasUnmapped(mem, mem', v)
    BY <1>1, <1>2, <1>7, Unmapping, Zenon DEF Types
  <2>2. tlb' = [tlb EXCEPT ![v] = 0]
    BY <1>1, <1>7, Invalidated, Zenon
  <2>3. /\ tlb' \in [VPage -> Phys \cup {0}] /\ tlb'[v] = 0
        /\ \A w \in VPage \ {v} : tlb'[w] = tlb[w]
    BY <2>2, <1>2, Zenon DEF Types
  <2>4. Types'
    BY <2>1, <2>3, <1>2, <1>3, <1>7, Zenon DEF Types, HasUnmapped
  <2>5. Leaves'
    BY <2>1, <1>1, <1>2, <1>4, Zenon DEF Leaves, HasUnmapped
  <2>6. Cached'
    BY <2>3, <1>1, <1>2, <1>4, Zenon DEF Cached
  <2>7. FreedTablesUnneeded'
    <3> SUFFICES ASSUME NEW w \in VPage, w \notin late', w \notin aliased', want'[w] # Absent
                 PROVE  TablesOf(mem', w) \cap Range(mem'.free) = {}
      BY Zenon DEF FreedTablesUnneeded, Unmapped
    <3>1. w # v /\ w \notin late /\ w \notin aliased /\ want[w] # Absent
      BY <1>1, <1>4, Zenon
    <3>2. LeafOf(mem, w) # Absent
      BY <3>1, <1>2, Zenon DEF Leaves
    <3>3. TablesOf(mem, w) \cap Range(mem.free) = {}
      BY <3>1, <1>1, <1>2, Zenon DEF FreedTablesUnneeded, Unmapped
    <3> QED BY <3>1, <3>2, <3>3, <2>1, Zenon DEF HasUnmapped
  <2>8. NoStaleTranslation'
    BY <2>6, Zenon DEF Cached, NoStaleTranslation
  <2> QED BY <2>1, <2>4, <2>5, <2>6, <2>7, <2>8, <1>5, StepParts, Zenon DEF HasUnmapped, Inside
<1> QED BY <1>1, <1>6, <1>7, Zenon DEF Unmap

(* pmm_alloc_high, which may unmap the page of a program,                  *)
LEMMA AllocIInv ==
    ASSUME IInv, pmm_alloc_high
    PROVE  IInv'
<1> USE SMTT(30)
<1> DEFINE low == Head(mem.free)
           m   == [mem EXCEPT !.free = Tail(@)]
           v   == LowAlias[low]
<1>1. /\ Running /\ mem.free # <<>>
      /\ reused' = (low \in Reachable(mem))
      /\ want' = want /\ remapped' = remapped /\ late' = late
      /\ \/ mem' = m /\ aliased' = aliased /\ tlb' = tlb /\ phase' = phase
         \/ /\ low \in DOMAIN LowAlias /\ At(m, v, 4) # -1 /\ Unmap(m, v)
            /\ aliased' = aliased \cup {w \in {v} : want[w] # Absent}
  BY Zenon DEF pmm_alloc_high, Unmapped
<1>2. Types /\ Wanted /\ Shape(mem) /\ Leaves /\ Cached /\ FreedTablesUnneeded
  BY <1>1, Zenon DEF IInv
<1>3. /\ m \in Memory /\ Shape(m) /\ SameAt(mem, m)
      /\ \A w \in VPage : LeafOf(m, w) = LeafOf(mem, w)
      /\ Range(m.free) \subseteq Range(mem.free)
  BY <1>1, <1>2, Popped, Zenon DEF Types
<1> HIDE DEF m
<1>4. Wanted' /\ reused' \in BOOLEAN
  BY <1>1, <1>2 DEF Wanted
<1>5. \A w \in VPage : TablesOf(m, w) = TablesOf(mem, w)
  BY <1>3 DEF TablesOf, SameAt
<1>6. CASE mem' = m /\ aliased' = aliased /\ tlb' = tlb /\ phase' = phase
  <2>1. Types'
    BY <1>1, <1>2, <1>3, <1>4, <1>6, Zenon DEF Types
  <2>2. Leaves' /\ Cached'
    BY <1>1, <1>2, <1>3, <1>6, Zenon DEF Leaves, Cached
  <2>3. FreedTablesUnneeded'
    BY <1>1, <1>2, <1>3, <1>5, <1>6, Zenon DEF FreedTablesUnneeded
  <2>4. NoStaleTranslation'
    BY <2>2, Zenon DEF Cached, NoStaleTranslation
  <2> QED BY <2>1, <2>2, <2>3, <2>4, <1>3, <1>4, <1>6, StepParts, Zenon DEF Inside
<1>7. CASE /\ low \in DOMAIN LowAlias /\ At(m, v, 4) # -1 /\ Unmap(m, v)
           /\ aliased' = aliased \cup {w \in {v} : want[w] # Absent}
  <2>1. v \in VPage
    BY <1>7, PageAssumption, Zenon DEF VPage
  <2> HIDE DEF v
  <2>2. aliased' \subseteq VPage /\ (v \notin aliased' => want[v] = Absent)
        /\ aliased \subseteq aliased' /\ \A w \in VPage \ {v} : w \in aliased' <=> w \in aliased
    BY <2>1, <1>2, <1>7, Zenon DEF Types
  <2>3. CASE FreesAgain(m, v) /\ phase' = "freed_twice" /\ mem' = mem /\ tlb' = tlb
    <3>1. Types'
      BY <2>2, <2>3, <1>1, <1>2, <1>4, Zenon DEF Types
    <3> QED BY <3>1, <2>3, <1>4, StepParts, Zenon DEF Running, NoStaleTranslation
  <2>4. CASE ~FreesAgain(m, v) /\ mem' = Cleared(m, v) /\ Invalidate(v) /\ phase' = phase
    <3>1. HasUnmapped(m, mem', v)
      BY <2>1, <2>4, <1>3, <1>7, Unmapping, Zenon
    <3>2. At(mem, v, 4) # -1
      BY <2>1, <1>3, <1>7 DEF SameAt
    <3>3. tlb' = [tlb EXCEPT ![v] = 0]
      BY <2>1, <2>4, <3>2, <1>1, Invalidated, Zenon
    <3>4. /\ tlb' \in [VPage -> Phys \cup {0}] /\ tlb'[v] = 0
          /\ \A w \in VPage \ {v} : tlb'[w] = tlb[w]
      BY <2>1, <3>3, <1>2, Zenon DEF Types
    <3>5. Types'
      BY <2>2, <2>4, <3>1, <3>4, <1>1, <1>2, <1>4, Zenon DEF Types, HasUnmapped
    <3>6. Leaves'
      <4> SUFFICES ASSUME NEW w \in VPage
                   PROVE  LeafOf(mem', w) = IF w \in aliased' THEN Absent ELSE want[w]
        BY <1>1, Zenon DEF Leaves
      <4>1. CASE w = v
        BY <4>1, <3>1, <2>2, Zenon DEF HasUnmapped
      <4>2. CASE w # v
        BY <4>2, <3>1, <2>2, <1>2, <1>3, Zenon DEF HasUnmapped, Leaves
      <4> QED BY <4>1, <4>2, Zenon
    <3>7. Cached'
      <4>1. \A w \in VPage : want[w] = Absent \/ w \in aliased' => tlb'[w] = 0
        BY <3>4, <2>2, <1>2, Zenon DEF Cached, Unmapped
      <4>2. \A w \in VPage \ remapped : tlb'[w] \in {0, want[w].to}
        BY <3>4, <1>2, Zenon DEF Cached
      <4> QED BY <4>1, <4>2, <1>1, Zenon DEF Cached, Unmapped
    <3>8. FreedTablesUnneeded'
      <4> SUFFICES ASSUME NEW w \in VPage, w \notin late', w \notin aliased', want'[w] # Absent
                   PROVE  TablesOf(mem', w) \cap Range(mem'.free) = {}
        BY Zenon DEF FreedTablesUnneeded, Unmapped
      <4>1. w # v /\ w \notin late /\ w \notin aliased /\ want[w] # Absent
        BY <2>2, <1>1, Zenon
      <4>2. LeafOf(m, w) # Absent
        BY <4>1, <1>2, <1>3, Zenon DEF Leaves
      <4>3. TablesOf(m, w) \cap Range(m.free) = {}
        BY <4>1, <1>1, <1>2, <1>3, <1>5, Zenon DEF FreedTablesUnneeded, Unmapped
      <4> QED BY <4>1, <4>2, <4>3, <3>1, Zenon DEF HasUnmapped
    <3>9. NoStaleTranslation'
      BY <3>7, Zenon DEF Cached, NoStaleTranslation
    <3> QED BY <3>1, <3>5, <3>6, <3>7, <3>8, <3>9, <1>4, StepParts, Zenon DEF HasUnmapped, Inside
  <2> QED BY <2>3, <2>4, <1>7, Zenon DEF Unmap
<1> QED BY <1>1, <1>6, <1>7, Zenon

(* kcalloc_page,                                                           *)
LEMMA TakeIInv ==
    ASSUME IInv, kcalloc_page
    PROVE  IInv'
<1> USE SMTT(30)
<1> DEFINE f == Head(mem.free)
<1>1. /\ Running /\ mem.free # <<>>
      /\ mem' = [tables |-> [mem.tables EXCEPT ![f] = Empty], free |-> Tail(mem.free)]
      /\ reused' = (f \in Reachable(mem))
      /\ want' = want /\ remapped' = remapped /\ late' = late /\ aliased' = aliased
      /\ tlb' = tlb /\ phase' = phase
  BY Zenon DEF kcalloc_page
<1>2. Types /\ Wanted /\ Shape(mem) /\ Leaves /\ Cached /\ FreedTablesUnneeded
  BY <1>1, Zenon DEF IInv
<1>3. Path(mem) /\ Open(mem) /\ Distinct(mem.free) /\ mem \in Memory /\ mem.free \in Seq(Frame)
  BY <1>2, Zenon DEF Shape, Types, Memory
<1>4. /\ f \in Frame /\ Tail(mem.free) \in Seq(Frame) /\ Distinct(Tail(mem.free))
      /\ Range(Tail(mem.free)) \subseteq Range(mem.free)
  BY <1>1, <1>3, HeadTail, Zenon
<1> HIDE DEF f
<1>5. mem' \in Memory
  BY <1>1, <1>3, <1>4, EntryTypes, Zenon DEF Memory
<1>6. Types' /\ Wanted' /\ NoStaleTranslation'
  <2>1. reused' \in BOOLEAN
    BY <1>1
  <2> QED BY <2>1, <1>1, <1>2, <1>5, ZenonT(60) DEF Types, Wanted, NoStaleTranslation, Cached
<1>7. ASSUME f \notin Reachable(mem) PROVE Inside'
  <2>0. mem'.tables = [mem.tables EXCEPT ![f] = Empty] /\ mem'.free = Tail(mem.free)
    BY <1>1, Zenon
  <2>1. SameAt(mem, mem')
    BY <2>0, <1>3, <1>4, <1>7, Clearing, Zenon
  <2>2. Path(mem')
    BY <2>1, <1>3, SameReach, Zenon
  <2>3. ASSUME NEW v \in VPage, NEW l \in 1..4, At(mem, v, l) # -1
        PROVE  mem'.tables[At(mem, v, l)] = mem.tables[At(mem, v, l)]
    <3>1. At(mem, v, l) \in Table /\ At(mem, v, l) # f
      BY <2>3, <1>3, <1>4, <1>7, InFrame, PageAssumption
    <3> QED BY <3>1, <2>0, <1>3, Zenon DEF Memory
  <2>4. Open(mem')
    <3> SUFFICES ASSUME NEW w \in UserPage, NEW l \in 1..3, At(mem', w, l + 1) # -1
                 PROVE  mem'.tables[At(mem', w, l)][w[l]].user = TRUE
      BY Zenon DEF Open
    <3>1. w \in VPage
      BY Zenon DEF VPage
    <3>2. At(mem', w, l) = At(mem, w, l) /\ At(mem, w, l + 1) # -1
      BY <2>1, <3>1 DEF SameAt
    <3>3. At(mem, w, l) # -1
      BY <3>2, HopAt, Zenon DEF Hop
    <3>4. mem'.tables[At(mem, w, l)] = mem.tables[At(mem, w, l)]
      BY <3>1, <3>3, <2>3, SMTT(30)
    <3> QED BY <3>2, <3>4, <1>3, Zenon DEF Open
  <2>5. \A v \in VPage : LeafOf(mem', v) = LeafOf(mem, v)
    BY <2>1, <2>3 DEF LeafOf, SameAt
  <2>6. Leaves' /\ Cached'
    BY <2>5, <1>1, <1>2, Zenon DEF Leaves, Cached
  <2>7. FreedTablesUnneeded'
    <3>1. \A v \in VPage : TablesOf(mem', v) = TablesOf(mem, v)
      BY <2>1 DEF TablesOf, SameAt
    <3> QED BY <3>1, <2>0, <1>1, <1>2, <1>4, Zenon DEF FreedTablesUnneeded
  <2>8. Shape(mem')
    BY <2>0, <2>2, <2>4, <1>4, Zenon DEF Shape
  <2> QED BY <2>6, <2>7, <2>8, Zenon DEF Inside
<1>8. Running' => f \notin Reachable(mem)
  BY <1>1, Zenon DEF Running
<1> QED BY <1>6, <1>7, <1>8, StepParts, Zenon

(* page_virt_to_phys_addr reads the leaf.                                  *)
LEMMA Translation ==
    ASSUME NEW v
    PROVE  page_virt_to_phys_addr(v) = IF Present(LeafOf(mem, v)) THEN LeafOf(mem, v).to ELSE 0
BY Zenon DEF page_virt_to_phys_addr, LeafOf, Present, Absent

(* the processor,                                                          *)
LEMMA AccessIInv ==
    ASSUME IInv, NEW v \in VPage, Access(v)
    PROVE  IInv'
<1> USE SMTT(30)
<1>1. /\ Running /\ page_virt_to_phys_addr(v) # 0
      /\ tlb' = [tlb EXCEPT ![v] = page_virt_to_phys_addr(v)]
      /\ mem' = mem /\ want' = want /\ remapped' = remapped /\ late' = late /\ aliased' = aliased
      /\ reused' = reused /\ phase' = phase
  BY Zenon DEF Access
<1>2. Types /\ Wanted /\ Shape(mem) /\ Leaves /\ Cached /\ FreedTablesUnneeded
  BY <1>1, Zenon DEF IInv
<1>3. v \notin aliased /\ want[v] # Absent /\ page_virt_to_phys_addr(v) = want[v].to
  BY <1>1, <1>2, Translation, Zenon DEF Leaves, Present
<1>4. want[v].to \in Phys \cup {0}
  BY <1>2, Zenon DEF Types
<1>5. /\ tlb' \in [VPage -> Phys \cup {0}] /\ tlb'[v] = want[v].to
      /\ \A w \in VPage \ {v} : tlb'[w] = tlb[w]
  BY <1>1, <1>2, <1>3, <1>4, Zenon DEF Types
<1>6. Types' /\ Wanted'
  BY <1>1, <1>2, <1>5, Zenon DEF Types, Wanted
<1>7. Leaves' /\ FreedTablesUnneeded' /\ Shape(mem')
  BY <1>1, <1>2, Zenon DEF Leaves, FreedTablesUnneeded, Running
<1>8. Cached'
  BY <1>1, <1>2, <1>3, <1>5, Zenon DEF Cached, Unmapped
<1>9. NoStaleTranslation'
  BY <1>8, Zenon DEF Cached, NoStaleTranslation
<1> QED BY <1>6, <1>7, <1>8, <1>9, StepParts, Zenon DEF Inside

(* and page_map.                                                           *)
LEMMA MapIInv ==
    ASSUME IInv, NEW v \in VPage, NEW phys \in Phys, NEW user \in BOOLEAN,
           user = TRUE <=> v \in UserPage, page_map(v, phys, user)
    PROVE  IInv'
<1> USE SMTT(30)
<1> DEFINE M == MapMemory(mem, v, user)
           e == [to |-> phys, user |-> user]
<1>1. Running
  BY Zenon DEF page_map
<1>2. Types /\ Wanted /\ Shape(mem) /\ Leaves /\ Cached /\ FreedTablesUnneeded
  BY <1>1, Zenon DEF IInv
<1>3. CASE phase' = "out_of_memory" /\ UNCHANGED <<mem, want, remapped, late, aliased, tlb, reused>>
  BY <1>2, <1>3, StepParts, Zenon DEF Types, Wanted, Running, NoStaleTranslation, Cached
<1>4. CASE /\ Missing(v) <= Len(mem.free)
           /\ mem' = [M EXCEPT !.tables[At(M, v, 4)][v[4]] = e]
           /\ want' = [want EXCEPT ![v] = e]
           /\ remapped' = IF want[v] # Absent THEN remapped \cup {v} ELSE remapped
           /\ late' = IF TablesOf(mem, v) \cap Range(mem.free) # {}
                      THEN late \cup {v} ELSE late \ {v}
           /\ aliased' = aliased \ {v}
           /\ reused' = (\E k \in 1..Missing(v) : mem.free[k] \in Reachable(mem))
           /\ tlb' = tlb /\ phase' = phase
  <2>1. PICK q \in 2..5 : FirstGap(mem, v, q)
    BY Gaps, Zenon
  <2>2. Missing(v) = 5 - q
    BY <2>1, MissingCount, Zenon
  <2>3. mem \in Memory /\ mem.free \in Seq(Frame) /\ Distinct(mem.free)
    BY <1>2, Zenon DEF Types, Memory, Shape
  <2>4. M \in Memory
    BY <2>1, <2>2, <2>3, <1>4, MapType, Zenon
  <2>5. e \in Entry /\ e # Absent /\ e \in [to : Phys \cup {0}, user : BOOLEAN] /\ e.to = phys
        /\ (e.user <=> v \in UserPage)
    BY EntryTypes, PageAssumption, Zenon DEF Absent, PML4
  <2> HIDE DEF M, e
  <2>6. mem' \in Memory
    <3>1. mem' = [tables |-> [M.tables EXCEPT ![At(M, v, 4)][v[4]] = e], free |-> M.free]
      BY <1>4, <2>4, Zenon DEF Memory
    <3>2. v[4] \in Index
      BY Indexes
    <3>3. [M.tables EXCEPT ![At(M, v, 4)][v[4]] = e] \in [Table -> [Index -> Entry]]
      <4>1. CASE At(M, v, 4) \in Table
        BY <4>1, <3>2, <2>4, <2>5, Zenon DEF Memory
      <4>2. CASE At(M, v, 4) \notin Table
        BY <4>2, <2>4, Zenon DEF Memory
      <4> QED BY <4>1, <4>2, Zenon
    <3> QED BY <3>1, <3>3, <2>4, Zenon DEF Memory
  <2>7. want'[v] = e /\ \A w \in VPage \ {v} : want'[w] = want[w]
    BY <1>2, <1>4, Zenon DEF Types
  <2>8. Types'
    <3>1. want' \in [VPage -> [to : Phys \cup {0}, user : BOOLEAN]]
      BY <1>2, <1>4, <2>5, Zenon DEF Types
    <3>2. remapped' \subseteq VPage /\ late' \subseteq VPage /\ aliased' \subseteq VPage
      BY <1>2, <1>4, Zenon DEF Types
    <3>3. reused' \in BOOLEAN
      BY <1>4, Zenon
    <3> QED BY <3>1, <3>2, <3>3, <2>6, <1>2, <1>4, Zenon DEF Types
  <2>9. Wanted'
    BY <2>5, <2>7, <1>2, Zenon DEF Wanted
  <2>10. Cached'
    <3>1. v \notin remapped' => tlb[v] = 0
      BY <1>2, <1>4, Zenon DEF Cached, Unmapped
    <3>2. \A w \in VPage : want'[w] = Absent \/ w \in aliased' => tlb[w] = 0
      BY <2>5, <2>7, <1>2, <1>4, Zenon DEF Cached, Unmapped
    <3>3. \A w \in VPage \ remapped' : tlb[w] \in {0, want'[w].to}
      BY <3>1, <2>7, <1>2, <1>4, Zenon DEF Cached
    <3> QED BY <3>2, <3>3, <1>4, Zenon DEF Cached, Unmapped
  <2>11. NoStaleTranslation'
    BY <2>10, Zenon DEF Cached, NoStaleTranslation
  <2>12. ASSUME \A k \in 1..Missing(v) : mem.free[k] \notin Reachable(mem)
         PROVE  Shape(mem') /\ Leaves' /\ FreedTablesUnneeded'
    <3>1. Ready(mem, v, q, user)
      BY <2>1, <2>2, <2>3, <2>12, <1>2, <1>4, Zenon DEF Ready, Opens
    <3>2. Extends(mem, M, v, q, 5 - q)
      BY <3>1, Maps, Zenon DEF M
    <3>3. /\ Shape(M)
          /\ \A w \in VPage : LeafOf(M, w) = LeafOf(mem, w)
          /\ \A w \in VPage, l \in 1..4 :
                At(M, w, l) = IF l \in q..4 /\ Same(v, w, l - 1) THEN mem.free[l + 1 - q]
                              ELSE At(mem, w, l)
      <4>1. q + (5 - q) - 1 = 4
        OBVIOUS
      <4> QED BY <3>2, <4>1, Zenon DEF Extends
    <3>4. \A l \in 1..4 : At(M, v, l) = IF l \in q..4 THEN mem.free[l + 1 - q] ELSE At(mem, v, l)
      BY <3>3, Zenon DEF Same
    <3>5. \A k \in 1..Len(mem.free) : mem.free[k] \in Frame /\ mem.free[k] # -1
      BY <2>3, PageAssumption
    <3>6. At(M, v, 4) # -1
      <4>1. CASE q = 5
        BY <4>1, <3>4, <2>1, SMTT(30) DEF FirstGap
      <4>2. CASE q \in 2..4
        <5>1. 4 \in q..4 /\ 4 + 1 - q \in 1..Len(mem.free)
          BY <4>2, <2>2, <2>3, <1>4
        <5> QED BY <5>1, <3>4, <3>5
      <4> QED BY <4>1, <4>2, SMTT(30)
    <3>7. mem'.tables = [M.tables EXCEPT ![At(M, v, 4)][v[4]] = e] /\ mem'.free = M.free
      BY <1>4, <2>4, Zenon DEF Memory
    <3>8. Written(M, mem', v, e)
      BY <3>3, <3>6, <3>7, <2>4, <2>5, LeafWrite, Zenon DEF Shape
    <3>9. Shape(mem')
      BY <3>3, <3>7, <3>8, Zenon DEF Shape, Written
    <3>10. Leaves'
      <4> SUFFICES ASSUME NEW w \in VPage
                   PROVE  LeafOf(mem', w) = IF w \in aliased' THEN Absent ELSE want'[w]
        BY Zenon DEF Leaves
      <4>1. CASE w = v
        BY <4>1, <3>8, <2>7, <1>4, ZenonT(60) DEF Written
      <4>2. CASE w # v
        BY <4>2, <3>3, <3>8, <2>7, <1>2, <1>4, SMTT(30) DEF Written, Leaves
      <4> QED BY <4>1, <4>2, Zenon
    <3>11. \A k \in DOMAIN mem'.free : k + (5 - q) \in DOMAIN mem.free /\ mem'.free[k] = mem.free[k + (5 - q)]
      <4>1. /\ Len(M.free) = Len(mem.free) - (5 - q)
            /\ \A k \in 1..(Len(mem.free) - (5 - q)) : M.free[k] = mem.free[k + (5 - q)]
        BY <3>2, Zenon DEF Extends
      <4>2. M.free \in Seq(Frame)
        BY <2>4, Zenon DEF Memory
      <4> QED BY <4>1, <4>2, <3>7, <2>3, SMTT(30)
    <3>12. \A w \in VPage : TablesOf(mem', w) = TablesOf(M, w)
      BY <3>8 DEF TablesOf, Written, SameAt
    <3>13. FreedTablesUnneeded'
      <4> SUFFICES ASSUME NEW w \in VPage, w \notin late', w \notin aliased', want'[w] # Absent
                   PROVE  TablesOf(M, w) \cap Range(mem'.free) = {}
        BY <3>12, Zenon DEF FreedTablesUnneeded, Unmapped
      <4>0. Range(mem'.free) \subseteq Range(mem.free)
        BY <3>11, Zenon DEF Range
      <4>1. CASE w # v
        <5>1. w \notin late /\ w \notin aliased /\ want[w] # Absent
          BY <4>1, <2>7, <1>4, Zenon
        <5>2. LeafOf(mem, w) # Absent
          BY <5>1, <1>2, Zenon DEF Leaves
        <5>3. \A l \in 1..4 : At(mem, w, l) # -1
          BY <5>2, Whole, Zenon
        <5>4. ASSUME NEW l \in 2..4 PROVE At(M, w, l) = At(mem, w, l)
          <6> SUFFICES ASSUME l \in q..4, Same(v, w, l - 1) PROVE FALSE
            BY <3>3
          <6>1. l \in 1..4 /\ l \in 1..l
            OBVIOUS
          <6>2. At(mem, v, l) = At(mem, w, l)
            BY <6>1, SharedWay
          <6>3. At(mem, v, l) = -1
            BY <2>1 DEF FirstGap
          <6> QED BY <6>1, <6>2, <6>3, <5>3, ZenonT(60)
        <5>5. TablesOf(M, w) = TablesOf(mem, w)
          BY <5>4, Zenon DEF TablesOf
        <5>6. TablesOf(mem, w) \cap Range(mem.free) = {}
          BY <5>1, <1>1, <1>2, Zenon DEF FreedTablesUnneeded, Unmapped
        <5> QED BY <5>5, <5>6, <4>0, Zenon
      <4>2. CASE w = v
        <5>1. TablesOf(mem, v) \cap Range(mem.free) = {}
          BY <4>2, <1>4, Zenon
        <5>2. ASSUME NEW l \in 2..4, At(M, v, l) # -1, NEW k \in DOMAIN mem'.free,
                     At(M, v, l) = mem'.free[k]
              PROVE  FALSE
          <6>1. k + (5 - q) \in DOMAIN mem.free /\ At(M, v, l) = mem.free[k + (5 - q)]
            BY <5>2, <3>11, Zenon
          <6>2. CASE l \in q..4
            <7>1. At(M, v, l) = mem.free[l + 1 - q]
              BY <6>2, <3>4
            <7>2. l + 1 - q \in DOMAIN mem.free /\ l + 1 - q <= 5 - q
              BY <6>2, <2>2, <2>3, <1>4
            <7>3. k \in Nat \ {0}
              <8>1. mem'.free \in Seq(Frame)
                BY <2>6, Zenon DEF Memory
              <8> QED BY <8>1
            <7>4. k + (5 - q) # l + 1 - q
              BY <7>2, <7>3
            <7>5. mem.free[k + (5 - q)] = mem.free[l + 1 - q]
              BY <6>1, <7>1, Zenon
            <7> QED BY <6>1, <7>2, <7>4, <7>5, <2>3, ZenonT(60) DEF Distinct
          <6>3. CASE l \notin q..4
            <7>1. At(M, v, l) = At(mem, v, l)
              BY <6>3, <3>4
            <7>2. At(mem, v, l) \in TablesOf(mem, v)
              BY <7>1, <5>2, Zenon DEF TablesOf
            <7> QED BY <6>1, <7>1, <7>2, <5>1, ZenonT(60) DEF Range
          <6> QED BY <6>2, <6>3, Zenon
        <5> QED BY <5>2, <4>2, Zenon DEF TablesOf, Range
      <4> QED BY <4>1, <4>2, Zenon
    <3> QED BY <3>9, <3>10, <3>13, Zenon
  <2>13. Running' => \A k \in 1..Missing(v) : mem.free[k] \notin Reachable(mem)
    BY <1>4, Zenon DEF Running
  <2> QED BY <2>8, <2>9, <2>10, <2>11, <2>12, <2>13, StepParts, Zenon DEF Inside
<1> QED BY <1>3, <1>4, Zenon DEF page_map, MapMemory, Unmapped

(* Every step keeps the invariant.                                         *)
LEMMA Inductive == IInv /\ [Next]_vars => IInv'
<1> SUFFICES ASSUME IInv, [Next]_vars PROVE IInv'
  BY Zenon
<1>1. ASSUME NEW v \in KernelPage, NEW p \in Phys, page_map(v, p, FALSE) PROVE IInv'
  <2>1. v \in VPage /\ v \notin UserPage
    BY HalvesAssumption, Zenon DEF VPage
  <2> QED BY <1>1, <2>1, MapIInv, Zenon
<1>2. ASSUME NEW v \in UserPage, NEW p \in Phys, page_map(v, p, TRUE) PROVE IInv'
  <2>1. v \in VPage
    BY Zenon DEF VPage
  <2> QED BY <1>2, <2>1, MapIInv, Zenon
<1>3. CASE UNCHANGED vars
  BY <1>3, Zenon DEF vars, IInv, Types, Wanted, Running, Leaves, Cached, FreedTablesUnneeded, NoStaleTranslation
<1> QED BY <1>1, <1>2, <1>3, UnmapIInv, AllocIInv, TakeIInv, AccessIInv, Zenon DEF Next

(* Every reachable state has the inductive invariant.                      *)
THEOREM InvariantHolds == Spec => []IInv
<1> QED BY InitIInv, Inductive, PTL DEF Spec

(* A leaf has the flags it was asked for, and so have the tables above it: *)
(* only pages of programs are below the entries of programs.               *)
LEMMA Protected == IInv => ProtectionUntilReuse
<1> SUFFICES ASSUME IInv, Running, NEW v \in VPage \ aliased, want[v] # Absent
             PROVE  (\A level \in 1..4 : mem.tables[At(mem, v, level)][v[level]].user)
                       <=> want[v].user
  BY Zenon DEF ProtectionUntilReuse, Unmapped
<1>1. Wanted /\ Open(mem) /\ Leaves /\ Types
  BY Zenon DEF IInv, Shape
<1>2. LeafOf(mem, v) = want[v]
  BY <1>1, Zenon DEF Leaves
<1>3. \A l \in 1..4 : At(mem, v, l) # -1
  BY <1>2, Whole, Zenon
<1>4. mem.tables[At(mem, v, 4)][v[4]] = want[v]
  BY <1>2, <1>3, Zenon DEF LeafOf
<1>5. ASSUME want[v].user PROVE \A level \in 1..4 : mem.tables[At(mem, v, level)][v[level]].user
  <2>1. v \in UserPage
    BY <1>1, <1>5, Zenon DEF Wanted, Unmapped
  <2>2. \A l \in 1..3 : mem.tables[At(mem, v, l)][v[l]].user
    BY <2>1, <1>1, <1>3 DEF Open
  <2> QED BY <2>2, <1>4, <1>5
<1> QED BY <1>4, <1>5, SMTT(30)

(* What page_virt_to_phys_addr returns is what the leaf says.              *)
LEMMA Translated == IInv => TranslatesUntilReuse
<1> SUFFICES ASSUME IInv PROVE TranslatesUntilReuse
  BY Zenon
<1>1. Types /\ Wanted /\ (Running => Leaves)
  BY Zenon DEF IInv
<1>2. TypeOK
  <2>1. \A t \in Table, i \in Index : mem.tables[t][i].to \in Table \cup Phys
    BY <1>1 DEF Types, Memory, Entry
  <2>2. \A k \in DOMAIN mem.free : mem.free[k] \in Frame
    BY <1>1 DEF Types, Memory
  <2> QED BY <2>1, <2>2, <1>1, Zenon DEF TypeOK, Types
<1>3. ASSUME Running PROVE Translates
  <2>1. ASSUME NEW v \in VPage
        PROVE  page_virt_to_phys_addr(v) = IF v \in aliased THEN 0 ELSE want[v].to
    <3>1. LeafOf(mem, v) = IF v \in aliased THEN Absent ELSE want[v]
      BY <1>1, <1>3, Zenon DEF Leaves
    <3> QED BY <3>1, Translation DEF Present, Absent
  <2> QED BY <2>1, Zenon DEF Translates
<1> QED BY <1>2, <1>3, Zenon DEF TranslatesUntilReuse

(* page_virt_to_phys_addr returns the frame that page_map was last given,  *)
(* and 0 for a page that page_unmap or pmm_alloc_high unmapped, until a    *)
(* freed table is handed out again.                                        *)
THEOREM TranslationKept == Spec => []TranslatesUntilReuse
<1> QED BY InvariantHolds, Translated, PTL

(* Until then a mapped page is open to programs at all four levels if and  *)
(* only if it was mapped for a program.                                    *)
THEOREM ProtectionKept == Spec => []ProtectionUntilReuse
<1> QED BY InvariantHolds, Protected, PTL

(* Until then page_unmap has freed no table that a mapped page needs,      *)
(* except of pages that were mapped through a freed table.                 *)
THEOREM NeededTablesKept == Spec => []FreedTablesUnneeded
<1>1. IInv => FreedTablesUnneeded
  BY Zenon DEF IInv, FreedTablesUnneeded
<1> QED BY <1>1, InvariantHolds, PTL

(* The processor never keeps a translation that page_map or page_unmap has *)
(* replaced, except of pages mapped again without page_unmap.              *)
THEOREM TranslationsFresh == Spec => []NoStaleTranslation
<1>1. IInv => NoStaleTranslation
  BY Zenon DEF IInv
<1> QED BY <1>1, InvariantHolds, PTL
=============================================================================
