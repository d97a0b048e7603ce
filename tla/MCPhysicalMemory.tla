-------------------------- MODULE MCPhysicalMemory --------------------------
(* Memory maps of up to four zones of whole pages, eight nodes to a page;  *)
(* the kernel ends in a page or at its end; the boot information lies in   *)
(* no zone, or in the third page of one and perhaps the fourth.  One map   *)
(* leads to the five frames of the allocator: two below 2 GiB, three       *)
(* above, with holes between them.                                         *)
EXTENDS PhysicalMemory

Zone(start, pages) == [start |-> start * PAGE_SIZE, end |-> (start + pages) * PAGE_SIZE]

Zones == {<<Zone(0, 1), Zone(2, a)>> : a \in 6..20}
    \cup {<<Zone(0, 1), Zone(2, a), Zone(24, b)>> : a \in 4..12, b \in 1..12}

Map(z, k, m, n) == [zones |-> z, kernel_end |-> k, mb_start |-> m, mb_end |-> m + n]

FourZones == <<Zone(0, 1), Zone(2, 3), Zone(7, 2), Zone(10, 3)>>

MCMemoryMap ==
    {Map(FourZones, 2 * PAGE_SIZE, 0, 5)} \cup
    {Map(z, k, m, n) : z \in Zones, k \in {2 * PAGE_SIZE, 2 * PAGE_SIZE + 6},
                       m \in {0, 4 * PAGE_SIZE, 4 * PAGE_SIZE + 8}, n \in {5, 20}}

MCAddr == <<3, 4, 7, 8, 10>>
=============================================================================
