------------------------------ MODULE PmmBoot -------------------------------
(***************************************************************************)
(* How kmain builds the list of page frames from the boot loader's memory  *)
(* map: pmm_set_total, linked_list_add_node and pmm_add_block of           *)
(* src/src/mem/pmm.c, called for each available zone (src/src/kmain.c).    *)
(* The nodes are laid out in the first memory found, one after another;    *)
(* when there are as many as are needed, the pages behind them are entered *)
(* in the nodes in order.  Module Pmm continues from here.                 *)
(***************************************************************************)
EXTENDS Integers, Sequences

CONSTANTS
    PAGE_SIZE, NODE,    \* sizes of a page and of a list node
    MemoryMap           \* memory maps a boot loader may pass

VARIABLES
    map,            \* available zones (start, end), kernel_end, mb_start and mb_end: the
                    \* extent of the boot information, which lies in a zone or not
    zone,           \* the zone that is next
    nodes,          \* addresses of the nodes in list order
    nodes_needed,   \* nodes still to be laid out
    addr            \* the addr fields that have been set, in list order

vars == <<map, zone, nodes, nodes_needed, addr>>

larger(a, b) == IF a > b THEN a ELSE b

(* One less than the quotient if it is not exact.                          *)
floor_u64_div(a, b) == IF a % b = 0 THEN a \div b ELSE (a \div b) - 1

ceil_u64_div(a, b) == IF a % b = 0 THEN a \div b ELSE (a \div b) + 1

Usable(m, z) == m.zones[z].end > m.kernel_end

total_available_mem(m) ==
    LET sum[z \in 0..Len(m.zones)] ==
            IF z = 0 THEN 0
            ELSE sum[z - 1] + (IF Usable(m, z)
                               THEN m.zones[z].end - larger(m.zones[z].start, m.kernel_end)
                               ELSE 0)
    IN  sum[Len(m.zones)]

(* Faulty variant: the memory that the nodes take is not considered.       *)
pmm_set_total_pages(size) == size \div PAGE_SIZE

(* The number of nodes needed.                                             *)
pmm_set_total(size) == floor_u64_div(size, PAGE_SIZE + NODE) - 1

Init ==
    /\ map \in MemoryMap
    /\ zone = 1
    /\ nodes = <<>>
    /\ nodes_needed = pmm_set_total(total_available_mem(map))
    /\ addr = <<>>

(* Faulty variant: a page that begins in front of the block is entered.    *)
Pages_down(start, end) ==
    LET first == start - (start % PAGE_SIZE)
    IN  [k \in 1..ceil_u64_div(larger(end - first, 0), PAGE_SIZE) |-> first + (k - 1) * PAGE_SIZE]

(* The pages that start in the block.                                      *)
Pages(start, end) ==
    LET first == ceil_u64_div(start, PAGE_SIZE) * PAGE_SIZE
    IN  [k \in 1..ceil_u64_div(larger(end - first, 0), PAGE_SIZE) |-> first + (k - 1) * PAGE_SIZE]

(* The pages of a block are entered in the nodes that have none yet.       *)
Enter(st, start, end) ==
    LET p == Pages(start, end)
        room == Len(st.nodes) - Len(st.addr)
    IN  [st EXCEPT !.addr = @ \o [k \in 1..(IF Len(p) <= room THEN Len(p) ELSE room) |-> p[k]]]

(* linked_list_add_node for the nodes that fit; the pages of the block are *)
(* entered from the last node's own address on once all nodes exist.       *)
pmm_add_block(st, start, end) ==
    LET fit == ceil_u64_div(larger(end - start, 0), NODE)
        n   == IF fit <= st.needed THEN fit ELSE st.needed
        laid == [st EXCEPT !.nodes = @ \o [k \in 1..n |-> start + (k - 1) * NODE], !.needed = @ - n]
    IN  IF st.needed = 0 THEN Enter(st, start, end)
        ELSE IF laid.needed # 0 THEN laid
        ELSE Enter(laid, start + (n - 1) * NODE, end)

(* Where kmain begins in zone z: behind the kernel, at a page.             *)
zone_start(z) == ceil_u64_div(larger(map.zones[z].start, map.kernel_end), PAGE_SIZE) * PAGE_SIZE

(* The boot information begins or ends in zone z.                          *)
Split(z) ==
    \/ map.mb_start \in zone_start(z)..map.zones[z].end
    \/ map.mb_end \in zone_start(z)..map.zones[z].end

(* A zone is one block, or two without the boot information.               *)
AddZone ==
    LET start == zone_start(zone)
        end == map.zones[zone].end
        st0 == [nodes |-> nodes, needed |-> nodes_needed, addr |-> addr]
        st1 == IF ~Split(zone) THEN pmm_add_block(st0, start, end)
               ELSE IF start < map.mb_start THEN pmm_add_block(st0, start, map.mb_start)
               ELSE st0
        st2 == IF Split(zone) /\ map.mb_end < end THEN pmm_add_block(st1, map.mb_end, end) ELSE st1
    IN  /\ zone <= Len(map.zones) /\ Usable(map, zone)
        /\ nodes' = st2.nodes /\ nodes_needed' = st2.needed /\ addr' = st2.addr
        /\ zone' = zone + 1
        /\ UNCHANGED map

SkipZone ==
    /\ zone <= Len(map.zones) /\ ~Usable(map, zone)
    /\ zone' = zone + 1
    /\ UNCHANGED <<map, nodes, nodes_needed, addr>>

Next == AddZone \/ SkipZone

Done == zone > Len(map.zones)
=============================================================================
