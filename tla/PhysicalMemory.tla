--------------------------- MODULE PhysicalMemory ---------------------------
(***************************************************************************)
(* Physical memory from the boot loader's memory map on: kmain builds the  *)
(* list of frames (module PmmBoot), and if these are the frames Addr, the  *)
(* allocator goes on with them (module Pmm).  For every other memory map   *)
(* the model ends with the list.                                           *)
(***************************************************************************)
EXTENDS Pmm, Integers, Sequences

CONSTANTS PAGE_SIZE, NODE, MemoryMap    \* see PmmBoot

ASSUME BootAssumption ==
    {PAGE_SIZE, NODE} \subseteq Nat \ {0} /\ PAGE_SIZE % NODE = 0 /\ PAGE_SIZE > NODE

VARIABLES map, zone, nodes, nodes_needed, addr

Boot == INSTANCE PmmBoot

(* What the loader passes: the zones are apart and in ascending order, and *)
(* those that are used are whole pages; the boot information is longer     *)
(* than a node, lies in one of these or in none, and leaves room for the   *)
(* nodes.                                                                  *)
ASSUME MapAssumption ==
    \A m \in MemoryMap :
        /\ m.zones \in Seq([start : Nat, end : Nat])
        /\ {m.kernel_end, m.mb_start, m.mb_end} \subseteq Nat
        /\ \A y, z \in DOMAIN m.zones : y < z => m.zones[y].end + NODE <= m.zones[z].start
        /\ \A z \in DOMAIN m.zones : Boot!Usable(m, z) =>
              /\ m.zones[z].start <= m.zones[z].end
              /\ m.zones[z].start % PAGE_SIZE = 0 /\ m.zones[z].end % PAGE_SIZE = 0
              /\ \/ m.mb_end <= m.zones[z].start
                 \/ m.zones[z].end <= m.mb_start
                 \/ m.zones[z].start <= m.mb_start /\ m.mb_end <= m.zones[z].end
        /\ m.mb_start + NODE <= m.mb_end
        /\ LET n == Boot!pmm_set_total(Boot!total_available_mem(m))
           IN  n \in Nat \ {0} /\ m.mb_end - m.mb_start <= n * PAGE_SIZE

bootVars == <<map, zone, nodes, nodes_needed, addr>>
allVars == <<vars, bootVars>>

MemoryInit == Init /\ Boot!Init

BuildList == Boot!Next /\ UNCHANGED vars

(* The list is complete, and its frames are those of Addr.                 *)
Built ==
    /\ Boot!Done
    /\ Len(nodes) = N
    /\ addr = [n \in Node |-> Addr[n] * PAGE_SIZE]

Allocate == Built /\ Next /\ UNCHANGED bootVars

MemoryNext == BuildList \/ Allocate

MemorySpec == MemoryInit /\ [][MemoryNext]_allVars

-----------------------------------------------------------------------------

Overlap(a, n, b, m) == a < b + m /\ b < a + n

(* For every memory map the frames are whole pages, each entered once and  *)
(* in ascending order, as pmm_init_final needs it to find the first one    *)
(* above 2 GiB.  When kmain is done all nodes exist, and those without a   *)
(* frame are no more than the pages that the boot information fills.       *)
FramesAscend ==
    /\ \A k \in 1..Len(addr) : addr[k] % PAGE_SIZE = 0
    /\ \A k \in 2..Len(addr) : addr[k - 1] < addr[k]
    /\ Boot!Done =>
          /\ nodes_needed = 0
          /\ Len(nodes) - Len(addr) <= Boot!ceil_u64_div(map.mb_end - map.mb_start, PAGE_SIZE)

(* "# nodes = total mem / (page size + sizeof(node))": each node has a     *)
(* frame.  pmm_set_total does not keep this.                               *)
EveryNodeHasFrame == Boot!Done => Len(addr) = Len(nodes)

(* No frame contains a node of the list, or a part of the boot information *)
(* ("split it into two zones: start to mmap start and mmap end to end"),   *)
(* but for two cases: the last node may lie at the very start of a frame,  *)
(* and the page in the middle of which the boot information begins is a    *)
(* frame.                                                                  *)
DataKept ==
    \A k \in 1..Len(addr) :
        /\ \A n \in 1..(Len(nodes) - 1) : ~Overlap(addr[k], PAGE_SIZE, nodes[n], NODE)
        /\ Overlap(addr[k], PAGE_SIZE, map.mb_start, map.mb_end - map.mb_start)
              => addr[k] < map.mb_start

(* The same without exceptions.  pmm_add_block does not keep this.         *)
AllDataKept ==
    \A k \in 1..Len(addr) :
        /\ \A n \in 1..Len(nodes) : ~Overlap(addr[k], PAGE_SIZE, nodes[n], NODE)
        /\ ~Overlap(addr[k], PAGE_SIZE, map.mb_start, map.mb_end - map.mb_start)
=============================================================================
