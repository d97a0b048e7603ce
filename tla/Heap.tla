-------------------------------- MODULE Heap --------------------------------
(***************************************************************************)
(* The kernel heap, src/src/mem/vmalloc.c, at two scales: the allocator    *)
(* with its list of blocks (module Vmalloc), for which the search of a     *)
(* block is one step, and that search on every bitmap of one block, bit by *)
(* bit (module HeapBitmap).  A behaviour is one of the first or one of the *)
(* second.                                                                 *)
(***************************************************************************)
EXTENDS HeapBitmap

CONSTANTS PAGE_SIZE, PerPage, Request, Pages, MaxChunks     \* see Vmalloc

VARIABLES heap, chunks, call, phase

V == INSTANCE Vmalloc

ASSUME SizeAssumption == V!SizeAssumption

heapVars == <<heap, chunks, call, phase>>

(* The allocator at boot, and a block without a search in it; or a search  *)
(* in a block with any sections used, and an allocator that is stopped.    *)
HeapInit ==
    /\ Init
    /\ \/ V!Init /\ used = {} /\ needed = 1
       \/ heap = <<>> /\ chunks = {} /\ call = V!NoCall /\ phase = "searching"

AllocatorStep == V!Next /\ UNCHANGED vars

SearchStep == phase = "searching" /\ Next /\ UNCHANGED heapVars

HeapNext == AllocatorStep \/ SearchStep

HeapSpec == HeapInit /\ [][HeapNext]_<<vars, heapVars>>

-----------------------------------------------------------------------------

(* No two chunks vmalloc has given out share a byte, each is as long as    *)
(* its caller asked for, and it reaches behind the pages of its block by   *)
(* no more than a node header.                                             *)
ChunksDisjoint == V!ChunksDisjoint

(* vfree finds the block of every chunk, the bits set in a bitmap are      *)
(* exactly those of its chunks, and vmalloc calls itself at most twice.    *)
SectionsAccountedFor == V!SectionsAccountedFor
=============================================================================
