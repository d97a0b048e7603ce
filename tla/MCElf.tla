------------------------------- MODULE MCElf --------------------------------
(* Programs of up to two segments of up to two pages and a header of       *)
(* another type.  A linker places segments in ascending order, without     *)
(* overlap.                                                                *)
EXTENDS Elf

Segment(starts) ==
    {s \in [load : BOOLEAN, vaddr : starts, filesz : 0..5, memsz : 1..5] :
        s.filesz <= s.memsz /\ (~s.load => s.vaddr = 0 /\ s.filesz = 1 /\ s.memsz = 1)}

Linked(p) ==
    \A a, b \in DOMAIN p : a < b /\ p[a].load /\ p[b].load => p[a].vaddr + p[a].memsz <= p[b].vaddr

Programs(starts) ==
    {p \in UNION {[1..n -> Segment(starts)] : n \in 1..2} :
        Linked(p) /\ \A k \in DOMAIN p : p[k].vaddr + p[k].memsz <= VPages * PAGE_SIZE}

MCProgram == Programs({0, 2, 4, 6})
=============================================================================
