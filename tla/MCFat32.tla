------------------------------ MODULE MCFat32 -------------------------------
(* Disks with a FAT32 partition between two others.  Roomy has room for    *)
(* everything; the free clusters of Large lie in both sectors of its FAT,  *)
(* those of Huge partly have high bits; Small runs out of clusters and of  *)
(* directory entries; the end of a page cuts the copy of the first sector  *)
(* of the FAT of CutFirst and of the second of CutSecond, with a file      *)
(* behind it.  The other disks are variations that the kernel must refuse. *)
EXTENDS Fat32

Other(first, last_) == [guid |-> "other", first_lba |-> first, last_lba |-> last_]
FatEntry(first, last_) == [guid |-> FAT_GUID, first_lba |-> first, last_lba |-> last_]
None == [guid |-> "none", first_lba |-> 0, last_lba |-> 0]

Header == [signature |-> "EFI PART", part_array_start_lba |-> 2, part_array_entry_size |-> 128,
           current_lba |-> 1, header_size |-> 92]
Bpb(size) == [jmpBoot |-> <<235, 88, 144>>, BytsPerSec |-> 512, NumFATs |-> 2, SecPerClus |-> 1,
              TotSec16 |-> 0, FATSz16 |-> 0, TotSec32 |-> 99, Signature_word |-> 43605,
              RsvdSecCnt |-> 3, FATSz32 |-> size, RootClus |-> 2]

(* A disk whose FAT of that size is in a partition with clusters 2..top.   *)
Formatted(size, top, root, file, offset, rejects) ==
    LET bounds == [first_lba |-> 40, last_lba |-> 41 + 2 * size + top]
    IN  [table |-> [header |-> Header,
                    sectors |-> <<<<Other(34, 39), None>>,
                                  <<FatEntry(40, 41 + 2 * size + top), Other(70, 99)>>>>],
         part |-> bounds, bpb |-> Bpb(size), Root |-> root, File |-> file,
         Offset |-> offset, rejects |-> rejects]

Roomy == Formatted(1, 10, <<2, 4>>, [a |-> <<5, 3>>], 5, FALSE)
Large == Formatted(2, 15, <<2, 4>>, [a |-> <<5, 3, 6, 7, 8, 9>>], 5, FALSE)
Huge == Formatted(2, 18, <<2, 4>>, [a |-> <<5, 3, 6, 7, 8, 9, 10, 11, 12, 13, 14, 15, 16>>], 5, FALSE)
Small == [Formatted(1, 6, <<2>>, [a |-> <<5, 3>>], 5, FALSE) EXCEPT !.bpb.jmpBoot = <<233, 0, 0>>]
CutFirst(c, rejects) == Formatted(1, 10, <<2, 4>>, [a |-> <<c, 3>>], 23, rejects)
CutSecond == Formatted(2, 15, <<2, 4>>, [a |-> <<12, 3>>], 15, TRUE)

Refused == {[Roomy EXCEPT !.table.header.current_lba = 2],
            [Roomy EXCEPT !.table.sectors[1][2] = FatEntry(100, 120)],
            [Roomy EXCEPT !.table.sectors[2][1] = None],
            [Roomy EXCEPT !.bpb.jmpBoot = <<235, 88, 0>>],
            [Roomy EXCEPT !.bpb.SecPerClus = 8]}

MCVolume == {Roomy, Large, Huge, Small, CutFirst(9, FALSE), CutFirst(10, FALSE), CutFirst(10, TRUE),
             CutSecond} \cup Refused
=============================================================================
