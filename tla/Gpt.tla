--------------------------------- MODULE Gpt --------------------------------
(***************************************************************************)
(* The partition table, src/src/file/gpt.c: gpt_read returns the bounds of *)
(* the FAT partition or panics.  A table is its header and the sectors of  *)
(* its array; an entry has a type ("none" for a zero GUID) and bounds that *)
(* are inclusive.                                                          *)
(***************************************************************************)
EXTENDS Integers, Sequences, SequencesExt

FAT_GUID == "FAT"       \* Microsoft basic data
NoPartition == [first_lba |-> 0, last_lba |-> 0]
GptPanic == [first_lba |-> -1, last_lba |-> -1]

(* The values that the header must have; the code tests the size of an     *)
(* entry twice and the number of entries not at all.                       *)
HeaderAccepted(header) ==
    header = [signature |-> "EFI PART", part_array_start_lba |-> 2,
              part_array_entry_size |-> 128, current_lba |-> 1, header_size |-> 92]

(* Faulty variant: a second FAT partition replaces the first.              *)
CheckEntry_last(part, entry) ==
    IF entry.guid # FAT_GUID \/ part = GptPanic THEN part
    ELSE [first_lba |-> entry.first_lba, last_lba |-> entry.last_lba]

(* One entry of the array, after part was found so far.                    *)
CheckEntry(part, entry) ==
    IF entry.guid # FAT_GUID \/ part = GptPanic THEN part
    ELSE IF part # NoPartition THEN GptPanic
    ELSE [first_lba |-> entry.first_lba, last_lba |-> entry.last_lba]

(* All entries of all sectors, in order.                                   *)
gpt_read(table) ==
    LET part == FoldLeft(CheckEntry, NoPartition, FlattenSeq(table.sectors))
    IN  IF ~HeaderAccepted(table.header) \/ part = NoPartition THEN GptPanic ELSE part
=============================================================================
