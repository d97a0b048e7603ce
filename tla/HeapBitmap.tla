----------------------------- MODULE HeapBitmap -----------------------------
(***************************************************************************)
(* The bitmap of one block of the kernel heap, src/src/mem/vmalloc.c: the  *)
(* loop of vmalloc that looks for a run of free sections, one step per     *)
(* iteration, and mark_bitmap, which sets or clears a run of bits byte by  *)
(* byte.  The bitmap is the set of its 1 bits (used sections).             *)
(***************************************************************************)
EXTENDS Integers

CONSTANTS
    Bits,       \* sections of the block (bitmap_size, a multiple of 504)
    Byte,       \* bits in a byte (8)
    Word        \* bits that the scan can skip at once (64)

ASSUME BitmapAssumption ==
    /\ Bits \in Nat /\ Byte \in Nat \ {0} /\ Word \in Nat \ {0}
    /\ Word <= Bits     \* bitmap_size - 64 does not wrap around

VARIABLES
    used,       \* the bits that are 1
    needed,     \* sections_needed
    i,          \* the loop variable
    found,      \* sections_found
    start,      \* block_start
    result      \* "scanning", "marked", "full", or "freed" in the end

vars == <<used, needed, i, found, start, result>>

(* Faulty variant: the end bit is left out.                                *)
MarkedBits_short(first, bits) ==
    LET last == first + bits - 1
        si == first \div Byte   sb == first % Byte
        ei == last \div Byte    eb == last % Byte
        In(b, lo, hi) == {b * Byte + k : k \in lo..hi}
    IN  IF si = ei THEN In(si, sb, eb)
        ELSE In(si, sb, Byte - 1)
             \cup (UNION {In(b, 0, Byte - 1) : b \in (si + 1)..(ei - 1)})
             \cup In(ei, 0, eb - 1)

(* The bits that mark_bitmap touches: part of one byte, or the end of the  *)
(* first byte, whole bytes, and the beginning of the last byte.            *)
MarkedBits(first, bits) ==
    LET last == first + bits - 1
        si == first \div Byte   sb == first % Byte
        ei == last \div Byte    eb == last % Byte
        In(b, lo, hi) == {b * Byte + k : k \in lo..hi}
    IN  IF si = ei THEN In(si, sb, eb)
        ELSE In(si, sb, Byte - 1)
             \cup (UNION {In(b, 0, Byte - 1) : b \in (si + 1)..(ei - 1)})
             \cup In(ei, 0, eb)

mark_bitmap(bitmap, first, bits, on) ==
    IF on THEN bitmap \cup MarkedBits(first, bits) ELSE bitmap \ MarkedBits(first, bits)

Init ==
    /\ used \in SUBSET (0..(Bits - 1))
    /\ needed \in 1..(Bits + 1)
    /\ i = 0 /\ found = 0 /\ start = 0
    /\ result = "scanning"

(* A used section ends the run.                                            *)
Used ==
    /\ result = "scanning" /\ i < Bits /\ i \in used
    /\ found' = 0
    /\ i' = i + 1
    /\ UNCHANGED <<used, needed, start, result>>

BlockStart == IF found = 0 THEN i ELSE start

(* Faulty variant: the skip may complete the run, which is tested for only *)
(* after a single section.                                                 *)
CanSkip_complete ==
    /\ i % Byte = 0
    /\ i < Bits - Word
    /\ found + Word <= needed
    /\ used \cap i..(i + Word - 1) = {}

(* At a byte boundary a whole word of free sections is counted at once,    *)
(* unless it would complete the run.                                       *)
CanSkip ==
    /\ i % Byte = 0
    /\ i < Bits - Word
    /\ found + Word < needed
    /\ used \cap i..(i + Word - 1) = {}

Skip ==
    /\ result = "scanning" /\ i < Bits /\ i \notin used /\ CanSkip
    /\ start' = BlockStart
    /\ found' = found + Word
    /\ i' = i + Word
    /\ UNCHANGED <<used, needed, result>>

(* One more free section.                                                  *)
Count ==
    /\ result = "scanning" /\ i < Bits /\ i \notin used /\ ~CanSkip
    /\ found + 1 # needed
    /\ start' = BlockStart
    /\ found' = found + 1
    /\ i' = i + 1
    /\ UNCHANGED <<used, needed, result>>

(* The run is complete: it is marked as used.                              *)
Mark ==
    /\ result = "scanning" /\ i < Bits /\ i \notin used /\ ~CanSkip
    /\ found + 1 = needed
    /\ start' = BlockStart
    /\ found' = needed
    /\ used' = mark_bitmap(used, start', needed, TRUE)
    /\ result' = "marked"
    /\ UNCHANGED <<needed, i>>

(* The loop ends without a run: vmalloc goes on to the next block.         *)
Full ==
    /\ result = "scanning" /\ i >= Bits
    /\ result' = "full"
    /\ UNCHANGED <<used, needed, i, found, start>>

(* vfree clears the bits of the run again.                                 *)
Free ==
    /\ result = "marked"
    /\ used' = mark_bitmap(used, start, needed, FALSE)
    /\ result' = "freed"
    /\ UNCHANGED <<needed, i, found, start>>

Next == Used \/ Skip \/ Count \/ Mark \/ Full \/ Free

Spec == Init /\ [][Next]_vars

-----------------------------------------------------------------------------

TypeOK ==
    /\ used \in SUBSET (0..(Bits - 1))
    /\ needed \in Nat \ {0}
    /\ i \in 0..Bits /\ start \in 0..Bits
    /\ found \in 0..needed
    /\ result \in {"scanning", "marked", "full", "freed"}

(* Sections s up to s + needed - 1 exist and are free.                     *)
Fits(s) == s + needed <= Bits /\ \A k \in s..(s + needed - 1) : k \notin used

(* The loop returns the first run that is long enough, and gives up only   *)
(* if there is none, whatever words it skips.                              *)
FirstFit ==
    [][/\ result' = "marked" => Fits(start') /\ \A s \in 0..(start' - 1) : ~Fits(s)
       /\ result' = "full" => \A s \in 0..(Bits - 1) : ~Fits(s)]_result

(* Marking sets exactly the bits of the run, and freeing clears exactly    *)
(* these: no bit of a neighbouring chunk changes.                          *)
MarksExactly ==
    [][LET run == start'..(start' + needed - 1)
       IN  used' = IF result' = "marked" THEN used \cup run ELSE used \ run]_used
=============================================================================
