----------------------------- MODULE HeapProofs -----------------------------
(***************************************************************************)
(* Proofs about the kernel heap: the scan of vmalloc is a first fit for    *)
(* every bitmap, mark_bitmap changes exactly the bits of the run, the scan *)
(* is what module Vmalloc takes for one step, and whatever is allocated,   *)
(* resized and freed, chunks never overlap and every section in use is     *)
(* that of one chunk.                                                      *)
(***************************************************************************)
EXTENDS Heap, Sequences, WellFoundedInduction, TLAPS

(* Multiplication is monotonic.                                            *)
LEMMA MulMono ==
    ASSUME NEW a \in Nat, NEW b \in Nat, NEW c \in Nat, a <= b
    PROVE  a * c <= b * c
<1>1. PICK d \in Nat : b = a + d
  <2>1. b - a \in Nat /\ b = a + (b - a)
    OBVIOUS
  <2> QED BY <2>1, Zenon
<1>2. (a + d) * c = a * c + d * c
  OBVIOUS
<1>3. a * c \in Nat /\ d * c \in Nat
  OBVIOUS
<1> QED BY <1>1, <1>2, <1>3

(* A set of natural numbers has a least one.                               *)
LEMMA LeastNat ==
    ASSUME NEW T, T \subseteq Nat, T # {}
    PROVE  /\ V!Min(T) \in T
           /\ \A y \in T : V!Min(T) <= y
<1>1. PICK x \in T : \A y \in T : <<y, x>> \notin OpToRel(<, Nat)
  BY NatLessThanWellFounded, WFMin, Zenon
<1>2. ASSUME NEW y \in T PROVE ~(y < x)
  <2>1. y < x => <<y, x>> \in OpToRel(<, Nat)
    BY Zenon DEF OpToRel
  <2> QED BY <1>1, <2>1, Zenon
<1>3. \A y \in T : x <= y
  BY <1>2
<1> QED BY <1>3, Zenon DEF V!Min

(* A bit number splits into a byte number and a position in the byte.      *)
LEMMA Split ==
    ASSUME NEW x \in Nat
    PROVE  /\ x \div Byte \in Nat /\ x % Byte \in 0..(Byte - 1)
           /\ x = (x \div Byte) * Byte + (x % Byte)
<1>1. Byte \in Nat /\ Byte > 0
  BY BitmapAssumption
<1>2. x % Byte \in 0..(Byte - 1)
  BY <1>1
<1>3. x \div Byte \in Int
  BY <1>1
<1>4. x = (x \div Byte) * Byte + (x % Byte)
  BY <1>1
<1>5. x \div Byte >= 0
  BY <1>1
<1> QED BY <1>2, <1>3, <1>4, <1>5

(* The splitting is unique.                                                *)
LEMMA SplitUnique ==
    ASSUME NEW a \in Nat, NEW k \in 0..(Byte - 1), NEW b \in Nat, NEW l \in 0..(Byte - 1),
           a * Byte + k <= b * Byte + l
    PROVE  a <= b /\ (a = b => k <= l)
<1>1. Byte \in Nat \ {0}
  BY BitmapAssumption, Zenon
<1>2. a * Byte \in Nat /\ b * Byte \in Nat
  BY <1>1
<1>3. CASE a > b
  <2>1. (b + 1) * Byte <= a * Byte
    BY <1>1, <1>3, MulMono
  <2>2. (b + 1) * Byte = b * Byte + Byte
    BY <1>1
  <2> QED BY <1>1, <1>2, <2>1, <2>2
<1>4. CASE a <= b
  BY <1>1, <1>2, <1>4
<1> QED BY <1>3, <1>4

(* mark_bitmap touches exactly the bits from first to first + bits - 1.    *)
LEMMA MarkedRun ==
    ASSUME NEW first \in Nat, NEW bits \in Nat \ {0}
    PROVE  MarkedBits(first, bits) = first..(first + bits - 1)
<1> DEFINE last == first + bits - 1
           si == first \div Byte
           sb == first % Byte
           ei == last \div Byte
           eb == last % Byte
           In(b, lo, hi) == {b * Byte + k : k \in lo..hi}
           Middle == UNION {In(b, 0, Byte - 1) : b \in (si + 1)..(ei - 1)}
<1>b. Byte \in Nat /\ Byte > 0
  BY BitmapAssumption
<1>l. last \in Nat /\ first <= last
  OBVIOUS
<1>f. si \in Nat /\ sb \in 0..(Byte - 1) /\ first = si * Byte + sb
  BY Split, Zenon
<1>e. ei \in Nat /\ eb \in 0..(Byte - 1) /\ last = ei * Byte + eb
  BY <1>l, Split, Zenon
<1>m. MarkedBits(first, bits) = IF si = ei THEN In(si, sb, eb)
                                ELSE In(si, sb, Byte - 1) \cup Middle \cup In(ei, 0, eb)
  BY Zenon DEF MarkedBits
<1>o. si <= ei /\ (si = ei => sb <= eb)
  <2> HIDE DEF si, sb, ei, eb, last
  <2> QED BY <1>l, <1>f, <1>e, SplitUnique, Zenon
<1>1. ASSUME NEW x \in first..last
      PROVE  x \in MarkedBits(first, bits)
  <2> DEFINE b == x \div Byte
             k == x % Byte
  <2>1. b \in Nat /\ k \in 0..(Byte - 1) /\ x = b * Byte + k
    <3>1. x \in Nat
      BY <1>l
    <3> QED BY <3>1, Split, Zenon
  <2> HIDE DEF si, sb, ei, eb, last, b, k
  <2>2. si <= b /\ (si = b => sb <= k)
    BY <1>l, <1>f, <2>1, SplitUnique
  <2>3. b <= ei /\ (b = ei => k <= eb)
    BY <1>l, <1>e, <2>1, SplitUnique
  <2>4. CASE si = ei
    <3>1. b = si /\ k \in sb..eb
      BY <2>1, <2>2, <2>3, <2>4, <1>f, <1>e
    <3>2. x \in In(si, sb, eb)
      BY <2>1, <3>1, Zenon
    <3> QED BY <3>2, <2>4, <1>m, Zenon
  <2>5. CASE si # ei /\ b = si
    <3>1. k \in sb..(Byte - 1)
      BY <2>1, <2>2, <2>5, <1>f, <1>b
    <3>2. x \in In(si, sb, Byte - 1)
      BY <2>1, <2>5, <3>1, Zenon
    <3> QED BY <3>2, <2>5, <1>m, Zenon
  <2>6. CASE si # ei /\ b = ei
    <3>1. k \in 0..eb
      BY <2>1, <2>3, <2>6, <1>e
    <3>2. x \in In(ei, 0, eb)
      BY <2>1, <2>6, <3>1, Zenon
    <3> QED BY <3>2, <2>6, <1>m, Zenon
  <2>7. CASE si # ei /\ b # si /\ b # ei
    <3>1. b \in (si + 1)..(ei - 1)
      BY <2>1, <2>2, <2>3, <2>7, <1>f, <1>e
    <3>2. x \in In(b, 0, Byte - 1)
      BY <2>1, Zenon
    <3>3. x \in Middle
      BY <3>1, <3>2, Zenon
    <3> QED BY <3>3, <2>7, <1>m, Zenon
  <2> QED BY <2>4, <2>5, <2>6, <2>7, Zenon
<1>2. ASSUME NEW x \in MarkedBits(first, bits)
      PROVE  x \in first..last
  <2>1. ASSUME NEW b \in si..ei, NEW k \in 0..(Byte - 1), x = b * Byte + k,
               b = si => sb <= k, b = ei => k <= eb
        PROVE  x \in first..last
    <3> HIDE DEF si, sb, ei, eb, last
    <3>1. b \in Nat /\ si <= b /\ b <= ei
      BY <1>f, <1>e
    <3>p. b * Byte \in Nat /\ si * Byte \in Nat /\ ei * Byte \in Nat /\ x \in Nat
      BY <3>1, <2>1, <1>b, <1>f, <1>e
    <3>2. first <= x
      <4>1. CASE b = si
        BY <4>1, <2>1, <1>f, <1>b, <3>p
      <4>2. CASE b # si
        <5>1. (si + 1) * Byte <= b * Byte
          BY <4>2, <3>1, <1>f, <1>b, MulMono
        <5>2. (si + 1) * Byte = si * Byte + Byte
          BY <1>f, <1>b
        <5> QED BY <5>1, <5>2, <2>1, <1>f, <1>b, <3>p
      <4> QED BY <4>1, <4>2, Zenon
    <3>3. x <= last
      <4>1. CASE b = ei
        BY <4>1, <2>1, <1>e, <1>b, <3>p
      <4>2. CASE b # ei
        <5>1. (b + 1) * Byte <= ei * Byte
          BY <4>2, <3>1, <1>e, <1>b, MulMono
        <5>2. (b + 1) * Byte = b * Byte + Byte
          BY <3>1, <1>b
        <5> QED BY <5>1, <5>2, <2>1, <1>e, <1>b, <3>p
      <4> QED BY <4>1, <4>2, Zenon
    <3> QED BY <3>2, <3>3, <3>p, <1>l
  <2> HIDE DEF si, sb, ei, eb, last
  <2>2. CASE si = ei
    <3>1. PICK k \in sb..eb : x = si * Byte + k
      BY <2>2, <1>2, <1>m, Zenon
    <3>2. k \in 0..(Byte - 1) /\ si \in si..ei /\ sb <= k /\ k <= eb
      BY <3>1, <2>2, <1>f, <1>e, <1>b
    <3> QED BY <3>1, <3>2, <2>1, Zenon
  <2>3. CASE si # ei /\ x \in In(si, sb, Byte - 1)
    <3>1. PICK k \in sb..(Byte - 1) : x = si * Byte + k
      BY <2>3, Zenon
    <3>2. k \in 0..(Byte - 1) /\ si \in si..ei /\ sb <= k
      BY <3>1, <2>3, <1>o, <1>f, <1>e, <1>b
    <3> QED BY <3>1, <3>2, <2>1, <2>3, Zenon
  <2>4. CASE si # ei /\ x \in In(ei, 0, eb)
    <3>1. PICK k \in 0..eb : x = ei * Byte + k
      BY <2>4, Zenon
    <3>2. k \in 0..(Byte - 1) /\ ei \in si..ei /\ k <= eb
      BY <3>1, <2>4, <1>o, <1>f, <1>e, <1>b
    <3> QED BY <3>1, <3>2, <2>1, <2>4, Zenon
  <2>5. CASE si # ei /\ x \in Middle
    <3>1. PICK b \in (si + 1)..(ei - 1) : x \in In(b, 0, Byte - 1)
      BY <2>5, Zenon
    <3>2. PICK k \in 0..(Byte - 1) : x = b * Byte + k
      BY <3>1, Zenon
    <3>3. b \in si..ei /\ b # si /\ b # ei
      BY <3>1, <1>f, <1>e
    <3> QED BY <3>2, <3>3, <2>1, Zenon
  <2> QED BY <1>2, <1>m, <2>2, <2>3, <2>4, <2>5, Zenon
<1> QED BY <1>1, <1>2, Zenon

(* While scanning, the sections counted so far are free and end before i,  *)
(* and no run begins earlier; the run that was marked is inside the block. *)
ScanInv ==
    /\ result = "scanning" =>
          /\ found < needed
          /\ found > 0 => start + found = i /\ \A k \in start..(i - 1) : k \notin used
          /\ \A s \in 0..(BlockStart - 1) : ~Fits(s)
    /\ result = "marked" => start + needed <= Bits

IInv == TypeOK /\ ScanInv

(* A search begins with nothing counted.                                   *)
LEMMA InitIInv == Init => IInv
BY BitmapAssumption DEF Init, IInv, TypeOK, ScanInv, BlockStart

(* A complete run is the first fit.                                        *)
LEMMA MarkFits ==
    ASSUME IInv, Mark
    PROVE  /\ start' \in 0..(Bits - 1) /\ Fits(start')
           /\ \A s \in 0..(start' - 1) : ~Fits(s)
<1>1. start' = BlockStart /\ i \in 0..(Bits - 1) /\ i \notin used /\ found + 1 = needed
  BY BitmapAssumption DEF Mark, IInv, TypeOK
<1>2. start' + needed = i + 1 /\ start' \in 0..(Bits - 1)
  BY <1>1, BitmapAssumption DEF IInv, TypeOK, ScanInv, Mark, BlockStart
<1>3. \A k \in start'..(start' + needed - 1) : k \notin used
  <2>1. SUFFICES ASSUME NEW k \in start'..i PROVE k \notin used
    BY <1>1, <1>2 DEF IInv, TypeOK
  <2>2. CASE k = i
    BY <2>2, <1>1, Zenon
  <2>3. CASE k # i
    <3>1. found > 0
      BY <2>3, <1>1 DEF IInv, TypeOK, BlockStart
    <3>2. start' = start /\ \A j \in start..(i - 1) : j \notin used
      BY <3>1, <1>1 DEF IInv, TypeOK, ScanInv, Mark, BlockStart
    <3> QED BY <2>3, <3>2, <1>1 DEF IInv, TypeOK
  <2> QED BY <2>2, <2>3, Zenon
<1>4. Fits(start')
  <2>1. start' + needed <= Bits
    BY <1>1, <1>2, BitmapAssumption
  <2> QED BY <2>1, <1>3, Zenon DEF Fits
<1>5. \A s \in 0..(start' - 1) : ~Fits(s)
  BY <1>1, Zenon DEF IInv, ScanInv, Mark
<1> QED BY <1>2, <1>4, <1>5, Zenon

(* The loop ends without a run only if there is none.                      *)
LEMMA FullFits ==
    ASSUME IInv, Full
    PROVE  \A s \in 0..(Bits - 1) : ~Fits(s)
<1>1. SUFFICES ASSUME NEW s \in 0..(Bits - 1), s >= BlockStart PROVE ~Fits(s)
  BY BitmapAssumption DEF IInv, ScanInv, TypeOK, Full, BlockStart
<1>2. i = Bits /\ found < needed
  BY BitmapAssumption DEF Full, IInv, TypeOK, ScanInv
<1>3. s + needed > Bits
  BY <1>1, <1>2, BitmapAssumption DEF IInv, TypeOK, ScanInv, Full, BlockStart
<1> QED BY <1>3, BitmapAssumption DEF Fits, IInv, TypeOK

(* A used section ends the run counted so far.                             *)
LEMMA UsedIInv ==
    ASSUME IInv, Used
    PROVE  IInv'
<1>1. TypeOK'
  BY BitmapAssumption DEF IInv, TypeOK, Used
<1>2. ASSUME NEW s \in 0..i PROVE ~Fits(s)
  <2>1. CASE s < BlockStart
    BY <2>1, BitmapAssumption DEF IInv, TypeOK, ScanInv, Used, BlockStart
  <2>2. CASE s >= BlockStart
    <3>1. i \in s..(s + needed - 1)
      BY <2>2, BitmapAssumption DEF IInv, TypeOK, ScanInv, Used, BlockStart
    <3> QED BY <3>1, Zenon DEF Fits, Used
  <2> QED BY <2>1, <2>2, BitmapAssumption DEF IInv, TypeOK, BlockStart
<1>3. \A s \in 0..i : ~Fits(s)'
  BY <1>2, Zenon DEF Fits, Used
<1>4. BlockStart' = i + 1 /\ found' = 0 /\ needed' = needed /\ result' = "scanning"
  BY Zenon DEF BlockStart, Used
<1> QED BY <1>1, <1>3, <1>4, BitmapAssumption DEF IInv, ScanInv, TypeOK

(* Counting one section or a word of them keeps the run free.              *)
LEMMA CountIInv ==
    ASSUME IInv, Skip \/ Count
    PROVE  IInv'
<1>1. PICK n \in Nat \ {0} :
          /\ i' = i + n /\ found' = found + n /\ found + n < needed /\ i + n <= Bits
          /\ used \cap i..(i + n - 1) = {}
  <2>1. CASE Skip
    BY <2>1, BitmapAssumption DEF IInv, TypeOK, ScanInv, Skip, CanSkip
  <2>2. CASE Count
    <3>1. i' = i + 1 /\ found' = found + 1 /\ found + 1 < needed /\ i + 1 <= Bits
      BY <2>2, BitmapAssumption DEF IInv, TypeOK, ScanInv, Count
    <3>2. used \cap i..(i + 1 - 1) = {}
      BY <2>2 DEF IInv, TypeOK, Count
    <3> QED BY <3>1, <3>2
  <2> QED BY <2>1, <2>2, Zenon
<1>2. start' = BlockStart /\ UNCHANGED <<used, needed, result>> /\ result = "scanning"
  BY Zenon DEF Skip, Count
<1>3. TypeOK'
  BY <1>1, <1>2, BitmapAssumption DEF IInv, TypeOK, BlockStart
<1>4. start' + found' = i' /\ BlockStart' = BlockStart /\ found' > 0
  BY <1>1, <1>2, BitmapAssumption DEF IInv, TypeOK, ScanInv, BlockStart
<1>5. ASSUME NEW k \in start'..(i' - 1) PROVE k \notin used'
  <2>1. CASE k >= i
    BY <2>1, <1>1, <1>2, BitmapAssumption DEF IInv, TypeOK, BlockStart
  <2>2. CASE k < i
    BY <2>2, <1>1, <1>2, BitmapAssumption DEF IInv, TypeOK, ScanInv, BlockStart
  <2> QED BY <2>1, <2>2, <1>1, <1>2, BitmapAssumption DEF IInv, TypeOK, BlockStart
<1>6. \A s \in 0..(BlockStart - 1) : ~Fits(s)'
  BY <1>2, Zenon DEF Fits, IInv, ScanInv
<1> QED BY <1>1, <1>2, <1>3, <1>4, <1>5, <1>6, Zenon DEF IInv, ScanInv

(* Marking the run found, and what it does to the bitmap.                  *)
LEMMA MarkIInv ==
    ASSUME IInv, Mark
    PROVE  IInv' /\ used' = used \cup start'..(start' + needed - 1)
<1>1. start' \in 0..(Bits - 1) /\ start' + needed <= Bits
  BY MarkFits, Zenon DEF Fits
<1>2. used' = used \cup start'..(start' + needed - 1)
  <2>1. MarkedBits(start', needed) = start'..(start' + needed - 1)
    BY <1>1, MarkedRun DEF IInv, TypeOK
  <2> QED BY <2>1, Zenon DEF Mark, mark_bitmap
<1>3. UNCHANGED <<needed, i>> /\ found' = needed /\ result' = "marked"
  BY Zenon DEF Mark
<1>4. used' \in SUBSET (0..(Bits - 1))
  <2>1. ASSUME NEW x \in start'..(start' + needed - 1) PROVE x \in 0..(Bits - 1)
    <3>1. needed \in Nat /\ Bits \in Nat
      BY BitmapAssumption, Zenon DEF IInv, TypeOK
    <3>2. PICK s \in Nat : s = start'
      BY <1>1
    <3>3. x \in s..(s + needed - 1) /\ s + needed <= Bits
      BY <3>2, <2>1, <1>1, Zenon
    <3> QED BY <3>1, <3>3
  <2> QED BY <2>1, <1>2, Zenon DEF IInv, TypeOK
<1>5. TypeOK'
  BY <1>1, <1>3, <1>4, BitmapAssumption DEF IInv, TypeOK
<1> QED BY <1>1, <1>2, <1>3, <1>5, Zenon DEF IInv, ScanInv

(* Freeing a run, and what it does to the bitmap.                          *)
LEMMA FreeIInv ==
    ASSUME IInv, Free
    PROVE  IInv' /\ used' = used \ start'..(start' + needed - 1)
<1>1. MarkedBits(start, needed) = start..(start + needed - 1)
  BY MarkedRun, BitmapAssumption DEF IInv, TypeOK
<1>2. used' = used \ start'..(start' + needed - 1)
  BY <1>1, Zenon DEF Free, mark_bitmap
<1> QED BY <1>2, Zenon DEF Free, IInv, TypeOK, ScanInv

(* The invariant of the scan holds throughout.                             *)
LEMMA Invariance == Spec => []IInv
<1>1. IInv /\ [Next]_vars => IInv'
  <2> SUFFICES ASSUME IInv, [Next]_vars PROVE IInv'
    BY Zenon
  <2>1. CASE Full
    BY <2>1, Zenon DEF Full, IInv, TypeOK, ScanInv
  <2>2. CASE UNCHANGED vars
    BY <2>2, Zenon DEF vars, IInv, TypeOK, ScanInv, BlockStart, Fits
  <2> QED BY <2>1, <2>2, UsedIInv, CountIInv, MarkIInv, FreeIInv, Zenon DEF Next
<1> QED BY InitIInv, <1>1, PTL DEF Spec

(* The variables of the scan keep their types: the loop index stays within *)
(* the bitmap although it is advanced by words, and no bit outside the     *)
(* bitmap is set.                                                          *)
THEOREM TypeCorrect == Spec => []TypeOK
BY Invariance, PTL DEF IInv

(* For every bitmap and every request the loop of vmalloc returns the      *)
(* first run that fits, and gives up only if there is none.                *)
THEOREM ScanIsFirstFit == Spec => FirstFit
<1>1. IInv /\ [Next]_vars =>
        [/\ result' = "marked" => Fits(start') /\ \A s \in 0..(start' - 1) : ~Fits(s)
         /\ result' = "full" => \A s \in 0..(Bits - 1) : ~Fits(s)]_result
  <2> SUFFICES ASSUME IInv, Next, result' # result
               PROVE  /\ result' = "marked" => Fits(start') /\ \A s \in 0..(start' - 1) : ~Fits(s)
                      /\ result' = "full" => \A s \in 0..(Bits - 1) : ~Fits(s)
    BY Zenon DEF vars
  <2>1. CASE Mark
    BY <2>1, MarkFits, Zenon DEF Mark
  <2>2. CASE Full
    BY <2>2, FullFits, Zenon DEF Full
  <2>3. CASE Free
    BY <2>3, Zenon DEF Free
  <2> QED BY <2>1, <2>2, <2>3, Zenon DEF Next, Used, Skip, Count
<1> QED BY Invariance, <1>1, PTL DEF Spec, FirstFit

(* mark_bitmap changes exactly the bits of the run it is called for.       *)
THEOREM MarkingExact == Spec => MarksExactly
<1>1. IInv /\ [Next]_vars =>
        [LET run == start'..(start' + needed - 1)
         IN  used' = IF result' = "marked" THEN used \cup run ELSE used \ run]_used
  <2> SUFFICES ASSUME IInv, Next, used' # used
               PROVE  LET run == start'..(start' + needed - 1)
                      IN  used' = IF result' = "marked" THEN used \cup run ELSE used \ run
    BY Zenon DEF vars
  <2>1. CASE Mark
    BY <2>1, MarkIInv, Zenon DEF Mark
  <2>2. CASE Free
    BY <2>2, FreeIInv, Zenon DEF Free
  <2> QED BY <2>1, <2>2, Zenon DEF Next, Used, Skip, Count, Full
<1> QED BY Invariance, <1>1, PTL DEF Spec, MarksExactly

(* Module Vmalloc searches a block in one step, by Runs and Min.           *)
Searched == [bitmap_size |-> Bits, used |-> used]

(* A free run of the searched block fits the bitmap.                       *)
LEMMA RunsFit ==
    ASSUME IInv, NEW s \in V!Runs(Searched, needed)
    PROVE  s \in 0..(Bits - 1) /\ Fits(s)
<1>1. Searched.bitmap_size = Bits /\ Searched.used = used
  BY Zenon DEF Searched
<1>2. used \subseteq Nat /\ needed \in Nat \ {0} /\ Bits \in Nat
  BY BitmapAssumption DEF IInv, TypeOK
<1>3. /\ s \in {0} \cup {k + 1 : k \in used}
      /\ s + needed <= Bits /\ used \cap s..(s + needed - 1) = {}
  BY <1>1, Zenon DEF V!Runs, V!Span
<1>4. s \in Nat
  BY <1>2, <1>3
<1> QED BY <1>2, <1>3, <1>4 DEF Fits

(* The first fit begins behind a used section, or opens the block.         *)
LEMMA FirstRun ==
    ASSUME IInv, NEW s \in 0..(Bits - 1), Fits(s), \A r \in 0..(s - 1) : ~Fits(r)
    PROVE  s = V!Min(V!Runs(Searched, needed)) /\ V!Runs(Searched, needed) # {}
<1> DEFINE runs == V!Runs(Searched, needed)
<1>1. Searched.bitmap_size = Bits /\ Searched.used = used
  BY Zenon DEF Searched
<1>2. used \subseteq Nat /\ needed \in Nat \ {0} /\ Bits \in Nat /\ s \in Nat
  BY BitmapAssumption DEF IInv, TypeOK
<1>3. s \in {0} \cup {k + 1 : k \in used}
  <2> SUFFICES ASSUME s # 0 PROVE s - 1 \in used
    BY <1>2
  <2>1. s - 1 \in 0..(s - 1)
    BY <1>2
  <2>2. ~Fits(s - 1)
    BY <2>1, Zenon
  <2>3. (s - 1) + needed <= Bits
    BY <1>2 DEF Fits
  <2>4. PICK k \in (s - 1)..((s - 1) + needed - 1) : k \in used
    BY <2>2, <2>3, Zenon DEF Fits
  <2>5. k = s - 1 \/ k \in s..(s + needed - 1)
    BY <1>2
  <2> QED BY <2>4, <2>5, Zenon DEF Fits
<1>4. s \in runs
  <2>1. s + needed <= Bits /\ used \cap s..(s + needed - 1) = {}
    BY Zenon DEF Fits
  <2> QED BY <1>1, <1>3, <2>1, Zenon DEF V!Runs, V!Span
<1>5. runs \subseteq Nat
  BY <1>2, RunsFit
<1> HIDE DEF runs
<1>6. V!Min(runs) \in runs /\ V!Min(runs) <= s
  BY <1>4, <1>5, LeastNat, Zenon
<1>7. V!Min(runs) \in Nat /\ Fits(V!Min(runs))
  BY <1>5, <1>6, RunsFit, Zenon DEF runs
<1>8. V!Min(runs) \notin 0..(s - 1)
  BY <1>7, Zenon
<1> QED BY <1>2, <1>4, <1>6, <1>7, <1>8 DEF runs

(* The one step in which module Vmalloc searches a block gives what the    *)
(* loop of vmalloc gives: the same section, or none in both.               *)
THEOREM SearchIsOneStep ==
    Spec => [][LET runs == V!Runs(Searched, needed)
               IN  /\ result' = "marked" => runs # {} /\ start' = V!Min(runs)
                   /\ result' = "full" => runs = {}]_result
<1>1. IInv /\ [Next]_vars =>
        [LET runs == V!Runs(Searched, needed)
         IN  /\ result' = "marked" => runs # {} /\ start' = V!Min(runs)
             /\ result' = "full" => runs = {}]_result
  <2> SUFFICES ASSUME IInv, Next, result' # result
               PROVE  LET runs == V!Runs(Searched, needed)
                      IN  /\ result' = "marked" => runs # {} /\ start' = V!Min(runs)
                          /\ result' = "full" => runs = {}
    BY Zenon DEF vars
  <2>1. CASE Mark
    <3>1. start' \in 0..(Bits - 1) /\ Fits(start') /\ \A s \in 0..(start' - 1) : ~Fits(s)
      BY <2>1, MarkFits, Zenon
    <3>2. result' = "marked"
      BY <2>1, Zenon DEF Mark
    <3> QED BY <3>1, <3>2, FirstRun, Zenon
  <2>2. CASE Full
    <3>1. V!Runs(Searched, needed) = {}
      BY <2>2, FullFits, RunsFit, Zenon
    <3>2. result' = "full"
      BY <2>2, Zenon DEF Full
    <3> QED BY <3>1, <3>2, Zenon
  <2>3. CASE Free
    BY <2>3, Zenon DEF Free
  <2> QED BY <2>1, <2>2, <2>3, Zenon DEF Next, Used, Skip, Count
<1> QED BY Invariance, <1>1, PTL DEF Spec

-----------------------------------------------------------------------------

(* What add_block makes of its arguments, with the sections that are used. *)
Block ==
    {b \in [page : 1..Pages, bitmap_size : Nat \ {0}, total_size : Nat, used : SUBSET Nat] :
        /\ b.bitmap_size % PerPage = 0
        /\ b.total_size = V!BlockTotal(b.bitmap_size)
        /\ b.used \subseteq 0..(b.bitmap_size - 1)}

(* A chunk is as long as its caller asked for.                             *)
Chunk ==
    {c \in [mem : Nat, sections : Nat \ {0}, asked : Request] :
        c.sections * V!SECTION_SIZE - V!ChunkHeader >= c.asked}

(* The pages of two blocks are apart.                                      *)
Apart(a, b) ==
    \/ a.page + V!BlockPages(a.bitmap_size) <= b.page
    \/ b.page + V!BlockPages(b.bitmap_size) <= a.page

(* Chunk c begins with section s of block b, and lies within its sections. *)
At(b, c, s) ==
    /\ V!Header(c) = V!Data(b) + s * V!SECTION_SIZE
    /\ s + c.sections <= b.bitmap_size

Placed(b, c) == \E s \in Nat : At(b, c, s)

(* The sizes of the heap.                                                  *)
LEMMA Sizes ==
    /\ PAGE_SIZE \in Nat \ {0} /\ PerPage \in Nat \ {0} /\ Pages \in Nat \ {0}
    /\ Request \subseteq Nat /\ PerPage >= 8
BY SizeAssumption DEF V!SizeAssumption

(* A quotient that is rounded up.                                          *)
LEMMA Ceil ==
    ASSUME NEW a \in Nat, NEW b \in Nat \ {0}
    PROVE  /\ V!ceil_u64_div(a, b) \in Nat
           /\ a <= V!ceil_u64_div(a, b) * b /\ V!ceil_u64_div(a, b) * b < a + b
           /\ a > 0 => V!ceil_u64_div(a, b) > 0
<1> DEFINE f == a \div b  q == V!ceil_u64_div(a, b)
<1>1. f \in Nat /\ f * b \in Nat /\ f * b <= a /\ a < f * b + b
  <2>1. f \in Int /\ f >= 0
    OBVIOUS
  <2>2. a = f * b + (a % b) /\ a % b \in 0..(b - 1)
    OBVIOUS
  <2> HIDE DEF f
  <2>3. f \in Nat /\ f * b \in Nat
    BY <2>1
  <2> QED BY <2>2, <2>3
<1>2. q = IF f * b = a THEN f ELSE f + 1
  BY Zenon DEF V!ceil_u64_div
<1> HIDE DEF f, q
<1>3. (f + 1) * b = f * b + b
  BY <1>1
<1>4. CASE f * b = a
  <2>1. f = 0 => a = 0
    BY <1>4
  <2> QED BY <1>1, <1>2, <1>4, <2>1 DEF q
<1>5. CASE f * b # a
  BY <1>1, <1>2, <1>3, <1>5 DEF q
<1> QED BY <1>4, <1>5, Zenon

(* The layout of a block: bitmap and sections lie behind the node header   *)
(* and reach as far behind its pages.                                      *)
LEMMA Layout ==
    ASSUME NEW b \in Block
    PROVE  /\ V!Mem(b) = b.page * PAGE_SIZE + 24 /\ V!Mem(b) \in Nat /\ V!Data(b) \in Nat
           /\ V!Mem(b) < V!Data(b)
           /\ V!Data(b) + b.bitmap_size * 8 = V!Mem(b) + b.total_size
           /\ V!BlockPages(b.bitmap_size) \in Nat \ {0}
           /\ b.total_size <= V!BlockPages(b.bitmap_size) * PAGE_SIZE
<1> DEFINE n == b.bitmap_size
           bytes == V!ceil_u64_div(n, 8)
           pages == V!BlockPages(n)
<1>1. n \in Nat \ {0} /\ b.page \in Nat /\ b.page * PAGE_SIZE \in Nat
      /\ b.total_size = V!BlockTotal(n) /\ PAGE_SIZE \in Nat \ {0}
  BY Sizes DEF Block
<1>2. bytes \in Nat /\ bytes > 0
  <2> HIDE DEF n
  <2>1. n > 0 /\ 8 \in Nat \ {0}
    BY <1>1
  <2> QED BY <1>1, <2>1, Ceil, Zenon
<1>3. V!BlockTotal(n) = n * 8 + bytes
  BY Zenon DEF V!BlockTotal, V!SECTION_SIZE
<1>4. V!Mem(b) = b.page * PAGE_SIZE + 24 /\ V!Data(b) = V!Mem(b) + bytes
  BY Zenon DEF V!Mem, V!Data, V!NodeHeader
<1> HIDE DEF bytes, n
<1>5. n * 8 \in Nat /\ n * 8 + bytes \in Nat \ {0}
  BY <1>1, <1>2
<1>6. pages \in Nat /\ V!BlockTotal(n) <= pages * PAGE_SIZE /\ pages > 0
  <2>1. V!BlockTotal(n) \in Nat \ {0} /\ pages = V!ceil_u64_div(V!BlockTotal(n), PAGE_SIZE)
    BY <1>3, <1>5, Zenon DEF V!BlockPages
  <2> QED BY <1>1, <2>1, Ceil, SMTT(30)
<1> HIDE DEF pages
<1> QED BY <1>1, <1>2, <1>3, <1>4, <1>5, <1>6 DEF n, pages

(* A chunk that is placed in a block lies between its data and its end.    *)
LEMMA Inside ==
    ASSUME NEW b \in Block, NEW c \in Chunk, NEW s \in Nat, At(b, c, s)
    PROVE  /\ V!Data(b) <= V!Header(c)
           /\ V!Header(c) \in Nat
           /\ V!Header(c) + c.sections * 8 <= V!Mem(b) + b.total_size
           /\ V!Sections(b, c) = s..(s + c.sections - 1)
<1> DEFINE h == V!Header(c)  d == V!Data(b)  n == c.sections  z == b.bitmap_size
<1>1. h = d + s * 8 /\ s + n <= z /\ n \in Nat \ {0} /\ z \in Nat /\ d \in Nat
      /\ d + z * 8 = V!Mem(b) + b.total_size
  BY Layout, Zenon DEF At, Block, Chunk, V!SECTION_SIZE
<1>2. V!Sections(b, c) = ((h - d) \div 8)..(((h - d) \div 8) + n - 1)
  BY Zenon DEF V!Sections, V!Span, V!SECTION_SIZE
<1> HIDE DEF h, d, n, z
<1>3. (h - d) \div 8 = s
  BY <1>1
<1>4. h \in Nat /\ d <= h /\ h + n * 8 <= d + z * 8
  BY <1>1
<1> QED BY <1>1, <1>2, <1>3, <1>4, Zenon DEF h, d, n, z

(* Blocks whose pages are apart share no byte, node headers included.      *)
LEMMA Beyond ==
    ASSUME NEW a \in Block, NEW b \in Block, a.page + V!BlockPages(a.bitmap_size) <= b.page
    PROVE  V!Mem(a) + a.total_size <= V!Mem(b)
<1> DEFINE p == a.page  q == V!BlockPages(a.bitmap_size)
<1>1. p \in Nat /\ q \in Nat /\ b.page \in Nat /\ PAGE_SIZE \in Nat /\ p + q <= b.page
  BY Sizes, Layout DEF Block
<1>2. V!Mem(a) = p * PAGE_SIZE + 24 /\ V!Mem(b) = b.page * PAGE_SIZE + 24
      /\ a.total_size <= q * PAGE_SIZE /\ a.total_size \in Nat
  BY Layout, Zenon DEF Block
<1> HIDE DEF p, q
<1>3. (p + q) * PAGE_SIZE <= b.page * PAGE_SIZE
  BY <1>1, MulMono
<1>4. (p + q) * PAGE_SIZE = p * PAGE_SIZE + q * PAGE_SIZE
  BY <1>1
<1>5. p * PAGE_SIZE \in Nat /\ q * PAGE_SIZE \in Nat /\ b.page * PAGE_SIZE \in Nat
  BY <1>1
<1> QED BY <1>2, <1>3, <1>4, <1>5, SMTT(30)

(* No other block claims the header of a chunk, as vfree looks it up.      *)
LEMMA Alone ==
    ASSUME NEW a \in Block, NEW b \in Block, Apart(a, b), NEW c \in Chunk, Placed(a, c)
    PROVE  /\ V!Data(a) <= V!Header(c) /\ V!Header(c) <= V!Mem(a) + a.total_size
           /\ ~(V!Data(b) <= V!Header(c) /\ V!Header(c) <= V!Mem(b) + b.total_size)
<1>1. PICK s \in Nat : At(a, c, s)
  BY Zenon DEF Placed
<1> DEFINE h == V!Header(c)  n == c.sections
<1>2. /\ V!Data(a) <= h /\ h \in Nat /\ h + n * 8 <= V!Mem(a) + a.total_size
      /\ n \in Nat \ {0}
  BY <1>1, Inside, Zenon DEF Chunk
<1>3. /\ V!Mem(a) \in Nat /\ V!Data(a) \in Nat /\ V!Mem(a) < V!Data(a)
      /\ V!Mem(b) \in Nat /\ V!Data(b) \in Nat /\ V!Mem(b) < V!Data(b)
  BY Layout, Zenon
<1>4. a.total_size \in Nat /\ b.total_size \in Nat
  BY Zenon DEF Block
<1> HIDE DEF h, n
<1>5. h < V!Mem(a) + a.total_size
  BY <1>2, <1>3, <1>4
<1>6. V!Mem(a) + a.total_size <= V!Mem(b) \/ V!Mem(b) + b.total_size <= V!Mem(a)
  BY Beyond, Zenon DEF Apart
<1> QED BY <1>2, <1>3, <1>4, <1>5, <1>6 DEF h

-----------------------------------------------------------------------------

(* The sections in use of block b are those of its chunks, each of one.    *)
Owned(b, C) ==
    /\ \A x \in b.used : \E c \in C : Placed(b, c) /\ x \in V!Sections(b, c)
    /\ \A c \in C : Placed(b, c) => V!Sections(b, c) \subseteq b.used
    /\ \A c, d \in C : c # d /\ Placed(b, c) /\ Placed(b, d) =>
          V!Sections(b, c) \cap V!Sections(b, d) = {}

(* Blocks on pages of their own, ...                                       *)
Shape(h) == h \in Seq(Block) /\ \A k, l \in DOMAIN h : k # l => Apart(h[k], h[l])

(* ... and every chunk in one of them.                                     *)
Sound(h, C) ==
    /\ Shape(h) /\ C \subseteq Chunk
    /\ \A c \in C : \E k \in DOMAIN h : Placed(h[k], c)
    /\ \A k \in DOMAIN h : Owned(h[k], C)

(* The bits of a block change, not its place.                              *)
Alike(a, b) ==
    a.page = b.page /\ a.bitmap_size = b.bitmap_size /\ a.total_size = b.total_size

(* Blocks with the same place and size place chunks alike.                 *)
LEMMA AlikeSame ==
    ASSUME NEW a, NEW b, Alike(a, b)
    PROVE  /\ \A c : V!Sections(a, c) = V!Sections(b, c)
           /\ \A c : Placed(a, c) <=> Placed(b, c)
           /\ \A x : Apart(a, x) <=> Apart(b, x)
           /\ \A x : Apart(x, a) <=> Apart(x, b)
<1>1. V!Mem(a) = V!Mem(b) /\ V!Data(a) = V!Data(b)
  BY Zenon DEF Alike, V!Mem, V!Data
<1> QED BY <1>1, Zenon DEF Alike, V!Sections, Placed, At, Apart

(* A block gets another set of used sections.                              *)
Marked(h, k, u) == [h EXCEPT ![k].used = u]

OnlyBits(g, h, k, u) ==
    /\ Shape(g) /\ DOMAIN g = DOMAIN h /\ Len(g) = Len(h)
    /\ \A l \in DOMAIN h : Alike(g[l], h[l])
    /\ g[k].used = u /\ \A l \in DOMAIN h : l # k => g[l] = h[l]

(* Changing the bits of one block changes nothing else.                    *)
LEMMA Remarked ==
    ASSUME NEW h, Shape(h), NEW k \in DOMAIN h, NEW u \in SUBSET (0..(h[k].bitmap_size - 1))
    PROVE  OnlyBits(Marked(h, k, u), h, k, u)
<1> DEFINE g == Marked(h, k, u)
<1>1. /\ h \in Seq(Block) /\ h[k] \in Block /\ DOMAIN h = 1..Len(h)
      /\ \A l \in DOMAIN h : h[l] \in Block
  BY DEF Shape
<1>2. /\ DOMAIN g = DOMAIN h /\ \A l \in DOMAIN h : l # k => g[l] = h[l]
      /\ g[k] = [h[k] EXCEPT !.used = u]
  BY <1>1, Zenon DEF Marked
<1>3. g[k] \in Block /\ g[k].used = u /\ Alike(g[k], h[k])
  <2> DEFINE R == [page : 1..Pages, bitmap_size : Nat \ {0}, total_size : Nat, used : SUBSET Nat]
  <2>1. /\ h[k] \in R /\ h[k].bitmap_size \in Nat /\ h[k].bitmap_size % PerPage = 0
        /\ h[k].total_size = V!BlockTotal(h[k].bitmap_size)
    BY <1>1, Zenon DEF Block
  <2>2. u \in SUBSET Nat
    BY <2>1
  <2>3. g[k] \in R /\ g[k].used = u /\ Alike(g[k], h[k])
    BY <1>2, <2>1, <2>2, Zenon DEF Alike
  <2> HIDE DEF R
  <2>4. g[k] \in R /\ g[k].bitmap_size = h[k].bitmap_size /\ g[k].total_size = h[k].total_size
    BY <2>3, Zenon DEF Alike
  <2>5. g[k] \in Block
    BY <2>1, <2>3, <2>4, Zenon DEF Block, R
  <2> QED BY <2>3, <2>5, Zenon
<1>4. \A l \in DOMAIN h : Alike(g[l], h[l]) /\ g[l] \in Block
  BY <1>1, <1>2, <1>3, Zenon DEF Alike
<1>5. g \in Seq(Block) /\ Len(g) = Len(h)
  <2>1. g = [l \in 1..Len(h) |-> g[l]]
    BY <1>1, <1>2, Zenon DEF Marked
  <2> HIDE DEF g
  <2>2. \A l \in 1..Len(h) : g[l] \in Block
    BY <1>1, <1>4, Zenon
  <2> QED BY <1>1, <2>1, <2>2
<1> HIDE DEF g
<1>6. ASSUME NEW i1 \in DOMAIN g, NEW i2 \in DOMAIN g, i1 # i2 PROVE Apart(g[i1], g[i2])
  <2>1. Apart(h[i1], h[i2]) /\ Alike(g[i1], h[i1]) /\ Alike(g[i2], h[i2])
    BY <1>2, <1>4, <1>6, Zenon DEF Shape
  <2> QED BY <2>1, AlikeSame, Zenon
<1> QED BY <1>2, <1>3, <1>4, <1>5, <1>6, Zenon DEF Shape, OnlyBits, g

(* A chunk is in one block only.                                           *)
LEMMA OneBlock ==
    ASSUME NEW h, Shape(h), NEW c \in Chunk, NEW k \in DOMAIN h, NEW l \in DOMAIN h,
           Placed(h[k], c), Placed(h[l], c)
    PROVE  k = l
<1> SUFFICES ASSUME k # l PROVE FALSE
  BY Zenon
<1>1. h[k] \in Block /\ h[l] \in Block /\ Apart(h[k], h[l]) /\ Apart(h[l], h[k])
  BY DEF Shape
<1> QED BY <1>1, Alone, Zenon

(* vmalloc marks a run of free sections for a new chunk.                   *)
LEMMA AllocSound ==
    ASSUME NEW h, NEW C, Sound(h, C), NEW k \in DOMAIN h, NEW c \in Chunk, NEW s \in Nat,
           At(h[k], c, s), h[k].used \cap s..(s + c.sections - 1) = {}
    PROVE  LET u == h[k].used \cup s..(s + c.sections - 1)
           IN  /\ Sound(Marked(h, k, u), C \cup {c}) /\ c \notin C
               /\ OnlyBits(Marked(h, k, u), h, k, u)
<1> DEFINE run == s..(s + c.sections - 1)  u == h[k].used \cup run  g == Marked(h, k, u)
<1>1. Shape(h) /\ C \subseteq Chunk /\ h[k] \in Block /\ Owned(h[k], C) /\ Placed(h[k], c)
  <2>1. Shape(h) /\ C \subseteq Chunk /\ Owned(h[k], C) /\ Placed(h[k], c)
    BY Zenon DEF Sound, Placed
  <2>2. h[k] \in Block
    BY <2>1 DEF Shape
  <2> QED BY <2>1, <2>2, Zenon
<1>2. V!Sections(h[k], c) = run /\ c.sections \in Nat \ {0} /\ s + c.sections <= h[k].bitmap_size
      /\ h[k].bitmap_size \in Nat /\ h[k].used \subseteq 0..(h[k].bitmap_size - 1)
  BY <1>1, Inside, Zenon DEF Chunk, Block, At
<1>3. u \in SUBSET (0..(h[k].bitmap_size - 1)) /\ s \in run
  BY <1>2, SMTT(30)
<1> HIDE DEF run
<1>5. c \notin C
  BY <1>1, <1>2, <1>3, Zenon DEF Owned, run
<1>4. OnlyBits(g, h, k, u)
  <2> HIDE DEF u
  <2> QED BY <1>1, <1>3, Remarked, Zenon
<1> HIDE DEF g, u
<1>6. /\ Shape(g) /\ DOMAIN g = DOMAIN h /\ g[k].used = u
      /\ \A l \in DOMAIN h : Alike(g[l], h[l]) /\ (l # k => g[l] = h[l])
  BY <1>4, Zenon DEF OnlyBits
<1>7. \A l \in DOMAIN h : /\ \A d : V!Sections(g[l], d) = V!Sections(h[l], d)
                          /\ \A d : Placed(g[l], d) <=> Placed(h[l], d)
  BY <1>6, AlikeSame, Zenon
<1>8. Owned(g[k], C \cup {c})
  <2>1. ASSUME NEW x \in u
        PROVE  \E d \in C \cup {c} : Placed(h[k], d) /\ x \in V!Sections(h[k], d)
    BY <1>1, <1>2, Zenon DEF Owned, u
  <2>2. ASSUME NEW d \in C \cup {c}, Placed(h[k], d)
        PROVE  V!Sections(h[k], d) \subseteq u
    BY <1>1, <1>2, <2>2, Zenon DEF Owned, u
  <2>3. ASSUME NEW d \in C, Placed(h[k], d) PROVE V!Sections(h[k], d) \cap run = {}
    <3>1. V!Sections(h[k], d) \subseteq h[k].used
      BY <1>1, <2>3, Zenon DEF Owned
    <3> QED BY <3>1, Zenon DEF run
  <2>4. ASSUME NEW d \in C \cup {c}, NEW e \in C \cup {c}, d # e, Placed(h[k], d), Placed(h[k], e)
        PROVE  V!Sections(h[k], d) \cap V!Sections(h[k], e) = {}
    <3>1. CASE d = c
      BY <1>2, <2>3, <2>4, <3>1, Zenon
    <3>2. CASE e = c
      BY <1>2, <2>3, <2>4, <3>2, Zenon
    <3>3. CASE d # c /\ e # c
      BY <1>1, <2>4, <3>3, Zenon DEF Owned
    <3> QED BY <3>1, <3>2, <3>3, Zenon
  <2> QED BY <1>6, <1>7, <2>1, <2>2, <2>4, Zenon DEF Owned
<1>9. ASSUME NEW l \in DOMAIN g, l # k PROVE Owned(g[l], C \cup {c})
  <2>1. g[l] = h[l] /\ Owned(h[l], C) /\ ~Placed(h[l], c)
    BY <1>1, <1>6, <1>9, OneBlock, Zenon DEF Sound
  <2> QED BY <2>1, Zenon DEF Owned
<1>10. \A d \in C \cup {c} : \E l \in DOMAIN g : Placed(g[l], d)
  <2>1. ASSUME NEW d \in C \cup {c} PROVE \E l \in DOMAIN h : Placed(h[l], d)
    BY <1>1, Zenon DEF Sound
  <2> QED BY <1>6, <1>7, <2>1, Zenon
<1>11. Sound(g, C \cup {c})
  BY <1>1, <1>6, <1>8, <1>9, <1>10, Zenon DEF Sound
<1> QED BY <1>4, <1>5, <1>11, Zenon DEF g, u, run

(* vfree finds the block that a chunk was taken from.                      *)
LEMMA Found ==
    ASSUME Sound(heap, chunks), NEW c \in chunks, NEW k \in DOMAIN heap, Placed(heap[k], c)
    PROVE  V!BlockOf(V!Header(c)) = k
<1> DEFINE a == V!Header(c)
           hits == {l \in DOMAIN heap : V!Data(heap[l]) <= a /\ a <= V!Mem(heap[l]) + heap[l].total_size}
<1>1. Shape(heap) /\ c \in Chunk
  BY Zenon DEF Sound
<1>2. \A l \in DOMAIN heap : heap[l] \in Block
  BY <1>1 DEF Shape
<1>3. DOMAIN heap \subseteq Nat
  BY <1>1 DEF Shape
<1>4. ASSUME NEW l \in DOMAIN heap, l # k
      PROVE  ~(V!Data(heap[l]) <= a /\ a <= V!Mem(heap[l]) + heap[l].total_size)
  <2>1. Apart(heap[k], heap[l])
    BY <1>1, <1>4, Zenon DEF Shape
  <2> QED BY <1>1, <1>2, <2>1, Alone, Zenon
<1>5. V!Data(heap[k]) <= a /\ a <= V!Mem(heap[k]) + heap[k].total_size
  <2>1. PICK s \in Nat : At(heap[k], c, s)
    BY Zenon DEF Placed
  <2>2. /\ V!Data(heap[k]) <= a /\ a \in Nat
        /\ a + c.sections * 8 <= V!Mem(heap[k]) + heap[k].total_size
    BY <1>1, <1>2, <2>1, Inside, Zenon
  <2>3. c.sections \in Nat /\ heap[k].total_size \in Nat /\ V!Mem(heap[k]) \in Nat
    BY <1>1, <1>2, Layout, Zenon DEF Chunk, Block
  <2> HIDE DEF a
  <2> QED BY <2>2, <2>3
<1>6. V!BlockOf(a) = IF hits = {} THEN 0 ELSE V!Min(hits)
  BY Zenon DEF V!BlockOf
<1>7. hits = {k}
  BY <1>4, <1>5, Zenon
<1> HIDE DEF hits
<1>8. V!Min(hits) \in hits
  BY <1>3, <1>7, LeastNat, Zenon
<1> QED BY <1>6, <1>7, <1>8, Zenon

(* vfree clears the sections of a chunk.                                   *)
LEMMA FreeSound ==
    ASSUME NEW h, NEW C, Sound(h, C), NEW k \in DOMAIN h, NEW c \in C, Placed(h[k], c),
           NEW g, g = [h EXCEPT ![k].used = @ \ V!Sections(h[k], c)]
    PROVE  Sound(g, C \ {c})
<1> DEFINE run == V!Sections(h[k], c)  u == h[k].used \ run
<1>1. Shape(h) /\ C \subseteq Chunk /\ Owned(h[k], C) /\ h \in Seq(Block)
  BY Zenon DEF Sound, Shape
<1>2. h[k].used \subseteq 0..(h[k].bitmap_size - 1)
  BY <1>1, SMTT(30) DEF Block
<1>3. u \in SUBSET (0..(h[k].bitmap_size - 1))
  BY <1>2, Zenon
<1>4. g = Marked(h, k, u)
  BY <1>1, Zenon DEF Marked
<1>6. /\ Shape(g) /\ DOMAIN g = DOMAIN h /\ Len(g) = Len(h)
      /\ \A l \in DOMAIN h : Alike(g[l], h[l])
      /\ g[k].used = u /\ \A l \in DOMAIN h : l # k => g[l] = h[l]
  <2> HIDE DEF u
  <2>1. OnlyBits(Marked(h, k, u), h, k, u)
    BY <1>1, <1>3, Remarked, Zenon
  <2> QED BY <1>4, <2>1, Zenon DEF OnlyBits
<1>7. \A l \in DOMAIN h : /\ \A d : V!Sections(g[l], d) = V!Sections(h[l], d)
                          /\ \A d : Placed(g[l], d) <=> Placed(h[l], d)
  BY <1>6, AlikeSame, Zenon
<1>8. Owned(g[k], C \ {c})
  <2>1. ASSUME NEW x \in u
        PROVE  \E d \in C \ {c} : Placed(h[k], d) /\ x \in V!Sections(h[k], d)
    BY <1>1, Zenon DEF Owned
  <2>2. ASSUME NEW d \in C \ {c}, Placed(h[k], d)
        PROVE  V!Sections(h[k], d) \subseteq u
    <3>1. V!Sections(h[k], d) \subseteq h[k].used /\ V!Sections(h[k], d) \cap run = {}
      BY <1>1, <2>2, Zenon DEF Owned
    <3> QED BY <3>1, Zenon
  <2>3. ASSUME NEW d \in C \ {c}, NEW e \in C \ {c}, d # e, Placed(h[k], d), Placed(h[k], e)
        PROVE  V!Sections(h[k], d) \cap V!Sections(h[k], e) = {}
    BY <1>1, <2>3, Zenon DEF Owned
  <2> HIDE DEF u
  <2> QED BY <1>6, <1>7, <2>1, <2>2, <2>3, ZenonT(60) DEF Owned
<1>9. ASSUME NEW l \in DOMAIN g, l # k PROVE Owned(g[l], C \ {c})
  <2>1. g[l] = h[l] /\ Owned(h[l], C) /\ ~Placed(h[l], c)
    BY <1>1, <1>6, <1>9, OneBlock, Zenon DEF Sound
  <2>2. ASSUME NEW x \in h[l].used
        PROVE  \E d \in C \ {c} : Placed(h[l], d) /\ x \in V!Sections(h[l], d)
    <3>1. PICK d \in C : Placed(h[l], d) /\ x \in V!Sections(h[l], d)
      BY <2>1, Zenon DEF Owned
    <3> QED BY <2>1, <3>1, Zenon
  <2> QED BY <2>1, <2>2, Zenon DEF Owned
<1>10. \A d \in C \ {c} : \E l \in DOMAIN g : Placed(g[l], d)
  <2>1. ASSUME NEW d \in C PROVE \E l \in DOMAIN h : Placed(h[l], d)
    BY Zenon DEF Sound
  <2> QED BY <1>6, <1>7, <2>1, Zenon
<1> QED BY <1>1, <1>6, <1>8, <1>9, <1>10, Zenon DEF Sound

(* release_if_unused takes a block without chunks out of the list.         *)
LEMMA Removed ==
    ASSUME NEW h, NEW C, Sound(h, C), NEW k \in DOMAIN h, h[k].used = {},
           NEW g, g = V!Unlinked(h, k)
    PROVE  Sound(g, C) /\ (Len(h) > 1 => g # <<>>)
<1> DEFINE src(j) == IF j < k THEN j ELSE j + 1
<1>1. h \in Seq(Block) /\ Shape(h) /\ C \subseteq Chunk /\ Owned(h[k], C)
  BY Zenon DEF Sound, Shape
<1>2. Len(h) \in Nat /\ k \in 1..Len(h) /\ DOMAIN h = 1..Len(h)
  BY <1>1
<1>3. g = [j \in 1..(Len(h) - 1) |-> h[src(j)]]
  BY Zenon DEF V!Unlinked
<1>4. g \in Seq(Block) /\ Len(g) = Len(h) - 1 /\ \A j \in 1..(Len(h) - 1) : g[j] = h[src(j)]
  <2>1. \A j \in 1..(Len(h) - 1) : h[src(j)] \in Block
    BY <1>1, <1>2
  <2> HIDE DEF src
  <2>2. Len(h) - 1 \in Nat
    BY <1>2
  <2> QED BY <1>3, <2>1, <2>2, SMTT(30)
<1>5. /\ DOMAIN g = 1..(Len(h) - 1)
      /\ \A j \in 1..(Len(h) - 1) : src(j) \in DOMAIN h /\ src(j) # k
      /\ \A j, l \in 1..(Len(h) - 1) : j # l => src(j) # src(l)
  BY <1>2, <1>4
<1>6. ASSUME NEW l \in DOMAIN h, l # k PROVE \E j \in 1..(Len(h) - 1) : src(j) = l
  <2>1. CASE l < k
    BY <1>2, <1>6, <2>1
  <2>2. CASE l > k
    <3>1. l - 1 \in 1..(Len(h) - 1) /\ src(l - 1) = l
      BY <1>2, <2>2
    <3> QED BY <3>1, Zenon
  <2> QED BY <1>2, <1>6, <2>1, <2>2
<1> HIDE DEF src
<1>7. Shape(g)
  <2>1. ASSUME NEW j \in DOMAIN g, NEW l \in DOMAIN g, j # l PROVE Apart(g[j], g[l])
    BY <1>1, <1>4, <1>5, <2>1, Zenon DEF Shape
  <2> QED BY <1>4, <2>1, Zenon DEF Shape
<1>8. ASSUME NEW c \in C PROVE ~Placed(h[k], c)
  <2> SUFFICES ASSUME Placed(h[k], c) PROVE FALSE
    BY Zenon
  <2>1. PICK s \in Nat : At(h[k], c, s)
    BY Zenon DEF Placed
  <2>2. V!Sections(h[k], c) = s..(s + c.sections - 1) /\ c.sections \in Nat \ {0}
    BY <1>1, <2>1, Inside DEF Chunk
  <2>3. s \in V!Sections(h[k], c)
    BY <2>2
  <2> QED BY <1>1, <2>3, Zenon DEF Owned
<1>9. ASSUME NEW c \in C PROVE \E j \in DOMAIN g : Placed(g[j], c)
  <2>1. PICK l \in DOMAIN h : Placed(h[l], c)
    BY Zenon DEF Sound
  <2>2. l # k
    BY <1>8, <2>1, Zenon
  <2> QED BY <1>4, <1>5, <1>6, <2>1, <2>2, ZenonT(60)
<1>10. \A j \in DOMAIN g : Owned(g[j], C)
  BY <1>4, <1>5, Zenon DEF Sound
<1>11. Len(h) > 1 => g # <<>>
  BY <1>2, <1>4
<1> QED BY <1>1, <1>7, <1>9, <1>10, <1>11, Zenon DEF Sound

-----------------------------------------------------------------------------

SectionsFor(size) == V!ceil_u64_div(size, V!SECTION_SIZE)

(* The last block was added for the call in progress: it is unused, and    *)
(* holds the sections asked for in the round before, at least, or now.     *)
Prepared(b, n, grown) ==
    /\ b.used = {}
    /\ n <= b.bitmap_size + 1
    /\ grown = 2 => n <= b.bitmap_size

(* The call in progress: the size grows by a header with every round.      *)
InCall ==
    /\ call \in [size : Nat, asked : Request, old : SUBSET chunks, grown : 0..2]
    /\ call.size = call.asked + 8 + 8 * call.grown
    /\ call.old = {} \/ \E o \in chunks : call.old = {o}
    /\ call.grown > 0 => /\ Len(heap) > 0
                         /\ Prepared(heap[Len(heap)], SectionsFor(call.size), call.grown)

(* The inductive invariant of the allocator.                               *)
HeapInv ==
    /\ Sound(heap, chunks)
    /\ call = V!NoCall \/ InCall
    /\ phase \in {"running", "searching", "out_of_memory", "overwritten"}

(* A round more asks for one section more.                                 *)
LEMMA OneMore ==
    ASSUME NEW x \in Nat
    PROVE  /\ SectionsFor(x) \in Nat /\ SectionsFor(x + 8) = SectionsFor(x) + 1
           /\ x <= SectionsFor(x) * 8 /\ SectionsFor(x) * 8 < x + 8
           /\ x > 0 => SectionsFor(x) > 0
<1> DEFINE q == V!ceil_u64_div(x, 8)  r == V!ceil_u64_div(x + 8, 8)
<1>1. q \in Nat /\ x <= q * 8 /\ q * 8 < x + 8 /\ (x > 0 => q > 0)
  BY Ceil
<1>2. r \in Nat /\ x + 8 <= r * 8 /\ r * 8 < x + 8 + 8
  BY Ceil
<1>3. SectionsFor(x) = q /\ SectionsFor(x + 8) = r
  BY Zenon DEF SectionsFor, V!SECTION_SIZE
<1> HIDE DEF q, r
<1>4. r = q + 1
  BY <1>1, <1>2
<1> QED BY <1>1, <1>3, <1>4, Zenon

(* The multiples of PerPage are PerPage apart.                             *)
LEMMA Multiples ==
    ASSUME NEW a \in Nat, a % PerPage = 0, NEW b \in Nat, b % PerPage = 0, a < b
    PROVE  a + PerPage <= b
<1> DEFINE d == a \div PerPage  e == b \div PerPage
<1>1. PerPage \in Nat \ {0}
  BY Sizes, Zenon
<1>2. d \in Nat /\ a = d * PerPage + (a % PerPage) /\ e \in Nat /\ b = e * PerPage + (b % PerPage)
  BY <1>1
<1> HIDE DEF d, e
<1>3. d * PerPage \in Nat /\ e * PerPage \in Nat /\ (d + 1) * PerPage = d * PerPage + PerPage
  BY <1>1, <1>2
<1>4. CASE e <= d
  BY <1>1, <1>2, <1>3, <1>4, MulMono
<1>5. CASE d + 1 <= e
  <2>1. (d + 1) * PerPage <= e * PerPage
    BY <1>1, <1>2, <1>5, MulMono
  <2> QED BY <1>1, <1>2, <1>3, <2>1
<1> QED BY <1>2, <1>4, <1>5

(* A multiple of PerPage leaves no rest.                                   *)
LEMMA Multiple ==
    ASSUME NEW q \in Nat
    PROVE  q * PerPage \in Nat /\ (q * PerPage) % PerPage = 0
<1> DEFINE n == q * PerPage  d == n \div PerPage  r == n % PerPage
<1>1. PerPage \in Nat \ {0} /\ n \in Nat
  BY Sizes
<1>2. d \in Nat /\ r \in 0..(PerPage - 1) /\ n = d * PerPage + r
  <2> HIDE DEF n
  <2> QED BY <1>1
<1>3. n = q * PerPage
  BY Zenon
<1> HIDE DEF n, d, r
<1>4. /\ d * PerPage \in Nat /\ (d + 1) * PerPage = d * PerPage + PerPage
      /\ q * PerPage \in Nat /\ (q + 1) * PerPage = q * PerPage + PerPage
  BY <1>1, <1>2
<1>5. ASSUME q > d PROVE FALSE
  <2>1. (d + 1) * PerPage <= q * PerPage
    BY <1>1, <1>2, <1>5, MulMono
  <2> QED BY <1>1, <1>2, <1>3, <1>4, <2>1
<1>6. ASSUME q < d PROVE FALSE
  <2>1. (q + 1) * PerPage <= d * PerPage
    BY <1>1, <1>2, <1>6, MulMono
  <2> QED BY <1>1, <1>2, <1>3, <1>4, <2>1
<1>7. q = d /\ n = d * PerPage
  <2>1. q = d
    BY <1>2, <1>5, <1>6
  <2> QED BY <1>3, <2>1, Zenon
<1>8. r = 0 /\ n \in Nat
  BY <1>1, <1>2, <1>4, <1>7
<1> QED BY <1>3, <1>8, Zenon DEF r

(* Where the search of vmalloc finds room, it does so in a block.          *)
LEMMA Room ==
    ASSUME Shape(heap), NEW n \in Nat
    PROVE  /\ V!BlockWithRoom(n) # 0 =>
                 LET b == heap[V!BlockWithRoom(n)]  s == V!Min(V!Runs(b, n))
                 IN  /\ V!BlockWithRoom(n) \in DOMAIN heap
                     /\ s \in Nat /\ s + n <= b.bitmap_size
                     /\ b.used \cap s..(s + n - 1) = {}
           /\ V!BlockWithRoom(n) = 0 => \A k \in DOMAIN heap : V!Runs(heap[k], n) = {}
<1> DEFINE hits == {k \in DOMAIN heap : V!Runs(heap[k], n) # {}}
<1>1. DOMAIN heap \subseteq Nat /\ 0 \notin DOMAIN heap
  BY DEF Shape
<1>2. V!BlockWithRoom(n) = IF hits = {} THEN 0 ELSE V!Min(hits)
  BY Zenon DEF V!BlockWithRoom
<1>3. hits # {} => V!Min(hits) \in hits
  BY <1>1, LeastNat, Zenon
<1>4. V!BlockWithRoom(n) = 0 => hits = {}
  BY <1>1, <1>2, <1>3, Zenon
<1>5. ASSUME V!BlockWithRoom(n) # 0
      PROVE  LET b == heap[V!BlockWithRoom(n)]  s == V!Min(V!Runs(b, n))
             IN  /\ V!BlockWithRoom(n) \in DOMAIN heap
                 /\ s \in Nat /\ s + n <= b.bitmap_size
                 /\ b.used \cap s..(s + n - 1) = {}
  <2> DEFINE k == V!BlockWithRoom(n)  b == heap[k]  s == V!Min(V!Runs(b, n))
  <2>1. k \in DOMAIN heap /\ V!Runs(b, n) # {}
    BY <1>2, <1>3, <1>5, Zenon
  <2> HIDE DEF k
  <2>2. b \in Block
    BY <2>1 DEF Shape
  <2>3. V!Runs(b, n) \subseteq Nat
    <3>1. b.used \subseteq Nat
      BY <2>2, Zenon DEF Block
    <3>2. \A x \in b.used : x + 1 \in Nat
      BY <3>1
    <3> QED BY <3>2 DEF V!Runs
  <2>4. s \in V!Runs(b, n)
    BY <2>1, <2>3, LeastNat, Zenon
  <2>5. s \in Nat /\ s + n <= b.bitmap_size /\ b.used \cap s..(s + n - 1) = {}
    BY <2>3, <2>4, Zenon DEF V!Runs, V!Span
  <2> QED BY <2>1, <2>5, Zenon DEF k
<1> QED BY <1>4, <1>5, Zenon

(* An unused block has room for as many sections as it has.                *)
LEMMA EmptyRoom ==
    ASSUME NEW b \in Block, b.used = {}, NEW n \in Nat, n <= b.bitmap_size
    PROVE  V!Runs(b, n) # {}
<1>1. 0 + n <= b.bitmap_size
  BY DEF Block
<1>2. 0 \in V!Runs(b, n)
  BY <1>1, Zenon DEF V!Runs
<1> QED BY <1>2, Zenon

(* add_block appends a block on pages of its own.                          *)
LEMMA GrowSound ==
    ASSUME Sound(heap, chunks), NEW q \in Nat \ {0}, NEW n, n = q * PerPage,
           NEW p \in V!vmm_alloc(V!BlockPages(n))
    PROVE  /\ Sound(Append(heap, V!NewNode(p, n)), chunks)
           /\ Len(Append(heap, V!NewNode(p, n))) = Len(heap) + 1
           /\ Append(heap, V!NewNode(p, n))[Len(heap) + 1] = V!NewNode(p, n)
           /\ V!NewNode(p, n) \in Block
<1> DEFINE b == V!NewNode(p, n)  g == Append(heap, b)  len == Len(heap)
<1>1. heap \in Seq(Block) /\ Shape(heap) /\ len \in Nat /\ DOMAIN heap = 1..len
  BY DEF Sound, Shape
<1>2. n \in Nat \ {0} /\ n % PerPage = 0
  <2>1. n \in Nat /\ n % PerPage = 0
    BY Multiple, Zenon
  <2>2. n # 0
    BY Sizes
  <2> QED BY <2>1, <2>2, Zenon
<1>3. p \in 1..Pages /\ V!Span(p, V!BlockPages(n)) \cap V!Taken = {}
  BY Zenon DEF V!vmm_alloc
<1>4. b \in Block
  <2>1. V!BlockTotal(n) \in Nat
    <3>1. V!ceil_u64_div(n, 8) \in Nat
      <4>1. n \in Nat /\ 8 \in Nat \ {0}
        BY <1>2
      <4> QED BY <4>1, Ceil, Zenon
    <3> QED BY <1>2, <3>1 DEF V!BlockTotal, V!SECTION_SIZE
  <2> QED BY <1>2, <1>3, <2>1, Zenon DEF Block, V!NewNode
<1>5. b.page = p /\ b.bitmap_size = n /\ b.used = {}
  BY Zenon DEF V!NewNode
<1> HIDE DEF b
<1>6. /\ g \in Seq(Block) /\ Len(g) = len + 1 /\ g[len + 1] = b
      /\ \A k \in 1..len : g[k] = heap[k]
  BY <1>1, <1>4
<1>7. DOMAIN g = 1..(len + 1)
  BY <1>6
<1> HIDE DEF g, len
<1>8. ASSUME NEW k \in 1..len PROVE Apart(heap[k], b) /\ Apart(b, heap[k])
  <2> DEFINE x == heap[k].page  y == V!BlockPages(heap[k].bitmap_size)  z == V!BlockPages(n)
  <2>1. heap[k] \in Block
    BY <1>1
  <2>2. x \in Nat /\ y \in Nat \ {0} /\ z \in Nat \ {0} /\ p \in Nat
    BY <1>3, <1>4, <1>5, <2>1, Layout DEF Block
  <2>3. p..(p + z - 1) \cap x..(x + y - 1) = {}
    <3>1. V!Span(x, y) \subseteq V!Taken
      BY <1>1, Zenon DEF V!Taken
    <3> QED BY <1>3, <3>1, Zenon DEF V!Span
  <2> HIDE DEF x, y, z
  <2>4. x + y <= p \/ p + z <= x
    <3>1. CASE x <= p
      <4>1. p \in p..(p + z - 1) /\ (p < x + y => p \in x..(x + y - 1))
        BY <2>2, <3>1
      <4> QED BY <2>2, <2>3, <4>1
    <3>2. CASE p <= x
      <4>1. x \in x..(x + y - 1) /\ (x < p + z => x \in p..(p + z - 1))
        BY <2>2, <3>2
      <4> QED BY <2>2, <2>3, <4>1
    <3> QED BY <2>2, <3>1, <3>2
  <2> QED BY <1>5, <2>4, Zenon DEF Apart, x, y, z
<1>9. Shape(g)
  <2>1. ASSUME NEW k \in 1..(len + 1), NEW l \in 1..(len + 1), k # l PROVE Apart(g[k], g[l])
    <3>1. CASE k \in 1..len /\ l \in 1..len
      BY <1>1, <1>6, <2>1, <3>1, Zenon DEF Shape
    <3>2. CASE k = len + 1 /\ l \in 1..len
      BY <1>6, <1>8, <3>2, Zenon
    <3>3. CASE l = len + 1 /\ k \in 1..len
      BY <1>6, <1>8, <3>3, Zenon
    <3> QED BY <1>1, <2>1, <3>1, <3>2, <3>3
  <2> QED BY <1>6, <1>7, <2>1, Zenon DEF Shape
<1>10. \A k \in 1..len : k \in DOMAIN g
  BY <1>1, <1>7
<1>11. ASSUME NEW c \in chunks PROVE \E k \in DOMAIN g : Placed(g[k], c)
  BY <1>1, <1>6, <1>10, Zenon DEF Sound
<1>12. Owned(b, chunks)
  <2>1. ASSUME NEW c \in chunks PROVE ~Placed(b, c)
    <3>1. PICK k \in 1..len : Placed(heap[k], c)
      BY <1>1, Zenon DEF Sound
    <3>2. heap[k] \in Block /\ c \in Chunk /\ Apart(heap[k], b) /\ Apart(b, heap[k])
      BY <1>1, <1>8 DEF Sound
    <3> QED BY <1>4, <3>1, <3>2, Alone, Zenon
  <2> QED BY <1>5, <2>1, Zenon DEF Owned
<1>13. ASSUME NEW k \in 1..(len + 1) PROVE Owned(g[k], chunks)
  <2>1. CASE k = len + 1
    BY <1>6, <1>12, <2>1, Zenon
  <2>2. CASE k \in 1..len
    BY <1>1, <1>6, <2>2, Zenon DEF Sound
  <2> QED BY <1>1, <2>1, <2>2
<1>14. Sound(g, chunks)
  BY <1>7, <1>9, <1>11, <1>13, Zenon DEF Sound
<1> QED BY <1>4, <1>6, <1>14, Zenon DEF g, b, len

(* The room for the call, and the chunk that is returned from it.          *)
LEMMA Given ==
    ASSUME Sound(heap, chunks), InCall, NEW n, n = SectionsFor(call.size),
           NEW k \in DOMAIN heap, NEW s \in Nat, s + n <= heap[k].bitmap_size,
           heap[k].used \cap s..(s + n - 1) = {},
           NEW c, c = [mem |-> V!Data(heap[k]) + s * 8 + 8, sections |-> n, asked |-> call.asked],
           NEW h, h = [heap EXCEPT ![k].used = @ \cup V!Span(s, n)]
    PROVE  /\ Sound(h, chunks \cup {c}) /\ c \notin chunks
           /\ DOMAIN h = DOMAIN heap /\ \A l \in DOMAIN heap : Alike(h[l], heap[l])
<1>1. /\ call.size \in Nat /\ call.size > 0 /\ call.asked \in Request /\ call.asked \in Nat
      /\ call.asked + 8 <= call.size
  BY Sizes, SMTT(30) DEF InCall
<1>2. n \in Nat \ {0} /\ call.size <= n * 8
  BY <1>1, OneMore
<1>3. heap[k] \in Block
  BY DEF Sound, Shape
<1>4. V!Data(heap[k]) \in Nat
  BY <1>3, Layout, Zenon
<1>5. c \in Chunk
  BY <1>1, <1>2, <1>4 DEF Chunk, V!SECTION_SIZE, V!ChunkHeader
<1>6. At(heap[k], c, s)
  BY <1>2, <1>4 DEF At, V!Header, V!SECTION_SIZE, V!ChunkHeader
<1>7. c.sections = n
  BY Zenon
<1> DEFINE u == heap[k].used \cup s..(s + c.sections - 1)
<1>8. h = Marked(heap, k, u)
  BY <1>7, Zenon DEF V!Span, Marked
<1>9. heap[k].used \cap s..(s + c.sections - 1) = {}
  BY <1>7, Zenon
<1>10. /\ Sound(Marked(heap, k, u), chunks \cup {c}) /\ c \notin chunks
       /\ OnlyBits(Marked(heap, k, u), heap, k, u)
  BY <1>5, <1>6, <1>9, AllocSound, Zenon
<1> HIDE DEF u
<1> QED BY <1>8, <1>10, Zenon DEF OnlyBits

(* vfree of a chunk in block k, with release_if_unused.                    *)
LEMMA FreedSound ==
    ASSUME NEW h, NEW C, Sound(h, C), NEW k \in DOMAIN h, NEW c \in C, Placed(h[k], c)
    PROVE  Sound(V!Freed(h, k, c), C \ {c})
<1> DEFINE g == [h EXCEPT ![k].used = @ \ V!Sections(h[k], c)]
<1>1. Sound(g, C \ {c})
  BY FreeSound, Zenon
<1>2. k \in DOMAIN g
  BY Zenon
<1>3. V!Freed(h, k, c) = IF k # 1 /\ g[k].used = {}
                         THEN V!Unlinked(g, k) ELSE g
  BY Zenon DEF V!Freed
<1> HIDE DEF g
<1>4. CASE k # 1 /\ g[k].used = {}
  BY <1>1, <1>2, <1>3, <1>4, Removed, Zenon
<1>5. CASE ~(k # 1 /\ g[k].used = {})
  BY <1>1, <1>3, <1>5, Zenon
<1> QED BY <1>4, <1>5, Zenon

(* vmalloc returns a chunk in a block that has room for it.                *)
LEMMA ReturnSound ==
    ASSUME HeapInv, V!Return
    PROVE  HeapInv'
<1> DEFINE n == SectionsFor(call.size)
           k == V!BlockWithRoom(n)
           s == V!Min(V!Runs(heap[k], n))
           c == [mem |-> V!Data(heap[k]) + s * 8 + 8, sections |-> n, asked |-> call.asked]
           h == [heap EXCEPT ![k].used = @ \cup V!Span(s, n)]
<1>1. /\ call # V!NoCall /\ k # 0 /\ call' = V!NoCall
      /\ chunks' = (chunks \cup {c}) \ call.old
      /\ heap' = IF call.old = {} THEN h
                 ELSE LET o == CHOOSE x \in call.old : TRUE
                      IN  V!Freed(h, V!BlockOf(V!Header(o)), o)
      /\ phase' \in {"running", "overwritten"}
  BY Zenon DEF V!Return, SectionsFor, V!SECTION_SIZE, V!ChunkHeader
<1>2. Sound(heap, chunks) /\ InCall /\ Shape(heap)
  BY <1>1, Zenon DEF HeapInv, Sound
<1>3. n \in Nat
  BY <1>2, OneMore, Zenon DEF InCall
<1> HIDE DEF n
<1>4. k \in DOMAIN heap /\ s \in Nat /\ s + n <= heap[k].bitmap_size
      /\ heap[k].used \cap s..(s + n - 1) = {}
  BY <1>1, <1>2, <1>3, Room, Zenon
<1> HIDE DEF k, s
<1>5. /\ Sound(h, chunks \cup {c}) /\ c \notin chunks
      /\ DOMAIN h = DOMAIN heap /\ \A l \in DOMAIN heap : Alike(h[l], heap[l])
  BY <1>2, <1>4, Given, Zenon DEF n
<1> HIDE DEF c, h
<1>6. Sound(heap', chunks')
  <2>1. CASE call.old = {}
    BY <1>1, <1>5, <2>1, Zenon
  <2>2. CASE call.old # {}
    <3>1. PICK o \in chunks : call.old = {o}
      BY <1>2, <2>2, Zenon DEF InCall
    <3>2. (CHOOSE x \in call.old : TRUE) = o
      BY <3>1, Zenon
    <3>3. PICK j \in DOMAIN heap : Placed(heap[j], o)
      BY <1>2, Zenon DEF Sound
    <3>4. V!BlockOf(V!Header(o)) = j
      BY <1>2, <3>3, Found, Zenon
    <3>5. Placed(h[j], o)
      BY <1>5, <3>3, AlikeSame, Zenon
    <3>6. Sound(V!Freed(h, j, o), (chunks \cup {c}) \ {o})
      BY <1>5, <3>5, FreedSound, Zenon
    <3> QED BY <1>1, <2>2, <3>1, <3>2, <3>4, <3>6, Zenon
  <2> QED BY <2>1, <2>2, Zenon
<1> QED BY <1>1, <1>6, Zenon DEF HeapInv, V!NoCall

(* vmalloc adds a block for the sections that it lacks.                    *)
LEMMA GrowInv ==
    ASSUME HeapInv, V!Grow
    PROVE  HeapInv'
<1> DEFINE q == V!ceil_u64_div(call.size, PerPage * 8)
           n == q * PerPage
           m == SectionsFor(call.size)
           last == heap[Len(heap)]
<1>1. /\ call # V!NoCall /\ V!BlockWithRoom(m) = 0 /\ chunks' = chunks
      /\ \/ phase' = "out_of_memory" /\ heap' = heap /\ call' = call
         \/ /\ \E p \in V!vmm_alloc(V!BlockPages(n)) : heap' = Append(heap, V!NewNode(p, n))
            /\ call' = [call EXCEPT !.size = @ + 8, !.grown = @ + 1]
            /\ phase' = phase
  BY Zenon DEF V!Grow, SectionsFor, V!SECTION_SIZE, V!ChunkHeader
<1>2. Sound(heap, chunks) /\ InCall /\ Shape(heap)
  BY <1>1, Zenon DEF HeapInv, Sound
<1>3. /\ call.size \in Nat \ {0} /\ call.grown \in 0..2 /\ PerPage \in Nat \ {0} /\ PerPage >= 8
      /\ call.size = call.asked + 8 + 8 * call.grown /\ call.asked \in Nat
  <2>1. /\ call.size \in Nat /\ call.asked \in Request /\ call.grown \in 0..2
        /\ call.size = call.asked + 8 + 8 * call.grown
    BY <1>2, Zenon DEF InCall
  <2>2. call.asked \in Nat
    BY <2>1, Sizes, Zenon
  <2> QED BY <2>1, <2>2, Sizes
<1>4. m \in Nat /\ SectionsFor(call.size + 8) = m + 1 /\ m * 8 < call.size + 8
  BY <1>3, OneMore, Zenon
<1>5. q \in Nat \ {0} /\ call.size <= q * (PerPage * 8)
  <2>1. PerPage * 8 \in Nat \ {0} /\ call.size \in Nat /\ call.size > 0
    BY <1>3
  <2>2. q \in Nat /\ call.size <= q * (PerPage * 8) /\ q > 0
    BY <2>1, Ceil, Zenon
  <2> QED BY <2>2
<1> HIDE DEF q, m
<1>6. n \in Nat /\ n % PerPage = 0 /\ q * (PerPage * 8) = n * 8
  BY <1>3, <1>5, Multiple
<1> HIDE DEF n
<1>7. m <= n
  BY <1>3, <1>4, <1>5, <1>6
<1>8. CASE phase' = "out_of_memory" /\ heap' = heap /\ call' = call
  BY <1>1, <1>2, <1>8, Zenon DEF HeapInv, InCall
<1>9. ASSUME NEW p \in V!vmm_alloc(V!BlockPages(n)), heap' = Append(heap, V!NewNode(p, n)),
             call' = [call EXCEPT !.size = @ + 8, !.grown = @ + 1], phase' = phase
      PROVE  HeapInv'
  <2>1. /\ Sound(heap', chunks) /\ Len(heap') = Len(heap) + 1 /\ Len(heap) \in Nat
        /\ heap'[Len(heap')] = V!NewNode(p, n)
    BY <1>2, <1>5, <1>9, GrowSound DEF n, Shape
  <2>2. ASSUME call.grown > 0
        PROVE  call.grown = 1 /\ m + 1 <= n
    <3>1. last \in Block /\ Len(heap) \in DOMAIN heap /\ Prepared(last, m, call.grown)
      BY <1>2, <1>3, <2>2 DEF InCall, Shape, m
    <3>2. V!Runs(last, m) = {}
      BY <1>1, <1>2, <1>4, <3>1, Room, Zenon
    <3>3. ~(m <= last.bitmap_size)
      BY <1>4, <3>1, <3>2, EmptyRoom, Zenon DEF Prepared
    <3>4. last.bitmap_size \in Nat /\ last.bitmap_size % PerPage = 0
      BY <3>1, Zenon DEF Block
    <3>5. m <= last.bitmap_size + 1 /\ call.grown # 2
      BY <3>1, <3>3, Zenon DEF Prepared
    <3> HIDE DEF last
    <3>6. last.bitmap_size < n
      BY <1>4, <1>6, <1>7, <3>3, <3>4
    <3>7. last.bitmap_size + PerPage <= n
      BY <1>6, <3>4, <3>6, Multiples, Zenon
    <3> QED BY <1>3, <1>4, <1>6, <2>2, <3>4, <3>5, <3>7, SMTT(30)
  <2>3. /\ call' \in [size : Nat, asked : Request, old : SUBSET chunks, grown : 0..2]
        /\ call'.size = call.size + 8 /\ call'.grown = call.grown + 1
        /\ call'.asked = call.asked /\ call'.old = call.old
    <3>1. call \in [size : Nat, asked : Request, old : SUBSET chunks, grown : 0..2]
      BY <1>2, Zenon DEF InCall
    <3>2. call.size + 8 \in Nat /\ call.grown + 1 \in 0..2
      BY <1>3, <2>2
    <3> QED BY <1>9, <3>1, <3>2, Zenon
  <2>4. Prepared(V!NewNode(p, n), m + 1, call.grown + 1)
    <3>1. m + 1 <= n + 1 /\ (call.grown + 1 = 2 => m + 1 <= n)
      BY <1>3, <1>4, <1>6, <1>7, <2>2
    <3> QED BY <3>1, Zenon DEF Prepared, V!NewNode
  <2>5. call'.size = call'.asked + 8 + 8 * call'.grown
    BY <1>3, <2>3
  <2>6. Len(heap') > 0 /\ Prepared(heap'[Len(heap')], SectionsFor(call'.size), call'.grown)
    BY <1>4, <2>1, <2>3, <2>4
  <2>7. InCall'
    BY <1>1, <1>2, <2>3, <2>5, <2>6, Zenon DEF InCall
  <2> QED BY <1>1, <1>9, <2>1, <2>7, Zenon DEF HeapInv
<1> QED BY <1>1, <1>8, <1>9, Zenon

(* At boot there are no blocks and no chunks.                              *)
LEMMA InitHeapInv == HeapInit => HeapInv
<1>1. CASE heap = <<>> /\ chunks = {} /\ call = V!NoCall /\ phase = "searching"
  <2>1. heap \in Seq(Block) /\ DOMAIN heap = {}
    BY <1>1
  <2>2. Sound(heap, chunks)
    BY <1>1, <2>1, Zenon DEF Sound, Shape
  <2> QED BY <1>1, <2>2, Zenon DEF HeapInv
<1>2. CASE V!Init
  <2> DEFINE b == V!NewNode(1, PerPage)
  <2>1. heap = <<b>> /\ chunks = {} /\ call = V!NoCall /\ phase = "running"
    BY <1>2, Zenon DEF V!Init
  <2>2. b \in Block /\ b.used = {}
    <3>1. 1 \in 1..Pages /\ PerPage \in Nat \ {0} /\ 1 \in Nat /\ 1 * PerPage = PerPage
      BY Sizes
    <3>2. PerPage % PerPage = 0
      BY <3>1, Multiple, Zenon
    <3>3. V!BlockTotal(PerPage) \in Nat
      <4>1. PerPage \in Nat /\ 8 \in Nat \ {0}
        BY <3>1
      <4>2. V!ceil_u64_div(PerPage, 8) \in Nat
        BY <4>1, Ceil, Zenon
      <4> QED BY <3>1, <4>2 DEF V!BlockTotal, V!SECTION_SIZE
    <3> QED BY <3>1, <3>2, <3>3, Zenon DEF Block, V!NewNode
  <2> HIDE DEF b
  <2>3. heap \in Seq(Block) /\ DOMAIN heap = {1} /\ heap[1] = b
    BY <2>1, <2>2
  <2>4. Sound(heap, chunks)
    BY <2>1, <2>2, <2>3, Zenon DEF Sound, Shape, Owned
  <2> QED BY <2>1, <2>4, Zenon DEF HeapInv
<1> QED BY <1>1, <1>2, Zenon DEF HeapInit

(* Every step of the allocator keeps it.                                   *)
LEMMA StepHeapInv ==
    ASSUME HeapInv, V!Next
    PROVE  HeapInv'
<1>1. ASSUME NEW size \in Request, V!vmalloc(size) PROVE HeapInv'
  <2>1. /\ call' = [size |-> size + 8, asked |-> size, old |-> {}, grown |-> 0]
        /\ heap' = heap /\ chunks' = chunks /\ phase' = phase
    BY <1>1, Zenon DEF V!vmalloc, V!NoCall, V!ChunkHeader
  <2>2. InCall'
    BY <2>1, Sizes DEF InCall
  <2> QED BY <2>1, <2>2, Zenon DEF HeapInv
<1>2. ASSUME NEW size \in Request, NEW c \in chunks, V!vrealloc(c, size) PROVE HeapInv'
  <2>1. /\ call' = [size |-> size + 8, asked |-> size, old |-> {c}, grown |-> 0]
        /\ heap' = heap /\ chunks' = chunks /\ phase' = phase
    BY <1>2, Zenon DEF V!vrealloc, V!NoCall, V!ChunkHeader
  <2>2. InCall'
    BY <2>1, Sizes DEF InCall
  <2> QED BY <2>1, <2>2, Zenon DEF HeapInv
<1>3. ASSUME NEW c \in chunks, V!vfree(c) PROVE HeapInv'
  <2>1. /\ heap' = V!Freed(heap, V!BlockOf(V!Header(c)), c) /\ chunks' = chunks \ {c}
        /\ call = V!NoCall /\ call' = call /\ phase' = phase
    BY <1>3, Zenon DEF V!vfree
  <2>2. PICK k \in DOMAIN heap : Placed(heap[k], c)
    BY Zenon DEF HeapInv, Sound
  <2>3. V!BlockOf(V!Header(c)) = k
    BY <2>2, Found, Zenon DEF HeapInv
  <2>4. Sound(heap', chunks')
    BY <2>1, <2>2, <2>3, FreedSound, Zenon DEF HeapInv
  <2> QED BY <2>1, <2>4, Zenon DEF HeapInv, V!NoCall
<1> QED BY <1>1, <1>2, <1>3, ReturnSound, GrowInv, Zenon DEF V!Next

(* The invariant of the heap holds throughout.                             *)
LEMMA HeapInvariance == HeapSpec => []HeapInv
<1>1. HeapInv /\ [HeapNext]_<<vars, heapVars>> => HeapInv'
  <2>1. HeapInv /\ UNCHANGED heapVars => HeapInv'
    BY Zenon DEF heapVars, HeapInv, InCall
  <2> QED BY <2>1, StepHeapInv, Zenon DEF HeapNext, AllocatorStep, SearchStep
<1> QED BY InitHeapInv, <1>1, PTL DEF HeapSpec

(* The block in which vfree looks for a chunk is the one it lies in.       *)
LEMMA FoundIn ==
    ASSUME Sound(heap, chunks), NEW c \in chunks
    PROVE  /\ V!BlockOf(V!Header(c)) \in DOMAIN heap
           /\ \A k \in DOMAIN heap : Placed(heap[k], c) <=> V!BlockOf(V!Header(c)) = k
<1>1. PICK k \in DOMAIN heap : Placed(heap[k], c)
  BY Zenon DEF Sound
<1> QED BY <1>1, Found, Zenon

(* Two chunks share no byte.                                               *)
LEMMA ByteDisjoint ==
    ASSUME Sound(heap, chunks), NEW c \in chunks, NEW d \in chunks, c # d
    PROVE  \/ V!Header(c) + c.sections * 8 <= V!Header(d)
           \/ V!Header(d) + d.sections * 8 <= V!Header(c)
<1>1. c \in Chunk /\ d \in Chunk /\ Shape(heap) /\ heap \in Seq(Block)
  BY Zenon DEF Sound, Shape
<1>2. PICK k \in DOMAIN heap, s \in Nat : At(heap[k], c, s)
  BY Zenon DEF Sound, Placed
<1>3. PICK l \in DOMAIN heap, t \in Nat : At(heap[l], d, t)
  BY Zenon DEF Sound, Placed
<1>4. heap[k] \in Block /\ heap[l] \in Block
  BY <1>1
<1> DEFINE x == V!Header(c)  m == c.sections  y == V!Header(d)  n == d.sections
<1>5. m \in Nat \ {0} /\ n \in Nat \ {0}
  BY <1>1, Zenon DEF Chunk
<1>6. CASE k = l
  <2>1. V!Sections(heap[k], c) = s..(s + m - 1) /\ V!Sections(heap[k], d) = t..(t + n - 1)
    BY <1>1, <1>2, <1>3, <1>4, <1>6, Inside, Zenon
  <2>2. V!Sections(heap[k], c) \cap V!Sections(heap[k], d) = {}
    <3>1. Owned(heap[k], chunks)
      BY Zenon DEF Sound
    <3>2. Placed(heap[k], c) /\ Placed(heap[k], d)
      BY <1>2, <1>3, <1>6, Zenon DEF Placed
    <3> QED BY <3>1, <3>2, Zenon DEF Owned
  <2>3. x = V!Data(heap[k]) + s * 8 /\ y = V!Data(heap[k]) + t * 8 /\ V!Data(heap[k]) \in Nat
    BY <1>2, <1>3, <1>4, <1>6, Layout, Zenon DEF At, V!SECTION_SIZE
  <2> HIDE DEF x, y, m, n
  <2>4. s + m <= t \/ t + n <= s
    <3>1. CASE s <= t
      <4>1. t \in t..(t + n - 1) /\ (t < s + m => t \in s..(s + m - 1))
        BY <1>5, <3>1
      <4> QED BY <1>5, <2>1, <2>2, <4>1
    <3>2. CASE t <= s
      <4>1. s \in s..(s + m - 1) /\ (s < t + n => s \in t..(t + n - 1))
        BY <1>5, <3>2
      <4> QED BY <1>5, <2>1, <2>2, <4>1
    <3> QED BY <3>1, <3>2
  <2>5. x + m * 8 <= y \/ y + n * 8 <= x
    BY <1>5, <2>3, <2>4
  <2> QED BY <2>5, Zenon DEF x, y, m, n
<1>7. CASE k # l
  <2> DEFINE a == heap[k]  b == heap[l]
  <2>1. /\ V!Data(a) <= x /\ x \in Nat /\ x + m * 8 <= V!Mem(a) + a.total_size
        /\ V!Data(b) <= y /\ y \in Nat /\ y + n * 8 <= V!Mem(b) + b.total_size
    BY <1>1, <1>2, <1>3, <1>4, Inside, Zenon
  <2>2. /\ V!Mem(a) \in Nat /\ V!Data(a) \in Nat /\ V!Mem(a) < V!Data(a)
        /\ V!Mem(b) \in Nat /\ V!Data(b) \in Nat /\ V!Mem(b) < V!Data(b)
    BY <1>4, Layout, Zenon
  <2>3. Apart(a, b) /\ a.total_size \in Nat /\ b.total_size \in Nat
    BY <1>1, <1>4, <1>7, Zenon DEF Shape, Block
  <2>4. V!Mem(a) + a.total_size <= V!Mem(b) \/ V!Mem(b) + b.total_size <= V!Mem(a)
    BY <1>4, <2>3, Beyond, Zenon DEF Apart
  <2> HIDE DEF x, y, m, n, a, b
  <2>5. x + m * 8 <= y \/ y + n * 8 <= x
    BY <1>5, <2>1, <2>2, <2>3, <2>4
  <2> QED BY <2>5, Zenon DEF x, y, m, n
<1> QED BY <1>6, <1>7, Zenon

(* Whatever sequence of vmalloc, vrealloc and vfree, no two chunks in use  *)
(* share a byte, each is as long as its caller asked for, and it reaches   *)
(* behind the pages of its block by no more than a node header.            *)
THEOREM ChunksNeverOverlap == HeapSpec => []ChunksDisjoint
<1>1. ASSUME HeapInv PROVE ChunksDisjoint
  <2>1. Sound(heap, chunks) /\ chunks \subseteq Chunk /\ heap \in Seq(Block)
    BY <1>1, Zenon DEF HeapInv, Sound, Shape
  <2>2. ASSUME NEW c \in chunks, NEW k \in DOMAIN heap, V!BlockOf(V!Header(c)) = k
        PROVE  V!Header(c) + c.sections * 8
                  <= (heap[k].page + V!BlockPages(heap[k].bitmap_size)) * PAGE_SIZE + 24
    <3> DEFINE b == heap[k]  p == b.page  z == V!BlockPages(b.bitmap_size)  e == V!Header(c) + c.sections * 8
    <3>1. Placed(b, c) /\ b \in Block /\ c \in Chunk
      BY <2>1, <2>2, FoundIn
    <3>2. PICK s \in Nat : At(b, c, s)
      BY <3>1, Zenon DEF Placed
    <3>3. e <= V!Mem(b) + b.total_size /\ V!Header(c) \in Nat
      BY <3>1, <3>2, Inside, Zenon
    <3>4. V!Mem(b) = p * PAGE_SIZE + 24 /\ b.total_size <= z * PAGE_SIZE /\ z \in Nat
      BY <3>1, Layout, Zenon
    <3>5. p \in Nat /\ b.total_size \in Nat /\ c.sections \in Nat /\ PAGE_SIZE \in Nat
      BY <3>1, Sizes DEF Block, Chunk
    <3>6. e \in Nat
      BY <3>3, <3>5
    <3> HIDE DEF b, p, z, e
    <3>7. (p + z) * PAGE_SIZE = p * PAGE_SIZE + z * PAGE_SIZE
      BY <3>4, <3>5
    <3>8. p * PAGE_SIZE \in Nat /\ z * PAGE_SIZE \in Nat
      BY <3>4, <3>5
    <3>9. e <= (p + z) * PAGE_SIZE + 24
      BY <3>3, <3>4, <3>5, <3>6, <3>7, <3>8
    <3> QED BY <3>9, Zenon DEF b, p, z, e
  <2>3. \A c \in chunks : c.sections * 8 - 8 >= c.asked
    BY <2>1, Zenon DEF Chunk, V!SECTION_SIZE, V!ChunkHeader
  <2>4. \A c, d \in chunks : c # d =>
          \/ V!Header(c) + c.sections * 8 <= V!Header(d)
          \/ V!Header(d) + d.sections * 8 <= V!Header(c)
    BY <2>1, ByteDisjoint, Zenon
  <2> QED BY <2>2, <2>3, <2>4, Zenon
          DEF ChunksDisjoint, V!ChunksDisjoint, V!SECTION_SIZE, V!ChunkHeader, V!NodeHeader
<1> QED BY HeapInvariance, <1>1, PTL

(* vfree finds the block of every chunk in use, the bits set in the bitmap *)
(* of a block are those of its chunks, and vmalloc calls itself at most    *)
(* twice, although each round asks for 8 bytes more.                       *)
THEOREM SectionsAreAccountedFor == HeapSpec => []SectionsAccountedFor
<1>1. ASSUME HeapInv PROVE SectionsAccountedFor
  <2>1. Sound(heap, chunks) /\ chunks \subseteq Chunk /\ heap \in Seq(Block)
    BY <1>1, Zenon DEF HeapInv, Sound, Shape
  <2>2. /\ call.size \in Nat /\ call.grown \in Nat /\ call.old \subseteq chunks
        /\ call.grown <= 2
    <3>1. CASE call = V!NoCall
      BY <3>1 DEF V!NoCall
    <3>2. CASE InCall
      BY <3>2 DEF InCall
    <3> QED BY <1>1, <3>1, <3>2, Zenon DEF HeapInv
  <2>3. \A k \in DOMAIN heap :
          /\ heap[k].page \in 1..Pages /\ heap[k].bitmap_size % PerPage = 0
          /\ heap[k].used \subseteq 0..(heap[k].bitmap_size - 1)
    BY <2>1 DEF Block
  <2>4. \A c \in chunks : c.mem \in Nat /\ c.sections \in Nat /\ c.asked \in Request
    BY <2>1, Zenon DEF Chunk
  <2>5. V!TypeOK
    BY <1>1, <2>2, <2>3, <2>4, Zenon DEF V!TypeOK, HeapInv
  <2>6. \A c \in chunks : V!BlockOf(V!Header(c)) # 0
    <3>1. 0 \notin DOMAIN heap
      BY <2>1
    <3> QED BY <2>1, <3>1, FoundIn, Zenon
  <2>7. ASSUME NEW k \in DOMAIN heap
        PROVE  LET mine == {c \in chunks : V!BlockOf(V!Header(c)) = k}
               IN  /\ heap[k].used = UNION {V!Sections(heap[k], c) : c \in mine}
                   /\ \A c, d \in mine : c # d =>
                         V!Sections(heap[k], c) \cap V!Sections(heap[k], d) = {}
    <3>1. \A c \in chunks : Placed(heap[k], c) <=> V!BlockOf(V!Header(c)) = k
      BY <2>1, FoundIn, Zenon
    <3>2. Owned(heap[k], chunks)
      BY <2>1, Zenon DEF Sound
    <3> QED BY <3>1, <3>2, ZenonT(60) DEF Owned
  <2> QED BY <2>2, <2>5, <2>6, <2>7, Zenon DEF SectionsAccountedFor, V!SectionsAccountedFor
<1> QED BY HeapInvariance, <1>1, PTL

(* The bitmap of the composed system is searched and marked as module      *)
(* HeapBitmap says, whatever the allocator does: its first fit and its     *)
(* exact marking hold of the composed system too.                          *)
THEOREM HeapSearches == HeapSpec => Spec /\ FirstFit /\ MarksExactly
<1>1. HeapInit => Init
  BY Zenon DEF HeapInit
<1>2. [HeapNext]_<<vars, heapVars>> => [Next]_vars
  BY Zenon DEF HeapNext, AllocatorStep, SearchStep
<1>3. HeapSpec => Spec
  BY <1>1, <1>2, PTL DEF HeapSpec, Spec
<1> QED BY <1>3, ScanIsFirstFit, MarkingExact, PTL
=============================================================================
