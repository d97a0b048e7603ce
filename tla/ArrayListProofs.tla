-------------------------- MODULE ArrayListProofs ---------------------------
(***************************************************************************)
(* Proofs about ArrayList for all entries and sizes.  TypeOK and HalfFull  *)
(* are inductive together: that the chunk is at least half full tells how  *)
(* many entries there are when it is halved, and so that they fit.         *)
(***************************************************************************)
EXTENDS ArrayList, SequenceTheorems, TLAPS

IInv == TypeOK /\ HalfFull /\ (\A i \in 0..(size - 1) : l[i] \in Value)

(* Half of a capacity.                                                     *)
LEMMA Half ==
    ASSUME NEW c \in Nat
    PROVE  /\ c \div 2 \in Nat /\ 2 * (c \div 2) <= c /\ c <= 2 * (c \div 2) + 1
           /\ c # 0 => (c \div 2) < c
  BY SMT

LEMMA InitIInv == Init => IInv
  BY Half, SMT DEF Init, IInv, TypeOK, HalfFull, NoChunk

(* A new entry: the chunk has room for it, after doubling if need be.      *)
LEMMA AddIInv ==
    ASSUME IInv, NEW v \in Value, arraylist_add(v)
    PROVE  /\ IInv'
           /\ size' = size + 1 /\ size < capacity'
           /\ \A i \in 0..(size - 1) : l'[i] = l[i]
           /\ l'[size] = v
  <1>1. size \in Nat /\ capacity \in Nat /\ size <= capacity /\ capacity \div 2 <= size
    BY DEF IInv, TypeOK, HalfFull
  <1>2. size' = size + 1
    BY DEF arraylist_add
  <1>3. capacity' = IF capacity = 0 THEN 1 ELSE IF size + 1 <= capacity THEN capacity ELSE 2 * capacity
    BY DEF arraylist_add
  <1>4. capacity' \in Nat /\ size < capacity'
    BY <1>1, <1>3, SMT
  <1>5. capacity' \div 2 <= size'
    <2>1. CASE capacity = 0
      BY <1>2, <1>3, <1>1, <2>1, SMT
    <2>2. CASE capacity # 0 /\ size + 1 <= capacity
      BY <1>2, <1>3, <1>1, <2>2, Half, SMT
    <2>3. CASE capacity # 0 /\ ~(size + 1 <= capacity)
      BY <1>2, <1>3, <1>1, <2>3, SMT
    <2> QED BY <2>1, <2>2, <2>3
  <1>c. PICK c \in Nat : c = capacity'
    BY <1>4
  <1>6. l' = [[i \in 0..(c - 1) |-> IF i < size THEN l[i] ELSE Junk] EXCEPT ![size] = v]
    BY <1>c DEF arraylist_add, Chunk
  <1>7. size \in 0..(c - 1) /\ \A i \in 0..(size - 1) : i \in 0..(c - 1)
    <2>1. size < c
      BY <1>4, <1>c
    <2> QED BY <2>1, <1>1, SMT
  <1>8. l' = [i \in 0..(c - 1) |-> IF i = size THEN v ELSE IF i < size THEN l[i] ELSE Junk]
    BY <1>6, <1>7, Zenon
  <1>9. \A i \in 0..(c - 1) : i < size => l[i] \in Value
    BY <1>1, SMT DEF IInv
  <1>10. l' \in [0..(c - 1) -> Value \cup {Junk}]
    BY <1>8, <1>9
  <1>11. l'[size] = v
    BY <1>8, <1>7
  <1>12. \A i \in 0..(size - 1) : l'[i] = l[i]
    <2> TAKE i \in 0..(size - 1)
    <2>1. i < size /\ i # size
      BY <1>1, SMT
    <2> QED BY <2>1, <1>7, <1>8
  <1>13. \A i \in 0..(size' - 1) : l'[i] \in Value
    BY <1>11, <1>12, <1>2, <1>1, SMT DEF IInv
  <1>14. TypeOK'
    <2>1. size' \in Nat
      BY <1>1, <1>2, SMT
    <2> QED BY <2>1, <1>10, <1>4, <1>c, Zenon DEF TypeOK
  <1>15. HalfFull'
    <2>1. size' <= capacity'
      BY <1>1, <1>2, <1>4, SMT
    <2> QED BY <2>1, <1>5 DEF HalfFull
  <1> QED
    BY <1>2, <1>4, <1>11, <1>12, <1>13, <1>14, <1>15 DEF IInv

(* A removal: what is kept moves up by one and fits, also when the chunk   *)
(* is halved.                                                              *)
LEMMA RemoveIInv ==
    ASSUME IInv, NEW index \in Nat, index < size, arraylist_remove(index)
    PROVE  /\ IInv'
           /\ size' = size - 1
           /\ \A i \in 0..(size - 2) : l'[i] = IF i < index THEN l[i] ELSE l[i + 1]
  <1>1. size \in Nat /\ capacity \in Nat /\ size <= capacity /\ capacity \div 2 <= size
    BY DEF IInv, TypeOK, HalfFull
  <1>2. PICK half \in Nat : half = capacity \div 2 /\ 2 * half <= capacity /\ capacity <= 2 * half + 1
    BY <1>1, Half
  <1>3. /\ size' = size - 1
        /\ capacity' = IF size - 1 >= half THEN capacity ELSE half
        /\ l' = [i \in 0..(capacity' - 1) |->
                   IF i < size - 1 THEN IF i < index THEN l[i] ELSE l[i + 1] ELSE Junk]
    <2>1. ~(index >= size)
      BY <1>1, SMT
    <2> QED BY <2>1, <1>2, Zenon DEF arraylist_remove, Chunk
  <1>c. PICK c \in Nat : c = capacity'
    BY <1>1, <1>2, <1>3
  <1>s. PICK s \in Nat : s = size' /\ s = size - 1
    BY <1>1, <1>3, SMT
  <1>4. s <= c /\ c \div 2 <= s
    <2>1. CASE size - 1 >= half
      <3>1. c = capacity
        BY <2>1, <1>3, <1>c
      <3> QED BY <3>1, <2>1, <1>1, <1>2, <1>s, SMT
    <2>2. CASE ~(size - 1 >= half)
      <3>1. c = half
        BY <2>2, <1>3, <1>c
      <3>2. half <= size /\ size \in Nat
        BY <1>1, <1>2
      <3>3. s + 1 = c
        BY <3>1, <3>2, <2>2, <1>s, SMT
      <3> QED BY <3>3, SMT
    <2> QED BY <2>1, <2>2
  <1>5. l' = [i \in 0..(c - 1) |-> IF i < s THEN IF i < index THEN l[i] ELSE l[i + 1] ELSE Junk]
    BY <1>3, <1>c, <1>s
  <1>6. \A i \in 0..(c - 1) : i < s => l[i] \in Value /\ l[i + 1] \in Value
    <2> TAKE i \in 0..(c - 1)
    <2> HAVE i < s
    <2>1. i \in 0..(size - 1) /\ i + 1 \in 0..(size - 1)
      BY <1>1, <1>s, SMT
    <2> QED BY <2>1 DEF IInv
  <1>7. l' \in [0..(c - 1) -> Value \cup {Junk}]
    BY <1>5, <1>6
  <1>8. \A i \in 0..(s - 1) : l'[i] = IF i < index THEN l[i] ELSE l[i + 1]
    <2> TAKE i \in 0..(s - 1)
    <2>1. i < s /\ i \in 0..(c - 1)
      BY <1>4, SMT
    <2> QED BY <2>1, <1>5
  <1>9. \A i \in 0..(s - 1) : l'[i] \in Value
    <2> TAKE i \in 0..(s - 1)
    <2>1. i < s /\ i \in 0..(c - 1)
      BY <1>4, SMT
    <2> QED BY <2>1, <1>6, <1>8
  <1>10. TypeOK'
    BY <1>7, <1>c, <1>s, Zenon DEF TypeOK
  <1>11. HalfFull'
    BY <1>4, <1>c, <1>s DEF HalfFull
  <1>12. s - 1 = size - 2
    BY <1>s, <1>1, SMT
  <1>13. IInv'
    BY <1>9, <1>10, <1>11, <1>s DEF IInv
  <1> QED
    BY <1>3, <1>8, <1>12, <1>13

LEMMA Invariance == Spec => []IInv
  <1>1. ASSUME IInv, [Next]_vars PROVE IInv'
    <2>1. ASSUME NEW v \in Value, arraylist_add(v) PROVE IInv'
      BY <1>1, <2>1, AddIInv
    <2>2. ASSUME NEW index \in 0..MaxSize, arraylist_remove(index) PROVE IInv'
      <3>1. index \in Nat
        BY JunkAssumption, SMT
      <3>2. CASE index < size
        BY <1>1, <2>2, <3>1, <3>2, RemoveIInv
      <3>3. CASE ~(index < size)
        <4>1. UNCHANGED <<l, size, capacity>>
          BY <2>2, <3>3, Zenon DEF arraylist_remove
        <4> QED BY <1>1, <4>1 DEF IInv, TypeOK, HalfFull
      <3> QED BY <3>2, <3>3
    <2>3. CASE arraylist_free
      <3>1. l' = NoChunk /\ size' = 0 /\ capacity' = 0
        BY <2>3 DEF arraylist_free
      <3> QED BY <3>1, SMT DEF IInv, TypeOK, HalfFull, NoChunk
    <2>4. CASE UNCHANGED vars
      BY <1>1, <2>4 DEF vars, IInv, TypeOK, HalfFull
    <2> QED BY <1>1, <2>1, <2>2, <2>3, <2>4 DEF Next
  <1> QED BY <1>1, InitIInv, PTL DEF Spec

(* The fields of a list always have their types: the chunk has exactly     *)
(* `capacity' entries.                                                     *)
THEOREM TypeCorrect == Spec => []TypeOK
  BY Invariance, PTL DEF IInv

(* The entries lie inside the chunk, and at least half of it is used.      *)
THEOREM AlwaysHalfFull == Spec => []HalfFull
  BY Invariance, PTL DEF IInv

(* The list is the sequence that List describes.                           *)
THEOREM Refinement == Spec => ImplementsList
  <1>1. Init => Promise!Init
    BY SMT DEF Init, Promise!Init, Entries
  <1>2. ASSUME IInv, [Next]_vars PROVE [Promise!Next]_Entries
    <2>0. size \in Nat /\ (\A i \in 0..(size - 1) : l[i] \in Value)
      BY <1>2 DEF IInv, TypeOK
    <2>l. Len(Entries) = size /\ Entries \in Seq(Value) /\ \A k \in 1..size : Entries[k] = l[k - 1]
      <3>1. \A k \in 1..size : k - 1 \in 0..(size - 1)
        BY <2>0, SMT
      <3>2. Entries \in [1..size -> Value]
        BY <2>0, <3>1 DEF Entries
      <3> QED BY <3>2, <2>0 DEF Entries
    <2>1. ASSUME NEW v \in Value, arraylist_add(v) PROVE Promise!Add
      <3>1. /\ size' = size + 1 /\ (\A i \in 0..(size - 1) : l'[i] = l[i]) /\ l'[size] = v
        BY <1>2, <2>1, AddIInv
      <3>2. Entries' = [k \in 1..(size + 1) |-> l'[k - 1]]
        BY <3>1 DEF Entries
      <3>3. \A k \in 1..(size + 1) : l'[k - 1] = IF k = size + 1 THEN v ELSE Entries[k]
        <4> TAKE k \in 1..(size + 1)
        <4>1. CASE k = size + 1
          <5>1. k - 1 = size
            BY <4>1, <2>0, SMT
          <5> QED BY <5>1, <4>1, <3>1
        <4>2. CASE k # size + 1
          <5>1. k \in 1..size /\ k - 1 \in 0..(size - 1)
            BY <4>2, <2>0, SMT
          <5> QED BY <5>1, <4>2, <3>1, <2>l
        <4> QED BY <4>1, <4>2
      <3>4. Append(Entries, v) = [k \in 1..(size + 1) |-> IF k = size + 1 THEN v ELSE Entries[k]]
        <4>1. PICK e \in Seq(Value) : e = Entries /\ Len(e) = size
          BY <2>l
        <4>2. Append(e, v) \in Seq(Value) /\ Len(Append(e, v)) = size + 1
          BY <4>1, SMT
        <4>3. \A k \in 1..(size + 1) : Append(e, v)[k] = IF k = size + 1 THEN v ELSE e[k]
          BY <4>1, <2>0, SMT
        <4>4. Append(e, v) = [k \in 1..(size + 1) |-> Append(e, v)[k]]
          <5>1. PICK a \in Seq(Value) : a = Append(e, v) /\ Len(a) = size + 1
            BY <4>2, Zenon
          <5>2. a = [k \in 1..Len(a) |-> a[k]]
            <6>1. a \in [1..Len(a) -> Value]
              BY <5>1, LenProperties, Zenon
            <6> QED BY <6>1
          <5> QED BY <5>1, <5>2
        <4> QED BY <4>1, <4>3, <4>4
      <3>5. Entries' = Append(Entries, v)
        BY <3>2, <3>3, <3>4
      <3> QED BY <3>5 DEF Promise!Add
    <2>2. ASSUME NEW index \in 0..MaxSize, arraylist_remove(index)
          PROVE  Promise!Remove \/ UNCHANGED Entries
      <3>0. index \in Nat
        BY JunkAssumption, SMT
      <3>1. CASE ~(index < size)
        BY <2>2, <3>1, Zenon DEF arraylist_remove, Entries
      <3>2. CASE index < size
        <4>1. /\ size' = size - 1
              /\ \A i \in 0..(size - 2) : l'[i] = IF i < index THEN l[i] ELSE l[i + 1]
          BY <1>2, <2>2, <3>0, <3>2, RemoveIInv
        <4>2. Entries' = [k \in 1..(size - 1) |-> l'[k - 1]]
          BY <4>1 DEF Entries
        <4>3. \A k \in 1..(size - 1) :
                l'[k - 1] = IF k < index + 1 THEN Entries[k] ELSE Entries[k + 1]
          <5> TAKE k \in 1..(size - 1)
          <5>1. /\ k - 1 \in 0..(size - 2) /\ k \in 1..size /\ k + 1 \in 1..size
                /\ (k + 1) - 1 = (k - 1) + 1 /\ (k - 1 < index <=> k < index + 1)
            BY <2>0, <3>0, SMT
          <5> QED BY <5>1, <4>1, <2>l, SMTT(30)
        <4>4. Entries' = [k \in 1..(Len(Entries) - 1) |->
                            IF k < index + 1 THEN Entries[k] ELSE Entries[k + 1]]
          BY <4>2, <4>3, <2>l
        <4>5. index + 1 \in 1..Len(Entries)
          BY <2>l, <2>0, <3>0, <3>2, SMT
        <4> QED BY <4>4, <4>5 DEF Promise!Remove
      <3> QED BY <3>1, <3>2
    <2>3. CASE arraylist_free
      <3>1. Entries' = <<>>
        BY <2>3, SMT DEF arraylist_free, Entries
      <3> QED BY <3>1 DEF Promise!Next, Promise!Clear
    <2>4. CASE UNCHANGED vars
      BY <2>4 DEF vars, Entries
    <2> QED BY <1>2, <2>1, <2>2, <2>3, <2>4 DEF Next, Promise!Next
  <1> QED BY <1>1, <1>2, Invariance, PTL DEF Spec, ImplementsList, Promise!Spec
=============================================================================
