----------------------------- MODULE ArrayList ------------------------------
(***************************************************************************)
(* The growing and shrinking array of src/src/util/arraylist.c, as used by *)
(* its callers: the entry whose index arraylist_add returns is stored at   *)
(* once.  An entry is one value instead of entry_size bytes.               *)
(***************************************************************************)
EXTENDS Integers, Sequences

CONSTANTS
    Value,      \* entries
    Junk,       \* what memory holds before it is written
    MaxSize     \* bound: entries in the list

ASSUME JunkAssumption == Junk \notin Value /\ MaxSize \in Nat

VARIABLES
    l,          \* the chunk of memory, by index; empty when there is none
    size, capacity,
    last        \* what the last call returned: an index, TRUE or FALSE

vars == <<l, size, capacity, last>>

NoChunk == [i \in {} |-> Junk]

(* A chunk of n entries that begins with the first of them from old.       *)
Chunk(n, old(_), copied) == [i \in 0..(n - 1) |-> IF i < copied THEN old(i) ELSE Junk]

(* arraylist_new.                                                          *)
Init == l = NoChunk /\ size = 0 /\ capacity = 0 /\ last = <<"new">>

(* Faulty variant: a new chunk without the old entries (vmalloc).          *)
arraylist_add_vmalloc(v) ==
    LET old(i) == l[i]
        grown == IF size + 1 <= capacity THEN capacity ELSE 2 * capacity
    IN  /\ size < MaxSize
        /\ size' = size + 1
        /\ capacity' = IF capacity = 0 THEN 1 ELSE grown
        /\ l' = [Chunk(capacity', old, IF capacity' = capacity THEN size ELSE 0) EXCEPT ![size] = v]
        /\ last' = <<"index", size>>

(* vmalloc for the first entry, vrealloc to twice the capacity when full.  *)
arraylist_add(v) ==
    LET old(i) == l[i]
        grown == IF size + 1 <= capacity THEN capacity ELSE 2 * capacity
    IN  /\ size < MaxSize
        /\ size' = size + 1
        /\ capacity' = IF capacity = 0 THEN 1 ELSE grown
        /\ l' = [Chunk(capacity', old, size) EXCEPT ![size] = v]
        /\ last' = <<"index", size>>

(* Faulty variant: a list that is exactly half full keeps its chunk.       *)
arraylist_remove_lazy(index) ==
    LET kept(i)  == IF i < index THEN l[i] ELSE l[i + 1]
        new_size == size - 1
        half     == capacity \div 2
    IN  /\ index < size
        /\ size' = new_size
        /\ capacity' = IF new_size + 1 >= half THEN capacity ELSE half
        /\ l' = Chunk(capacity', kept, new_size)
        /\ last' = <<"removed", TRUE>>

(* The entries behind index move up, in place or into a new chunk of half  *)
(* the capacity.                                                           *)
arraylist_remove(index) ==
    LET kept(i)  == IF i < index THEN l[i] ELSE l[i + 1]
        new_size == size - 1
        half     == capacity \div 2
    IN  \/ /\ index >= size
           /\ last' = <<"removed", FALSE>>
           /\ UNCHANGED <<l, size, capacity>>
        \/ /\ index < size
           /\ size' = new_size
           /\ capacity' = IF new_size >= half THEN capacity ELSE half
           /\ l' = Chunk(capacity', kept, new_size)
           /\ last' = <<"removed", TRUE>>

(* Its callers free a list that has a chunk.                               *)
arraylist_free ==
    /\ capacity # 0
    /\ l' = NoChunk /\ size' = 0 /\ capacity' = 0
    /\ last' = <<"new">>

Next ==
    \/ \E v \in Value : arraylist_add(v)
    \/ \E index \in 0..MaxSize : arraylist_remove(index)
    \/ arraylist_free

Spec == Init /\ [][Next]_vars

-----------------------------------------------------------------------------

TypeOK ==
    /\ size \in Nat /\ capacity \in Nat
    /\ l \in [0..(capacity - 1) -> Value \cup {Junk}]

(* Entries lie inside the chunk, and the chunk is at least half full:      *)
(* halving it when a removal leaves less than half is often enough.        *)
HalfFull == size <= capacity /\ capacity \div 2 <= size

Entries == [k \in 1..size |-> l[k - 1]]

Promise == INSTANCE List WITH seq <- Entries

(* Through every growth, shift and shrink the list is the sequence of what *)
(* was added and not removed, in order.                                    *)
ImplementsList == Promise!Spec
=============================================================================
