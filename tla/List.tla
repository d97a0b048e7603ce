-------------------------------- MODULE List --------------------------------
(***************************************************************************)
(* What an array list promises: a sequence that grows at its end and from  *)
(* which an element may be taken anywhere, the others keeping their order. *)
(***************************************************************************)
EXTENDS Naturals, Sequences

CONSTANT Value

VARIABLE seq

Init == seq = <<>>

Add == \E v \in Value : seq' = Append(seq, v)

Remove ==
    \E i \in 1..Len(seq) :
        seq' = [k \in 1..(Len(seq) - 1) |-> IF k < i THEN seq[k] ELSE seq[k + 1]]

Clear == seq' = <<>>

Next == Add \/ Remove \/ Clear

Spec == Init /\ [][Next]_seq
=============================================================================
