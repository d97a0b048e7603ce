--------------------------- MODULE FrameAllocator ---------------------------
(***************************************************************************)
(* What the physical memory manager promises its callers: a frame that is  *)
(* handed out belongs to nobody else until it is freed, and the frames set *)
(* aside at boot are never handed out.  Nothing is said of which frame is  *)
(* chosen, nor of when the allocator gives up.                             *)
(***************************************************************************)
EXTENDS Naturals

CONSTANT Frame

VARIABLES
    holders,   \* how many callers each frame has been handed to
    reserved   \* frames removed for good before the first allocation

Init ==
    /\ holders = [f \in Frame |-> 0]
    /\ reserved = {}

Reserve ==
    /\ \A f \in Frame : holders[f] = 0
    /\ \E R \in SUBSET Frame : reserved' = reserved \cup R
    /\ UNCHANGED holders

Alloc ==
    \E f \in Frame \ reserved :
        /\ holders[f] = 0
        /\ holders' = [holders EXCEPT ![f] = 1]
        /\ UNCHANGED reserved

Free ==
    \E f \in Frame :
        /\ holders[f] = 1
        /\ holders' = [holders EXCEPT ![f] = 0]
        /\ UNCHANGED reserved

Next == Reserve \/ Alloc \/ Free

Spec == Init /\ [][Next]_<<holders, reserved>>
=============================================================================
