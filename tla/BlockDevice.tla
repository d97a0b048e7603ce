---------------------------- MODULE BlockDevice -----------------------------
(***************************************************************************)
(* What the file system expects of nvme_read and nvme_write: one call at a *)
(* time; between the call and the return the device performs the request   *)
(* once, or fails it and changes nothing.  Contents are those of a block;  *)
(* buffer is the caller's memory, which a read fills.                      *)
(***************************************************************************)
CONSTANTS Lba, Data

VARIABLES disk, buffer, req, stage

vars == <<disk, buffer, req, stage>>

Request == [op : {"read", "write"}, lba : Lba]

Init ==
    /\ disk \in [Lba -> Data]
    /\ buffer \in Data
    /\ req \in Request
    /\ stage = "idle"

Call ==
    /\ stage = "idle"
    /\ stage' = "called"
    /\ req' \in Request
    /\ buffer' \in Data
    /\ UNCHANGED disk

Transfer ==
    \/ req.op = "read" /\ buffer' = disk[req.lba] /\ UNCHANGED disk
    \/ req.op = "write" /\ disk' = [disk EXCEPT ![req.lba] = buffer] /\ UNCHANGED buffer

Perform ==
    /\ stage = "called"
    /\ stage' = "performed"
    /\ Transfer \/ UNCHANGED <<disk, buffer>>
    /\ UNCHANGED req

Return ==
    /\ stage = "performed"
    /\ stage' = "idle"
    /\ UNCHANGED <<disk, buffer, req>>

Next == Call \/ Perform \/ Return

SafeSpec == Init /\ [][Next]_vars

(* Every call is performed and returns.                                    *)
Spec == SafeSpec /\ WF_vars(Perform) /\ WF_vars(Return)
=============================================================================
