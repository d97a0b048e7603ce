----------------------------- MODULE NvmeDriver -----------------------------
(***************************************************************************)
(* The NVMe driver as kmain uses it: the search for the controller (module *)
(* Discovery), nvme_init (module NvmeInit), then calls of nvme_read and    *)
(* nvme_write (module Nvme).                                               *)
(***************************************************************************)
EXTENDS Nvme, Sequences

CONSTANTS Devices, Functions, Machine    \* see module Discovery

(* The numbers in the tables and the addresses of functions are unsigned,  *)
(* and the group that the first entry of the MCFG names is one.            *)
ASSUME MachineAssumption ==
    /\ Devices \in Nat \ {0} /\ Functions \in Nat \ {0}
    /\ \A m \in Machine :
          /\ \A g \in DOMAIN m.functions : DOMAIN m.functions[g] \subseteq Nat
          /\ m.entries # <<>> =>
                /\ m.entries[1].start_pci \in Nat /\ m.entries[1].end_pci \in Nat
                /\ m.entries[1].pci_group \in DOMAIN m.functions

VARIABLES
    machine, search, at, base, command_register,
    step, CC, CSTS, ASQ, admin_submit, admin_submit_doorbell, admin_complete,
    admin_completion_head, admin_queue, admin_head, created,
    past        \* history: whether the last QSize calls succeeded, latest first

Search == INSTANCE Discovery WITH command <- command_register
Boot == INSTANCE NvmeInit

searchVars == <<machine, search, at, base, command_register>>
bootVars == <<step, CC, CSTS, ASQ, admin_submit, admin_submit_doorbell, admin_complete,
              admin_completion_head, admin_queue, admin_head, created>>
allVars == <<vars, searchVars, bootVars, past>>

DriverInit == Init /\ Search!Init /\ Boot!Init /\ past = <<>>

SearchStep == Search!Next /\ UNCHANGED <<vars, bootVars, past>>

(* kmain calls nvme_init when nvme_find has found a controller.  What it   *)
(* does to memory at address 0 if there is none is not modelled.           *)
InitStep == search = "found" /\ Boot!Next /\ UNCHANGED <<vars, searchVars, past>>

(* kmain calls gpt_read, and so nvme_read, when nvme_init has returned.    *)
Io(A) == step = "done" /\ A /\ UNCHANGED <<searchVars, bootVars>>

(* A call returns: the history takes what became of its own command.       *)
Return ==
    /\ Io(Complete)
    /\ past' = SubSeq(<<outcome>> \o past, 1, IF Len(past) < QSize THEN Len(past) + 1 ELSE QSize)

Working == Io(Submit \/ Ring \/ Fetch \/ Perform \/ Post) /\ UNCHANGED past

DriverNext == SearchStep \/ InitStep \/ Working \/ Return

DriverSafeSpec == DriverInit /\ [][DriverNext]_allVars

(* Neither the kernel's thread nor the controller stops on its own;        *)
(* whether another call comes is open.                                     *)
DriverSpec ==
    /\ DriverSafeSpec
    /\ WF_allVars(SearchStep)
    /\ WF_allVars(InitStep /\ Boot!Driver)
    /\ WF_allVars(InitStep /\ Boot!FollowEnable)
    /\ WF_allVars(InitStep /\ Boot!Serve)
    /\ WF_allVars(Io(Ring) /\ UNCHANGED past) /\ WF_allVars(Return)
    /\ WF_allVars(Io(Fetch) /\ UNCHANGED past) /\ WF_allVars(Io(Perform) /\ UNCHANGED past)
    /\ WF_allVars(Io(Post) /\ UNCHANGED past)

-----------------------------------------------------------------------------

(* When the I/O doorbell is rung the controller is running on the kernel's *)
(* queues and has both I/O queues, whatever state the firmware left it in. *)
QueuesExistWhenUsed ==
    pc = "wait" =>
        /\ CSTS = 1 /\ admin_queue = "kernel"
        /\ created = {"completion", "submission"}

(* The status that nvme_read and nvme_write return is read after the head  *)
(* has moved on: it is that of the call QSize - 1 before, and success for  *)
(* the first ones.  So every failure is reported once, but by another      *)
(* call, and never by its own.                                             *)
FailureReportedLate ==
    pc = "idle" => ret = IF Len(past) = QSize THEN past[QSize] ELSE TRUE

(* The search and the spin loops end: kmain gets past nvme_init, or panics *)
(* over tables or a failure that the controller reported, or there is no   *)
(* controller.                                                             *)
InitEnds == <>(step \in {"done", "panic"} \/ search \in {"panic", "absent"})

FirstControllerTaken == Search!FirstControllerTaken
=============================================================================
