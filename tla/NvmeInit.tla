------------------------------ MODULE NvmeInit ------------------------------
(***************************************************************************)
(* nvme_init of src/src/file/nvme.c, which resets the controller and       *)
(* creates the I/O queues through the admin queue, and the controller's    *)
(* side of it.  The admin queue is a page of zeroes when the controller    *)
(* starts, and only its first two entries are used.                        *)
(***************************************************************************)
EXTENDS Naturals

VARIABLES
    step,                   \* where nvme_init is
    CC, CSTS,               \* the enable bit and the ready bit
    ASQ,                    \* whose admin queues the registers name
    admin_submit,           \* the opcodes in the admin queue
    admin_submit_doorbell,
    admin_complete,         \* per entry: "blank", "success" or "failure"
    admin_completion_head,
    admin_queue,            \* whose admin queues the controller works on
    admin_head,             \* its position in them
    created                 \* the I/O queues it knows

registers == <<CC, CSTS, ASQ>>
rings     == <<admin_submit, admin_submit_doorbell, admin_complete, admin_completion_head>>
ctrl      == <<admin_queue, admin_head, created>>
vars      == <<step, registers, rings, ctrl>>

Entry == 0..1
Nobody == "nobody"

(* The firmware may have left the controller running on its own queues.    *)
Init ==
    /\ step = "disable"
    /\ CC \in {0, 1} /\ CSTS = CC
    /\ ASQ \in {Nobody, "firmware"} /\ (CC = 1 => ASQ = "firmware")
    /\ admin_queue = ASQ /\ admin_head \in Entry
    /\ created \in SUBSET {"completion", "submission"}
    /\ admin_submit = [i \in Entry |-> "blank"]
    /\ admin_submit_doorbell = 0
    /\ admin_complete = [i \in Entry |-> "blank"]
    /\ admin_completion_head = 0

(* nvme->CC = 0.                                                           *)
Disable ==
    /\ step = "disable"
    /\ step' = "configure"
    /\ CC' = 0
    /\ UNCHANGED <<CSTS, ASQ, rings, ctrl>>

(* Faulty variant: it does not wait until the controller has stopped.      *)
Configure_at_once ==
    /\ step = "configure"
    /\ \/ /\ step' = "panic"
          /\ UNCHANGED registers
       \/ /\ step' = "create_completion"
          /\ ASQ' = "kernel"
          /\ CC' = 1
          /\ UNCHANGED CSTS
    /\ UNCHANGED <<rings, ctrl>>

(* Once it is down: panic if it lacks the NVM command set, otherwise set   *)
(* the queue addresses and enable it.                                      *)
Configure ==
    /\ step = "configure"
    /\ CSTS = 0
    /\ \/ /\ step' = "panic"
          /\ UNCHANGED registers
       \/ /\ step' = "create_completion"
          /\ ASQ' = "kernel"
          /\ CC' = 1
          /\ UNCHANGED CSTS
    /\ UNCHANGED <<rings, ctrl>>

(* Write a command at the tail and ring the doorbell.                      *)
SubmitAdmin(queue) ==
    /\ admin_submit' = [admin_submit EXCEPT ![admin_submit_doorbell] = queue]
    /\ admin_submit_doorbell' = admin_submit_doorbell + 1

CreateCompletion ==
    /\ step = "create_completion"
    /\ CSTS = 1
    /\ step' = "create_submission"
    /\ SubmitAdmin("completion")
    /\ UNCHANGED <<registers, admin_complete, admin_completion_head, ctrl>>

(* Wait for the entry's phase bit, check its status, submit the next.      *)
CreateSubmission ==
    /\ step = "create_submission"
    /\ \/ /\ admin_complete[admin_completion_head] = "failure"
          /\ step' = "panic"
          /\ UNCHANGED <<admin_submit, admin_submit_doorbell, admin_completion_head>>
       \/ /\ admin_complete[admin_completion_head] = "success"
          /\ step' = "finish"
          /\ admin_completion_head' = admin_completion_head + 1
          /\ SubmitAdmin("submission")
    /\ UNCHANGED <<registers, admin_complete, ctrl>>

(* Faulty variant: the status of the last command is not looked at.        *)
Finish_unchecked ==
    /\ step = "finish"
    /\ admin_complete[admin_completion_head] # "blank"
    /\ step' = "done"
    /\ admin_completion_head' = admin_completion_head + 1
    /\ UNCHANGED <<registers, admin_submit, admin_submit_doorbell, admin_complete, ctrl>>

Finish ==
    /\ step = "finish"
    /\ \/ /\ admin_complete[admin_completion_head] = "failure"
          /\ step' = "panic"
          /\ UNCHANGED admin_completion_head
       \/ /\ admin_complete[admin_completion_head] = "success"
          /\ step' = "done"
          /\ admin_completion_head' = admin_completion_head + 1
    /\ UNCHANGED <<registers, admin_submit, admin_submit_doorbell, admin_complete, ctrl>>

-----------------------------------------------------------------------------

(* The controller follows the enable bit; a reset deletes its I/O queues,  *)
(* and the admin queue addresses are taken over when it starts.            *)
FollowEnable ==
    /\ CSTS # CC
    /\ CSTS' = CC
    /\ admin_head' = 0
    /\ created' = {}
    /\ admin_queue' = IF CC = 1 THEN ASQ ELSE Nobody
    /\ UNCHANGED <<step, CC, ASQ, rings>>

(* It answers the commands in the kernel's queue; a submission queue needs *)
(* its completion queue.                                                   *)
Serve ==
    /\ CSTS = 1 /\ admin_queue = "kernel"
    /\ admin_head < admin_submit_doorbell
    /\ LET queue == admin_submit[admin_head]
       IN  \/ /\ queue = "submission" => "completion" \in created
              /\ created' = created \cup {queue}
              /\ admin_complete' = [admin_complete EXCEPT ![admin_head] = "success"]
           \/ /\ created' = created
              /\ admin_complete' = [admin_complete EXCEPT ![admin_head] = "failure"]
    /\ admin_head' = admin_head + 1
    /\ UNCHANGED <<step, registers, admin_submit, admin_submit_doorbell,
                   admin_completion_head, admin_queue>>

Driver == Disable \/ Configure \/ CreateCompletion \/ CreateSubmission \/ Finish
Controller == FollowEnable \/ Serve
Next == Driver \/ Controller
=============================================================================
