-------------------------------- MODULE Nvme --------------------------------
(***************************************************************************)
(* The I/O path of the NVMe driver, src/src/file/nvme.c: nvme_read and     *)
(* nvme_write as the steps of one kernel thread, and the controller, which *)
(* runs beside it.  They share the two queues in memory and the doorbells. *)
(* Entries keep what the driver and the controller act on: the request,    *)
(* and of a completion's dword 3 the phase bit and whether status code and *)
(* type are 0.  It starts where nvme_init (module NvmeInit) returns.       *)
(***************************************************************************)
EXTENDS Integers

CONSTANTS
    QSize,   \* entries of each queue (64 in nvme.c)
    Lba,     \* block addresses
    Data     \* contents of a block

ASSUME QSizeAssumption == QSize \in Nat \ {0, 1}

VARIABLES
    pc,                      \* the kernel: "idle", "submit" or "wait"
    io_submit, io_submission_tail, io_submit_doorbell,
    io_complete, io_completion_head, io_complete_doorbell,
    phase,                   \* the local variable of nvme_read and nvme_write
    req, buffer,             \* the arguments of the call, and its memory
    ret,                     \* the last return value
    sq_head, cq_tail,        \* the controller's positions in the queues
    cq_phase,                \* the phase bit it writes on this pass
    job,                     \* "none", "fetched", or "performed": its command
    command,                 \* the command it has fetched
    outcome,                 \* whether that command succeeded
    disk

host == <<pc, io_submit, io_submission_tail, io_submit_doorbell,
          io_completion_head, io_complete_doorbell, phase, req, ret>>
ctrl == <<sq_head, cq_tail, cq_phase, job, command, outcome>>
vars == <<host, ctrl, io_complete, buffer, disk>>

Slot    == 0..(QSize - 1)
Request == [op : {"read", "write"}, lba : Lba]
Zero    == [op |-> "none"]    \* an entry of a zeroed page
Inc(i)  == (i + 1) % QSize

(* The queues are pages of zeroes; the controller's first pass writes 1.   *)
Init ==
    /\ pc = "idle"
    /\ req \in Request /\ buffer \in Data /\ disk \in [Lba -> Data]
    /\ io_submit = [i \in Slot |-> Zero]
    /\ io_complete = [i \in Slot |-> [phase |-> 0, ok |-> TRUE]]
    /\ io_submission_tail = 0 /\ io_submit_doorbell = 0
    /\ io_completion_head = 0 /\ io_complete_doorbell = 0
    /\ phase = 0 /\ ret = TRUE
    /\ sq_head = 0 /\ cq_tail = 0 /\ cq_phase = 1
    /\ job = "none" /\ command = Zero /\ outcome = TRUE

-----------------------------------------------------------------------------

(* Faulty variant: the phase bit of the next entry is read.                *)
Submit_next ==
    /\ pc = "idle"
    /\ pc' = "submit"
    /\ req' \in Request
    /\ buffer' \in Data
    /\ io_submit' = [io_submit EXCEPT ![io_submission_tail] = req']
    /\ phase' = io_complete[Inc(io_completion_head)].phase
    /\ UNCHANGED <<io_submission_tail, io_submit_doorbell, io_complete,
                   io_completion_head, io_complete_doorbell, ret, ctrl, disk>>

(* nvme_read and nvme_write differ in the opcode only.  The entry at the   *)
(* tail is written and the phase bit of the entry at the head is read...   *)
Submit ==
    /\ pc = "idle"
    /\ pc' = "submit"
    /\ req' \in Request
    /\ buffer' \in Data
    /\ io_submit' = [io_submit EXCEPT ![io_submission_tail] = req']
    /\ phase' = io_complete[io_completion_head].phase
    /\ UNCHANGED <<io_submission_tail, io_submit_doorbell, io_complete,
                   io_completion_head, io_complete_doorbell, ret, ctrl, disk>>

(* ... then the tail moves on and the doorbell tells the controller.       *)
Ring ==
    /\ pc = "submit"
    /\ pc' = "wait"
    /\ io_submission_tail' = Inc(io_submission_tail)
    /\ io_submit_doorbell' = io_submission_tail'
    /\ UNCHANGED <<io_submit, io_complete, io_completion_head,
                   io_complete_doorbell, phase, req, ret, ctrl, buffer, disk>>

(* Faulty variant: it waits for phase bit 1, as nvme_init does on the      *)
(* first pass over the admin queue.                                        *)
Complete_first_pass ==
    /\ pc = "wait"
    /\ io_complete[io_completion_head].phase = 1
    /\ pc' = "idle"
    /\ io_completion_head' = Inc(io_completion_head)
    /\ io_complete_doorbell' = io_completion_head'
    /\ ret' = io_complete[io_completion_head'].ok
    /\ UNCHANGED <<io_submit, io_submission_tail, io_submit_doorbell,
                   io_complete, phase, req, ctrl, buffer, disk>>

(* Spin until the phase bit at the head changes, release the entry, and    *)
(* return the status found at the head (which has moved on by then).       *)
Complete ==
    /\ pc = "wait"
    /\ io_complete[io_completion_head].phase # phase
    /\ pc' = "idle"
    /\ io_completion_head' = Inc(io_completion_head)
    /\ io_complete_doorbell' = io_completion_head'
    /\ ret' = io_complete[io_completion_head'].ok
    /\ UNCHANGED <<io_submit, io_submission_tail, io_submit_doorbell,
                   io_complete, phase, req, ctrl, buffer, disk>>

-----------------------------------------------------------------------------

(* The controller, in the order the driver relies on: it fetches up to the *)
(* doorbell, performs or fails the command, and then posts a completion    *)
(* with the phase bit of its pass, if the completion queue has room.       *)
Fetch ==
    /\ job = "none"
    /\ sq_head # io_submit_doorbell
    /\ job' = "fetched"
    /\ command' = io_submit[sq_head]
    /\ sq_head' = Inc(sq_head)
    /\ UNCHANGED <<host, cq_tail, cq_phase, outcome, io_complete, buffer, disk>>

Perform ==
    /\ job = "fetched"
    /\ job' = "performed"
    /\ \/ /\ command.op = "read"
          /\ buffer' = disk[command.lba]
          /\ outcome' = TRUE
          /\ UNCHANGED disk
       \/ /\ command.op = "write"
          /\ disk' = [disk EXCEPT ![command.lba] = buffer]
          /\ outcome' = TRUE
          /\ UNCHANGED buffer
       \/ /\ outcome' = FALSE
          /\ UNCHANGED <<buffer, disk>>
    /\ UNCHANGED <<host, sq_head, cq_tail, cq_phase, command, io_complete>>

Post ==
    /\ job = "performed"
    /\ Inc(cq_tail) # io_complete_doorbell
    /\ job' = "none"
    /\ io_complete' = [io_complete EXCEPT ![cq_tail] = [phase |-> cq_phase, ok |-> outcome]]
    /\ cq_tail' = Inc(cq_tail)
    /\ cq_phase' = IF cq_tail' = 0 THEN 1 - cq_phase ELSE cq_phase
    /\ UNCHANGED <<host, sq_head, command, outcome, buffer, disk>>

Next == Submit \/ Ring \/ Complete \/ Fetch \/ Perform \/ Post

SafeSpec == Init /\ [][Next]_vars

(* The kernel runs its call to the end (interrupts return to it), and the  *)
(* controller does not stop; whether another call comes is open.           *)
Spec ==
    /\ SafeSpec
    /\ WF_vars(Ring) /\ WF_vars(Complete)
    /\ WF_vars(Fetch) /\ WF_vars(Perform) /\ WF_vars(Post)

-----------------------------------------------------------------------------

TypeOK ==
    /\ pc \in {"idle", "submit", "wait"}
    /\ io_submit \in [Slot -> Request \cup {Zero}]
    /\ io_complete \in [Slot -> [phase : {0, 1}, ok : BOOLEAN]]
    /\ {io_submission_tail, io_submit_doorbell, io_completion_head,
        io_complete_doorbell, sq_head, cq_tail} \subseteq Slot
    /\ {phase, cq_phase} \subseteq {0, 1}
    /\ req \in Request /\ command \in Request \cup {Zero}
    /\ buffer \in Data /\ disk \in [Lba -> Data]
    /\ {ret, outcome} \subseteq BOOLEAN
    /\ job \in {"none", "fetched", "performed"}

(* The head entry shows a new phase bit exactly when the completion of the *)
(* outstanding command is there: through every wrap-around of the queues   *)
(* the driver takes each completion once, never one of an earlier pass,    *)
(* and a command is outstanding only while the kernel waits.               *)
CompletionSeenOnce ==
    LET posted == cq_tail # io_completion_head
    IN  /\ job # "none" \/ posted \/ sq_head # io_submit_doorbell => pc = "wait"
        /\ pc = "wait" => (posted <=> io_complete[io_completion_head].phase # phase)
        /\ posted => job = "none" /\ sq_head = io_submit_doorbell

(* How far the call under way is, seen from outside.                       *)
Stage ==
    IF pc = "idle" THEN "idle"
    ELSE IF pc = "wait" /\ (job = "performed" \/ cq_tail # io_completion_head)
         THEN "performed" ELSE "called"

Abstract == INSTANCE BlockDevice WITH stage <- Stage

(* nvme_read and nvme_write implement the block device: the data of the    *)
(* caller's own request is transferred, once, before the call returns, and *)
(* every call returns.                                                     *)
ImplementsBlockDevice == Abstract!Spec

(* "status code is 0 and type is 0 means successful" (nvme.c:126): the     *)
(* result of a call is about that call's command.  The code does not keep  *)
(* this: it looks at the entry behind.                                     *)
ReturnsOwnStatus == pc = "idle" => ret = outcome
=============================================================================
