----------------------------- MODULE NvmeProofs -----------------------------
(***************************************************************************)
(* Proofs about modules Nvme and NvmeDriver: the I/O path, for queues of   *)
(* any size of at least 2 (nvme.c uses 64), any set of blocks and any      *)
(* contents; and, on any machine, the search for the controller, nvme_init *)
(* and what nvme_read and nvme_write return.                               *)
(***************************************************************************)
EXTENDS NvmeDriver, SequenceTheorems, TLAPS

(* Moving on by one slot wraps around at the end and always moves.         *)
LEMMA IncSlot ==
    ASSUME NEW i \in Slot
    PROVE  /\ Inc(i) = IF i = QSize - 1 THEN 0 ELSE i + 1
           /\ Inc(i) \in Slot /\ Inc(i) # i
<1>1. CASE i = QSize - 1
  <2>1. QSize \in Nat /\ QSize > 1 /\ i + 1 = QSize
    BY <1>1, QSizeAssumption
  <2>2. QSize % QSize = 0
    BY <2>1
  <2> QED BY <1>1, <2>1, <2>2 DEF Inc, Slot
<1>2. CASE i # QSize - 1
  <2>1. i + 1 \in 0..(QSize - 1) /\ QSize \in Nat /\ QSize > 1
    BY <1>2, QSizeAssumption DEF Slot
  <2>2. (i + 1) % QSize = i + 1
    BY <2>1
  <2> QED BY <1>2, <2>1, <2>2 DEF Inc, Slot
<1> QED BY <1>1, <1>2, Zenon

(* The outstanding command is on its way: in the submission queue, with    *)
(* the controller, or answered.                                            *)
Queued ==
    /\ job = "none" /\ sq_head = io_completion_head /\ cq_tail = io_completion_head
    /\ io_submit[io_completion_head] = req
InDevice ==
    /\ job \in {"fetched", "performed"} /\ command = req
    /\ sq_head = io_submission_tail /\ cq_tail = io_completion_head
Answered ==
    job = "none" /\ sq_head = io_submission_tail /\ cq_tail = io_submission_tail

(* The two queues move in lock step, one command at a time.                *)
LockStep ==
    /\ io_submit_doorbell = io_submission_tail
    /\ io_complete_doorbell = io_completion_head
    /\ pc # "wait" => /\ io_submission_tail = io_completion_head
                      /\ job = "none" /\ sq_head = io_completion_head
                      /\ cq_tail = io_completion_head
    /\ pc = "submit" => io_submit[io_completion_head] = req
    /\ pc = "wait" => /\ io_submission_tail = Inc(io_completion_head)
                      /\ Queued \/ InDevice \/ Answered

(* Entries before the controller's position carry the bit of this pass,    *)
(* the others that of the pass before, and the kernel remembers the bit    *)
(* that the head entry had before it was answered.                         *)
Phases ==
    /\ \A i \in Slot : io_complete[i].phase = IF i < cq_tail THEN cq_phase ELSE 1 - cq_phase
    /\ pc # "idle" =>
          (phase = io_complete[io_completion_head].phase <=> cq_tail = io_completion_head)

IInv == TypeOK /\ LockStep /\ Phases

(* nvme_init leaves the queues in step.                                    *)
LEMMA InitIInv == Init => IInv
<1> SUFFICES ASSUME Init PROVE IInv
  BY Zenon
<1>1. QSize \in Nat /\ QSize > 1 /\ 0 \in Slot
  BY QSizeAssumption DEF Slot
<1>2. TypeOK
  BY <1>1, Zenon DEF Init, TypeOK
<1>3. LockStep
  BY Zenon DEF Init, LockStep
<1>4. Phases
  BY <1>1 DEF Init, Phases, Slot
<1> QED BY <1>2, <1>3, <1>4, Zenon DEF IInv

LEMMA SubmitIInv == IInv /\ Submit => IInv'
<1> SUFFICES ASSUME IInv, Submit PROVE IInv'
  BY Zenon
<1> USE DEF Submit, ctrl
<1>1. TypeOK'
  BY Zenon DEF IInv, TypeOK
<1>2. LockStep'
  BY Zenon DEF IInv, TypeOK, LockStep
<1>3. Phases'
  BY Zenon DEF IInv, LockStep, Phases
<1> QED BY <1>1, <1>2, <1>3, Zenon DEF IInv

LEMMA RingIInv == IInv /\ Ring => IInv'
<1> SUFFICES ASSUME IInv, Ring PROVE IInv'
  BY Zenon
<1> USE DEF Ring, ctrl
<1>1. io_submission_tail \in Slot /\ Inc(io_submission_tail) \in Slot
  BY IncSlot, Zenon DEF IInv, TypeOK
<1>2. TypeOK'
  BY <1>1 DEF IInv, TypeOK
<1>3. LockStep'
  BY Zenon DEF IInv, LockStep, Queued, Inc
<1>4. Phases'
  BY Zenon DEF IInv, Phases
<1> QED BY <1>2, <1>3, <1>4, Zenon DEF IInv

LEMMA CompleteIInv == IInv /\ Complete => IInv'
<1> SUFFICES ASSUME IInv, Complete PROVE IInv'
  BY Zenon
<1> USE DEF Complete, ctrl
<1>1. io_completion_head \in Slot /\ Inc(io_completion_head) \in Slot
  BY IncSlot, Zenon DEF IInv, TypeOK
<1>2. TypeOK'
  BY <1>1 DEF IInv, TypeOK
<1>3. LockStep'
  <2>1. Answered
    BY Zenon DEF IInv, LockStep, Phases, Queued, InDevice
  <2> QED BY <2>1, Zenon DEF IInv, LockStep, Answered, Inc
<1>4. Phases'
  BY Zenon DEF IInv, Phases
<1> QED BY <1>2, <1>3, <1>4, Zenon DEF IInv

LEMMA FetchIInv == IInv /\ Fetch => IInv'
<1> SUFFICES ASSUME IInv, Fetch PROVE IInv'
  BY Zenon
<1> USE DEF Fetch, host
<1>1. sq_head \in Slot /\ Inc(sq_head) \in Slot
  BY IncSlot, Zenon DEF IInv, TypeOK
<1>2. pc = "wait" /\ Queued
  BY Zenon DEF IInv, LockStep, InDevice, Answered
<1>3. TypeOK'
  BY <1>1, <1>2 DEF IInv, TypeOK, Queued
<1>4. LockStep'
  BY <1>2, Zenon DEF IInv, LockStep, Queued, InDevice, Inc
<1>5. Phases'
  BY Zenon DEF IInv, Phases
<1> QED BY <1>3, <1>4, <1>5, Zenon DEF IInv

LEMMA PerformIInv == IInv /\ Perform => IInv'
<1> SUFFICES ASSUME IInv, Perform PROVE IInv'
  BY Zenon
<1> USE DEF Perform, host
<1>1. TypeOK'
  <2>1. command = req /\ req \in Request
    BY Zenon DEF IInv, TypeOK, LockStep, InDevice, Queued, Answered
  <2>2. command.lba \in Lba
    BY <2>1, Zenon DEF Request
  <2>3. buffer \in Data /\ disk \in [Lba -> Data]
    BY Zenon DEF IInv, TypeOK
  <2>4. disk[command.lba] \in Data
    BY <2>2, <2>3, Zenon
  <2>5. buffer' \in Data /\ disk' \in [Lba -> Data] /\ outcome' \in BOOLEAN
    BY <2>2, <2>3, <2>4, Zenon
  <2> QED BY <2>5, Zenon DEF IInv, TypeOK
<1>2. LockStep'
  BY Zenon DEF IInv, LockStep, Queued, InDevice, Answered
<1>3. Phases'
  BY Zenon DEF IInv, Phases
<1> QED BY <1>1, <1>2, <1>3, Zenon DEF IInv

LEMMA PostIInv == IInv /\ Post => IInv'
<1> SUFFICES ASSUME IInv, Post PROVE IInv'
  BY Zenon
<1> USE DEF Post, host
<1>1. /\ cq_tail \in Slot /\ Inc(cq_tail) \in Slot /\ Inc(cq_tail) # cq_tail
      /\ Inc(cq_tail) = IF cq_tail = QSize - 1 THEN 0 ELSE cq_tail + 1
  BY IncSlot, Zenon DEF IInv, TypeOK
<1>2. /\ pc = "wait" /\ InDevice
      /\ io_complete \in [Slot -> [phase : {0, 1}, ok : BOOLEAN]]
      /\ cq_phase \in {0, 1} /\ outcome \in BOOLEAN
  BY Zenon DEF IInv, LockStep, Queued, Answered, TypeOK
<1>3. 1 - cq_phase \in {0, 1} /\ cq_phase' \in {0, 1}
  BY <1>2
<1>4. io_complete' \in [Slot -> [phase : {0, 1}, ok : BOOLEAN]]
  BY <1>2, Zenon
<1>5. TypeOK'
  BY <1>1, <1>3, <1>4 DEF IInv, TypeOK
<1>6. LockStep'
  BY <1>2, Zenon DEF IInv, LockStep, InDevice, Answered, Inc
<1>7. \A i \in Slot :
          io_complete'[i].phase = IF i = cq_tail THEN cq_phase ELSE io_complete[i].phase
  BY <1>1, <1>2, Zenon
<1>8. Phases'
  <2>1. ASSUME NEW i \in Slot
        PROVE  io_complete'[i].phase = IF i < cq_tail' THEN cq_phase' ELSE 1 - cq_phase'
    <3>1. io_complete[i].phase = IF i < cq_tail THEN cq_phase ELSE 1 - cq_phase
      BY Zenon DEF IInv, Phases
    <3> QED BY <1>1, <1>2, <1>7, <3>1, QSizeAssumption DEF Slot
  <2>2. phase = 1 - cq_phase
    BY <1>1, <1>2 DEF IInv, Phases, InDevice, Slot
  <2>3. io_complete'[io_completion_head].phase = cq_phase /\ cq_tail' # io_completion_head
    BY <1>1, <1>2, <1>7, Zenon DEF InDevice
  <2>4. phase # cq_phase
    BY <1>2, <2>2
  <2> QED BY <2>1, <2>3, <2>4, Zenon DEF Phases
<1> QED BY <1>5, <1>6, <1>8, Zenon DEF IInv

LEMMA StepIInv == IInv /\ [Next]_vars => IInv'
<1>1. IInv /\ UNCHANGED vars => IInv'
  BY Zenon DEF vars, host, ctrl, IInv, TypeOK, LockStep, Phases, Queued, InDevice, Answered
<1> QED
  BY <1>1, SubmitIInv, RingIInv, CompleteIInv, FetchIInv, PerformIInv, PostIInv, Zenon DEF Next

(* The invariant holds in every reachable state.                           *)
LEMMA Invariance == SafeSpec => []IInv
BY StepIInv, InitIInv, PTL DEF SafeSpec

(* The driver's and the controller's state always has its type: no index   *)
(* leaves the queues.                                                      *)
THEOREM TypeCorrect == SafeSpec => []TypeOK
BY Invariance, PTL DEF IInv

(* Whatever the size of the queues, the phase bit tells the kernel of each *)
(* completion exactly once, through every wrap-around.                     *)
THEOREM CompletionAlwaysSeenOnce == SafeSpec => []CompletionSeenOnce
<1>1. IInv => CompletionSeenOnce
  <2> SUFFICES ASSUME IInv PROVE CompletionSeenOnce
    BY Zenon
  <2>1. io_completion_head \in Slot /\ Inc(io_completion_head) # io_completion_head
    BY IncSlot, Zenon DEF IInv, TypeOK
  <2> QED BY <2>1, Zenon DEF IInv, LockStep, Phases, Queued, InDevice, Answered, CompletionSeenOnce
<1> QED BY <1>1, Invariance, PTL

(* nvme_read and nvme_write transfer the data of the caller's own request, *)
(* once, before they return: the safety part of ImplementsBlockDevice.     *)
THEOREM ImplementsBlockDeviceSafely == SafeSpec => Abstract!SafeSpec
<1>1. Init => Abstract!Init
  BY Zenon DEF Init, Abstract!Init, Abstract!Request, Request, Stage
<1>2. IInv /\ [Next]_vars => [Abstract!Next]_(Abstract!vars)
  <2> SUFFICES ASSUME IInv, [Next]_vars PROVE [Abstract!Next]_(Abstract!vars)
    BY Zenon
  <2>head. io_completion_head \in Slot /\ Inc(io_completion_head) # io_completion_head
    BY IncSlot, Zenon DEF IInv, TypeOK
  <2>1. CASE Submit
    BY <2>1, Zenon DEF Submit, Stage, Abstract!Next, Abstract!Call, Abstract!Request, Request
  <2>2. CASE Ring
    <3>1. Stage = "called" /\ Stage' = "called"
      BY <2>2, Zenon DEF Ring, ctrl, Stage, IInv, LockStep
    <3> QED BY <2>2, <3>1, Zenon DEF Ring, Abstract!vars
  <2>3. CASE Complete
    <3>1. Stage = "performed" /\ Stage' = "idle"
      BY <2>3, Zenon DEF Complete, Stage, IInv, Phases
    <3> QED BY <2>3, <3>1, Zenon DEF Complete, Abstract!Next, Abstract!Return
  <2>4. CASE Fetch
    <3>1. Stage' = Stage
      BY <2>4, Zenon DEF Fetch, host, Stage
    <3> QED BY <2>4, <3>1, Zenon DEF Fetch, host, Abstract!vars
  <2>5. CASE Perform
    <3>1. command = req /\ Stage = "called" /\ Stage' = "performed"
      BY <2>5, Zenon DEF Perform, host, Stage, IInv, LockStep, Queued, InDevice, Answered
    <3> QED BY <2>5, <3>1, Zenon
            DEF Perform, host, Abstract!Next, Abstract!Perform, Abstract!Transfer
  <2>6. CASE Post
    <3>1. pc = "wait" /\ cq_tail = io_completion_head /\ cq_tail' = Inc(cq_tail)
      BY <2>6, Zenon DEF Post, IInv, LockStep, Queued, InDevice, Answered
    <3>2. Stage = "performed" /\ Stage' = "performed"
      BY <2>6, <2>head, <3>1, Zenon DEF Post, host, Stage
    <3> QED BY <2>6, <3>2, Zenon DEF Post, host, Abstract!vars
  <2>7. CASE UNCHANGED vars
    BY <2>7, Zenon DEF vars, host, ctrl, Stage, Abstract!vars
  <2> QED BY <2>1, <2>2, <2>3, <2>4, <2>5, <2>6, <2>7, Zenon DEF Next
<1> QED BY <1>1, <1>2, Invariance, PTL DEF SafeSpec, Abstract!SafeSpec

-----------------------------------------------------------------------------

(* The admin queue, as far as nvme_init has got at each of its steps: what *)
(* has been submitted, how far the controller has answered, and which I/O  *)
(* queues there are if it has not reported a failure.                      *)
Blank(i) == admin_complete[i] = "blank"
Enabled == CC = 1 /\ CSTS = 1 /\ admin_queue = "kernel"

Booting ==
    /\ step # "done" => pc = "idle"
    /\ step \in {"disable", "configure", "create_completion", "create_submission", "finish",
                 "done", "panic"}
    /\ CC \in {0, 1} /\ CSTS \in {0, 1}
    /\ admin_submit_doorbell \in 0..2 /\ admin_completion_head \in 0..2 /\ admin_head \in 0..2
    /\ admin_submit \in [0..1 -> {"blank", "completion", "submission"}]
    /\ admin_complete \in [0..1 -> {"blank", "success", "failure"}]
    /\ step \in {"disable", "configure"} =>
          /\ ASQ # "kernel" /\ admin_queue # "kernel"
          /\ admin_submit_doorbell = 0 /\ admin_completion_head = 0 /\ Blank(0) /\ Blank(1)
    /\ step = "configure" => CC = 0
    /\ step = "create_completion" =>
          /\ CC = 1 /\ ASQ = "kernel"
          /\ admin_submit_doorbell = 0 /\ admin_completion_head = 0 /\ Blank(0) /\ Blank(1)
          /\ CSTS = 1 => admin_queue = "kernel" /\ admin_head = 0 /\ created = {}
    /\ step = "create_submission" =>
          /\ Enabled /\ admin_submit_doorbell = 1 /\ admin_completion_head = 0
          /\ admin_submit[0] = "completion" /\ Blank(1)
          /\ \/ admin_head = 0 /\ created = {} /\ Blank(0)
             \/ /\ admin_head = 1
                /\ admin_complete[0] = "success" => created = {"completion"}
    /\ step = "finish" =>
          /\ Enabled /\ admin_submit_doorbell = 2 /\ admin_completion_head = 1
          /\ admin_submit[1] = "submission"
          /\ \/ admin_head = 1 /\ created = {"completion"} /\ Blank(1)
             \/ /\ admin_head = 2
                /\ admin_complete[1] = "success" => created = {"completion", "submission"}
    /\ step = "done" =>
          /\ Enabled /\ admin_submit_doorbell = 2 /\ admin_head = 2
          /\ created = {"completion", "submission"}

(* The slot i places behind slot h.                                        *)
Back(h, i) == IF h >= i THEN h - i ELSE h - i + QSize

(* What became of the i-th last call; the entries of the first pass are    *)
(* zeroes, which read as success.                                          *)
Past(i) == IF i <= Len(past) THEN past[i] ELSE TRUE

(* The completion queue holds the outcomes of the last QSize calls, and,   *)
(* once the command under way is answered, its outcome instead of the      *)
(* oldest one.                                                             *)
History ==
    /\ past \in Seq(BOOLEAN) /\ Len(past) <= QSize
    /\ \A i \in 1..(QSize - 1) : io_complete[Back(io_completion_head, i)].ok = Past(i)
    /\ io_complete[io_completion_head].ok =
          IF cq_tail = io_completion_head THEN Past(QSize) ELSE outcome
    /\ pc = "idle" => ret = Past(QSize)

(* The scan has every controller still in front of it, and has touched no  *)
(* command register before it found one.                                   *)
Initially ==
    [g \in DOMAIN machine.functions |->
        [a \in DOMAIN machine.functions[g] |-> machine.functions[g][a].command]]

Places == Nat \X (0..(Devices - 1)) \X (0..(Functions - 1))
Address(p) == Search!pci_get_addr(p[1], p[2], p[3])

Scanning ==
    /\ machine \in Machine
    /\ search \in {"acpi", "scan", "found", "absent", "panic"}
    /\ search \in {"acpi", "scan", "absent", "panic"} => command_register = Initially
    /\ search = "scan" =>
          /\ machine.entries # <<>>
          /\ at \in Places
          /\ at[1] >= machine.entries[1].start_pci
          /\ \A a \in Search!Candidates : a >= Address(at)
    /\ FirstControllerTaken

-----------------------------------------------------------------------------

(* A step of the driver is one of the I/O path, or leaves it alone.        *)
LEMMA DriverStep == DriverNext => [Next]_vars
BY Zenon DEF DriverNext, SearchStep, InitStep, Working, Return, Io, Next

(* What holds of the I/O path alone holds of it inside the driver.         *)
THEOREM IoPath == DriverSafeSpec => SafeSpec
<1>1. DriverInit => Init
  BY Zenon DEF DriverInit
<1>2. [DriverNext]_allVars => [Next]_vars
  BY DriverStep, Zenon DEF allVars
<1> QED BY <1>1, <1>2, PTL DEF DriverSafeSpec, SafeSpec

LEMMA InitBooting == DriverInit => Booting
BY SMTT(30) DEF DriverInit, Init, Boot!Init, Boot!Entry, Boot!Nobody, Booting, Blank

(* nvme_init, one step after the other, beside the controller.             *)
LEMMA BootStep ==
    ASSUME Booting, Boot!Next, UNCHANGED pc
    PROVE  Booting'
<1> USE DEF Booting, Blank, Enabled, Boot!registers, Boot!rings, Boot!ctrl
<1>1. CASE Boot!Disable
  BY <1>1, Zenon DEF Boot!Disable
<1>2. CASE Boot!Configure
  BY <1>2 DEF Boot!Configure
<1>3. CASE Boot!CreateCompletion
  BY <1>3 DEF Boot!CreateCompletion, Boot!SubmitAdmin
<1>4. CASE Boot!CreateSubmission
  BY <1>4 DEF Boot!CreateSubmission, Boot!SubmitAdmin
<1>5. CASE Boot!Finish
  BY <1>5 DEF Boot!Finish
<1>6. CASE Boot!FollowEnable
  BY <1>6 DEF Boot!FollowEnable, Boot!Nobody
<1>7. CASE Boot!Serve
  BY <1>7 DEF Boot!Serve
<1> QED BY <1>1, <1>2, <1>3, <1>4, <1>5, <1>6, <1>7, Zenon DEF Boot!Next, Boot!Driver, Boot!Controller

LEMMA StepBooting ==
    ASSUME Booting, [DriverNext]_allVars
    PROVE  Booting'
<1>1. CASE InitStep
  BY <1>1, BootStep, Zenon DEF InitStep, vars, host
<1>2. CASE SearchStep \/ UNCHANGED allVars
  BY <1>2 DEF SearchStep, allVars, vars, host, bootVars, Booting, Blank, Enabled
<1>3. CASE Working \/ Return
  BY <1>3 DEF Working, Return, Io, bootVars, Booting, Blank, Enabled
<1> QED BY <1>1, <1>2, <1>3, Zenon DEF DriverNext

(* The doorbell of the I/O queue is rung only after nvme_init, and what    *)
(* the controller answered then means that both queues exist.              *)
THEOREM QueuesExist == DriverSafeSpec => []QueuesExistWhenUsed
<1>1. Booting => QueuesExistWhenUsed
  BY Zenon DEF Booting, Enabled, QueuesExistWhenUsed
<1>2. Booting /\ [DriverNext]_allVars => Booting'
  BY StepBooting, Zenon
<1> QED BY <1>1, <1>2, InitBooting, PTL DEF DriverSafeSpec

-----------------------------------------------------------------------------

(* Places behind a slot, and behind the next one.                          *)
LEMMA BackSlot ==
    ASSUME NEW h \in Slot
    PROVE  /\ Back(h, QSize) = h /\ Back(Inc(h), 1) = h
           /\ \A i \in 1..(QSize - 1) : /\ Back(h, i) \in Slot /\ Back(h, i) # h
                                        /\ Back(Inc(h), i + 1) = Back(h, i)
<1>1. h \in Nat /\ h < QSize /\ QSize \in Nat /\ QSize > 1
  BY QSizeAssumption DEF Slot
<1>2. Inc(h) = IF h = QSize - 1 THEN 0 ELSE h + 1
  BY IncSlot, Zenon
<1> QED BY <1>1, <1>2 DEF Back, Slot

(* The history after a call: its outcome, and the others one place older.  *)
LEMMA PastMovesOn ==
    ASSUME past \in Seq(BOOLEAN), Len(past) <= QSize, outcome \in BOOLEAN,
           past' = SubSeq(<<outcome>> \o past, 1,
                          IF Len(past) < QSize THEN Len(past) + 1 ELSE QSize)
    PROVE  /\ past' \in Seq(BOOLEAN) /\ Len(past') <= QSize
           /\ Past(1)' = outcome
           /\ \A i \in 1..(QSize - 1) : Past(i + 1)' = Past(i)
<1> DEFINE q == <<outcome>> \o past
           n == IF Len(past) < QSize THEN Len(past) + 1 ELSE QSize
<1>1. QSize \in Nat /\ QSize > 1 /\ Len(past) \in Nat
  BY QSizeAssumption
<1>2. <<outcome>> \in Seq(BOOLEAN) /\ Len(<<outcome>>) = 1 /\ <<outcome>>[1] = outcome
  OBVIOUS
<1>3. /\ q \in Seq(BOOLEAN) /\ Len(q) = 1 + Len(past)
      /\ \A i \in 1..(1 + Len(past)) : q[i] = IF i <= 1 THEN <<outcome>>[i] ELSE past[i - 1]
  BY <1>2, ConcatProperties
<1>4. n \in 1..QSize /\ n <= Len(past) + 1 /\ (n < QSize => n = Len(past) + 1)
  BY <1>1
<1> HIDE DEF q, n
<1>5. n \in Int /\ n >= 1 /\ \A i \in 1..n : q[i] \in BOOLEAN
  BY <1>1, <1>3, <1>4
<1>6. /\ SubSeq(q, 1, n) \in Seq(BOOLEAN)
      /\ Len(SubSeq(q, 1, n)) = IF 1 <= n THEN n - 1 + 1 ELSE 0
      /\ \A i \in 1..(n - 1 + 1) : SubSeq(q, 1, n)[i] = q[1 + i - 1]
  BY <1>5, SubSeqProperties
<1>7. past' = SubSeq(q, 1, n)
  BY Zenon DEF q, n
<1>8. /\ past' \in Seq(BOOLEAN) /\ Len(past') = n
      /\ \A i \in 1..n : past'[i] = q[i]
  <2>1. 1 <= n /\ n - 1 + 1 = n /\ \A i \in 1..n : i \in 1..(n - 1 + 1) /\ 1 + i - 1 = i
    BY <1>5
  <2> QED BY <1>6, <1>7, <2>1, Zenon
<1>9. Past(1)' = outcome
  <2>1. 1 \in 1..n /\ 1 <= n /\ 1 \in 1..(1 + Len(past)) /\ 1 <= 1
    BY <1>1, <1>4
  <2> QED BY <1>2, <1>3, <1>8, <2>1, Zenon DEF Past
<1>10. ASSUME NEW i \in 1..(QSize - 1) PROVE Past(i + 1)' = Past(i)
  <2>1. CASE i <= Len(past)
    <3>1. /\ i + 1 \in 1..n /\ i + 1 \in 1..(1 + Len(past)) /\ i + 1 <= n
          /\ ~(i + 1 <= 1) /\ i + 1 - 1 = i
      BY <1>1, <1>4, <2>1
    <3>2. past'[i + 1] = past[i]
      <4>1. past'[i + 1] = q[i + 1]
        BY <1>8, <3>1, Zenon
      <4> DEFINE j == i + 1
      <4>2. j \in 1..(1 + Len(past)) /\ ~(j <= 1) /\ past[j - 1] = past[i]
        BY <3>1
      <4> HIDE DEF j
      <4>3. q[j] = IF j <= 1 THEN <<outcome>>[j] ELSE past[j - 1]
        BY <1>3, <4>2, Zenon
      <4> QED BY <4>1, <4>2, <4>3, Zenon DEF j
    <3> QED BY <1>8, <2>1, <3>1, <3>2, Zenon DEF Past
  <2>2. CASE ~(i <= Len(past))
    <3>1. ~(i + 1 <= n)
      BY <1>1, <1>4, <2>2
    <3> QED BY <1>8, <2>2, <3>1, Zenon DEF Past
  <2> QED BY <2>1, <2>2, Zenon
<1> QED BY <1>4, <1>8, <1>9, <1>10

LEMMA InitHistory == DriverInit => History
<1> SUFFICES ASSUME DriverInit PROVE History
  BY Zenon
<1>1. past \in Seq(BOOLEAN) /\ Len(past) = 0 /\ QSize \in Nat /\ QSize > 1
  BY QSizeAssumption DEF DriverInit
<1>2. \A i \in 1..QSize : Past(i) = TRUE
  BY <1>1 DEF Past
<1>3. 0 \in Slot /\ \A i \in Slot : io_complete[i].ok = TRUE
  BY <1>1 DEF DriverInit, Init, Slot
<1>4. io_completion_head = 0 /\ cq_tail = 0 /\ ret = TRUE /\ QSize \in 1..QSize
  BY <1>1 DEF DriverInit, Init
<1>5. \A i \in 1..(QSize - 1) : Back(0, i) \in Slot /\ i \in 1..QSize
  BY <1>1, <1>3, BackSlot
<1>6. Len(past) <= QSize
  BY <1>1
<1> QED BY <1>1, <1>2, <1>3, <1>4, <1>5, <1>6, Zenon DEF History

(* A call returns what the entry behind its own one says: the outcome of   *)
(* the oldest call that the queue remembers.                               *)
LEMMA ReturnHistory ==
    ASSUME IInv, History, Return
    PROVE  History'
<1> DEFINE h == io_completion_head
<1>0. QSize \in Nat /\ QSize > 1
  BY QSizeAssumption, SMTT(30)
<1>1. /\ h \in Slot /\ cq_tail = Inc(h) /\ Inc(h) # h /\ Inc(h) \in Slot
      /\ outcome \in BOOLEAN
  BY IncSlot, Zenon
  DEF Return, Io, Complete, IInv, TypeOK, LockStep, Phases, Queued, InDevice, Answered
<1>2. /\ h' = Inc(h) /\ pc' = "idle" /\ ret' = io_complete[Inc(h)].ok
      /\ UNCHANGED <<io_complete, cq_tail, outcome>>
  BY Zenon DEF Return, Io, Complete, ctrl
<1>3. /\ past' \in Seq(BOOLEAN) /\ Len(past') <= QSize
      /\ Past(1)' = outcome
      /\ \A i \in 1..(QSize - 1) : Past(i + 1)' = Past(i)
  BY <1>1, PastMovesOn, Zenon DEF Return, History
<1>4. io_complete[h].ok = outcome
  BY <1>1, Zenon DEF History
<1>5. ASSUME NEW i \in 1..QSize PROVE io_complete[Back(Inc(h), i)].ok = Past(i)'
  <2>1. CASE i = 1
    BY <1>1, <1>3, <1>4, <2>1, BackSlot, Zenon
  <2>2. CASE i > 1
    <3>1. i - 1 \in 1..(QSize - 1) /\ i - 1 + 1 = i
      BY <1>0, <2>2
    <3>2. Back(Inc(h), i) = Back(h, i - 1) /\ Past(i)' = Past(i - 1)
      BY <1>1, <1>3, <3>1, BackSlot
    <3> QED BY <3>1, <3>2, Zenon DEF History
  <2> QED BY <2>1, <2>2
<1>6. Back(Inc(h), QSize) = Inc(h) /\ QSize \in 1..QSize /\ 1..(QSize - 1) \subseteq 1..QSize
  BY <1>0, <1>1, BackSlot
<1>7. io_complete[Inc(h)].ok = Past(QSize)'
  BY <1>5, <1>6, Zenon
<1> QED BY <1>1, <1>2, <1>3, <1>5, <1>6, <1>7, Zenon DEF History

LEMMA StepHistory ==
    ASSUME IInv, History, [DriverNext]_allVars
    PROVE  History'
<1> USE SMTT(30)
<1> DEFINE h == io_completion_head
<1>1. CASE Return
  BY <1>1, ReturnHistory, Zenon
<1>2. CASE /\ UNCHANGED <<past, io_completion_head, io_complete, cq_tail, ret>>
           /\ pc' = "idle" => pc = "idle"
           /\ cq_tail = h \/ UNCHANGED outcome
  BY <1>2, Zenon DEF History, Past
<1>3. CASE Io(Post) /\ UNCHANGED past
  <2>1. /\ h \in Slot /\ cq_tail = h /\ Inc(h) # h /\ pc = "wait"
        /\ io_complete \in [Slot -> [phase : {0, 1}, ok : BOOLEAN]]
    BY <1>3, IncSlot, Zenon DEF Io, Post, IInv, TypeOK, LockStep, Queued, InDevice, Answered
  <2>2. /\ io_complete' = [io_complete EXCEPT ![h] = [phase |-> cq_phase, ok |-> outcome]]
        /\ cq_tail' = Inc(h)
        /\ UNCHANGED <<past, io_completion_head, outcome, pc>>
    BY <1>3, <2>1, Zenon DEF Io, Post, host
  <2>3. \A i \in 1..(QSize - 1) : io_complete'[Back(h, i)].ok = io_complete[Back(h, i)].ok
    BY <2>1, <2>2, BackSlot, Zenon
  <2>4. io_complete'[h].ok = outcome
    BY <2>1, <2>2, Zenon
  <2> QED BY <2>1, <2>2, <2>3, <2>4, Zenon DEF History, Past
<1>4. CASE Io(Submit \/ Ring \/ Fetch \/ Perform) /\ UNCHANGED past
  <2>1. CASE Submit
    BY <1>2, <1>4, <2>1, Zenon DEF Io, Submit, ctrl
  <2>2. CASE Ring
    BY <1>2, <1>4, <2>2, Zenon DEF Io, Ring, ctrl
  <2>3. CASE Fetch
    BY <1>2, <1>4, <2>3, Zenon DEF Io, Fetch, host
  <2>4. CASE Perform
    BY <1>2, <1>4, <2>4, Zenon DEF Io, Perform, host, IInv, LockStep, Queued, InDevice, Answered
  <2> QED BY <1>4, <2>1, <2>2, <2>3, <2>4, Zenon DEF Io
<1>5. CASE SearchStep \/ InitStep \/ UNCHANGED allVars
  BY <1>2, <1>5, Zenon DEF SearchStep, InitStep, allVars, vars, host, ctrl
<1> QED BY <1>1, <1>3, <1>4, <1>5, Zenon DEF DriverNext, Working, Io

(* Whatever the size of the queues and however they wrap around, the       *)
(* status that a call returns is that of the call QSize - 1 before it, and *)
(* success for the first ones: a failure is reported late, and once.       *)
THEOREM ReportedLate == DriverSafeSpec => []FailureReportedLate
<1>1. History => FailureReportedLate
  <2> SUFFICES ASSUME History PROVE FailureReportedLate
    BY Zenon
  <2>1. QSize \in Nat /\ Len(past) \in Nat /\ Len(past) <= QSize
    BY QSizeAssumption DEF History
  <2>2. QSize <= Len(past) <=> Len(past) = QSize
    BY <2>1
  <2> QED BY <2>2, Zenon DEF History, Past, FailureReportedLate
<1>2. History /\ IInv /\ [DriverNext]_allVars => History'
  BY StepHistory, Zenon
<1> QED BY <1>1, <1>2, InitHistory, IoPath, Invariance, PTL DEF DriverSafeSpec

-----------------------------------------------------------------------------

(* The quotient lies where its multiples say.                              *)
LEMMA Quotient ==
    ASSUME NEW a \in Nat, NEW b \in Nat, NEW k \in Nat \ {0}
    PROVE  /\ a \div k \in Nat
           /\ b * k <= a => b <= a \div k
           /\ a < b * k + k => a \div k <= b
<1> DEFINE q == a \div k
<1>1. q \in Nat /\ q * k <= a /\ a < q * k + k
  BY SMT
<1> HIDE DEF q
<1>2. b * k <= a => b <= q
  <2> SUFFICES ASSUME b > q PROVE a < b * k
    BY <1>1
  <2>1. PICK e \in Nat : b = q + 1 + e
    <3>1. b - q - 1 \in Nat /\ b = q + 1 + (b - q - 1)
      BY <1>1
    <3> QED BY <3>1, Zenon
  <2>2. b * k = q * k + k + e * k /\ e * k \in Nat /\ q * k \in Nat
    BY <1>1, <2>1
  <2> QED BY <1>1, <2>2
<1>3. a < b * k + k => q <= b
  <2> SUFFICES ASSUME q > b PROVE b * k + k <= a
    BY <1>1
  <2>1. PICK e \in Nat : q = b + 1 + e
    <3>1. q - b - 1 \in Nat /\ q = b + 1 + (q - b - 1)
      BY <1>1
    <3> QED BY <3>1, Zenon
  <2>2. q * k = b * k + k + e * k /\ e * k \in Nat /\ b * k \in Nat
    BY <1>1, <2>1
  <2> QED BY <1>1, <2>2
<1> QED BY <1>1, <1>2, <1>3, Zenon DEF q

(* The functions of a bus have the addresses of the bus.                   *)
LEMMA AddressOnBus ==
    ASSUME NEW p \in Places
    PROVE  /\ Address(p) \in Nat
           /\ p[1] * (Devices * Functions) <= Address(p)
           /\ Address(p) < p[1] * (Devices * Functions) + Devices * Functions
<1> DEFINE b == p[1]  d == p[2]  f == p[3]
<1>1. /\ b \in Nat /\ d \in Nat /\ d < Devices /\ f \in Nat /\ f < Functions
      /\ Devices \in Nat /\ Functions \in Nat
  BY MachineAssumption DEF Places
<1>2. Address(p) = (b * Devices + d) * Functions + f
  BY Zenon DEF Address, Search!pci_get_addr
<1> HIDE DEF b, d, f
<1>3. PICK e \in Nat : Devices = d + 1 + e
  <2>1. Devices - d - 1 \in Nat /\ Devices = d + 1 + (Devices - d - 1)
    BY <1>1
  <2> QED BY <2>1, Zenon
<1>4. /\ Devices * Functions = d * Functions + Functions + e * Functions
      /\ (b * Devices + d) * Functions = b * (Devices * Functions) + d * Functions
      /\ e * Functions \in Nat /\ d * Functions \in Nat /\ b * (Devices * Functions) \in Nat
  BY <1>1, <1>3
<1> QED BY <1>1, <1>2, <1>4 DEF b

(* The loops visit the addresses one after the other.                      *)
LEMMA NextPlace ==
    ASSUME NEW p \in Places
    PROVE  /\ Search!Following(p) \in Places
           /\ Search!Following(p)[1] >= p[1]
           /\ Address(Search!Following(p)) = Address(p) + 1
<1> DEFINE b == p[1]  d == p[2]  f == p[3]
<1>1. /\ b \in Nat /\ d \in Nat /\ d < Devices /\ f \in Nat /\ f < Functions
      /\ Devices \in Nat /\ Functions \in Nat /\ Devices > 0 /\ Functions > 0
  BY MachineAssumption DEF Places
<1>2. Address(p) = (b * Devices + d) * Functions + f
  BY Zenon DEF Address, Search!pci_get_addr
<1>3. Search!Following(p) = IF f + 1 < Functions THEN <<b, d, f + 1>>
                            ELSE IF d + 1 < Devices THEN <<b, d + 1, 0>> ELSE <<b + 1, 0, 0>>
  BY Zenon DEF Search!Following
<1> HIDE DEF b, d, f
<1>4. CASE f + 1 < Functions
  <2>1. Address(<<b, d, f + 1>>) = (b * Devices + d) * Functions + (f + 1)
    BY Zenon DEF Address, Search!pci_get_addr
  <2>2. (b * Devices + d) * Functions \in Nat
    BY <1>1
  <2> QED BY <1>1, <1>2, <1>3, <1>4, <2>1, <2>2 DEF Places, b
<1>5. CASE f + 1 = Functions /\ d + 1 < Devices
  <2>1. Address(<<b, d + 1, 0>>) = (b * Devices + (d + 1)) * Functions + 0
    BY Zenon DEF Address, Search!pci_get_addr
  <2>2. /\ (b * Devices + (d + 1)) * Functions = (b * Devices + d) * Functions + Functions
        /\ (b * Devices + d) * Functions \in Nat
    BY <1>1
  <2> QED BY <1>1, <1>2, <1>3, <1>5, <2>1, <2>2 DEF Places, b
<1>6. CASE f + 1 = Functions /\ d + 1 = Devices
  <2>1. Address(<<b + 1, 0, 0>>) = ((b + 1) * Devices + 0) * Functions + 0
    BY Zenon DEF Address, Search!pci_get_addr
  <2>2. (b + 1) * Devices = b * Devices + d + 1
    BY <1>1, <1>6
  <2>3. b * Devices + d \in Nat
    BY <1>1
  <2>4. (b * Devices + d + 1) * Functions = (b * Devices + d) * Functions + Functions
    BY <1>1, <2>3
  <2>5. ((b + 1) * Devices + 0) * Functions = (b * Devices + d) * Functions + Functions
    BY <1>1, <2>2, <2>3, <2>4
  <2>6. (b * Devices + d) * Functions \in Nat
    BY <1>1, <2>3, SMTT(30)
  <2> QED BY <1>1, <1>2, <1>3, <1>6, <2>1, <2>5, <2>6 DEF Places, b
<1> QED BY <1>1, <1>4, <1>5, <1>6

(* What is known of the machine and of its controllers.                    *)
LEMMA OfMachine ==
    ASSUME machine \in Machine, machine.entries # <<>>
    PROVE  /\ machine.entries[1].start_pci \in Nat /\ machine.entries[1].end_pci \in Nat
           /\ machine.entries[1].pci_group \in DOMAIN machine.functions
           /\ DOMAIN Search!Group \subseteq Nat
           /\ Search!Candidates =
                {a \in DOMAIN Search!Group :
                   /\ Search!IsNvme(Search!Group[a])
                   /\ a \div (Devices * Functions) \in
                         machine.entries[1].start_pci..machine.entries[1].end_pci}
BY MachineAssumption, Zenon DEF Search!Group, Search!Candidates

LEMMA BusSize == Devices * Functions \in Nat \ {0}
<1>1. Devices \in Nat /\ Functions \in Nat /\ Devices > 0 /\ Functions > 0
  BY MachineAssumption, SMTT(30)
<1> QED BY <1>1

LEMMA InitScanning == DriverInit => Scanning
<1> SUFFICES ASSUME DriverInit PROVE Scanning
  BY Zenon
<1>1. search = "acpi" /\ machine \in Machine /\ command_register = Initially
  BY Zenon DEF DriverInit, Search!Init, Initially
<1> QED BY <1>1, Zenon DEF Scanning, FirstControllerTaken, Search!FirstControllerTaken

(* The scan starts on the first bus of the entry.                          *)
LEMMA AcpiScanning ==
    ASSUME Scanning, Search!find_acpi
    PROVE  Scanning'
<1> USE SMTT(30)
<1>1. /\ search = "acpi" /\ UNCHANGED <<machine, base, command_register>>
      /\ \/ /\ machine.entries # <<>> /\ search' = "scan"
            /\ at' = <<machine.entries[1].start_pci, 0, 0>>
         \/ search' = "panic"
  BY Zenon DEF Search!find_acpi
<1>2. machine \in Machine /\ command_register = Initially
  BY <1>1, Zenon DEF Scanning
<1>3. command_register' = Initially'
  BY <1>1, <1>2, Zenon DEF Initially
<1>4. CASE search' = "panic"
  BY <1>1, <1>2, <1>3, <1>4, Zenon DEF Scanning, FirstControllerTaken, Search!FirstControllerTaken
<1>5. CASE machine.entries # <<>> /\ search' = "scan"
           /\ at' = <<machine.entries[1].start_pci, 0, 0>>
  <2> DEFINE start == machine.entries[1].start_pci
  <2>1. /\ start \in Nat /\ DOMAIN Search!Group \subseteq Nat
        /\ \A a \in Search!Candidates :
              a \in Nat /\ a \div (Devices * Functions) \in start..machine.entries[1].end_pci
    BY <1>2, <1>5, OfMachine, Zenon
  <2>2. at' \in Places /\ at'[1] = start
    BY <1>5, <2>1, MachineAssumption DEF Places
  <2>3. Address(at') = start * (Devices * Functions)
    <3>1. Devices \in Nat /\ Functions \in Nat
      BY MachineAssumption, Zenon
    <3>2. Address(at') = (start * Devices + 0) * Functions + 0
      BY <1>5, Zenon DEF Address, Search!pci_get_addr
    <3> HIDE DEF start
    <3> QED BY <2>1, <3>1, <3>2
  <2>4. ASSUME NEW a \in Search!Candidates PROVE a >= start * (Devices * Functions)
    <3> DEFINE k == Devices * Functions
    <3>1. a \in Nat /\ k \in Nat \ {0} /\ a \div k \in start..machine.entries[1].end_pci
      BY <2>1, BusSize, Zenon
    <3>2. machine.entries[1].end_pci \in Nat
      BY <1>2, <1>5, OfMachine, Zenon
    <3> HIDE DEF k, start
    <3>3. PICK e \in Nat : a \div k = start + e
      <4>1. a \div k - start \in Nat /\ a \div k = start + (a \div k - start)
        BY <2>1, <3>1, <3>2
      <4> QED BY <4>1, Zenon
    <3>4. (a \div k) * k <= a
      BY <3>1, SMT
    <3>5. (start + e) * k = start * k + e * k /\ start * k \in Nat /\ e * k \in Nat
      BY <2>1, <3>1
    <3>6. start * k <= a
      BY <3>1, <3>3, <3>4, <3>5
    <3> QED BY <3>1, <3>6, Zenon DEF k
  <2>5. Search!Candidates' = Search!Candidates
    BY <1>1, Zenon DEF Search!Candidates, Search!Group
  <2>6. \A a \in Search!Candidates' : a >= Address(at')
    BY <2>3, <2>4, <2>5, Zenon
  <2>7. machine'.entries[1].start_pci = start /\ at'[1] >= machine'.entries[1].start_pci
    BY <1>1, <2>1, <2>2
  <2> QED
    BY <1>1, <1>2, <1>3, <1>5, <2>2, <2>6, <2>7, Zenon
    DEF Scanning, FirstControllerTaken, Search!FirstControllerTaken
<1> QED BY <1>1, <1>4, <1>5, Zenon

LEMMA Least ==
    ASSUME NEW S, S \subseteq Nat, NEW a \in S, \A y \in S : y >= a
    PROVE  Search!Min(S) = a
<1>1. \A x \in S : (\A y \in S : x <= y) => x = a
  OBVIOUS
<1>2. \A y \in S : a <= y
  BY Zenon
<1>3. \A y \in S : Search!Min(S) <= y /\ Search!Min(S) \in S
  BY <1>2, Zenon DEF Search!Min
<1> QED BY <1>1, <1>3, Zenon

(* The bus that the scan has reached is that of its address.               *)
LEMMA BusReached ==
    ASSUME NEW p \in Places
    PROVE  /\ Address(p) \div (Devices * Functions) = p[1]
           /\ \A a \in Nat : a >= Address(p) => a \div (Devices * Functions) >= p[1]
<1> DEFINE k == Devices * Functions
<1>1. k \in Nat \ {0} /\ p[1] \in Nat
  BY BusSize, Zenon DEF Places
<1>2. Address(p) \in Nat /\ p[1] * k <= Address(p) /\ Address(p) < p[1] * k + k
  BY AddressOnBus, Zenon
<1> HIDE DEF k
<1>3. p[1] * k \in Nat
  BY <1>1
<1>4. ASSUME NEW a \in Nat, a >= Address(p) PROVE a \div k >= p[1]
  <2>1. p[1] * k <= a
    BY <1>2, <1>3, <1>4
  <2> QED BY <1>1, <2>1, Quotient, Zenon
<1>5. Address(p) \div k = p[1]
  <2>1. /\ Address(p) \div k \in Nat /\ p[1] <= Address(p) \div k
        /\ Address(p) \div k <= p[1]
    BY <1>1, <1>2, Quotient, Zenon
  <2> QED BY <1>1, <2>1
<1> QED BY <1>4, <1>5, Zenon DEF k

(* A function that is no controller: the scan goes on behind it.           *)
LEMMA LookFurther ==
    ASSUME Scanning, search = "scan", at' = Search!Following(at),
           ~(Address(at) \in DOMAIN Search!Group /\ Search!IsNvme(Search!Group[Address(at)])),
           UNCHANGED <<machine, base, command_register, search>>
    PROVE  Scanning'
<1> USE SMTT(30)
<1>1. /\ machine \in Machine /\ machine.entries # <<>> /\ at \in Places
      /\ at[1] >= machine.entries[1].start_pci /\ command_register = Initially
      /\ \A a \in Search!Candidates : a >= Address(at)
  BY Zenon DEF Scanning
<1>2. /\ at' \in Places /\ at'[1] >= at[1] /\ Address(at') = Address(at) + 1
  BY <1>1, NextPlace, Zenon
<1>3. Address(at) \in Nat /\ machine.entries[1].start_pci \in Nat
  BY <1>1, AddressOnBus, OfMachine, Zenon
<1>4. at[1] \in Nat /\ at'[1] \in Nat
  BY <1>1, <1>2, Zenon DEF Places
<1>5. ASSUME NEW a \in Search!Candidates PROVE a >= Address(at')
  <2>1. a \in Nat /\ a # Address(at)
    BY <1>1, OfMachine, Zenon
  <2>2. a >= Address(at)
    BY <1>1, Zenon
  <2> QED BY <1>2, <1>3, <2>1, <2>2
<1>6. Search!Candidates' = Search!Candidates /\ Initially' = Initially
  BY Zenon DEF Search!Candidates, Search!Group, Initially
<1>7. at'[1] >= machine.entries[1].start_pci
  BY <1>1, <1>2, <1>3, <1>4
<1> QED
  BY <1>1, <1>2, <1>5, <1>6, <1>7, Zenon
  DEF Scanning, FirstControllerTaken, Search!FirstControllerTaken

(* A bus that is neither before nor after the range is in it.              *)
LEMMA Between ==
    ASSUME NEW i \in Nat, NEW lo \in Nat, NEW hi \in Nat, i >= lo, i <= hi
    PROVE  i \in lo..hi
OBVIOUS

(* Bits 1 and 2 of the command register are set and bit 10 is cleared.     *)
LEMMA BusMaster ==
    ASSUME NEW c
    PROVE  /\ {1, 2} \subseteq (c \cup {1, 2}) \ {10}
           /\ 10 \notin (c \cup {1, 2}) \ {10}
OBVIOUS

(* The controller: the first one, since all are still ahead.               *)
LEMMA LookFound ==
    ASSUME Scanning, search = "scan", at[1] <= machine.entries[1].end_pci,
           Address(at) \in DOMAIN Search!Group,
           Search!IsNvme(Search!Group[Address(at)]),
           base' = Search!Group[Address(at)].bar,
           command_register' =
              [command_register EXCEPT ![machine.entries[1].pci_group][Address(at)] =
                                            (@ \cup {1, 2}) \ {10}],
           search' = "found", UNCHANGED machine
    PROVE  Scanning'
<1> USE SMTT(30)
<1> DEFINE a == Address(at)  g == machine.entries[1].pci_group
<1>1. /\ machine \in Machine /\ machine.entries # <<>> /\ at \in Places
      /\ at[1] >= machine.entries[1].start_pci /\ command_register = Initially
      /\ \A x \in Search!Candidates : x >= a
  BY Zenon DEF Scanning
<1>2. /\ g \in DOMAIN machine.functions /\ Search!Group = machine.functions[g]
      /\ Search!Candidates \subseteq Nat
      /\ machine.entries[1].start_pci \in Nat /\ machine.entries[1].end_pci \in Nat
  BY <1>1, OfMachine, Zenon DEF Search!Group
<1>3. a \div (Devices * Functions) \in machine.entries[1].start_pci..machine.entries[1].end_pci
  <2>1. a \div (Devices * Functions) = at[1] /\ at[1] \in Nat
    BY <1>1, BusReached, ZenonT(60) DEF Places
  <2>2. at[1] \in machine.entries[1].start_pci..machine.entries[1].end_pci
    BY <1>1, <1>2, <2>1, Between, Zenon
  <2> QED BY <2>1, <2>2, Zenon
<1>4. a \in Search!Candidates
  BY <1>1, <1>3, OfMachine, Zenon
<1>5. Search!Min(Search!Candidates) = a
  <2> HIDE DEF a
  <2> QED BY <1>1, <1>2, <1>4, Least, Zenon
<1>6. Search!Candidates' = Search!Candidates /\ Search!Group' = Search!Group
  BY Zenon DEF Search!Candidates, Search!Group
<1>7. Search!Min(Search!Candidates)' = a
  BY <1>5, <1>6, ZenonT(60) DEF Search!Min
<1>8. base' = Search!Group'[a].bar
  BY <1>6, Zenon
<1>9. ASSUME NEW h \in DOMAIN command_register', NEW x \in DOMAIN command_register'[h]
      PROVE  /\ h = g /\ x = a => /\ {1, 2} \subseteq command_register'[h][x]
                                  /\ 10 \notin command_register'[h][x]
             /\ ~(h = g /\ x = a) =>
                   command_register'[h][x] = machine.functions[h][x].command
  <2> HIDE DEF a, g
  <2>1. command_register = Initially /\ g \in DOMAIN machine.functions
        /\ a \in DOMAIN machine.functions[g]
    BY <1>1, <1>2, Zenon DEF a
  <2>2. /\ h \in DOMAIN machine.functions /\ x \in DOMAIN machine.functions[h]
        /\ command_register'[h][x] =
              IF h = g /\ x = a THEN (machine.functions[h][x].command \cup {1, 2}) \ {10}
              ELSE machine.functions[h][x].command
    BY <2>1, Zenon DEF Initially, a, g
  <2> HIDE DEF Initially
  <2> QED BY <2>2, BusMaster, Zenon
<1>10. FirstControllerTaken'
  <2> DEFINE m == Search!Min(Search!Candidates)'
  <2>1. m = a /\ g = machine'.entries[1].pci_group
    BY <1>7, Zenon
  <2>2. /\ search' # "absent" /\ Search!Candidates' # {}
        /\ base' = Search!Group'[m].bar
    BY <1>4, <1>6, <1>8, <2>1, Zenon
  <2>3. ASSUME NEW h \in DOMAIN command_register', NEW x \in DOMAIN command_register'[h]
        PROVE  IF h = machine'.entries[1].pci_group /\ x = m
               THEN {1, 2} \subseteq command_register'[h][x] /\ 10 \notin command_register'[h][x]
               ELSE command_register'[h][x] = machine'.functions[h][x].command
    <3> HIDE DEF m, a, g
    <3>1. CASE h = g /\ x = a
      BY <1>9, <2>1, <3>1, Zenon
    <3>2. CASE ~(h = g /\ x = a)
      BY <1>9, <2>1, <3>2, Zenon
    <3> QED BY <3>1, <3>2, Zenon
  <2> QED BY <2>2, <2>3, Zenon DEF FirstControllerTaken, Search!FirstControllerTaken
<1> QED BY <1>1, <1>10, Zenon DEF Scanning

LEMMA SearchScanning ==
    ASSUME Scanning, Search!Next
    PROVE  Scanning'
<1> USE SMTT(30)
<1>1. CASE Search!find_acpi
  BY <1>1, AcpiScanning, Zenon
<1>2. CASE Search!Look
  <2>1. /\ search = "scan" /\ at[1] <= machine.entries[1].end_pci /\ UNCHANGED machine
        /\ \/ /\ Address(at) \in DOMAIN Search!Group
              /\ Search!IsNvme(Search!Group[Address(at)])
              /\ base' = Search!Group[Address(at)].bar
              /\ command_register' =
                    [command_register EXCEPT ![machine.entries[1].pci_group][Address(at)] =
                                                  (@ \cup {1, 2}) \ {10}]
              /\ search' = "found"
           \/ /\ ~(/\ Address(at) \in DOMAIN Search!Group
                   /\ Search!IsNvme(Search!Group[Address(at)]))
              /\ at' = Search!Following(at)
              /\ UNCHANGED <<base, command_register, search>>
    BY <1>2, Zenon DEF Search!Look, Address
  <2> QED BY <2>1, LookFurther, LookFound, Zenon
<1>3. CASE Search!NotFound
  <2>1. /\ machine \in Machine /\ machine.entries # <<>> /\ at \in Places
        /\ command_register = Initially
        /\ \A a \in Search!Candidates : a >= Address(at)
    BY <1>3, Zenon DEF Search!NotFound, Scanning
  <2>2. ASSUME NEW a \in Search!Candidates PROVE FALSE
    <3> DEFINE bus == a \div (Devices * Functions)
    <3>1. /\ a \in Nat /\ a >= Address(at) /\ at[1] \in Nat
          /\ bus \in machine.entries[1].start_pci..machine.entries[1].end_pci
          /\ machine.entries[1].start_pci \in Nat /\ machine.entries[1].end_pci \in Nat
      BY <2>1, OfMachine, Zenon DEF Places
    <3>2. bus >= at[1] /\ at[1] > machine.entries[1].end_pci
      BY <1>3, <2>1, <3>1, BusReached, Zenon DEF Search!NotFound
    <3> HIDE DEF bus
    <3> QED BY <3>1, <3>2
  <2>3. Search!Candidates' = Search!Candidates /\ Initially' = Initially
    BY <1>3, Zenon DEF Search!NotFound, Search!Candidates, Search!Group, Initially
  <2>4. search' = "absent" /\ UNCHANGED <<machine, command_register>>
    BY <1>3, Zenon DEF Search!NotFound
  <2> QED
    BY <2>1, <2>2, <2>3, <2>4, Zenon
    DEF Scanning, FirstControllerTaken, Search!FirstControllerTaken
<1> QED BY <1>1, <1>2, <1>3, Zenon DEF Search!Next, Search!nvme_find

LEMMA StepScanning ==
    ASSUME Scanning, [DriverNext]_allVars
    PROVE  Scanning'
<1> USE SMTT(30)
<1>1. CASE SearchStep
  BY <1>1, SearchScanning, Zenon DEF SearchStep
<1>2. CASE UNCHANGED searchVars
  <2>1. UNCHANGED <<machine, search, at, base, command_register>>
    BY <1>2, Zenon DEF searchVars
  <2>2. /\ Search!Candidates' = Search!Candidates /\ Search!Group' = Search!Group
        /\ Initially' = Initially
    BY <2>1, Zenon DEF Search!Candidates, Search!Group, Initially
  <2>3. Search!Min(Search!Candidates)' = Search!Min(Search!Candidates)
    BY <2>2, Zenon DEF Search!Min
  <2>4. FirstControllerTaken'
    BY <2>1, <2>2, <2>3 DEF Scanning, FirstControllerTaken, Search!FirstControllerTaken
  <2> QED BY <2>1, <2>2, <2>4, Zenon DEF Scanning
<1> QED BY <1>1, <1>2, Zenon DEF DriverNext, InitStep, Working, Return, Io, allVars

(* On every machine, the scan takes the controller with the lowest address *)
(* on the buses that the first entry of the MCFG covers and makes it alone *)
(* a bus master, and misses none.                                          *)
THEOREM ControllerFound == DriverSafeSpec => []FirstControllerTaken
<1>1. Scanning => FirstControllerTaken
  BY Zenon DEF Scanning
<1>2. Scanning /\ [DriverNext]_allVars => Scanning'
  BY StepScanning, Zenon
<1> QED BY <1>1, <1>2, InitScanning, PTL DEF DriverSafeSpec
=============================================================================
