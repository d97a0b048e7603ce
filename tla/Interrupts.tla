----------------------------- MODULE Interrupts -----------------------------
(***************************************************************************)
(* Interrupts, from the interrupt controllers to the routines and back:    *)
(* src/src/int/interrupt.c and interrupts.s, the set-up in loader.s and    *)
(* kmain.c, enter_user_mode in usermode.s, and messages on the serial port *)
(* (src/src/io/serial.c and output.c).  The two interrupt controllers      *)
(* (8259), the keyboard controller and the serial port (16550) are         *)
(* external.  What runs is a stack of activities: kmain or a program, and  *)
(* on it the handlers that interrupt it.  A word on the kernel stack is a  *)
(* pair that says whose it is.  The insides of the routines are the        *)
(* business of Keyboard and Terminal.                                      *)
(***************************************************************************)
EXTENDS Output, SequencesExt, FiniteSets, FiniteSetsExt

CONSTANTS
    Lines,      \* lines of other devices than the timer and the keyboard
    Exceptions, \* exceptions that a program or the kernel causes
    Codes,      \* error codes
    cr2,        \* the address of a page fault
    HighByte,   \* of the serial port's divisor, as firmware leaves it
    MaxKeys     \* bound: keys that are pressed

VARIABLES
    stage,      \* of booting: "loader", "kmain", "serial", "ready", "screen", then "on"
    pic,        \* the controllers: requests, lines in service, mask
    keyboard,   \* keys that wait in its controller, and how many were pressed
    cpu,        \* the registers
    running,    \* the activities, the one that runs last
    stack,      \* the kernel stack, the top first
    serial      \* the serial port: its FIFO, divisor, and what it has sent

vars == <<stage, pic, keyboard, cpu, running, stack, serial>>

TIMER == 0
KEYBOARD == 1
SYSCALL == 96
PAGE_FAULT == 14
NL == "newline"

Slave == 8..15      \* their requests reach the master on line 2
CASCADE == 2

pushregs == <<"rax", "rbx", "rcx", "rdx", "rsi", "rdi", "rbp",
              "r8", "r9", "r10", "r11", "r12", "r13", "r14", "r15">>

(* Faulty variant: two registers change places.                            *)
popregs_swapped == <<"r15", "r14", "r13", "r12", "r11", "r10", "r9", "r8",
                     "rbp", "rsi", "rdi", "rdx", "rcx", "rbx", "rax">>

popregs == <<"r15", "r14", "r13", "r12", "r11", "r10", "r9", "r8",
             "rbp", "rdi", "rsi", "rdx", "rcx", "rbx", "rax">>

(* What the processor pushes, and iretq pops, from the top.                *)
iretq == <<"rip", "cs", "rflags", "rsp", "ss">>

InterruptData ==
    <<"r15", "r14", "r13", "r12", "r11", "r10", "r9", "r8",
      "rbp", "rdi", "rsi", "rdx", "rcx", "rbx", "rax",
      "interrupt_num", "error_code", "rip", "cs", "rflags", "rsp", "ss">>

(* The registers of activity n; of rflags only whether interrupts are      *)
(* enabled ("if") or not ("cli").                                          *)
Own(n, flag) ==
    [r \in ToSet(pushregs) \cup ToSet(iretq) |-> <<n, IF r = "rflags" THEN flag ELSE r>>]

Enabled == cpu["rflags"][2] = "if"

Top == running[Len(running)]
Halted == Top.at = "halted"

(* An activity: the vector and error code it was entered with, where it    *)
(* is, what it has yet to print, and if it has seen the FIFO empty.        *)
Activity(x, c, at) == [vector |-> x, code |-> c, at |-> at, text |-> <<>>, seen |-> FALSE]

Init ==
    /\ stage = "loader"
    /\ \E irr \in SUBSET Lines : pic = [irr |-> irr, isr |-> {}, imr |-> {}]
    /\ keyboard = [waiting |-> 0, pressed |-> 0, deaf |-> FALSE]
    /\ cpu = Own(1, "cli")
    /\ running = <<Activity(-1, 0, "kmain")>>
    /\ stack = <<>>
    /\ serial = [fifo |-> <<>>, sent |-> <<>>, high |-> HighByte, low |-> 0]

-----------------------------------------------------------------------------

(* loader.s initialises the controllers: requests are forgotten, and a     *)
(* line that is already high asks no more.                                 *)
RemapPIC ==
    /\ stage = "loader"
    /\ stage' = "kmain"
    /\ pic' = [irr |-> {}, isr |-> {}, imr |-> {}]
    /\ keyboard' = [keyboard EXCEPT !.deaf = keyboard.waiting > 0]
    /\ UNCHANGED <<cpu, running, stack, serial>>

(* "send high byte of divisor then low byte": both go to the low byte.     *)
serial_init ==
    /\ stage = "kmain"
    /\ stage' = "serial"
    /\ serial' = [serial EXCEPT !.low = 3, !.fifo = <<NL>>]
    /\ UNCHANGED <<pic, keyboard, cpu, running, stack>>

(* outb(0xA1, 0xFF) and outb(0x21, 0xFC).                                  *)
Mask == Slave \cup 2..7

interrupt_init ==
    /\ stage = "serial" /\ Top.text = <<>>
    /\ stage' = "ready"
    /\ pic' = [pic EXCEPT !.imr = Mask]
    /\ UNCHANGED <<keyboard, cpu, running, stack, serial>>

(* From here on vga_printf finds a screen.                                 *)
vga_init ==
    /\ stage = "ready" /\ Len(running) = 1 /\ Top.text = <<>>
    /\ stage' = "screen"
    /\ UNCHANGED <<pic, keyboard, cpu, running, stack, serial>>

(* At the end of kmain.                                                    *)
Sti ==
    /\ stage = "screen" /\ Len(running) = 1 /\ Top.text = <<>>
    /\ stage' = "on"
    /\ cpu' = Own(1, "if")
    /\ UNCHANGED <<pic, keyboard, running, stack, serial>>

(* The program starts with the flags of kmain (pushfq).                    *)
enter_user_mode ==
    /\ stage = "on" /\ Top.at = "kmain" /\ Top.text = <<>>
    /\ running' = <<Activity(-1, 0, "user")>>
    /\ cpu' = Own(1, cpu["rflags"][2])
    /\ UNCHANGED <<stage, pic, keyboard, stack, serial>>

-----------------------------------------------------------------------------

(* Faulty variant: hardware interrupts go through trap gates.              *)
idt_trap(x) == CASE x \in 0..31 -> 142 [] x \in 32..47 -> 143 [] x = 128 -> 239 [] OTHER -> 0

(* The attributes of a gate: 0x8E, and 0xEF for system calls.              *)
idt(x) == CASE x \in 0..47 -> 142 [] x = 128 -> 239 [] OTHER -> 0

InterruptGate(x) == idt(x) % 16 = 14
OpenToPrograms(x) == (idt(x) \div 32) % 4 = 3

(* Exceptions for which the processor pushes an error code.                *)
PushesCode == {8, 10, 11, 12, 13, 14, 17, 21, 29, 30}

(* Those whose stub pushes none.                                           *)
exception_code_stub == {8, 10, 11, 12, 13, 14, 17, 21, 29, 30}

(* Vector x is taken: the processor, the stub and pushregs fill the stack. *)
Enter(x, c) ==
    LET code   == IF x \in PushesCode THEN << <<c, "code">> >> ELSE <<>>
        dummy  == IF x \in exception_code_stub THEN <<>> ELSE << <<0, "code">> >>
        number == << <<x, "number">> >>
        saved  == [k \in 1..Len(pushregs) |-> cpu[Reverse(pushregs)[k]]]
        frame  == [k \in 1..Len(iretq) |-> cpu[iretq[k]]]
        n      == Len(running) + 1
    IN  /\ stack' = saved \o number \o dummy \o code \o frame \o stack
        /\ cpu' = Own(n, IF InterruptGate(x) THEN "cli" ELSE cpu["rflags"][2])
        /\ running' = Append(running, Activity(x, c, "routine"))

(* What a routine reads through its parameter data.                        *)
data(field) == stack[CHOOSE k \in DOMAIN InterruptData : InterruptData[k] = field]

irq_number == data("interrupt_num")[1] - 32

(* The lines on which a controller asks; an interrupt in service blocks    *)
(* those of the same and of lower priority.                                *)
Asking(irr, lines) ==
    {l \in (irr \ pic.imr) \cap lines : \A s \in pic.isr \cap lines : l < s}

Request ==
    LET slave  == Asking(pic.irr, Slave)
        master == Asking(pic.irr \cup {CASCADE : l \in slave}, 0..7)
    IN  {IF m = CASCADE THEN Min(slave) ELSE m : m \in {k \in master : k = Min(master)}}

Deliver(l) ==
    /\ Enabled /\ l \in Request
    /\ pic' = [pic EXCEPT !.irr = @ \ {l},
                          !.isr = @ \cup {l} \cup (IF l \in Slave THEN {CASCADE} ELSE {})]
    /\ Enter(32 + l, 0)
    /\ UNCHANGED <<stage, keyboard, serial>>

(* int 128 of a program.                                                   *)
SystemCall ==
    /\ Top.at = "user" /\ OpenToPrograms(32 + SYSCALL)
    /\ Enter(32 + SYSCALL, 0)
    /\ UNCHANGED <<stage, pic, keyboard, serial>>

(* Before there is an IDT an exception resets the machine.                 *)
Exception(x, c) ==
    /\ stage \in {"ready", "screen", "on"} /\ Top.vector \notin 0..31
    /\ c \in IF x \in PushesCode THEN Codes ELSE {0}
    /\ Enter(x, c)
    /\ UNCHANGED <<stage, pic, keyboard, serial>>

-----------------------------------------------------------------------------

(* exception_set_handler stores its handler among those of the lines.      *)
irq_routines(n) ==
    CASE n = TIMER      -> "timer_routine"
      [] n = KEYBOARD   -> "keyboard_routine"
      [] n = SYSCALL    -> "syscall_routine"
      [] n = PAGE_FAULT -> "page_fault_handler"
      [] OTHER          -> "none"

Go(at) == running' = [running EXCEPT ![Len(running)].at = at]

(* The keyboard's routine takes one key (inb); if another waits, the       *)
(* keyboard asks again.                                                    *)
Run(routine) ==
    IF routine = "keyboard_routine" /\ keyboard.waiting > 0
    THEN /\ keyboard' = [keyboard EXCEPT !.waiting = @ - 1]
         /\ pic' = IF keyboard.waiting > 1 THEN [pic EXCEPT !.irr = @ \cup {KEYBOARD}] ELSE pic
    ELSE UNCHANGED <<keyboard, pic>>

(* What vga_printf sends to the serial port: a line of warning (one string *)
(* here) as long as there is no screen.                                    *)
vga_printf == IF stage = "ready" THEN <<"WARN">> ELSE <<>>

(* "Exception 0x%x: %s, code %u" by serial_error, and on the screen.       *)
Report(num, code) ==
    printf(<<"ERROR", "%", "x", "%", "s", "%", "u", NL>>, <<num, <<"name">>, code>>) \o vga_printf

(* page_fault_handler: "address: 0x%x", in the same way.                   *)
AddressReport == printf(<<"ERROR", "%", "x", NL>>, <<cr2>>) \o vga_printf

Say(text, at) == running' = [running EXCEPT ![Len(running)].text = text, ![Len(running)].at = at]

(* After the message and the routine of that number, if any, it halts for  *)
(* good.                                                                   *)
handle_exception ==
    LET routine == irq_routines(data("interrupt_num")[1])
    IN  /\ Top.vector \in 0..31 /\ Top.text = <<>>
        /\ \/ /\ Top.at = "routine"
              /\ Say(Report(data("interrupt_num")[1], data("error_code")[1]), "reported")
              /\ UNCHANGED <<pic, keyboard>>
           \/ /\ Top.at = "reported"
              /\ Run(routine)
              /\ Say(IF routine = "page_fault_handler" THEN AddressReport ELSE <<>>, "done")
           \/ Top.at = "done" /\ Go("halted") /\ UNCHANGED <<pic, keyboard>>
        /\ UNCHANGED <<stage, cpu, stack, serial>>

handle_interrupt ==
    /\ Top.vector >= 32 /\ Top.at = "routine"
    /\ Run(irq_routines(irq_number))
    /\ Go(IF irq_number >= 8 THEN "slave" ELSE "master")
    /\ UNCHANGED <<stage, cpu, stack, serial>>

(* An end of interrupt is for the line of the highest priority in service. *)
EOI(lines) ==
    LET s == pic.isr \cap lines
    IN  pic' = IF s = {} THEN pic ELSE [pic EXCEPT !.isr = @ \ {Min(s)}]

(* Faulty variant: the lines of the master are not acknowledged.           *)
pic_acknowledge_slave ==
    /\ \/ Top.at = "slave" /\ EOI(Slave) /\ Go("master")
       \/ Top.at = "master" /\ UNCHANGED pic /\ Go("return")
    /\ UNCHANGED <<stage, keyboard, cpu, stack, serial>>

(* Two writes; system calls come here as well.                             *)
pic_acknowledge ==
    /\ \/ Top.at = "slave" /\ EOI(Slave) /\ Go("master")
       \/ Top.at = "master" /\ EOI(0..7) /\ Go("return")
    /\ UNCHANGED <<stage, keyboard, cpu, stack, serial>>

(* popregs, add rsp 16, iretq.                                             *)
Return ==
    LET regs  == Len(popregs)
        frame == regs + 2
        Popped(r) == IF r \in ToSet(popregs)
                     THEN stack[CHOOSE k \in 1..regs : popregs[k] = r]
                     ELSE stack[frame + CHOOSE k \in DOMAIN iretq : iretq[k] = r]
    IN  /\ Top.at = "return"
        /\ cpu' = [r \in DOMAIN cpu |-> Popped(r)]
        /\ stack' = SubSeq(stack, frame + Len(iretq) + 1, Len(stack))
        /\ running' = Front(running)
        /\ UNCHANGED <<stage, pic, keyboard, serial>>

-----------------------------------------------------------------------------

(* kmain prints a message, once here.                                      *)
serial_info ==
    /\ stage \in {"serial", "ready", "screen", "on"} /\ Top.at = "kmain"
    /\ Top.text = <<>> /\ "INFO" \notin ToSet(serial.sent \o serial.fifo)
    /\ running' = [running EXCEPT ![1].text = <<"INFO", NL>>]
    /\ UNCHANGED <<stage, pic, keyboard, cpu, stack, serial>>

(* It polls until the FIFO is empty and then puts one character there.     *)
serial_putchar ==
    /\ Top.text # <<>>
    /\ \/ /\ ~Top.seen /\ serial.fifo = <<>>
          /\ running' = [running EXCEPT ![Len(running)].seen = TRUE]
          /\ UNCHANGED serial
       \/ /\ Top.seen
          /\ running' = [running EXCEPT ![Len(running)].seen = FALSE,
                                        ![Len(running)].text = Tail(@)]
          /\ serial' = [serial EXCEPT !.fifo = Append(@, Head(Top.text))]
    /\ UNCHANGED <<stage, pic, keyboard, cpu, stack>>

(* The serial port sends a character.                                      *)
Transmit ==
    /\ serial.fifo # <<>>
    /\ serial' = [serial EXCEPT !.fifo = Tail(@), !.sent = Append(@, Head(serial.fifo))]
    /\ UNCHANGED <<stage, pic, keyboard, cpu, running, stack>>

(* A tick.  The next one comes only when the handler has long returned.    *)
Tick ==
    /\ TIMER \notin pic.irr /\ \A k \in DOMAIN running : running[k].vector # 32 + TIMER
    /\ pic' = [pic EXCEPT !.irr = @ \cup {TIMER}]
    /\ UNCHANGED <<stage, keyboard, cpu, running, stack, serial>>

(* The line goes up with the first key that waits.                         *)
Press ==
    /\ keyboard.pressed < MaxKeys
    /\ keyboard' = [keyboard EXCEPT !.waiting = @ + 1, !.pressed = @ + 1]
    /\ pic' = IF keyboard.waiting = 0 THEN [pic EXCEPT !.irr = @ \cup {KEYBOARD}] ELSE pic
    /\ UNCHANGED <<stage, cpu, running, stack, serial>>

Raise(l) ==
    /\ l \notin pic.irr
    /\ pic' = [pic EXCEPT !.irr = @ \cup {l}]
    /\ UNCHANGED <<stage, keyboard, cpu, running, stack, serial>>

Boot ==
    \/ RemapPIC \/ serial_init \/ interrupt_init \/ vga_init \/ Sti
    \/ enter_user_mode \/ serial_info

Handle == handle_exception \/ handle_interrupt \/ pic_acknowledge \/ Return \/ serial_putchar

Next ==
    \/ Boot \/ Handle \/ SystemCall
    \/ \E x \in Exceptions, c \in Codes \union {0} : Exception(x, c)
    \/ \E l \in {TIMER, KEYBOARD} \cup Lines : Deliver(l)
    \/ Transmit \/ Tick \/ Press \/ \E l \in Lines : Raise(l)

(* The processor goes on, and it takes interrupts; as ticks are far apart, *)
(* a system call, and a request of the keyboard, finds its time between    *)
(* them.                                                                   *)
Fairness ==
    /\ WF_vars(Transmit)
    /\ WF_vars(Handle) /\ SF_vars(Top.vector = 32 + SYSCALL /\ Handle)
    /\ SF_vars(Deliver(TIMER)) /\ SF_vars(Deliver(KEYBOARD))

Spec == Init /\ [][Next]_vars /\ Fairness

-----------------------------------------------------------------------------

TypeOK ==
    /\ stage \in {"loader", "kmain", "serial", "ready", "screen", "on"}
    /\ {pic.irr, pic.isr, pic.imr} \subseteq SUBSET (0..15)
    /\ keyboard.waiting \in 0..keyboard.pressed /\ keyboard.deaf \in BOOLEAN
    /\ DOMAIN cpu = ToSet(pushregs) \cup ToSet(iretq)
    /\ \A k \in DOMAIN running : running[k].at \in
          {"kmain", "user", "routine", "reported", "done", "slave", "master", "return", "halted"}

(* Interrupts are enabled in system calls, and outside handlers once kmain *)
(* has said so.                                                            *)
Flag(k) == IF running[k].vector = 32 + SYSCALL \/ (k = 1 /\ stage = "on") THEN "if" ELSE "cli"

(* Whatever interrupts it, an activity goes on with its own registers and  *)
(* with interrupts enabled or not as before, and at the end nothing is     *)
(* left on the kernel stack.  A routine sees through struct InterruptData  *)
(* what the processor and the stub of its vector have pushed: the number,  *)
(* the error code of just this exception (0 if it has none), and the       *)
(* registers of what it interrupted.                                       *)
ContextKept ==
    /\ TypeOK
    /\ cpu = Own(Len(running), Flag(Len(running)))
    /\ IF Len(running) = 1 THEN stack = <<>>
       ELSE /\ data("interrupt_num") = <<Top.vector, "number">>
            /\ data("error_code") = <<Top.code, "code">>
            /\ \A r \in DOMAIN cpu : data(r) = Own(Len(running) - 1, Flag(Len(running) - 1))[r]

(* At most one handler of a hardware interrupt is active, upon kmain, a    *)
(* program or a system call: the keyboard's routine and what it uses are   *)
(* never entered twice, and the kernel stack holds four frames at most.    *)
(* It is the timer's or the keyboard's: no other line is ever served, not  *)
(* even one that asked while everything was unmasked, so that              *)
(* page_fault_handler, which shares its place with line 14, runs for page  *)
(* faults only.  And the line in service is that of a handler that has not *)
(* acknowledged it: the end of interrupt that every system call sends to   *)
(* both controllers never ends the service of another's interrupt.         *)
OneInterruptAtATime ==
    LET hardware == {k \in DOMAIN running : running[k].vector \in 32..47}
        pending  == {k \in hardware : running[k].at \in {"routine", "slave", "master"}}
    IN  /\ Cardinality(hardware) <= 1 /\ Len(running) <= 4
        /\ \A k \in hardware : running[k].vector \in {32 + TIMER, 32 + KEYBOARD}
        /\ pic.isr = {running[k].vector - 32 : k \in pending}

(* Wherever an exception strikes, in the middle of another message too,    *)
(* what the serial port sends last before the kernel halts is its report,  *)
(* whole and in order, with its number in hexadecimal and its error code   *)
(* in decimal, and for a page fault the address in hexadecimal as well,    *)
(* but for the warnings that there is no screen yet.                       *)
ExceptionReported ==
    LET sent  == SelectSeq(serial.sent \o serial.fifo, LAMBDA t : t # "WARN")
        error == {k \in DOMAIN sent : sent[k] = "ERROR"}
        name  == CHOOSE k \in DOMAIN sent : sent[k] = "name"
        end   == CHOOSE k \in DOMAIN sent : k > name /\ sent[k] = NL
    IN  Halted =>
          /\ Denotes(SubSeq(sent, Min(error) + 1, name - 1), Top.vector, 16)
          /\ Denotes(SubSeq(sent, name + 1, end - 1), Top.code, 10)
          /\ Last(sent) = NL
          /\ IF Top.vector = PAGE_FAULT
             THEN Max(error) = end + 1 /\ Denotes(SubSeq(sent, end + 2, Len(sent) - 1), cr2, 16)
             ELSE end = Len(sent)

(* Once interrupts are on, every key is read and every handler returns,    *)
(* unless the kernel has halted, or a key was pressed before loader.s had  *)
(* set up the controllers: its request is lost, and the keyboard does not  *)
(* ask again before that key is read.                                      *)
InterruptsServed ==
    /\ (stage = "on" /\ keyboard.waiting > 0) ~> (keyboard.waiting = 0 \/ keyboard.deaf \/ Halted)
    /\ (Len(running) > 1) ~> (Len(running) = 1 \/ Halted)

(* "send high byte of divisor then low byte": the divisor is 3 afterwards. *)
(* serial_configure_baud_rate does not see to this.                        *)
DivisorSet == stage \notin {"loader", "kmain"} => serial.high = 0 /\ serial.low = 3

(* Every key is read.  A key pressed too early stops this.                 *)
EveryKeyRead == (stage = "on" /\ keyboard.waiting > 0) ~> (keyboard.waiting = 0 \/ Halted)
=============================================================================
