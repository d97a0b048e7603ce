------------------------------ MODULE Keyboard ------------------------------
(***************************************************************************)
(* Line input: the read system call (src/src/int/syscall.c), which records *)
(* keys and spins until Enter, and the keyboard interrupt handler          *)
(* (src/src/int/keyboard.c), which may run between any two of its steps.   *)
(* The handler is entered through an interrupt gate and runs to its end;   *)
(* the system call through a trap gate, with interrupts enabled.  Both use *)
(* the kernel heap, which is not reentrant: its calls take a step of the   *)
(* system call each.  Echoing is the business of module Terminal.          *)
(***************************************************************************)
EXTENDS Integers, Sequences

CONSTANTS
    Letter,      \* the keys with a one-character name
    Shifted(_),  \* what the handler makes of one while shift is held
    Halting,     \* the character that halts the system with control ('m')
    Capacity,    \* first capacity of a recording (8)
    Word,        \* 2^64: pressed_size wraps around at it
    MaxTyped,    \* bound: characters of one line
    MaxBehind,   \* bound: how far Backspace moves in front of the line
    MaxBuffer    \* bound: the size of the reader's buffer

ASSUME SizeAssumption ==
    /\ {Capacity, Word, MaxTyped, MaxBehind, MaxBuffer} \subseteq Nat
    /\ Capacity > 0
    /\ 2 * (2 * MaxTyped + Capacity + MaxBehind) < Word

VARIABLES
    sys,                \* the system call: "user", or the step it is at
    size,               \* its argument
    result,             \* what it has stored in the reader's buffer
    is_shift_held, is_control_held, is_recording,
    pressed,            \* memory, by its offset from the pointer pressed
    pressed_size, pressed_capacity,
    typed,              \* history: the line as the user sees it
    overshot            \* history: Backspace was pressed on the empty line

keys == <<is_shift_held, is_control_held>>
line == <<pressed, pressed_size, pressed_capacity>>
call == <<sys, size, result>>
vars == <<call, keys, is_recording, line, typed, overshot>>

Char   == Letter \cup {Shifted(c) : c \in Letter}
Offset == (-MaxBehind)..(2 * MaxTyped + Capacity)
NUL    == "nul"                         \* the byte 0
Blank  == [o \in Offset |-> NUL]    \* vcalloc clears what it returns

(* The byte that pressed[s] is.                                            *)
At(s) == IF s >= Word \div 2 THEN s - Word ELSE s

Init ==
    /\ sys = "user" /\ size = 0 /\ result = <<>>
    /\ is_shift_held = FALSE /\ is_control_held = FALSE /\ is_recording = FALSE
    /\ pressed = Blank /\ pressed_size = 0 /\ pressed_capacity = 0
    /\ typed = <<>> /\ overshot = FALSE

Running == sys # "halted"

-----------------------------------------------------------------------------

(* Faulty variant: recording starts before there is a buffer.              *)
StartRecording_early ==
    /\ sys = "user"
    /\ sys' = "vcalloc"
    /\ size' \in 0..MaxBuffer
    /\ pressed_size' = 0 /\ pressed_capacity' = Capacity
    /\ is_recording' = TRUE
    /\ UNCHANGED <<result, keys, pressed, typed, overshot>>

(* The program calls read: keyboard_start_recording up to the call of      *)
(* vcalloc, ...                                                            *)
StartRecording ==
    /\ sys = "user"
    /\ sys' = "vcalloc"
    /\ size' \in 0..MaxBuffer
    /\ pressed_size' = 0 /\ pressed_capacity' = Capacity
    /\ UNCHANGED <<result, keys, is_recording, pressed, typed, overshot>>

(* ... what it returns, ...                                                *)
StoreBuffer ==
    /\ sys = "vcalloc"
    /\ sys' = "publish"
    /\ pressed' = Blank
    /\ UNCHANGED <<size, result, keys, is_recording, pressed_size,
                   pressed_capacity, typed, overshot>>

(* ... and is_recording = true, from where on the handler records.         *)
Publish ==
    /\ sys = "publish"
    /\ sys' = "spin"
    /\ is_recording' = TRUE
    /\ typed' = <<>> /\ overshot' = FALSE
    /\ UNCHANGED <<size, result, keys, line>>

(* Faulty variant: it does not wait for Enter.                             *)
Spin_once ==
    /\ sys = "spin"
    /\ sys' = "copy"
    /\ UNCHANGED <<size, result, keys, is_recording, line, typed, overshot>>

Spin ==
    /\ sys = "spin"
    /\ ~is_recording
    /\ sys' = "copy"
    /\ UNCHANGED <<size, result, keys, is_recording, line, typed, overshot>>

(* keyboard_get_recording, memset, and memcpy of min(size, length) bytes.  *)
Copy ==
    /\ sys = "copy"
    /\ sys' = "end"
    /\ result' = [i \in 1..size |->
                    IF i <= pressed_size
                    THEN IF i - 1 \in Offset THEN pressed[i - 1] ELSE "beyond"
                    ELSE NUL]
    /\ UNCHANGED <<size, keys, is_recording, line, typed, overshot>>

(* keyboard_end_recording up to the call of vfree, and after it.           *)
EndRecording ==
    /\ sys = "end"
    /\ sys' = "vfree"
    /\ pressed_size' = 0 /\ pressed_capacity' = 0
    /\ UNCHANGED <<size, result, keys, is_recording, pressed, typed, overshot>>

Return ==
    /\ sys = "vfree"
    /\ sys' = "user"
    /\ is_recording' = FALSE
    /\ UNCHANGED <<size, result, keys, line, typed, overshot>>

-----------------------------------------------------------------------------

Halt ==
    /\ sys' = "halted"
    /\ UNCHANGED <<size, result, keys, is_recording, line, typed, overshot>>

(* Faulty variant: a longer buffer is allocated and the line not copied.   *)
Record_no_copy(c) ==
    LET grow == (pressed_size + 1) % Word > pressed_capacity
    IN  /\ Len(typed) < MaxTyped
        /\ pressed_capacity' = IF grow THEN 2 * pressed_capacity ELSE pressed_capacity
        /\ pressed' = [(IF grow THEN Blank ELSE pressed) EXCEPT ![At(pressed_size)] = c]
        /\ pressed_size' = (pressed_size + 1) % Word
        /\ typed' = Append(typed, c)
        /\ UNCHANGED <<call, keys, is_recording, overshot>>

(* Record a character, in a buffer of twice the capacity if it would not   *)
(* fit.  The copying loop counts to pressed_size with 32 bits: it does not *)
(* end if pressed_size has become negative, that is, huge.                 *)
Record(c) ==
    LET grow == (pressed_size + 1) % Word > pressed_capacity
    IN  \/ /\ grow /\ At(pressed_size) < 0
           /\ Halt
        \/ /\ ~(grow /\ At(pressed_size) < 0)
           /\ Len(typed) < MaxTyped
           /\ pressed_capacity' = IF grow THEN 2 * pressed_capacity ELSE pressed_capacity
           /\ pressed' =
                [(IF grow THEN [o \in Offset |-> IF o \in 0..(pressed_size - 1)
                                                 THEN pressed[o] ELSE NUL]
                  ELSE pressed) EXCEPT ![At(pressed_size)] = c]
           /\ pressed_size' = (pressed_size + 1) % Word
           /\ typed' = Append(typed, c)
           /\ UNCHANGED <<call, keys, is_recording, overshot>>

PressLetter(k) ==
    LET c == IF is_shift_held THEN Shifted(k) ELSE k
    IN  /\ Running
        /\ \/ /\ is_control_held /\ c = Halting
              /\ Halt
           \/ /\ ~(is_control_held /\ c = Halting)
              /\ is_recording
              /\ Record(c)

(* pressed[--pressed_size] = 0, also when the line is empty.               *)
PressBackspace ==
    /\ Running
    /\ is_recording
    /\ At(pressed_size) > -MaxBehind
    /\ pressed_size' = (pressed_size + Word - 1) % Word
    /\ pressed' = [pressed EXCEPT ![At(pressed_size')] = NUL]
    /\ typed' = SubSeq(typed, 1, Len(typed) - 1)
    /\ overshot' = (overshot \/ typed = <<>>)
    /\ UNCHANGED <<call, keys, is_recording, pressed_capacity>>

(* Faulty variant: Enter is taken for an empty line's end only.            *)
PressEnter_empty ==
    /\ Running
    /\ is_recording' = (is_recording /\ typed # <<>>)
    /\ UNCHANGED <<call, keys, line, typed, overshot>>

PressEnter ==
    /\ Running
    /\ is_recording' = FALSE
    /\ UNCHANGED <<call, keys, line, typed, overshot>>

(* Shift and control go down and up.                                       *)
Modifier ==
    /\ Running
    /\ is_shift_held' \in BOOLEAN /\ is_control_held' \in BOOLEAN
    /\ is_shift_held' = is_shift_held \/ is_control_held' = is_control_held
    /\ UNCHANGED <<call, is_recording, line, typed, overshot>>

Syscall == StartRecording \/ StoreBuffer \/ Publish \/ Spin \/ Copy \/ EndRecording \/ Return
Handler == (\E k \in Letter : PressLetter(k)) \/ PressBackspace \/ PressEnter \/ Modifier

Next == Syscall \/ Handler

SafeSpec == Init /\ [][Next]_vars

(* The handler returns, so the system call goes on, and the user presses   *)
(* Enter again and again.                                                  *)
Spec ==
    /\ SafeSpec
    /\ WF_vars(StoreBuffer) /\ WF_vars(Publish) /\ WF_vars(Spin) /\ WF_vars(Copy)
    /\ WF_vars(EndRecording) /\ WF_vars(Return)
    /\ WF_vars(PressEnter)

-----------------------------------------------------------------------------

TypeOK ==
    /\ sys \in {"user", "vcalloc", "publish", "spin", "copy", "end", "vfree", "halted"}
    /\ size \in 0..MaxBuffer
    /\ is_shift_held \in BOOLEAN /\ is_control_held \in BOOLEAN
    /\ is_recording \in BOOLEAN /\ overshot \in BOOLEAN
    /\ pressed \in [Offset -> Char \cup {NUL}]
    /\ pressed_size \in 0..(Word - 1) /\ pressed_capacity \in 0..(Word - 1)
    /\ typed \in Seq(Char) /\ Len(typed) <= MaxTyped

(* The heap is not reentrant, and the handler uses it to enlarge the       *)
(* buffer: it cannot do so while the system call it interrupts is inside   *)
(* vcalloc or vfree.                                                       *)
HeapNotReentered ==
    [][pressed_capacity' > pressed_capacity /\ sys' = sys
       => sys \notin {"vcalloc", "vfree"}]_vars

(* However the keys fall between the steps of the system call, and however *)
(* often the buffer has been enlarged, the recording is the line as the    *)
(* user sees it, and it lies inside the buffer; unless Backspace was       *)
(* pressed on the empty line.                                              *)
RecordingIsTyped ==
    /\ TypeOK
    /\ sys \in {"spin", "copy", "end"} /\ ~overshot =>
          /\ pressed_size = Len(typed) /\ pressed_size <= pressed_capacity
          /\ \A i \in 1..Len(typed) : pressed[i - 1] = typed[i]

(* read returns the line that Enter ended, cut to the reader's buffer and  *)
(* followed by zeroes.                                                     *)
ReadReturnsLine ==
    sys \in {"end", "vfree"} /\ ~overshot =>
        result = [i \in 1..size |-> IF i <= Len(typed) THEN typed[i] ELSE NUL]

(* read returns if Enter is pressed again and again: an Enter that comes   *)
(* before the recording has started is lost, a later one is not.           *)
ReadReturns == sys # "user" ~> sys \in {"user", "halted"}

(* "if adding another element to list would be larger than capacity"       *)
(* (keyboard.c:119): the list of recorded keys is never larger than that.  *)
(* Backspace on an empty line does not keep this.                          *)
RecordingFits == is_recording => pressed_size <= pressed_capacity
=============================================================================
