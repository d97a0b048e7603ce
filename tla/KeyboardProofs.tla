--------------------------- MODULE KeyboardProofs ---------------------------
(***************************************************************************)
(* Proofs about module Keyboard, for any letters, any first capacity of a  *)
(* recording, lines and buffers of any length: wherever the keyboard       *)
(* interrupts the read system call, the recording is the line as typed,    *)
(* read returns it, and the handler stays out of the heap while the system *)
(* call is in it.                                                          *)
(***************************************************************************)
EXTENDS Keyboard, SequenceTheorems, TLAPS

(* The handler records only while the system call waits for Enter.         *)
RecordsWhileSpinning == is_recording => sys \in {"spin", "halted"}

(* How far the recording reaches, in front of the line and behind it: a    *)
(* store of the handler is one of the offsets, and a buffer that has to be *)
(* enlarged is large enough afterwards.                                    *)
Reach ==
    /\ At(pressed_size) \in (-MaxBehind)..Len(typed)
    /\ pressed_capacity <= 2 * MaxTyped + Capacity
    /\ sys \in {"vcalloc", "publish"} => pressed_size = 0
    /\ sys \in {"vcalloc", "publish", "spin"} => pressed_capacity > 0

IInv == RecordsWhileSpinning /\ Reach /\ RecordingIsTyped /\ ReadReturnsLine

-----------------------------------------------------------------------------

LEMMA Sizes ==
    /\ Capacity \in Nat /\ Word \in Nat /\ MaxTyped \in Nat /\ MaxBehind \in Nat
    /\ MaxBuffer \in Nat
    /\ Capacity > 0 /\ Word > 0
    /\ 2 * (2 * MaxTyped + Capacity + MaxBehind) < Word
<1>1. Capacity \in Nat /\ Word \in Nat /\ MaxTyped \in Nat /\ MaxBehind \in Nat
      /\ MaxBuffer \in Nat
  BY SizeAssumption
<1> QED BY <1>1, SizeAssumption

(* pressed_size + 1 in 64 bits is one byte further, also from -1 to 0.     *)
LEMMA OneFurther ==
    ASSUME NEW s \in 0..(Word - 1), At(s) \in (-MaxBehind)..(MaxTyped - 1)
    PROVE  /\ (s + 1) % Word \in 0..(Word - 1)
           /\ At((s + 1) % Word) = At(s) + 1
           /\ At(s) >= 0 => s = At(s) /\ (s + 1) % Word = s + 1
<1> USE Sizes
<1>1. CASE s + 1 < Word
  <2>1. (s + 1) % Word = s + 1
    BY <1>1
  <2> QED BY <1>1, <2>1 DEF At
<1>2. CASE s + 1 = Word
  <2>1. Word % Word = 0
    OBVIOUS
  <2> QED BY <1>2, <2>1 DEF At
<1> QED BY <1>1, <1>2

(* --pressed_size in 64 bits is one byte back, also from 0 to -1.          *)
LEMMA OneBack ==
    ASSUME NEW s \in 0..(Word - 1), At(s) \in (1 - MaxBehind)..MaxTyped
    PROVE  /\ (s + Word - 1) % Word \in 0..(Word - 1)
           /\ At((s + Word - 1) % Word) = At(s) - 1
           /\ At(s) > 0 => s = At(s) /\ (s + Word - 1) % Word = s - 1
<1> USE Sizes
<1>1. CASE s = 0
  <2>1. (Word - 1) % Word = Word - 1
    OBVIOUS
  <2> QED BY <1>1, <2>1 DEF At
<1>2. CASE s > 0
  <2>1. (s - 1 + Word) % Word = s - 1
    BY <1>2
  <2>2. s - 1 + Word = s + Word - 1
    OBVIOUS
  <2> QED BY <1>2, <2>1, <2>2 DEF At
<1> QED BY <1>1, <1>2

(* The bytes the handler stores at are among the offsets.                  *)
LEMMA InBuffer ==
    ASSUME IInv
    PROVE  /\ At(pressed_size) \in Offset
           /\ At(pressed_size) > -MaxBehind => At(pressed_size) - 1 \in Offset
           /\ typed \in Seq(Char) /\ Len(typed) \in Nat /\ Len(typed) <= MaxTyped
BY Sizes DEF IInv, Reach, RecordingIsTyped, TypeOK, Offset

LEMMA InitIInv == Init => IInv
<1> SUFFICES ASSUME Init PROVE IInv
  OBVIOUS
<1> USE Sizes DEF Init
<1>1. At(0) = 0
  BY DEF At
<1>2. Blank \in [Offset -> Char \cup {NUL}]
  BY DEF Blank
<1>3. typed \in Seq(Char) /\ Len(typed) = 0
  OBVIOUS
<1>4. 0 \in 0..MaxBuffer /\ 0 \in 0..(Word - 1) /\ Len(typed) <= MaxTyped
  BY <1>3
<1>5. TypeOK
  BY <1>2, <1>3, <1>4, Zenon DEF TypeOK
<1> QED BY <1>1, <1>3, <1>5 DEF IInv, RecordsWhileSpinning, Reach, RecordingIsTyped, ReadReturnsLine

-----------------------------------------------------------------------------

(* The steps of the system call.                                           *)
LEMMA SyscallIInv ==
    ASSUME IInv, Syscall
    PROVE  IInv'
<1> USE Sizes DEF IInv, keys, line, call
<1>0. TypeOK
  BY DEF RecordingIsTyped
<1>1. At(0) = 0
  BY DEF At
<1>2. CASE StartRecording
  <2>1. TypeOK'
    BY <1>0, <1>2 DEF StartRecording, TypeOK
  <2> QED
    BY <1>0, <1>1, <1>2, <2>1, InBuffer
    DEF StartRecording, RecordsWhileSpinning, Reach, RecordingIsTyped, ReadReturnsLine
<1>3. CASE StoreBuffer
  <2>1. Blank \in [Offset -> Char \cup {NUL}]
    BY DEF Blank
  <2>2. TypeOK'
    BY <1>0, <1>3, <2>1 DEF StoreBuffer, TypeOK
  <2> QED
    BY <1>3, <2>2
    DEF StoreBuffer, RecordsWhileSpinning, Reach, RecordingIsTyped, ReadReturnsLine
<1>4. CASE Publish
  <2>1. typed' \in Seq(Char) /\ Len(typed') = 0
    BY <1>4 DEF Publish
  <2>0. Len(typed') <= MaxTyped
    BY <2>1
  <2>2. TypeOK'
    BY <1>0, <1>4, <2>0, <2>1, Zenon DEF Publish, TypeOK
  <2>3. Reach'
    BY <1>1, <1>4, <2>1 DEF Publish, Reach, At
  <2> QED
    BY <1>0, <1>4, <2>1, <2>2, <2>3
    DEF Publish, RecordsWhileSpinning, Reach, RecordingIsTyped, ReadReturnsLine, TypeOK
<1>5. CASE Spin
  <2>1. TypeOK'
    BY <1>0, <1>5 DEF Spin, TypeOK
  <2> QED
    BY <1>5, <2>1
    DEF Spin, RecordsWhileSpinning, Reach, RecordingIsTyped, ReadReturnsLine
<1>6. CASE Copy
  <2>1. TypeOK'
    BY <1>0, <1>6 DEF Copy, TypeOK
  <2>2. ASSUME ~overshot
        PROVE  result' = [i \in 1..size |-> IF i <= Len(typed) THEN typed[i] ELSE NUL]
    <3>1. pressed_size = Len(typed) /\ \A i \in 1..Len(typed) : pressed[i - 1] = typed[i]
      BY <1>6, <2>2 DEF Copy, RecordingIsTyped
    <3>2. ASSUME NEW i \in 1..size
          PROVE  (IF i <= pressed_size
                  THEN IF i - 1 \in Offset THEN pressed[i - 1] ELSE "beyond"
                  ELSE NUL) = (IF i <= Len(typed) THEN typed[i] ELSE NUL)
      <4>1. i \in Nat /\ i >= 1 /\ Len(typed) \in Nat /\ Len(typed) <= MaxTyped
        BY <1>0, InBuffer DEF TypeOK
      <4>2. i <= Len(typed) => i - 1 \in Offset
        BY <4>1 DEF Offset
      <4> QED BY <3>1, <4>1, <4>2
    <3> QED BY <1>6, <3>2 DEF Copy
  <2> QED
    BY <1>6, <2>1, <2>2
    DEF Copy, RecordsWhileSpinning, Reach, RecordingIsTyped, ReadReturnsLine
<1>7. CASE EndRecording
  <2>1. TypeOK'
    BY <1>0, <1>7 DEF EndRecording, TypeOK
  <2> QED
    BY <1>1, <1>7, <2>1, InBuffer
    DEF EndRecording, RecordsWhileSpinning, Reach, RecordingIsTyped, ReadReturnsLine
<1>8. CASE Return
  <2>1. TypeOK'
    BY <1>0, <1>8, Zenon DEF Return, TypeOK
  <2> QED
    BY <1>8, <2>1
    DEF Return, RecordsWhileSpinning, Reach, RecordingIsTyped, ReadReturnsLine
<1> QED BY <1>2, <1>3, <1>4, <1>5, <1>6, <1>7, <1>8 DEF Syscall

LEMMA HaltIInv ==
    ASSUME IInv, Halt
    PROVE  IInv'
<1> USE DEF IInv, keys, line, call
<1>1. TypeOK'
  BY DEF RecordingIsTyped, TypeOK, Halt
<1> QED BY <1>1 DEF Halt, RecordsWhileSpinning, Reach, RecordingIsTyped, ReadReturnsLine

(* A character is recorded: the buffer has been enlarged if it was full,   *)
(* and holds what it held and the character behind it.                     *)
LEMMA RecordIInv ==
    ASSUME IInv, is_recording, Running, NEW c \in Char, Record(c)
    PROVE  IInv'
<1> USE SMTT(30)
<1> USE Sizes DEF IInv, keys, line, call
<1> DEFINE grow == (pressed_size + 1) % Word > pressed_capacity
           old  == IF grow THEN [o \in Offset |-> IF o \in 0..(pressed_size - 1)
                                                  THEN pressed[o] ELSE NUL]
                   ELSE pressed
<1>0. TypeOK /\ sys = "spin"
  BY DEF RecordingIsTyped, RecordsWhileSpinning, Running
<1>1. CASE Halt
  BY <1>1, HaltIInv
<1>2. CASE /\ ~(grow /\ At(pressed_size) < 0)
           /\ Len(typed) < MaxTyped
           /\ pressed_capacity' = IF grow THEN 2 * pressed_capacity ELSE pressed_capacity
           /\ pressed' = [old EXCEPT ![At(pressed_size)] = c]
           /\ pressed_size' = (pressed_size + 1) % Word
           /\ typed' = Append(typed, c)
           /\ UNCHANGED <<call, keys, is_recording, overshot>>
  <2> DEFINE s == pressed_size
  <2>0. /\ s' > pressed_capacity => ~(At(s) < 0)
        /\ Len(typed) < MaxTyped
        /\ pressed_capacity' = IF s' > pressed_capacity THEN 2 * pressed_capacity
                               ELSE pressed_capacity
    BY <1>2, Zenon
  <2>1. s \in 0..(Word - 1) /\ At(s) \in (-MaxBehind)..(MaxTyped - 1) /\ At(s) <= Len(typed)
    BY <1>0, <1>2, InBuffer DEF TypeOK, Reach
  <2>2. /\ s' \in 0..(Word - 1) /\ At(s') = At(s) + 1
        /\ At(s) >= 0 => s = At(s) /\ s' = s + 1
    BY <1>2, <2>1, OneFurther
  <2>3. /\ typed' \in Seq(Char) /\ Len(typed') = Len(typed) + 1
        /\ \A i \in 1..Len(typed) : typed'[i] = typed[i]
        /\ typed'[Len(typed) + 1] = c
    BY <1>2, InBuffer
  <2>4. pressed_capacity \in Nat /\ pressed_capacity <= 2 * MaxTyped + Capacity /\ pressed_capacity > 0
    BY <1>0 DEF TypeOK, Reach
  <2>5. s' > pressed_capacity => pressed_capacity < s + 1 /\ s + 1 <= MaxTyped
    BY <2>0, <2>1, <2>2, <2>4
  <2>6. /\ pressed_capacity' \in Nat /\ pressed_capacity' > 0
        /\ pressed_capacity' <= 2 * MaxTyped + Capacity
    BY <2>0, <2>1, <2>2, <2>4, <2>5
  <2>7. old \in [Offset -> Char \cup {NUL}]
    <3>1. pressed \in [Offset -> Char \cup {NUL}]
      BY <1>0 DEF TypeOK
    <3> QED BY <3>1, Zenon
  <2>8. At(s) \in Offset
    BY InBuffer
  <2>9. pressed' \in [Offset -> Char \cup {NUL}]
    <3> HIDE DEF old
    <3> QED BY <1>2, <2>7, Zenon
  <2>10. TypeOK'
    <3>1. Len(typed') <= MaxTyped
      BY <1>2, <2>3, InBuffer
    <3>2. pressed_capacity' \in 0..(Word - 1)
      BY <2>6
    <3> HIDE DEF old, grow
    <3> QED BY <1>0, <1>2, <2>2, <2>3, <2>9, <3>1, <3>2, Zenon DEF TypeOK
  <2>11. RecordsWhileSpinning' /\ ReadReturnsLine'
    BY <1>0, <1>2 DEF RecordsWhileSpinning, ReadReturnsLine
  <2>12. Reach'
    <3>1. At(s') \in (-MaxBehind)..Len(typed')
      BY <2>1, <2>2, <2>3, InBuffer
    <3> QED BY <1>0, <1>2, <2>6, <3>1 DEF Reach
  <2>13. RecordingIsTyped'
    <3> SUFFICES ASSUME ~overshot
                 PROVE  /\ s' = Len(typed') /\ s' <= pressed_capacity'
                        /\ \A i \in 1..Len(typed') : pressed'[i - 1] = typed'[i]
      BY <1>2, <2>10, Zenon DEF RecordingIsTyped
    <3>1. /\ s = Len(typed) /\ s <= pressed_capacity
          /\ \A i \in 1..Len(typed) : pressed[i - 1] = typed[i]
      BY <1>0 DEF RecordingIsTyped
    <3>2. At(s) = s /\ s' = s + 1 /\ s \in Nat
      BY <2>0, <2>1, <2>2, <3>1 DEF At
    <3>3. s' <= pressed_capacity'
      BY <2>0, <2>4, <3>1, <3>2
    <3>4. ASSUME NEW i \in 1..Len(typed') PROVE pressed'[i - 1] = typed'[i]
      <4>1. CASE i = Len(typed) + 1
        <5>1. i - 1 = At(s) /\ At(s) \in Offset
          BY <2>8, <3>1, <3>2, <4>1, InBuffer
        <5>2. pressed'[At(s)] = c
          <6> HIDE DEF old
          <6> QED BY <1>2, <2>7, <2>8
        <5> QED BY <2>3, <4>1, <5>1, <5>2
      <4>2. CASE i \in 1..Len(typed)
        <5>1. i - 1 # At(s) /\ i - 1 \in Offset /\ i - 1 \in 0..(s - 1)
          BY <3>1, <3>2, <4>2, InBuffer DEF Offset
        <5>2. old[i - 1] = pressed[i - 1]
          BY <5>1, Zenon
        <5>3. pressed'[i - 1] = old[i - 1]
          <6> HIDE DEF old
          <6> QED BY <1>2, <2>7, <5>1
        <5> QED BY <2>3, <3>1, <4>2, <5>2, <5>3
      <4> QED BY <2>3, <4>1, <4>2, InBuffer
    <3> QED BY <2>3, <3>1, <3>2, <3>3, <3>4
  <2> QED BY <2>11, <2>12, <2>13
<1> QED BY <1>1, <1>2, Zenon DEF Record

(* Backspace takes the last character off the line and off the recording.  *)
LEMMA BackspaceIInv ==
    ASSUME IInv, PressBackspace
    PROVE  IInv'
<1> USE Sizes DEF IInv, keys, line, call, PressBackspace
<1> DEFINE s == pressed_size
<1>0. TypeOK /\ sys = "spin"
  BY DEF RecordingIsTyped, RecordsWhileSpinning, Running
<1>1. /\ s \in 0..(Word - 1) /\ At(s) \in (1 - MaxBehind)..MaxTyped /\ At(s) <= Len(typed)
      /\ typed \in Seq(Char) /\ Len(typed) \in Nat /\ Len(typed) <= MaxTyped
  BY <1>0, InBuffer DEF TypeOK, Reach
<1>2. /\ s' \in 0..(Word - 1) /\ At(s') = At(s) - 1
      /\ At(s) > 0 => s = At(s) /\ s' = s - 1
  BY <1>1, OneBack
<1>3. /\ typed' \in Seq(Char)
      /\ Len(typed') = IF typed = <<>> THEN 0 ELSE Len(typed) - 1
      /\ \A i \in 1..Len(typed') : typed'[i] = typed[i]
  <2>1. CASE typed = <<>>
    <3>1. typed' = <<>>
      BY <2>1
    <3> QED BY <2>1, <3>1
  <2>2. CASE typed # <<>>
    <3>1. Len(typed) >= 1
      BY <1>1, <2>2
    <3>2. \A i \in 1..(Len(typed) - 1) : typed[i] \in Char
      BY <1>1
    <3> DEFINE n == Len(typed) - 1
    <3>3. n \in Int /\ n >= 0 /\ \A i \in 1..n : typed[i] \in Char
      BY <1>1, <3>1, <3>2
    <3> HIDE DEF n
    <3>4. /\ SubSeq(typed, 1, n) \in Seq(Char)
          /\ Len(SubSeq(typed, 1, n)) = IF 1 <= n THEN n - 1 + 1 ELSE 0
          /\ \A i \in 1..(n - 1 + 1) : SubSeq(typed, 1, n)[i] = typed[1 + i - 1]
      BY <3>3, SubSeqProperties
    <3>5. typed' = SubSeq(typed, 1, n)
      BY DEF n
    <3>6. /\ typed' \in Seq(Char) /\ Len(typed') = n
          /\ \A i \in 1..n : typed'[i] = typed[i]
      BY <3>3, <3>4, <3>5
    <3> QED BY <2>2, <3>6 DEF n
  <2> QED BY <2>1, <2>2
<1>4. /\ pressed \in [Offset -> Char \cup {NUL}]
      /\ pressed' = [pressed EXCEPT ![At(s')] = NUL]
      /\ pressed' \in [Offset -> Char \cup {NUL}]
  BY <1>0, Zenon DEF TypeOK
<1>5. TypeOK'
  <2>1. Len(typed') <= MaxTyped
    BY <1>1, <1>3
  <2>2. overshot' \in BOOLEAN
    OBVIOUS
  <2> QED BY <1>0, <1>2, <1>3, <1>4, <2>1, <2>2, Zenon DEF TypeOK
<1>6. RecordsWhileSpinning' /\ ReadReturnsLine'
  BY <1>0 DEF RecordsWhileSpinning, ReadReturnsLine
<1>7. Reach'
  <2>1. At(s') \in (-MaxBehind)..Len(typed')
    BY <1>1, <1>2, <1>3
  <2> QED BY <1>0, <2>1 DEF Reach
<1>8. RecordingIsTyped'
  <2> SUFFICES ASSUME ~overshot'
               PROVE  /\ s' = Len(typed') /\ s' <= pressed_capacity'
                      /\ \A i \in 1..Len(typed') : pressed'[i - 1] = typed'[i]
    BY <1>5 DEF RecordingIsTyped
  <2>1. ~overshot /\ typed # <<>>
    BY Zenon
  <2>2. /\ s = Len(typed) /\ s <= pressed_capacity
        /\ \A i \in 1..Len(typed) : pressed[i - 1] = typed[i]
    BY <1>0, <2>1 DEF RecordingIsTyped
  <2>3. Len(typed) > 0
    BY <1>1, <2>1
  <2>4. At(s) = s
    BY <1>1, <2>2, <2>3 DEF At
  <2>5. s' = s - 1 /\ At(s') = s'
    BY <1>2, <2>2, <2>3, <2>4
  <2>6. ASSUME NEW i \in 1..Len(typed') PROVE pressed'[i - 1] = typed'[i]
    <3>1. i \in 1..Len(typed) /\ i - 1 # At(s') /\ i - 1 \in Offset
      BY <1>1, <1>3, <2>1, <2>2, <2>5 DEF Offset
    <3> QED BY <1>3, <1>4, <2>2, <3>1
  <2> QED BY <1>0, <1>1, <1>3, <2>1, <2>2, <2>5, <2>6, SMTT(30) DEF TypeOK
<1> QED BY <1>6, <1>7, <1>8

(* The keys of the handler.                                                *)
LEMMA HandlerIInv ==
    ASSUME IInv, Handler
    PROVE  IInv'
<1> USE DEF IInv, keys, line, call
<1>0. TypeOK
  BY DEF RecordingIsTyped
<1>1. ASSUME NEW k \in Letter, PressLetter(k) PROVE IInv'
  <2> DEFINE c == IF is_shift_held THEN Shifted(k) ELSE k
  <2>1. c \in Char
    BY DEF Char
  <2> HIDE DEF c
  <2>2. \/ Halt
        \/ is_recording /\ Record(c) /\ Running
    BY <1>1 DEF PressLetter, c
  <2> QED BY <2>1, <2>2, HaltIInv, RecordIInv
<1>2. CASE PressBackspace
  BY <1>2, BackspaceIInv
<1>3. CASE PressEnter
  <2>1. TypeOK'
    BY <1>0, <1>3, Zenon DEF PressEnter, TypeOK
  <2> QED
    BY <1>3, <2>1
    DEF PressEnter, RecordsWhileSpinning, Reach, RecordingIsTyped, ReadReturnsLine
<1>4. CASE Modifier
  <2>1. TypeOK'
    BY <1>0, <1>4, Zenon DEF Modifier, TypeOK
  <2> QED
    BY <1>4, <2>1
    DEF Modifier, RecordsWhileSpinning, Reach, RecordingIsTyped, ReadReturnsLine
<1> QED BY <1>1, <1>2, <1>3, <1>4 DEF Handler

LEMMA StepIInv == IInv /\ [Next]_vars => IInv'
<1> SUFFICES ASSUME IInv, [Next]_vars PROVE IInv'
  OBVIOUS
<1>1. CASE Syscall
  BY <1>1, SyscallIInv
<1>2. CASE Handler
  BY <1>2, HandlerIInv
<1>3. CASE UNCHANGED vars
  <2>1. TypeOK'
    BY <1>3 DEF IInv, RecordingIsTyped, TypeOK, vars, keys, line, call
  <2> QED
    BY <1>3, <2>1
    DEF IInv, RecordsWhileSpinning, Reach, RecordingIsTyped, ReadReturnsLine,
        vars, keys, line, call
<1> QED BY <1>1, <1>2, <1>3 DEF Next

LEMMA Inductive == SafeSpec => []IInv
BY InitIInv, StepIInv, PTL DEF SafeSpec

(* Wherever the handler interrupts the system call, the recording is the   *)
(* line as typed, and lies inside its buffer.                              *)
THEOREM Recorded == SafeSpec => []RecordingIsTyped
<1>1. IInv => RecordingIsTyped
  BY DEF IInv
<1> QED BY <1>1, Inductive, PTL

(* read returns the line that Enter ended, cut to the reader's buffer and  *)
(* followed by zeroes.                                                     *)
THEOREM LineReturned == SafeSpec => []ReadReturnsLine
<1>1. IInv => ReadReturnsLine
  BY DEF IInv
<1> QED BY <1>1, Inductive, PTL

(* Only the handler enlarges the buffer in a step that leaves the system   *)
(* call where it is, it does so only while it records, and then the system *)
(* call spins: it is not inside vcalloc or vfree.                          *)
THEOREM HeapSerial == SafeSpec => HeapNotReentered
<1> DEFINE Enlarging == pressed_capacity' > pressed_capacity /\ sys' = sys
<1>1. ASSUME IInv, [Next]_vars, Enlarging
      PROVE  sys \notin {"vcalloc", "vfree"}
  <2>0. pressed_capacity \in 0..(Word - 1) /\ pressed_capacity' # pressed_capacity
    BY <1>1, Sizes DEF IInv, RecordingIsTyped, TypeOK
  <2>1. ~Syscall
    BY <1>1 DEF Syscall, StartRecording, StoreBuffer, Publish, Spin, Copy, EndRecording, Return
  <2>2. \E k \in Letter : PressLetter(k)
    BY <1>1, <2>0, <2>1
    DEF Next, Handler, PressBackspace, PressEnter, Modifier, vars, line, call
  <2>3. sys # "halted" /\ (is_recording \/ Halt)
    BY <2>2 DEF PressLetter, Running
  <2>4. ~Halt
    BY <2>0 DEF Halt, line
  <2> QED BY <1>1, <2>3, <2>4 DEF IInv, RecordsWhileSpinning
<1>2. IInv /\ [Next]_vars => [Enlarging => sys \notin {"vcalloc", "vfree"}]_vars
  BY <1>1
<1> QED BY <1>2, Inductive, PTL DEF SafeSpec, HeapNotReentered
=============================================================================
