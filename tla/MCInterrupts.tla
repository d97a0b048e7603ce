---------------------------- MODULE MCInterrupts ----------------------------
(* A line of the slave besides the timer's and the keyboard's, with the    *)
(* number of page faults; an exception without a code, whose number is     *)
(* that of the keyboard's line, and page faults, with a code.              *)
EXTENDS Interrupts
=============================================================================
