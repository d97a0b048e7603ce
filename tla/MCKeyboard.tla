----------------------------- MODULE MCKeyboard -----------------------------
(* One letter, which gives two characters, one of which halts the system   *)
(* with control.  A line of up to three characters outgrows its first      *)
(* buffer twice, the reader's buffer is shorter or longer than it, and     *)
(* Backspace reaches two bytes in front of it.                             *)
EXTENDS Keyboard

MCShifted(c) == "M"
=============================================================================
