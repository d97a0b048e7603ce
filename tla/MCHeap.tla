------------------------------- MODULE MCHeap -------------------------------
(* A page of 16 sections, laid out as in the code: the 2 bytes of bitmap   *)
(* and 128 bytes of sections leave one byte of 131, as 63 and 4032 bytes   *)
(* do of 4096.  The requests: a few bytes, and the most that a page of     *)
(* sections holds less one and exactly.  The search: every bitmap of ten   *)
(* bits, with two bits to a byte and four to a word, so that a run can     *)
(* begin inside a byte, span several bytes, and contain a word that is     *)
(* skipped.                                                                *)
EXTENDS Heap

MCRequest == {1, 112, 120}
=============================================================================
