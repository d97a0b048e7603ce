------------------------------- MODULE MCVmm --------------------------------
(* Six pages of addresses: their free blocks take up the three nodes of a  *)
(* page, as 128 free blocks do in the code, and a second page is added.    *)
EXTENDS Vmm
=============================================================================
