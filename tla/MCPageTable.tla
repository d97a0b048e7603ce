---------------------------- MODULE MCPageTable -----------------------------
(* Two kernel pages in one PT, a third in the next PT of the same PDT, and *)
(* a program's page below another entry of the PML4, as in the address     *)
(* space of the kernel.  Six frames for tables: the pages need seven.  The *)
(* program's page has the address of the fourth frame.                     *)
EXTENDS PageTable, TLC

MCKernelPage == {<<1, 1, 1, 1>>, <<1, 1, 1, 2>>, <<1, 1, 2, 1>>}
MCUserPage == {<<2, 1, 1, 1>>}
MCLowAlias == [f \in {4} |-> <<2, 1, 1, 1>>]
PhysSymmetry == Permutations(Phys)
=============================================================================
