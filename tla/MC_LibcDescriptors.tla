------------------------- MODULE MC_LibcDescriptors -------------------------
(***************************************************************************)
(* Two call sites and two variables; an analysis where every stub may fail *)
(* and one where none does.                                                *)
(***************************************************************************)
EXTENDS LibcDescriptors, TLC

CONSTANTS x, y
BothVariables == {x, y}
Swaps == Permutations(BothVariables)

NoOption == {{}}
ExtremeOptions == {{}, Stubs}
=============================================================================
