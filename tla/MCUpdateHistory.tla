--------------------------- MODULE MCUpdateHistory ---------------------------
(***************************************************************************)
(* Runs are alike: states that differ by their names are one, as only      *)
(* safety is asked.                                                        *)
(***************************************************************************)
EXTENDS UpdateHistory, TLC

RunSymmetry == Permutations(Runs)
===============================================================================
