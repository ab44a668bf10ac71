--------------------------- MODULE MCSystemUpdate ---------------------------
(***************************************************************************)
(* Two upstream revisions, the second of which moves no direct input, so   *)
(* that a check can find an update no row tells.                           *)
(***************************************************************************)
EXTENDS SystemUpdate

MCTransitive == {2}
===============================================================================
