---------------------------- MODULE MCIconHistory ----------------------------
(***************************************************************************)
(* Two passes and a listing (OverlapJobs), or a pass and two listings,     *)
(* over the rows the listings make.                                        *)
(***************************************************************************)
EXTENDS IconHistory, MCRefine

IconJobs == [p \in {p1} |-> {Details, Search}]
===============================================================================
