---------------------------- MODULE MCPluginsCache ----------------------------
(***************************************************************************)
(* Two workers, two modules with a plugin each: enough for two readers of  *)
(* one entry to create the marker at once, for a worker to fill one entry  *)
(* while the other reads the other, for a worker to lose the insertion     *)
(* race, for an invalidation to fall between any two steps, and for        *)
(* replies to differ.                                                      *)
(***************************************************************************)
EXTENDS CacheSections

CONSTANTS m1, m2, p1, p2

MCModules == {m1, m2}
MCPlugins == {p1, p2}
MCParentOf == [p \in MCPlugins |-> IF p = p1 THEN m1 ELSE m2]
===============================================================================
