------------------------------ MODULE MCSettled ------------------------------
(***************************************************************************)
(* Two requests that share no app: an install of a mixed batch, in which   *)
(* two GsApp objects stand for one package, and an uninstall of a plugin.  *)
(* Each app is in the state the operation is offered for.                  *)
(***************************************************************************)
EXTENDS Lifecycle

CONSTANTS pkg, twin, mod, plg, plg2, old, tpkg, tmod, tplg, tplg2, told, m1, r1, r2

MCApps == {pkg, twin, mod, plg, plg2, old}
MCTargets == {tpkg, tmod, tplg, tplg2, told}
MCKindOf == [a \in MCApps |-> CASE a \in {pkg, twin} -> "package" [] a = mod -> "module"
                                [] a \in {plg, plg2, old} -> "plugin"]
MCTargetOf == [a \in MCApps |-> CASE a \in {pkg, twin} -> tpkg [] a = mod -> tmod
                                  [] a = plg -> tplg [] a = plg2 -> tplg2 [] a = old -> told]
MCParentOf == [t \in {tplg, tplg2, told} |-> m1]
MCJobs == [r \in {r1, r2} |->
  IF r = r1 THEN {[op |-> "install", list |-> <<plg, pkg, mod, plg2, twin>>]}
            ELSE {[op |-> "uninstall", list |-> <<old>>]}]
MCQueries == {}

\* A transition table with no way between the two settled states.
MCRefused == {<<"AVAILABLE", "INSTALLED">>, <<"INSTALLED", "AVAILABLE">>}

ASSUME SettledAssumption == Uncontended
===============================================================================
