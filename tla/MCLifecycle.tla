----------------------------- MODULE MCLifecycle -----------------------------
(***************************************************************************)
(* Requests over a package, a module, a plugin of that module and an app   *)
(* of another plugin, alone or two at a time.                              *)
(***************************************************************************)
EXTENDS Lifecycle

CONSTANTS pkg, mod, plg, other,          \* apps
          tpkg, tmod, tplg, tother,      \* what they stand for
          m1, r1, r2

MCApps == {pkg, mod, plg, other}
MCTargets == {tpkg, tmod, tplg, tother}
OverlapApps == {mod, plg, other}
OverlapTargets == {tmod, tplg, tother}
MCKindOf == [a \in Apps |-> CASE a = pkg -> "package" [] a = mod -> "module"
                                [] a = plg -> "plugin"  [] a = other -> "foreign"]
MCTargetOf == [a \in Apps |-> CASE a = pkg -> tpkg [] a = mod -> tmod
                                  [] a = plg -> tplg [] a = other -> tother]
MCParentOf == [t \in {tplg} |-> m1]

BothOps(lists) == [op : {"install", "uninstall"}, list : lists]

\* A mixed batch with a foreign app in the middle, against the same apps listed
\* in the reverse of the order they are worked off in.  The operation of the
\* second is fixed: exchanging the two operations, and what is installed with
\* what is not, gives the other pairs.
OverlapJobs == [r \in {r1, r2} |->
  IF r = r1 THEN BothOps({<<mod, other, plg>>, <<other>>})
            ELSE [op : {"install"}, list : {<<plg, mod>>}]]

DisabledJobs == [r \in {r1} |-> BothOps({<<pkg, mod>>})]
PluginJobs == [r \in {r1} |-> BothOps({<<plg>>})]
PackagePluginJobs == [r \in {r1} |-> BothOps({<<pkg, plg>>})]
PackageJobs == [r \in {r1} |-> BothOps({<<pkg>>})]

\* A transition table that refuses to start an operation an app's state does
\* not call for.
StartRefused == {<<"AVAILABLE", "REMOVING">>, <<"INSTALLED", "INSTALLING">>,
                 <<"INSTALLING", "REMOVING">>, <<"REMOVING", "INSTALLING">>}

PackageQueries == {{tpkg, tmod}}
NoQueries == {}
===============================================================================
