----------------------------- MODULE IconHistory -----------------------------
(***************************************************************************)
(* Refine with one history variable, which no action reads: the apps that  *)
(* a listing returned while another listing was still choosing their icon. *)
(* gs_app_has_icons(), the icon that is added and the mark that it came    *)
(* from the theme are three steps under no lock, and nothing keeps two     *)
(* listings from making one row at once.                                   *)
(***************************************************************************)
EXTENDS Refine

VARIABLE early

allVars == <<vars, early>>

HistoryInit == Init /\ early = {}

\* Another listing has found the app of l's row without an icon, and has not
\* finished that row.
Contested(l) ==
  \E m \in Listers \ {l} :
    lister[m].app = lister[l].app /\ lister[m].pc \in {"adding", "marking"}

ListerHistory(l) ==
  /\ ListerStep(l)
  /\ early' = IF lister'[l].pc = "idle" /\ Contested(l) THEN early \cup {lister[l].app} ELSE early

PassHistory(p) ==
  /\ RefineAsync(p) \/ PassStep(p) \/ Cancel(p)
  /\ UNCHANGED early

HistoryNext ==
  \/ \E p \in Passes : PassHistory(p)
  \/ \E l \in Listers : ListerHistory(l)

HistorySpec == HistoryInit /\ [][HistoryNext]_allVars

\* ... and what Spec assumes of the scheduling of the passes.
HistoryFairSpec == HistorySpec /\ Fairness

-------------------------------------------------------------------------------
\* An app whose icon came from the theme is not given the remote one as well,
\* however many listings and passes are at it, unless a listing returned it
\* while another one was still choosing its icon.
ThemedIconAlone == \A a \in Apps \ early : IconAlone(a)
===============================================================================
