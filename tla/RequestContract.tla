--------------------------- MODULE RequestContract ---------------------------
(***************************************************************************)
(* What an install or uninstall request promises its caller, with nothing  *)
(* of how the worker goes about it: the daemon's set of installed targets  *)
(* changes only by calls a live request was granted and only towards what  *)
(* that request asked for; no call follows a failed one; and a report of   *)
(* success means that all of it happened, one of failure that a call       *)
(* failed.  A caller who cancelled is told neither.                        *)
(***************************************************************************)
CONSTANTS Requests, Targets, CliTargets, LostReplies

VARIABLES
  installed,  \* the daemon's truth
  phase,      \* phase[r]: "idle", "running", or what was reported
  op,         \* op[r]: what is asked
  want,       \* want[r]: of which targets
  applied,    \* applied[r]: the targets granted so far
  failed      \* failed[r]: a call was refused, or its reply lost

requestVars == <<phase, op, want, applied, failed>>
vars == <<installed, requestVars>>

Ended == {"success", "failed", "cancelled"}

Init ==
  /\ installed \in SUBSET Targets
  /\ phase = [r \in Requests |-> "idle"]
  /\ op = [r \in Requests |-> "install"]
  /\ want = [r \in Requests |-> {}]
  /\ applied = [r \in Requests |-> {}]
  /\ failed = [r \in Requests |-> FALSE]

Begin(r) ==
  /\ phase[r] = "idle"
  /\ phase' = [phase EXCEPT ![r] = "running"]
  /\ \E o \in {"install", "uninstall"} : op' = [op EXCEPT ![r] = o]
  /\ \E T \in SUBSET Targets : want' = [want EXCEPT ![r] = T]
  /\ UNCHANGED <<installed, applied, failed>>

Grant(r) ==
  /\ phase[r] = "running" /\ ~failed[r]
  /\ \E T \in SUBSET want[r] :
       /\ applied' = [applied EXCEPT ![r] = @ \cup T]
       /\ installed' = IF op[r] = "install" THEN installed \cup T ELSE installed \ T
  /\ \E lost \in {FALSE, LostReplies} : failed' = [failed EXCEPT ![r] = lost]
  /\ UNCHANGED <<phase, op, want>>

Refuse(r) ==
  /\ phase[r] = "running" /\ ~failed[r]
  /\ failed' = [failed EXCEPT ![r] = TRUE]
  /\ UNCHANGED <<installed, phase, op, want, applied>>

End(r) ==
  /\ phase[r] = "running"
  /\ failed[r] \/ applied[r] = want[r]
  /\ \E outcome \in {"cancelled", IF failed[r] THEN "failed" ELSE "success"} :
       phase' = [phase EXCEPT ![r] = outcome]
  /\ UNCHANGED <<installed, op, want, applied, failed>>

Outside(t) ==
  /\ installed' = IF t \in installed THEN installed \ {t} ELSE installed \cup {t}
  /\ UNCHANGED requestVars

Next ==
  \/ \E r \in Requests : Begin(r) \/ Grant(r) \/ Refuse(r) \/ End(r)
  \/ \E t \in CliTargets : Outside(t)

Spec == Init /\ [][Next]_vars
===============================================================================
