-------------------------------- MODULE GsApp --------------------------------
(***************************************************************************)
(* The part of GNOME Software's GsApp every worker of the plugin shares:   *)
(* its state.  gs_app_set_state() belongs to GNOME Software; it is an      *)
(* atomic setter that may refuse a transition, which the plugin neither    *)
(* checks nor relies on.                                                   *)
(***************************************************************************)
CONSTANT Refused   \* the <<from, to>> transitions gs_app_set_state() refuses

AppState == {"UNKNOWN", "AVAILABLE", "INSTALLED", "UPDATABLE_LIVE",
             "PENDING_INSTALL", "INSTALLING", "REMOVING",
             "QUEUED_FOR_INSTALL", "PURCHASING", "DOWNLOADING"}

\* gs_modulix_state_is_transient(): states a listing must leave alone.
IsTransient(s) == s \in {"INSTALLING", "REMOVING", "QUEUED_FOR_INSTALL",
                         "PURCHASING", "DOWNLOADING"}

\* The two transient states this plugin sets itself.
InFlight == {"INSTALLING", "REMOVING"}

SetState(old, new) == IF <<old, new>> \in Refused THEN old ELSE new

\* What the plugin needs of GNOME Software's transition table: an operation
\* in flight can be ended either way, whatever else is refused.
ASSUME RefusedAssumption ==
  \A s \in InFlight : \A t \in {"INSTALLED", "AVAILABLE"} : <<s, t>> \notin Refused
===============================================================================
