---------------------------- MODULE UpdateHistory ----------------------------
(***************************************************************************)
(* SystemUpdate with three history variables, which no action reads: who   *)
(* wrote the row last, and who was overtaken.  Jobs overlap as they like,  *)
(* so what a job learnt may be out of date when it acts on it.  A holder   *)
(* of an answer is overtaken when the update it tells of is applied; a job *)
(* that is past its look at the row, when a run ends with a restart due.   *)
(* The properties say that only these can spoil the row or the memo.       *)
(***************************************************************************)
EXTENDS SystemUpdate

VARIABLES
  stateBy,    \* the thread whose write of the row's state came last
  quirkBy,    \* the thread whose write of its quirk came last
  overtaken   \* the overtaken jobs, the memo and the daemon's cache with them

historyVars == <<stateBy, quirkBy, overtaken>>
allVars == <<vars, historyVars>>

ASSUME HistoryAssumption ==
  /\ Workers \cap Runs = {}
  /\ {"nobody", "memo", "inputs"} \cap (Workers \cup Runs) = {}

HistoryInit == Init /\ stateBy = "nobody" /\ quirkBy = "nobody" /\ overtaken = {}

-------------------------------------------------------------------------------
Overtake(holders) == overtaken' = overtaken \cup holders
Renew(holders) == overtaken' = overtaken \ holders

\* A refused change of state is not a write.
WroteState(who, new) == stateBy' = IF <<state, new>> \in Refused THEN stateBy ELSE who

\* The workers that hold an answer of the daemon, or the memo's.
Informed == {w \in Workers : HasUpdates(w)}

\* The daemon's cache was filled from the present diff.
InputsRenewed == IF inputs' = Diff THEN Renew({"inputs"}) ELSE UNCHANGED overtaken

\* What a worker reads from something overtaken is overtaken, and so is the
\* memo's answer between an update applied and its retirement.
Reads(w) ==
  Overtake(IF \/ work[w].pc = "reading" /\ work'[w].rows # 0 /\ "inputs" \in overtaken
              \/ /\ work[w].pc = "memo" /\ work'[w].force
                 /\ "memo" \in overtaken \/ \E r \in Runs : pc[r] = "retiring"
           THEN {w} ELSE {})

\* A check records what it was told; out of date if it was overtaken since.
Records(w) == IF w \in overtaken THEN Overtake({"memo"}) ELSE Renew({"memo"})

\* r had the latest revision applied.  Unless it hears so, it will not retire
\* the memo.
Applies(r) ==
  IF applied' # applied
  THEN Overtake(Informed \cup IF pc'[r] = "retiring" THEN {} ELSE {"memo"})
  ELSE UNCHANGED overtaken

\* r left the row waiting for a restart: workers that looked at it earlier and
\* runs that marked it earlier do not know.
EndsPending(r) ==
  IF state' = "PENDING_INSTALL"
  THEN Overtake({w \in Workers : work[w].pc \in {"state", "quirk", "details"}}
                \cup {q \in Runs \ {r} : InFlightRun(q)})
  ELSE UNCHANGED overtaken

WorkHistory(w) ==
  \/ /\ StartList(w) \/ StartRefresh(w)
     /\ Renew({w}) /\ UNCHANGED <<stateBy, quirkBy>>
  \/ /\ CheckUpdate(w)
     /\ InputsRenewed /\ UNCHANGED <<stateBy, quirkBy>>
  \/ /\ ListOutdatedInputs(w)
     /\ Reads(w) /\ UNCHANGED <<stateBy, quirkBy>>
  \/ /\ UseMemo(w)
     /\ IF work[w].job = "check" THEN Records(w) ELSE Reads(w)
     /\ UNCHANGED <<stateBy, quirkBy>>
  \/ /\ ApplyState(w)
     /\ WroteState(w, IF HasUpdates(w) THEN "UPDATABLE_LIVE" ELSE "INSTALLED")
     /\ UNCHANGED <<quirkBy, overtaken>>
  \/ /\ ApplyQuirk(w)
     /\ quirkBy' = w /\ UNCHANGED <<stateBy, overtaken>>
  \/ /\ JudgeRow(w) \/ ApplyDetails(w) \/ ListRow(w)
     /\ UNCHANGED historyVars

RunHistory(r) ==
  \/ /\ MarkState(r)
     /\ WroteState(r, "INSTALLING") /\ UNCHANGED <<quirkBy, overtaken>>
  \/ /\ MarkQuirk(r) \/ EndQuirk(r)
     /\ quirkBy' = r /\ UNCHANGED <<stateBy, overtaken>>
  \/ /\ UpdateSystem(r)
     /\ Applies(r) /\ UNCHANGED <<stateBy, quirkBy>>
  \/ /\ RetireMemo(r)
     /\ Renew({"memo"}) /\ UNCHANGED <<stateBy, quirkBy>>
  \/ /\ EndState(r)
     /\ WroteState(r, ending[r].state) /\ EndsPending(r) /\ UNCHANGED quirkBy
  \/ /\ UpdateAppsAsync(r) \/ RebootRequired(r)
     /\ UNCHANGED historyVars

OutsideHistory ==
  \/ /\ CliUpdate
     /\ Overtake(Informed \cup {"memo", "inputs"}) /\ UNCHANGED <<stateBy, quirkBy>>
  \/ /\ InputsExpire
     /\ InputsRenewed /\ UNCHANGED <<stateBy, quirkBy>>
  \/ /\ Publish \/ Tick
     /\ UNCHANGED historyVars

HistoryNext ==
  \/ \E w \in Workers : WorkHistory(w)
  \/ \E r \in Runs : RunHistory(r)
  \/ OutsideHistory

HistorySpec == HistoryInit /\ [][HistoryNext]_allVars

-------------------------------------------------------------------------------
(* Properties.                                                             *)

\* An answer of CheckUpdate is retired by the update it announced: the memo is
\* set without an update only until the run that applied it comes to retire it,
\* or when it was recorded by a check that asked before, or when the plugin was
\* never told (a lost reply, an update from a terminal).
MemoRetired ==
  memo.outdated => \/ Available
                   \/ \E r \in Runs : pc[r] = "retiring"
                   \/ "memo" \in overtaken

\* The reboot quirk goes with the state (the header of update_set_state())
\* unless the writes of two threads crossed: what one thread left last, state
\* and quirk, fits.  And whoever crossed, a row asks for a restart, which turns
\* a later "Update" into a reboot, only if a run ended with one due.
QuirkGoesWithState ==
  /\ NoHalfWrite /\ stateBy = quirkBy => QuirkFits
  /\ quirk => \E r \in Runs : pc[r] = "done" /\ ending[r].quirk

\* A row that waits for a restart leaves that state for a run that starts on
\* it, or for an update that exists (the comment in update_app_apply()):
\* anything else was written by a job that had looked at the row before it
\* waited, or knew of an update that has been applied since.
PendingKept ==
  [][state = "PENDING_INSTALL" /\ state' # state =>
       \/ state' = "INSTALLING"
       \/ state' = "UPDATABLE_LIVE" /\ Available
       \/ stateBy' \in overtaken]_allVars

\* The row that offers the restart still says what the restart will activate:
\* only a worker that was overtaken, at the row already when it began to wait,
\* rewrites that.
RestartKeepsDetails ==
  [][state = "PENDING_INSTALL" /\ details' # details =>
       \E w \in overtaken \cap Workers : ApplyDetails(w)]_allVars
===============================================================================
