---------------------------- MODULE SystemUpdate ----------------------------
(***************************************************************************)
(* The "Modulix OS" row (gs-modulix-update.c): listing workers that show   *)
(* what the daemon already knows, refresh workers that make it look for an *)
(* update, and update runs, all writing the one GsApp and the one memo of  *)
(* the last check.                                                         *)
(*                                                                         *)
(* Upstream revisions are numbered; an update is available while the       *)
(* latest one is not the one applied.  A reply of ListOutdatedInputs is    *)
(* the revision its rows describe, 0 when it has no row.                   *)
(***************************************************************************)
EXTENDS GsApp, Naturals

CONSTANTS
  Workers,     \* worker threads of list_apps and refresh_metadata
  Runs,        \* update_apps vfunc calls
  MaxRev,      \* bound on upstream revisions
  Transitive,  \* the revisions that move no direct input: no row tells them
  TTL,         \* MODULIX_CHECK_MEMO_TTL_US, in ticks
  CliUpdates,  \* whether `nixos-rebuild` is run in a terminal
  LostReplies  \* whether an update the daemon applied may look failed

\* The states a run may leave the row in.
EndedState == {"UPDATABLE_LIVE", "INSTALLED", "PENDING_INSTALL"}

ASSUME UpdateAssumption ==
  /\ MaxRev \in Nat /\ Transitive \subseteq 1..MaxRev
  /\ TTL \in Nat \ {0}
  /\ CliUpdates \in BOOLEAN /\ LostReplies \in BOOLEAN
  /\ \A s \in EndedState : <<"INSTALLING", s>> \notin Refused

VARIABLES
  state,      \* the row's GsAppState
  quirk,      \* whether it carries GS_APP_QUIRK_NEEDS_REBOOT
  details,    \* its update details: the revision they describe, 0 when blank
  memo,       \* last_check_outdated, and the time since last_check_time
  listed,     \* whether the last listing showed the row
  work,       \* work[w]: what worker w is doing
  pc,         \* pc[r]: where run r is
  mode,       \* mode[r]: the UpdateSystem mode of its flags
  ending,     \* ending[r]: the state and quirk it is to leave the row in
  latest,     \* daemon and upstream: the newest revision
  applied,    \* ... the revision last applied
  inputs      \* ... the daemon's cached ListOutdatedInputs reply

rowVars == <<state, quirk, details>>
runVars == <<pc, mode, ending>>
daemonVars == <<latest, applied, inputs>>
vars == <<rowVars, memo, listed, work, runVars, daemonVars>>

Rev == 0..MaxRev
Job == {"none", "list", "check"}
WorkPC == {"idle", "checking", "reading", "memo", "judging", "state", "quirk", "details", "deciding"}
Mode == {"switch", "boot"}
RunPC == {"idle", "marking", "markingQuirk", "calling", "retiring", "asking", "ending",
          "endingQuirk", "done"}

UpdateTypeOK ==
  /\ state \in AppState
  /\ quirk \in BOOLEAN
  /\ details \in Rev
  /\ memo \in [outdated : BOOLEAN, age : 0..TTL]
  /\ listed \in BOOLEAN
  /\ work \in [Workers -> [pc : WorkPC, job : Job, rows : Rev, force : BOOLEAN]]
  /\ pc \in [Runs -> RunPC]
  /\ mode \in [Runs -> Mode]
  /\ ending \in [Runs -> [state : EndedState, quirk : BOOLEAN]]
  /\ latest \in Rev /\ applied \in Rev /\ inputs \in Rev

NoWork == [pc |-> "idle", job |-> "none", rows |-> 0, force |-> FALSE]

Init ==
  /\ state = "UNKNOWN" /\ quirk = FALSE /\ details = 0
  /\ memo = [outdated |-> FALSE, age |-> TTL]
  /\ listed = FALSE
  /\ work = [w \in Workers |-> NoWork]
  /\ pc = [r \in Runs |-> "idle"]
  /\ mode = [r \in Runs |-> "boot"]
  /\ ending = [r \in Runs |-> [state |-> "UPDATABLE_LIVE", quirk |-> FALSE]]
  /\ latest = 0 /\ applied = 0 /\ inputs = 0

Available == latest # applied

\* The rows of the diff between the applied and the latest lockfile.
Diff == IF Available /\ latest \notin Transitive THEN latest ELSE 0

-------------------------------------------------------------------------------
(* The memo of the last check: check_lock makes each access one step.      *)

\* Mutant: the memo never expires.
CheckMemoIgnoresAge == memo.outdated

CheckMemoIsOutdated == memo.outdated /\ memo.age < TTL
CheckMemoSet(outdated) == memo' = [outdated |-> outdated, age |-> 0]

-------------------------------------------------------------------------------
(* Workers: gs_modulix_update_list() and gs_modulix_update_check().        *)

Goto(w, label) == work' = [work EXCEPT ![w] = [@ EXCEPT !.pc = label]]

\* A worker that has dealt with the row: a listing decides whether to show it.
Dealt(w) == IF work[w].job = "list" THEN "deciding" ELSE "idle"

StartList(w) ==
  /\ work[w].pc = "idle"
  /\ work' = [work EXCEPT ![w] = [NoWork EXCEPT !.pc = "reading", !.job = "list"]]
  /\ UNCHANGED <<rowVars, memo, listed, runVars, daemonVars>>

StartRefresh(w) ==
  /\ work[w].pc = "idle"
  /\ work' = [work EXCEPT ![w] = [NoWork EXCEPT !.pc = "checking", !.job = "check"]]
  /\ UNCHANGED <<rowVars, memo, listed, runVars, daemonVars>>

\* CheckUpdate: the daemon resolves the latest revision and refills its cache
\* from the diff; a failed call says FALSE.
CheckUpdate(w) ==
  /\ work[w].pc = "checking"
  /\ \E answered \in BOOLEAN :
       /\ work' = [work EXCEPT ![w] =
            [@ EXCEPT !.pc = "reading", !.force = answered /\ Available]]
       /\ inputs' = IF answered THEN Diff ELSE inputs
  /\ UNCHANGED <<rowVars, memo, listed, runVars, latest, applied>>

\* ListOutdatedInputs(FALSE): the daemon's cached rows, none if the call fails.
ListOutdatedInputs(w) ==
  /\ work[w].pc = "reading"
  /\ \E rows \in {inputs, 0} :
       work' = [work EXCEPT ![w] = [@ EXCEPT !.pc = "memo", !.rows = rows]]
  /\ UNCHANGED <<rowVars, memo, listed, runVars, daemonVars>>

\* A check records its answer, a listing takes the last one while it is fresh.
UseMemo(w) ==
  /\ work[w].pc = "memo"
  /\ IF work[w].job = "check"
     THEN /\ CheckMemoSet(work[w].force)
          /\ Goto(w, "judging")
     ELSE /\ work' = [work EXCEPT ![w] =
               [@ EXCEPT !.pc = "judging", !.force = CheckMemoIsOutdated]]
          /\ UNCHANGED memo
  /\ UNCHANGED <<rowVars, listed, runVars, daemonVars>>

HasUpdates(w) == work[w].rows # 0 \/ work[w].force

\* Mutant: no early return for a row that waits for its reboot.
JudgeRowRewritesPending(w) ==
  /\ work[w].pc = "judging"
  /\ Goto(w, IF IsTransient(state) THEN "details" ELSE "state")
  /\ UNCHANGED <<rowVars, memo, listed, runVars, daemonVars>>

\* Mutant: such a row is taken for a transient one.
JudgeRowBlanksPending(w) ==
  /\ work[w].pc = "judging"
  /\ Goto(w, IF IsTransient(state) \/ state = "PENDING_INSTALL" THEN "details" ELSE "state")
  /\ UNCHANGED <<rowVars, memo, listed, runVars, daemonVars>>

\* update_app_apply() reads the row's state, and leaves a row that waits for
\* its reboot alone unless there is something newer.
JudgeRow(w) ==
  /\ work[w].pc = "judging"
  /\ Goto(w, IF state = "PENDING_INSTALL" /\ ~HasUpdates(w) THEN Dealt(w)
             ELSE IF IsTransient(state) THEN "details"
             ELSE "state")
  /\ UNCHANGED <<rowVars, memo, listed, runVars, daemonVars>>

\* update_set_state() of a worker is two writes, the state and the quirk ...
ApplyState(w) ==
  /\ work[w].pc = "state"
  /\ state' = SetState(state, IF HasUpdates(w) THEN "UPDATABLE_LIVE" ELSE "INSTALLED")
  /\ Goto(w, "quirk")
  /\ UNCHANGED <<quirk, details, memo, listed, runVars, daemonVars>>

\* Mutant: a quirk that is not asked for is left as it is.
ApplyQuirkOnlyAdds(w) ==
  /\ work[w].pc = "quirk"
  /\ Goto(w, "details")
  /\ UNCHANGED <<rowVars, memo, listed, runVars, daemonVars>>

ApplyQuirk(w) ==
  /\ work[w].pc = "quirk"
  /\ quirk' = FALSE
  /\ Goto(w, "details")
  /\ UNCHANGED <<state, details, memo, listed, runVars, daemonVars>>

\* ... then the details are rewritten, whatever the state.
ApplyDetails(w) ==
  /\ work[w].pc = "details"
  /\ details' = work[w].rows
  /\ Goto(w, Dealt(w))
  /\ UNCHANGED <<state, quirk, memo, listed, runVars, daemonVars>>

\* gs_modulix_update_list() reads the state again.
ListRow(w) ==
  /\ work[w].pc = "deciding"
  /\ listed' = (HasUpdates(w) \/ state = "PENDING_INSTALL")
  /\ Goto(w, "idle")
  /\ UNCHANGED <<rowVars, memo, runVars, daemonVars>>

-------------------------------------------------------------------------------
(* Update runs: gs_modulix_update_apps_async().                            *)

Mark(r, label) == pc' = [pc EXCEPT ![r] = label]

\* A NO_APPLY job is over at once; any other shows the row being installed,
\* from the main thread, where one run at a time is.
UpdateAppsAsync(r) ==
  /\ pc[r] = "idle" /\ listed
  /\ \A q \in Runs : pc[q] \notin {"marking", "markingQuirk"}
  /\ \E noApply \in BOOLEAN, m \in Mode :
       /\ Mark(r, IF noApply THEN "done" ELSE "marking")
       /\ mode' = [mode EXCEPT ![r] = m]
  /\ UNCHANGED <<rowVars, memo, listed, work, ending, daemonVars>>

MarkState(r) ==
  /\ pc[r] = "marking"
  /\ state' = SetState(state, "INSTALLING")
  /\ Mark(r, "markingQuirk")
  /\ UNCHANGED <<quirk, details, memo, listed, work, mode, ending, daemonVars>>

MarkQuirk(r) ==
  /\ pc[r] = "markingQuirk"
  /\ quirk' = FALSE
  /\ Mark(r, "calling")
  /\ UNCHANGED <<state, details, memo, listed, work, mode, ending, daemonVars>>

EndAs(r, s, q) == ending' = [ending EXCEPT ![r] = [state |-> s, quirk |-> q]]

\* Mutant: a failed update returns its error and leaves the row as it is.
UpdateSystemNoRevert(r) ==
  /\ pc[r] = "calling"
  /\ \/ /\ applied' = latest /\ inputs' = 0
        /\ Mark(r, "retiring")
        /\ UNCHANGED latest
     \/ /\ Mark(r, "done")
        /\ UNCHANGED daemonVars
  /\ UNCHANGED <<rowVars, memo, listed, work, mode, ending>>

\* UpdateSystem re-resolves and applies the latest revision, which empties the
\* daemon's cache of outdated inputs, or fails.  A reply that is lost looks
\* like a failure.
UpdateSystem(r) ==
  /\ pc[r] = "calling"
  /\ \E done \in BOOLEAN, heard \in {TRUE, ~LostReplies} :
       /\ IF done
          THEN applied' = latest /\ inputs' = 0
          ELSE UNCHANGED <<applied, inputs>>
       /\ IF done /\ heard
          THEN Mark(r, "retiring") /\ UNCHANGED ending
          ELSE Mark(r, "ending") /\ EndAs(r, "UPDATABLE_LIVE", FALSE)
  /\ UNCHANGED <<rowVars, memo, listed, work, mode, latest>>

\* Mutant: the memo outlives the update it announced.
RetireMemoForgotten(r) ==
  /\ pc[r] = "retiring"
  /\ IF mode[r] = "switch"
     THEN Mark(r, "asking") /\ UNCHANGED ending
     ELSE Mark(r, "ending") /\ EndAs(r, "PENDING_INSTALL", TRUE)
  /\ UNCHANGED <<rowVars, memo, listed, work, mode, daemonVars>>

RetireMemo(r) ==
  /\ pc[r] = "retiring"
  /\ CheckMemoSet(FALSE)
  /\ IF mode[r] = "switch"
     THEN Mark(r, "asking") /\ UNCHANGED ending
     ELSE Mark(r, "ending") /\ EndAs(r, "PENDING_INSTALL", TRUE)
  /\ UNCHANGED <<rowVars, listed, work, mode, daemonVars>>

\* Mutant: when RebootRequired fails the run is given up.
RebootRequiredGivesUp(r) ==
  /\ pc[r] = "asking"
  /\ \E answered, reboot \in BOOLEAN :
       /\ EndAs(r, "INSTALLED", reboot)
       /\ Mark(r, IF answered THEN "ending" ELSE "done")
  /\ UNCHANGED <<rowVars, memo, listed, work, mode, daemonVars>>

\* RebootRequired, after a switch; a failed call says FALSE.
RebootRequired(r) ==
  /\ pc[r] = "asking"
  /\ \E reboot \in BOOLEAN : EndAs(r, "INSTALLED", reboot)
  /\ Mark(r, "ending")
  /\ UNCHANGED <<rowVars, memo, listed, work, mode, daemonVars>>

EndState(r) ==
  /\ pc[r] = "ending"
  /\ state' = SetState(state, ending[r].state)
  /\ Mark(r, "endingQuirk")
  /\ UNCHANGED <<quirk, details, memo, listed, work, mode, ending, daemonVars>>

EndQuirk(r) ==
  /\ pc[r] = "endingQuirk"
  /\ quirk' = ending[r].quirk
  /\ Mark(r, "done")
  /\ UNCHANGED <<state, details, memo, listed, work, mode, ending, daemonVars>>

-------------------------------------------------------------------------------
(* The world outside.                                                      *)

Publish ==
  /\ latest < MaxRev
  /\ latest' = latest + 1
  /\ UNCHANGED <<rowVars, memo, listed, work, runVars, applied, inputs>>

CliUpdate ==
  /\ CliUpdates /\ Available
  /\ applied' = latest
  /\ UNCHANGED <<rowVars, memo, listed, work, runVars, latest, inputs>>

\* The daemon's own cache of rows has a lifetime (one hour) too.
InputsExpire ==
  /\ inputs' = Diff
  /\ UNCHANGED <<rowVars, memo, listed, work, runVars, latest, applied>>

\* Time passes; the age is not counted beyond the TTL.
Tick ==
  /\ memo.age < TTL
  /\ memo' = [memo EXCEPT !.age = @ + 1]
  /\ UNCHANGED <<rowVars, listed, work, runVars, daemonVars>>

-------------------------------------------------------------------------------
WorkStep(w) ==
  \/ CheckUpdate(w) \/ ListOutdatedInputs(w) \/ UseMemo(w) \/ JudgeRow(w)
  \/ ApplyState(w) \/ ApplyQuirk(w) \/ ApplyDetails(w) \/ ListRow(w)

RunStep(r) ==
  \/ MarkState(r) \/ MarkQuirk(r) \/ UpdateSystem(r) \/ RetireMemo(r)
  \/ RebootRequired(r) \/ EndState(r) \/ EndQuirk(r)

Next ==
  \/ \E w \in Workers : StartList(w) \/ StartRefresh(w) \/ WorkStep(w)
  \/ \E r \in Runs : UpdateAppsAsync(r) \/ RunStep(r)
  \/ Publish \/ CliUpdate \/ InputsExpire \/ Tick

\* Threads are scheduled and time passes; reads time out and the daemon ends
\* every write; the Updates page is listed now and then.
Fairness ==
  /\ \A w \in Workers : WF_vars(WorkStep(w)) /\ SF_vars(StartList(w))
  /\ \A r \in Runs : WF_vars(RunStep(r))
  /\ WF_vars(Tick) /\ WF_vars(InputsExpire)

Spec == Init /\ [][Next]_vars /\ Fairness

-------------------------------------------------------------------------------
(* Properties.                                                             *)

\* r has marked the row and has not yet left it in a state of its own.
InFlightRun(r) ==
  pc[r] \in {"markingQuirk", "calling", "retiring", "asking", "ending"}

\* The row shows an update being installed only while a run is at it, also
\* when two runs overlap and whatever listings and checks write meanwhile.
InstallingHasRun == state = "INSTALLING" => \E r \in Runs : InFlightRun(r)

\* Every run ends with the row no longer shown as being installed.
InstallingEnds == (state = "INSTALLING") ~> (state # "INSTALLING")

\* When revisions stop coming and the latest is applied, in or outside GNOME
\* Software, the row stops offering an update: the memo of a check does not
\* force it back on forever (the reason the memo has a TTL).
StaleUpdateGoes ==
  (<>[](~Available)) => <>[](state # "UPDATABLE_LIVE")

\* No thread is between the two writes of an update_set_state().
NoHalfWrite ==
  /\ \A w \in Workers : work[w].pc # "quirk"
  /\ \A r \in Runs : pc[r] \notin {"markingQuirk", "endingQuirk"}

QuirkFits ==
  /\ state = "PENDING_INSTALL" => quirk
  /\ quirk => state \in {"PENDING_INSTALL", "INSTALLED"}

\* What the header of update_set_state() has in mind: the reboot quirk goes
\* with the state.  Two threads that write the row at once break it.
QuirkAlwaysFits == NoHalfWrite => QuirkFits
===============================================================================
