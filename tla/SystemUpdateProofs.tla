------------------------- MODULE SystemUpdateProofs -------------------------
(***************************************************************************)
(* Theorems about SystemUpdate, for any number of workers, runs and        *)
(* revisions, jobs that overlap as they like, and any transition table     *)
(* that lets a row being installed reach the states a run ends in          *)
(* (UpdateAssumption).                                                     *)
(***************************************************************************)
EXTENDS UpdateHistory, TLAPS

WorkRecord == [pc : WorkPC, job : Job, rows : Rev, force : BOOLEAN]

LEMMA StatesTyped ==
  /\ EndedState \subseteq AppState
  /\ "INSTALLING" \in AppState /\ "INSTALLING" \notin EndedState
  /\ \A old, new \in AppState : SetState(old, new) \in AppState
BY DEF EndedState, AppState, SetState

LEMMA DaemonTyped ==
  ASSUME UpdateTypeOK
  PROVE  Diff \in Rev /\ 0 \in Rev /\ Available \in BOOLEAN
BY UpdateAssumption DEF UpdateAssumption, UpdateTypeOK, Diff, Available, Rev

LEMMA MemoTyped ==
  ASSUME UpdateTypeOK
  PROVE  /\ CheckMemoIsOutdated \in BOOLEAN
         /\ \A b \in BOOLEAN : CheckMemoSet(b) => memo' \in [outdated : BOOLEAN, age : 0..TTL]
BY UpdateAssumption DEF UpdateAssumption, UpdateTypeOK, CheckMemoIsOutdated, CheckMemoSet

LEMMA RecordTyped ==
  ASSUME NEW rec \in WorkRecord, NEW label \in WorkPC
  PROVE  /\ \A n \in Rev : [rec EXCEPT !.pc = label, !.rows = n] \in WorkRecord
         /\ \A b \in BOOLEAN : [rec EXCEPT !.pc = label, !.force = b] \in WorkRecord
BY DEF WorkRecord

LEMMA GotoTyped ==
  ASSUME UpdateTypeOK, NEW w \in Workers, NEW label \in WorkPC, Goto(w, label)
  PROVE  work' \in [Workers -> WorkRecord]
<1>1. [work[w] EXCEPT !.pc = label] \in WorkRecord
  BY DEF UpdateTypeOK, WorkRecord
<1> QED
  BY <1>1 DEF Goto, UpdateTypeOK, WorkRecord

LEMMA EndAsTyped ==
  ASSUME UpdateTypeOK, NEW r \in Runs, NEW s \in EndedState, NEW q \in BOOLEAN, EndAs(r, s, q)
  PROVE  ending' \in [Runs -> [state : EndedState, quirk : BOOLEAN]]
BY DEF UpdateTypeOK, EndAs

LEMMA InitTyped == Init => UpdateTypeOK
<1> SUFFICES ASSUME Init PROVE UpdateTypeOK
  OBVIOUS
<1>1. 0 \in Rev /\ TTL \in 0..TTL
  BY UpdateAssumption DEF UpdateAssumption, Rev
<1>2. NoWork \in WorkRecord
  BY <1>1 DEF NoWork, WorkRecord, WorkPC, Job
<1>3. work \in [Workers -> WorkRecord]
  BY <1>2 DEF Init
<1>4. memo \in [outdated : BOOLEAN, age : 0..TTL]
  BY <1>1 DEF Init
<1>5. ending \in [Runs -> [state : EndedState, quirk : BOOLEAN]]
  BY DEF Init, EndedState
<1> QED
  BY <1>1, <1>3, <1>4, <1>5 DEF Init, UpdateTypeOK, WorkRecord, AppState, RunPC, Mode

LEMMA WorkStepTyped ==
  ASSUME UpdateTypeOK, NEW w \in Workers, StartList(w) \/ StartRefresh(w) \/ WorkStep(w)
  PROVE  UpdateTypeOK'
<1> USE DEF rowVars, runVars, daemonVars
<1>1. CASE StartList(w) \/ StartRefresh(w)
  <2>1. /\ [NoWork EXCEPT !.pc = "reading", !.job = "list"] \in WorkRecord
        /\ [NoWork EXCEPT !.pc = "checking", !.job = "check"] \in WorkRecord
    BY DaemonTyped DEF NoWork, WorkRecord, WorkPC, Job
  <2>2. work' \in [Workers -> WorkRecord]
    BY <1>1, <2>1 DEF StartList, StartRefresh, UpdateTypeOK, WorkRecord
  <2> QED
    BY <1>1, <2>2 DEF StartList, StartRefresh, UpdateTypeOK, WorkRecord
<1>2. CASE CheckUpdate(w)
  <2>1. PICK answered \in BOOLEAN :
          /\ work' = [work EXCEPT ![w] =
               [@ EXCEPT !.pc = "reading", !.force = answered /\ Available]]
          /\ inputs' = IF answered THEN Diff ELSE inputs
    BY <1>2 DEF CheckUpdate
  <2>2. PICK b \in BOOLEAN : b = (answered /\ Available)
    OBVIOUS
  <2>3. [work[w] EXCEPT !.pc = "reading", !.force = b] \in WorkRecord
    <3>1. work[w] \in WorkRecord /\ "reading" \in WorkPC
      BY DEF UpdateTypeOK, WorkRecord, WorkPC
    <3>2. b \in BOOLEAN
      BY <2>2
    <3> QED
      BY <3>1, <3>2, RecordTyped
  <2>4. work' \in [Workers -> WorkRecord]
    BY <2>1, <2>2, <2>3 DEF UpdateTypeOK, WorkRecord
  <2>5. inputs' \in Rev
    BY <2>1, DaemonTyped DEF UpdateTypeOK
  <2> QED
    BY <1>2, <2>4, <2>5 DEF CheckUpdate, UpdateTypeOK, WorkRecord
<1>3. CASE ListOutdatedInputs(w)
  <2>1. PICK rows \in {inputs, 0} :
          work' = [work EXCEPT ![w] = [@ EXCEPT !.pc = "memo", !.rows = rows]]
    BY <1>3 DEF ListOutdatedInputs
  <2>2. rows \in Rev
    BY DaemonTyped DEF UpdateTypeOK
  <2>3. [work[w] EXCEPT !.pc = "memo", !.rows = rows] \in WorkRecord
    <3>1. work[w] \in WorkRecord /\ "memo" \in WorkPC
      BY DEF UpdateTypeOK, WorkRecord, WorkPC
    <3> QED
      BY <2>2, <3>1, RecordTyped
  <2>4. work' \in [Workers -> WorkRecord]
    BY <2>1, <2>3 DEF UpdateTypeOK, WorkRecord
  <2> QED
    BY <1>3, <2>4 DEF ListOutdatedInputs, UpdateTypeOK, WorkRecord
<1>4. CASE UseMemo(w)
  <2>1. work[w].force \in BOOLEAN /\ "judging" \in WorkPC
    BY DEF UpdateTypeOK, WorkPC
  <2>2. [work[w] EXCEPT !.pc = "judging", !.force = CheckMemoIsOutdated] \in WorkRecord
    <3>1. work[w] \in WorkRecord /\ CheckMemoIsOutdated \in BOOLEAN
      BY MemoTyped DEF UpdateTypeOK, WorkRecord
    <3> QED
      BY <2>1, <3>1, RecordTyped
  <2>3. work' \in [Workers -> WorkRecord]
    <3>1. CASE work[w].job = "check"
      BY <1>4, <2>1, <3>1, GotoTyped DEF UseMemo
    <3>2. CASE work[w].job # "check"
      <4>1. PICK rec \in WorkRecord :
              rec = [work[w] EXCEPT !.pc = "judging", !.force = CheckMemoIsOutdated]
        BY <2>2
      <4>2. work' = [work EXCEPT ![w] = rec]
        BY <1>4, <3>2, <4>1 DEF UseMemo
      <4> QED
        BY <4>2 DEF UpdateTypeOK, WorkRecord
    <3> QED
      BY <3>1, <3>2
  <2>4. memo' \in [outdated : BOOLEAN, age : 0..TTL]
    BY <1>4, <2>1, MemoTyped DEF UseMemo, UpdateTypeOK
  <2> QED
    BY <1>4, <2>3, <2>4 DEF UseMemo, UpdateTypeOK, WorkRecord
<1>5. CASE JudgeRow(w)
  <2>1. work' \in [Workers -> WorkRecord]
    BY <1>5, GotoTyped DEF JudgeRow, Dealt, WorkPC
  <2> QED
    BY <1>5, <2>1 DEF JudgeRow, UpdateTypeOK, WorkRecord
<1>6. CASE ApplyState(w)
  <2>1. work' \in [Workers -> WorkRecord]
    BY <1>6, GotoTyped DEF ApplyState, WorkPC
  <2>2. state' \in AppState
    BY <1>6, StatesTyped DEF ApplyState, UpdateTypeOK, EndedState
  <2> QED
    BY <1>6, <2>1, <2>2 DEF ApplyState, UpdateTypeOK, WorkRecord
<1>7. CASE ApplyQuirk(w)
  <2>1. work' \in [Workers -> WorkRecord]
    BY <1>7, GotoTyped DEF ApplyQuirk, WorkPC
  <2> QED
    BY <1>7, <2>1 DEF ApplyQuirk, UpdateTypeOK, WorkRecord
<1>8. CASE ApplyDetails(w)
  <2>1. work' \in [Workers -> WorkRecord]
    BY <1>8, GotoTyped DEF ApplyDetails, Dealt, WorkPC
  <2>2. details' \in Rev
    BY <1>8 DEF ApplyDetails, UpdateTypeOK
  <2> QED
    BY <1>8, <2>1, <2>2 DEF ApplyDetails, UpdateTypeOK, WorkRecord
<1>9. CASE ListRow(w)
  <2>1. work' \in [Workers -> WorkRecord]
    BY <1>9, GotoTyped DEF ListRow, WorkPC
  <2>2. listed' \in BOOLEAN
    BY <1>9 DEF ListRow
  <2> QED
    BY <1>9, <2>1, <2>2 DEF ListRow, UpdateTypeOK, WorkRecord
<1> QED
  BY <1>1, <1>2, <1>3, <1>4, <1>5, <1>6, <1>7, <1>8, <1>9 DEF WorkStep

LEMMA RunStepTyped ==
  ASSUME UpdateTypeOK, NEW r \in Runs, UpdateAppsAsync(r) \/ RunStep(r)
  PROVE  UpdateTypeOK'
<1> USE DEF rowVars, runVars, daemonVars, Mark
<1>1. CASE UpdateAppsAsync(r)
  BY <1>1 DEF UpdateAppsAsync, UpdateTypeOK, RunPC
<1>2. CASE MarkState(r)
  <2>1. state' \in AppState
    BY <1>2, StatesTyped DEF MarkState, UpdateTypeOK
  <2> QED
    BY <1>2, <2>1 DEF MarkState, UpdateTypeOK, RunPC
<1>3. CASE MarkQuirk(r)
  BY <1>3 DEF MarkQuirk, UpdateTypeOK, RunPC
<1>4. CASE UpdateSystem(r)
  <2>1. ending' \in [Runs -> [state : EndedState, quirk : BOOLEAN]]
    BY <1>4, EndAsTyped DEF UpdateSystem, UpdateTypeOK, EndedState
  <2> QED
    BY <1>4, <2>1, DaemonTyped DEF UpdateSystem, UpdateTypeOK, RunPC
<1>5. CASE RetireMemo(r)
  <2>1. ending' \in [Runs -> [state : EndedState, quirk : BOOLEAN]]
    BY <1>5, EndAsTyped DEF RetireMemo, UpdateTypeOK, EndedState
  <2>2. memo' \in [outdated : BOOLEAN, age : 0..TTL]
    BY <1>5, MemoTyped DEF RetireMemo
  <2> QED
    BY <1>5, <2>1, <2>2 DEF RetireMemo, UpdateTypeOK, RunPC
<1>6. CASE RebootRequired(r)
  <2>1. ending' \in [Runs -> [state : EndedState, quirk : BOOLEAN]]
    BY <1>6, EndAsTyped DEF RebootRequired, EndedState
  <2> QED
    BY <1>6, <2>1 DEF RebootRequired, UpdateTypeOK, RunPC
<1>7. CASE EndState(r)
  <2>1. state' \in AppState
    BY <1>7, StatesTyped DEF EndState, UpdateTypeOK
  <2> QED
    BY <1>7, <2>1 DEF EndState, UpdateTypeOK, RunPC
<1>8. CASE EndQuirk(r)
  BY <1>8 DEF EndQuirk, UpdateTypeOK, RunPC
<1> QED
  BY <1>1, <1>2, <1>3, <1>4, <1>5, <1>6, <1>7, <1>8 DEF RunStep

LEMMA OutsideStepTyped ==
  ASSUME UpdateTypeOK, Publish \/ CliUpdate \/ InputsExpire \/ Tick
  PROVE  UpdateTypeOK'
<1> USE DEF rowVars, runVars, daemonVars
<1>1. CASE Publish
  BY <1>1, UpdateAssumption DEF UpdateAssumption, Publish, UpdateTypeOK, Rev
<1>2. CASE CliUpdate
  BY <1>2 DEF CliUpdate, UpdateTypeOK
<1>3. CASE InputsExpire
  BY <1>3, DaemonTyped DEF InputsExpire, UpdateTypeOK
<1>4. CASE Tick
  BY <1>4, UpdateAssumption DEF UpdateAssumption, Tick, UpdateTypeOK
<1> QED
  BY <1>1, <1>2, <1>3, <1>4

LEMMA NextTyped == UpdateTypeOK /\ [Next]_vars => UpdateTypeOK'
<1>1. CASE UNCHANGED vars
  BY <1>1 DEF vars, rowVars, runVars, daemonVars, UpdateTypeOK
<1> QED
  BY <1>1, WorkStepTyped, RunStepTyped, OutsideStepTyped DEF Next

\* Type correctness of the system update row and everything around it.
THEOREM UpdateTypeCorrect == Spec => []UpdateTypeOK
BY InitTyped, NextTyped, PTL DEF Spec

-------------------------------------------------------------------------------
LEMMA RunKeepsInstalling ==
  ASSUME UpdateTypeOK, InstallingHasRun, NEW r \in Runs, UpdateAppsAsync(r) \/ RunStep(r),
         state' = "INSTALLING"
  PROVE  \E q \in Runs : InFlightRun(q)'
<1> USE DEF Mark, UpdateTypeOK
<1>1. CASE MarkState(r)
  BY <1>1 DEF MarkState, InFlightRun
<1>2. CASE EndState(r)
  <2>1. ending[r].state \in EndedState
    OBVIOUS
  <2> QED
    BY <1>2, <2>1, StatesTyped, UpdateAssumption
    DEF UpdateAssumption, EndState, SetState
<1>3. CASE UNCHANGED state /\ (UpdateAppsAsync(r) \/ RunStep(r))
  <2>1. PICK q \in Runs : InFlightRun(q)
    BY <1>3 DEF InstallingHasRun
  <2>2. CASE q # r
    <3>1. pc'[q] = pc[q]
      BY <1>3, <2>2 DEF UpdateAppsAsync, RunStep, MarkState, MarkQuirk, UpdateSystem, RetireMemo,
         RebootRequired, EndState, EndQuirk
    <3> QED
      BY <2>1, <3>1 DEF InFlightRun
  <2>3. CASE q = r /\ ~EndState(r)
    BY <1>3, <2>1, <2>3 DEF InFlightRun, UpdateAppsAsync, RunStep, MarkState, MarkQuirk,
       UpdateSystem, RetireMemo, RebootRequired, EndQuirk
  <2> QED
    BY <1>2, <2>2, <2>3
<1> QED
  BY <1>1, <1>2, <1>3
  DEF UpdateAppsAsync, RunStep, MarkQuirk, UpdateSystem, RetireMemo, RebootRequired, EndQuirk, rowVars

LEMMA WorkerKeepsInstalling ==
  ASSUME UpdateTypeOK, NEW w \in Workers, StartList(w) \/ StartRefresh(w) \/ WorkStep(w),
         state' = "INSTALLING"
  PROVE  state = "INSTALLING" /\ UNCHANGED runVars
<1>1. CASE ApplyState(w)
  BY <1>1, UpdateAssumption DEF UpdateAssumption, ApplyState, SetState, EndedState
<1>2. CASE UNCHANGED <<state, runVars>>
  BY <1>2
<1> QED
  BY <1>1, <1>2
  DEF StartList, StartRefresh, WorkStep, CheckUpdate, ListOutdatedInputs, UseMemo, JudgeRow,
      ApplyQuirk, ApplyDetails, ListRow, rowVars

LEMMA NextInstallingHasRun ==
  UpdateTypeOK /\ InstallingHasRun /\ [Next]_vars => InstallingHasRun'
<1> SUFFICES ASSUME UpdateTypeOK, InstallingHasRun, [Next]_vars, state' = "INSTALLING"
             PROVE  \E q \in Runs : InFlightRun(q)'
  BY DEF InstallingHasRun, InFlightRun
<1>1. ASSUME state = "INSTALLING", UNCHANGED runVars
      PROVE  \E q \in Runs : InFlightRun(q)'
  BY <1>1 DEF InstallingHasRun, InFlightRun, runVars
<1>2. ASSUME NEW r \in Runs, UpdateAppsAsync(r) \/ RunStep(r)
      PROVE  \E q \in Runs : InFlightRun(q)'
  BY <1>2, RunKeepsInstalling
<1>3. ASSUME NEW w \in Workers, StartList(w) \/ StartRefresh(w) \/ WorkStep(w)
      PROVE  \E q \in Runs : InFlightRun(q)'
  BY <1>1, <1>3, WorkerKeepsInstalling
<1>4. CASE Publish \/ CliUpdate \/ InputsExpire \/ Tick \/ UNCHANGED vars
  BY <1>1, <1>4 DEF Publish, CliUpdate, InputsExpire, Tick, vars, rowVars
<1> QED
  BY <1>2, <1>3, <1>4 DEF Next

\* The row shows an update being installed only while a run is at it: for any
\* number of overlapping runs, listings and checks.
THEOREM InstallingAlwaysHasRun == Spec => []InstallingHasRun
<1>1. Init => InstallingHasRun
  BY DEF Init, InstallingHasRun
<1> QED
  BY <1>1, InitTyped, NextTyped, NextInstallingHasRun, PTL DEF Spec

-------------------------------------------------------------------------------
(***************************************************************************)
(* The history variables constrain nothing: every behaviour with them is   *)
(* one of SystemUpdate.                                                    *)
(***************************************************************************)
LEMMA HistoryRefines ==
  /\ HistoryInit => Init
  /\ [HistoryNext]_allVars => [Next]_vars
BY DEF HistoryInit, HistoryNext, WorkHistory, RunHistory, OutsideHistory, Next, WorkStep, RunStep,
  allVars

LEMMA HistoryTyped == HistorySpec => []UpdateTypeOK
BY HistoryRefines, InitTyped, NextTyped, PTL DEF HistorySpec

\* A step of a worker leaves the other workers, the runs and the daemon's
\* revisions alone ...
LEMMA WorkerFrame ==
  ASSUME UpdateTypeOK, NEW w \in Workers, StartList(w) \/ StartRefresh(w) \/ WorkStep(w)
  PROVE  /\ UNCHANGED <<runVars, latest, applied>>
         /\ \A v \in Workers \ {w} : work'[v] = work[v]
         /\ work[w] \in WorkRecord
<1> USE DEF rowVars, runVars, daemonVars, UpdateTypeOK
<1>1. work[w] \in WorkRecord
  BY DEF WorkRecord
<1> QED
  BY <1>1
  DEF StartList, StartRefresh, WorkStep, CheckUpdate, ListOutdatedInputs, UseMemo, JudgeRow,
    ApplyState, ApplyQuirk, ApplyDetails, ListRow, Goto

\* ... and what it does to itself.
LEMMA WorkerMoves ==
  ASSUME UpdateTypeOK, NEW w \in Workers
  PROVE  /\ StartList(w) \/ StartRefresh(w) =>
              work'[w].pc \in {"reading", "checking"} /\ ~HasUpdates(w)'
         /\ CheckUpdate(w) =>
              /\ work'[w].pc = "reading" /\ work'[w].rows = work[w].rows
              /\ work'[w].force => Available
         /\ ListOutdatedInputs(w) =>
              /\ work'[w].pc = "memo" /\ work'[w].force = work[w].force
              /\ work'[w].rows \in {inputs, 0}
         /\ UseMemo(w) =>
              /\ work'[w].pc = "judging" /\ work'[w].rows = work[w].rows
              /\ work[w].job = "check" =>
                   work'[w].force = work[w].force /\ memo'.outdated = work[w].force
              /\ work[w].job # "check" =>
                   UNCHANGED memo /\ (work'[w].force => memo.outdated)
         /\ \A label : Goto(w, label) =>
              work'[w].pc = label /\ (HasUpdates(w)' <=> HasUpdates(w))
<1> USE DEF UpdateTypeOK
<1>1. work[w] \in WorkRecord
  BY DEF WorkRecord
<1>2. ASSUME StartList(w) \/ StartRefresh(w)
      PROVE  work'[w].pc \in {"reading", "checking"} /\ ~HasUpdates(w)'
  <2>1. PICK label \in {"reading", "checking"}, job \in Job :
          work'[w] = [NoWork EXCEPT !.pc = label, !.job = job]
    BY <1>2 DEF StartList, StartRefresh, Job
  <2> QED
    BY <2>1 DEF NoWork, HasUpdates
<1>3. ASSUME CheckUpdate(w)
      PROVE  /\ work'[w].pc = "reading" /\ work'[w].rows = work[w].rows
             /\ work'[w].force => Available
  <2>1. PICK answered \in BOOLEAN :
          work'[w] = [work[w] EXCEPT !.pc = "reading", !.force = answered /\ Available]
    BY <1>3 DEF CheckUpdate
  <2> QED
    BY <1>1, <2>1 DEF WorkRecord
<1>4. ASSUME ListOutdatedInputs(w)
      PROVE  /\ work'[w].pc = "memo" /\ work'[w].force = work[w].force
             /\ work'[w].rows \in {inputs, 0}
  <2>1. PICK rows \in {inputs, 0} : work'[w] = [work[w] EXCEPT !.pc = "memo", !.rows = rows]
    BY <1>4 DEF ListOutdatedInputs
  <2> QED
    BY <1>1, <2>1 DEF WorkRecord
<1>5. ASSUME NEW label, Goto(w, label)
      PROVE  /\ work'[w].pc = label /\ (HasUpdates(w)' <=> HasUpdates(w))
             /\ work'[w].rows = work[w].rows /\ work'[w].force = work[w].force
  BY <1>1, <1>5 DEF Goto, HasUpdates, WorkRecord
<1>6. ASSUME UseMemo(w)
      PROVE  /\ work'[w].pc = "judging" /\ work'[w].rows = work[w].rows
             /\ work[w].job = "check" =>
                  work'[w].force = work[w].force /\ memo'.outdated = work[w].force
             /\ work[w].job # "check" =>
                  UNCHANGED memo /\ (work'[w].force => memo.outdated)
  <2>1. CASE work[w].job = "check"
    BY <1>5, <1>6, <2>1 DEF UseMemo, CheckMemoSet
  <2>2. CASE work[w].job # "check"
    <3>1. work'[w] = [work[w] EXCEPT !.pc = "judging", !.force = CheckMemoIsOutdated]
      BY <1>6, <2>2 DEF UseMemo
    <3> QED
      BY <1>1, <1>6, <2>2, <3>1 DEF WorkRecord, UseMemo, CheckMemoIsOutdated
  <2> QED
    BY <2>1, <2>2
<1> QED
  BY <1>2, <1>3, <1>4, <1>5, <1>6

\* A step of a run leaves the workers, the other runs and upstream alone.
LEMMA RunFrame ==
  ASSUME UpdateTypeOK, NEW r \in Runs, UpdateAppsAsync(r) \/ RunStep(r)
  PROVE  /\ UNCHANGED <<work, latest, details, listed>>
         /\ \A q \in Runs \ {r} : pc'[q] = pc[q] /\ ending'[q] = ending[q]
         /\ \A label : Mark(r, label) => pc'[r] = label
         /\ ending[r] \in [state : EndedState, quirk : BOOLEAN]
<1> USE DEF rowVars, runVars, daemonVars, UpdateTypeOK
<1>1. ASSUME NEW s, NEW b, EndAs(r, s, b)
      PROVE  \A q \in Runs \ {r} : ending'[q] = ending[q]
  BY <1>1 DEF EndAs
<1> QED
  BY <1>1
  DEF Mark, UpdateAppsAsync, RunStep, MarkState, MarkQuirk, UpdateSystem, RetireMemo,
    RebootRequired, EndState, EndQuirk

-------------------------------------------------------------------------------
(***************************************************************************)
(* What is not overtaken is true: an update that is told of is there.      *)
(***************************************************************************)
KnownIsTrue ==
  /\ applied <= latest
  /\ inputs # 0 /\ "inputs" \notin overtaken => Available
  /\ \A w \in Workers \ overtaken : HasUpdates(w) => Available
  /\ MemoRetired

LEMMA KnownWorker ==
  ASSUME UpdateTypeOK, KnownIsTrue, NEW w \in Workers, WorkHistory(w)
  PROVE  KnownIsTrue'
<1>1. StartList(w) \/ StartRefresh(w) \/ WorkStep(w)
  BY DEF WorkHistory, WorkStep
<1>2. /\ UNCHANGED <<pc, latest, applied>> /\ (Available' <=> Available)
      /\ \A v \in Workers \ {w} : HasUpdates(v)' <=> HasUpdates(v)
  BY <1>1, WorkerFrame DEF Available, HasUpdates, runVars
<1>3. w \notin {"memo", "inputs"} /\ "memo" \notin Workers /\ "inputs" \notin Workers
  BY HistoryAssumption DEF HistoryAssumption
<1>4. applied' <= latest'
  BY <1>2 DEF KnownIsTrue
<1> USE DEF Overtake, Renew
<1>5. CASE StartList(w) \/ StartRefresh(w)
  <2>1. UNCHANGED <<memo, inputs>> /\ overtaken' = overtaken \ {w} /\ ~HasUpdates(w)'
    <3>1. UNCHANGED <<memo, inputs>> /\ ~HasUpdates(w)'
      BY <1>5, WorkerMoves DEF StartList, StartRefresh, daemonVars
    <3>2. work[w].pc = "idle" /\ work'[w].pc \in {"reading", "checking"}
      BY <1>5, WorkerMoves DEF StartList, StartRefresh
    <3> QED
      BY <1>5, <3>1, <3>2, WorkerMoves
      DEF WorkHistory, CheckUpdate, ListOutdatedInputs, UseMemo, JudgeRow, ApplyState, ApplyQuirk,
        ApplyDetails, ListRow
  <2> QED
    BY <1>2, <1>3, <1>4, <2>1 DEF KnownIsTrue, MemoRetired
<1>6. CASE CheckUpdate(w)
  <2>1. /\ work[w].pc = "checking" /\ UNCHANGED memo
        /\ inputs' \in {Diff, inputs} /\ work'[w].rows = work[w].rows
        /\ work'[w].force => Available
    BY <1>6, WorkerMoves DEF CheckUpdate
  <2>2. InputsRenewed
    BY <1>6, <2>1
    DEF WorkHistory, StartList, StartRefresh, ListOutdatedInputs, UseMemo, JudgeRow, ApplyState,
      ApplyQuirk, ApplyDetails, ListRow
  <2>3. HasUpdates(w)' /\ w \notin overtaken => Available
    BY <2>1 DEF HasUpdates, KnownIsTrue
  <2>4. Diff # 0 => Available
    BY DEF Diff
  <2>5. overtaken \ {"inputs"} \subseteq overtaken'
        /\ (inputs' # Diff => overtaken' = overtaken)
    BY <2>2 DEF InputsRenewed
  <2>6. inputs' # 0 /\ "inputs" \notin overtaken' => Available
    BY <2>1, <2>4, <2>5 DEF KnownIsTrue
  <2> QED
    BY <1>2, <1>3, <1>4, <2>1, <2>3, <2>5, <2>6 DEF KnownIsTrue, MemoRetired
<1>7. CASE ListOutdatedInputs(w)
  <2>1. /\ work[w].pc = "reading" /\ UNCHANGED <<memo, inputs>>
        /\ work'[w].rows \in {inputs, 0} /\ work'[w].force = work[w].force
    BY <1>7, WorkerMoves DEF ListOutdatedInputs, daemonVars
  <2>2. Reads(w)
    BY <1>7, <2>1
    DEF WorkHistory, StartList, StartRefresh, CheckUpdate, UseMemo, JudgeRow, ApplyState,
      ApplyQuirk, ApplyDetails, ListRow
  <2>3. HasUpdates(w)' /\ w \notin overtaken' => Available
    BY <2>1, <2>2 DEF HasUpdates, KnownIsTrue, Reads
  <2> QED
    BY <1>2, <1>3, <1>4, <2>1, <2>2, <2>3 DEF KnownIsTrue, MemoRetired, Reads
<1>8. CASE UseMemo(w)
  <2>1. /\ work[w].pc = "memo" /\ UNCHANGED inputs /\ work'[w].rows = work[w].rows
        /\ IF work[w].job = "check" THEN Records(w) ELSE Reads(w)
    <3>1. work[w].pc = "memo" /\ UNCHANGED inputs /\ work'[w].rows = work[w].rows
      BY <1>8, WorkerMoves DEF UseMemo, daemonVars
    <3> QED
      BY <1>8, <3>1, SMTT(30)
      DEF WorkHistory, StartList, StartRefresh, CheckUpdate, ListOutdatedInputs, JudgeRow,
        ApplyState, ApplyQuirk, ApplyDetails, ListRow
  <2>2. CASE work[w].job = "check"
    <3>1. work'[w].force = work[w].force /\ memo'.outdated = work[w].force
      BY <1>8, <2>2, WorkerMoves
    <3>2. overtaken' = IF w \in overtaken THEN overtaken \cup {"memo"} ELSE overtaken \ {"memo"}
      BY <2>1, <2>2 DEF Records
    <3>3. memo'.outdated /\ "memo" \notin overtaken' => Available
      BY <3>1, <3>2 DEF KnownIsTrue, HasUpdates
    <3>4. HasUpdates(w)' <=> HasUpdates(w)
      BY <2>1, <3>1 DEF HasUpdates
    <3> QED
      BY <1>2, <1>3, <1>4, <2>1, <3>2, <3>3, <3>4 DEF KnownIsTrue, MemoRetired
  <2>3. CASE work[w].job # "check"
    <3>1. UNCHANGED memo /\ (work'[w].force => memo.outdated)
      BY <1>8, <2>3, WorkerMoves
    <3>2. Reads(w)
      BY <2>1, <2>3
    <3>3. HasUpdates(w)' /\ w \notin overtaken' => Available
      BY <2>1, <3>1, <3>2 DEF HasUpdates, KnownIsTrue, MemoRetired, Reads
    <3> QED
      BY <1>2, <1>3, <1>4, <2>1, <3>1, <3>2, <3>3 DEF KnownIsTrue, MemoRetired, Reads
  <2> QED
    BY <2>2, <2>3
<1>9. CASE JudgeRow(w) \/ ApplyState(w) \/ ApplyQuirk(w) \/ ApplyDetails(w) \/ ListRow(w)
  <2>1. UNCHANGED <<memo, inputs>> /\ (HasUpdates(w)' <=> HasUpdates(w))
    BY <1>9, WorkerMoves
    DEF JudgeRow, ApplyState, ApplyQuirk, ApplyDetails, ListRow, daemonVars
  <2>2. UNCHANGED overtaken
    BY <1>9
    DEF WorkHistory, historyVars, StartList, StartRefresh, CheckUpdate, ListOutdatedInputs,
      UseMemo, JudgeRow, ApplyState, ApplyQuirk, ApplyDetails, ListRow
  <2> QED
    BY <1>2, <1>4, <2>1, <2>2 DEF KnownIsTrue, MemoRetired
<1> QED
  BY <1>1, <1>5, <1>6, <1>7, <1>8, <1>9 DEF WorkStep

LEMMA KnownRun ==
  ASSUME UpdateTypeOK, KnownIsTrue, NEW r \in Runs, RunHistory(r)
  PROVE  KnownIsTrue'
<1>1. UpdateAppsAsync(r) \/ RunStep(r)
  BY DEF RunHistory, RunStep
<1>2. /\ UNCHANGED <<latest, work>>
      /\ \A q \in Runs \ {r} : pc'[q] = pc[q]
      /\ \A v \in Workers : HasUpdates(v)' <=> HasUpdates(v)
      /\ \A label : Mark(r, label) => pc'[r] = label
  BY <1>1, RunFrame DEF HasUpdates
<1>3. "memo" \notin Workers /\ "inputs" \notin Workers
  BY HistoryAssumption DEF HistoryAssumption
<1>4. applied \in Nat /\ latest \in Nat
  BY UpdateAssumption DEF UpdateAssumption, UpdateTypeOK, Rev
<1> USE DEF Overtake, Renew
<1>5. CASE UpdateSystem(r)
  <2>1. /\ UNCHANGED memo /\ pc[r] = "calling"
        /\ \/ applied' = latest /\ inputs' = 0
           \/ applied' = applied /\ inputs' = inputs
    BY <1>5 DEF UpdateSystem
  <2>2. Applies(r)
    BY <1>5
    DEF RunHistory, UpdateAppsAsync, MarkState, MarkQuirk, UpdateSystem, RetireMemo,
      RebootRequired, EndState, EndQuirk
  <2>3. CASE applied' = applied
    <3>1. UNCHANGED overtaken /\ (Available' <=> Available)
      BY <1>2, <2>2, <2>3 DEF Applies, Available
    <3>2. \A q \in Runs : pc[q] = "retiring" => pc'[q] = "retiring"
      BY <1>2, <2>1
    <3> QED
      BY <1>2, <2>1, <2>3, <3>1, <3>2 DEF KnownIsTrue, MemoRetired
  <2>4. CASE applied' # applied
    <3>1. /\ overtaken' = overtaken \cup (Informed \cup IF pc'[r] = "retiring" THEN {} ELSE {"memo"})
          /\ applied' = latest /\ inputs' = 0
      BY <2>1, <2>2, <2>4 DEF Applies
    <3>2. \A v \in Workers \ overtaken' : ~HasUpdates(v)'
      BY <1>2, <3>1 DEF Informed
    <3>3. pc'[r] = "retiring" \/ "memo" \in overtaken'
      BY <3>1
    <3> QED
      BY <1>2, <1>4, <3>1, <3>2, <3>3 DEF KnownIsTrue, MemoRetired
  <2> QED
    BY <2>3, <2>4
<1>6. CASE RetireMemo(r)
  <2>1. UNCHANGED <<applied, inputs>> /\ memo'.outdated = FALSE
    BY <1>6 DEF RetireMemo, CheckMemoSet, daemonVars
  <2>2. overtaken' = overtaken \ {"memo"}
    BY <1>6
    DEF RunHistory, UpdateAppsAsync, MarkState, MarkQuirk, UpdateSystem, RetireMemo,
      RebootRequired, EndState, EndQuirk
  <2> QED
    BY <1>2, <1>3, <2>1, <2>2 DEF KnownIsTrue, MemoRetired, Available
<1>7. CASE ~UpdateSystem(r) /\ ~RetireMemo(r)
  <2>1. UNCHANGED <<applied, inputs, memo>> /\ pc[r] # "retiring"
    BY <1>1, <1>7
    DEF RunStep, UpdateAppsAsync, MarkState, MarkQuirk, RebootRequired, EndState, EndQuirk,
      daemonVars
  <2>2. overtaken \subseteq overtaken'
    BY <1>7 DEF RunHistory, EndsPending, historyVars
  <2>4. \A q \in Runs : pc[q] = "retiring" => pc'[q] = "retiring"
    BY <1>2, <2>1
  <2> QED
    BY <1>2, <2>1, <2>2, <2>4 DEF KnownIsTrue, MemoRetired, Available
<1> QED
  BY <1>5, <1>6, <1>7

LEMMA KnownOutside ==
  ASSUME UpdateTypeOK, KnownIsTrue, OutsideHistory
  PROVE  KnownIsTrue'
<1>1. UNCHANGED <<work, pc>> /\ \A v \in Workers : HasUpdates(v)' <=> HasUpdates(v)
  BY DEF OutsideHistory, CliUpdate, InputsExpire, Publish, Tick, runVars, HasUpdates
<1>2. "memo" \notin Workers /\ "inputs" \notin Workers
  BY HistoryAssumption DEF HistoryAssumption
<1>3. applied \in Nat /\ latest \in Nat
  BY UpdateAssumption DEF UpdateAssumption, UpdateTypeOK, Rev
<1> USE DEF Overtake, Renew
<1>4. CASE CliUpdate /\ Overtake(Informed \cup {"memo", "inputs"})
  <2>1. \A v \in Workers \ overtaken' : ~HasUpdates(v)'
    BY <1>1, <1>4 DEF Informed
  <2>2. "memo" \in overtaken' /\ "inputs" \in overtaken' /\ applied' <= latest'
    BY <1>3, <1>4 DEF CliUpdate
  <2> QED
    BY <2>1, <2>2 DEF KnownIsTrue, MemoRetired
<1>5. CASE InputsExpire /\ InputsRenewed
  <2>1. /\ UNCHANGED <<memo, latest, applied>> /\ inputs' = Diff
        /\ overtaken' = overtaken \ {"inputs"}
    BY <1>5 DEF InputsExpire, InputsRenewed
  <2>2. inputs' # 0 => Available
    BY <2>1 DEF Diff
  <2> QED
    BY <1>1, <1>2, <2>1, <2>2 DEF KnownIsTrue, MemoRetired, Available
<1>6. CASE Publish /\ UNCHANGED historyVars
  <2>1. applied' <= latest' /\ Available'
    BY <1>3, <1>6 DEF Publish, KnownIsTrue, Available
  <2> QED
    BY <2>1 DEF KnownIsTrue, MemoRetired
<1>7. CASE Tick /\ UNCHANGED historyVars
  <2>1. UNCHANGED <<latest, applied, inputs, overtaken>> /\ memo'.outdated = memo.outdated
    BY <1>7 DEF Tick, daemonVars, historyVars, UpdateTypeOK
  <2> QED
    BY <1>1, <2>1 DEF KnownIsTrue, MemoRetired, Available
<1> QED
  BY <1>4, <1>5, <1>6, <1>7 DEF OutsideHistory

LEMMA KnownNext == UpdateTypeOK /\ KnownIsTrue /\ [HistoryNext]_allVars => KnownIsTrue'
<1>1. CASE UNCHANGED allVars
  BY <1>1
  DEF allVars, vars, historyVars, rowVars, runVars, daemonVars, KnownIsTrue, MemoRetired,
    Available, HasUpdates
<1> QED
  BY <1>1, KnownWorker, KnownRun, KnownOutside DEF HistoryNext

LEMMA KnownInit == HistoryInit => KnownIsTrue
BY UpdateAssumption
DEF UpdateAssumption, HistoryInit, Init, KnownIsTrue, MemoRetired, HasUpdates, NoWork

LEMMA KnownAlways == HistorySpec => []KnownIsTrue
BY KnownInit, KnownNext, HistoryTyped, PTL DEF HistorySpec

\* The answer of a check is retired by the update it announced: for any jobs
\* that overlap, the memo is set without an update only while the run that
\* applied it is about to retire it, or if the memo was overtaken.
THEOREM MemoAlwaysRetired == HistorySpec => []MemoRetired
<1>1. KnownIsTrue => MemoRetired
  BY DEF KnownIsTrue
<1> QED
  BY <1>1, KnownAlways, PTL

-------------------------------------------------------------------------------
(***************************************************************************)
(* The row and its quirk as the last thread to write each left them.       *)
(***************************************************************************)
Thread == Workers \cup Runs \cup {"nobody"}

EndFits(r) ==
  /\ ending[r].state = "PENDING_INSTALL" => ending[r].quirk
  /\ ending[r].quirk => ending[r].state \in {"PENDING_INSTALL", "INSTALLED"}

WorkerLeft(w) ==
  /\ stateBy = w => state \in {"UPDATABLE_LIVE", "INSTALLED"}
  /\ quirkBy = w => ~quirk

RunLeft(r) ==
  /\ stateBy = r =>
       /\ pc[r] \notin {"idle", "marking"}
       /\ IF pc[r] \in {"endingQuirk", "done"} THEN state = ending[r].state
          ELSE state = "INSTALLING"
  /\ quirkBy = r =>
       /\ pc[r] \notin {"idle", "marking", "markingQuirk"}
       /\ IF pc[r] = "done" THEN quirk = ending[r].quirk ELSE ~quirk

WrittenInv ==
  /\ stateBy \in Thread /\ quirkBy \in Thread
  /\ stateBy = "nobody" => state = "UNKNOWN"
  /\ quirkBy = "nobody" => ~quirk
  /\ \A w \in Workers : WorkerLeft(w)
  /\ \A r \in Runs : EndFits(r) /\ RunLeft(r)
  /\ quirk => \E r \in Runs : pc[r] = "done" /\ ending[r].quirk

LEMMA Distinct ==
  /\ \A w \in Workers, r \in Runs : w # r
  /\ \A x \in Workers \cup Runs : x # "nobody" /\ x # "memo" /\ x # "inputs"
BY HistoryAssumption DEF HistoryAssumption

LEMMA WrittenWorker ==
  ASSUME UpdateTypeOK, WrittenInv, NEW w \in Workers, WorkHistory(w)
  PROVE  WrittenInv'
<1>1. UNCHANGED <<pc, ending>>
  BY WorkerFrame DEF WorkHistory, WorkStep, runVars
<1>2. /\ \A r \in Runs : EndFits(r)'
      /\ (\E r \in Runs : pc[r] = "done" /\ ending[r].quirk)
           => (\E r \in Runs : pc'[r] = "done" /\ ending'[r].quirk)
  BY <1>1 DEF EndFits, WrittenInv
<1>3. CASE ApplyState(w) /\ WroteState(w, IF HasUpdates(w) THEN "UPDATABLE_LIVE" ELSE "INSTALLED")
           /\ UNCHANGED quirkBy
  <2>1. UNCHANGED quirk
    BY <1>3 DEF ApplyState
  <2>2. CASE UNCHANGED <<state, stateBy>>
    BY <1>1, <1>2, <1>3, <2>1, <2>2 DEF WrittenInv, WorkerLeft, RunLeft
  <2>3. CASE stateBy' = w /\ state' \in {"UPDATABLE_LIVE", "INSTALLED"}
    <3>1. stateBy' \in Thread
      BY <2>3 DEF Thread
    <3> QED
      BY <1>1, <1>2, <1>3, <2>1, <2>3, <3>1, Distinct DEF WrittenInv, WorkerLeft, RunLeft
  <2> QED
    BY <1>3, <2>2, <2>3 DEF ApplyState, SetState, WroteState
<1>4. CASE ApplyQuirk(w) /\ quirkBy' = w /\ UNCHANGED stateBy
  <2>1. UNCHANGED state /\ ~quirk' /\ quirkBy' \in Thread
    BY <1>4 DEF ApplyQuirk, Thread
  <2> QED
    BY <1>1, <1>2, <1>4, <2>1, Distinct DEF WrittenInv, WorkerLeft, RunLeft
<1>5. CASE ~ApplyState(w) /\ ~ApplyQuirk(w)
  <2>1. UNCHANGED <<state, quirk, stateBy, quirkBy>>
    BY <1>5
    DEF WorkHistory, historyVars, StartList, StartRefresh, CheckUpdate, ListOutdatedInputs,
      UseMemo, JudgeRow, ApplyDetails, ListRow, rowVars
  <2> QED
    BY <1>1, <1>2, <2>1 DEF WrittenInv, WorkerLeft, RunLeft
<1> QED
  BY <1>3, <1>4, <1>5
  DEF WorkHistory, StartList, StartRefresh, CheckUpdate, ListOutdatedInputs, UseMemo, JudgeRow,
    ApplyState, ApplyQuirk, ApplyDetails, ListRow, historyVars

LEMMA WrittenRun ==
  ASSUME UpdateTypeOK, WrittenInv, NEW r \in Runs, RunHistory(r)
  PROVE  WrittenInv'
<1>1. UpdateAppsAsync(r) \/ RunStep(r)
  BY DEF RunHistory, RunStep
<1>2. /\ \A q \in Runs \ {r} : pc'[q] = pc[q] /\ ending'[q] = ending[q]
      /\ \A label : Mark(r, label) => pc'[r] = label
      /\ ending[r] \in [state : EndedState, quirk : BOOLEAN]
  BY <1>1, RunFrame
<1>3. RunLeft(r) /\ EndFits(r) /\ r \in Thread
  BY DEF WrittenInv, Thread
<1>4. \A q \in Runs \ {r} : EndFits(q)'
  BY <1>2 DEF WrittenInv, EndFits
<1>5. ASSUME pc[r] # "done"
      PROVE  (\E q \in Runs : pc[q] = "done" /\ ending[q].quirk)
               => (\E q \in Runs : pc'[q] = "done" /\ ending'[q].quirk)
  BY <1>2, <1>5
<1>6. CASE MarkState(r) /\ WroteState(r, "INSTALLING") /\ UNCHANGED quirkBy
  <2>1. /\ pc[r] = "marking" /\ pc'[r] = "markingQuirk" /\ UNCHANGED <<quirk, ending>>
    BY <1>2, <1>6 DEF MarkState
  <2>2. CASE UNCHANGED <<state, stateBy>>
    <3>1. RunLeft(r)'
      BY <1>3, <1>6, <2>1, <2>2 DEF RunLeft
    <3> QED
      BY <1>2, <1>3, <1>4, <1>5, <1>6, <2>1, <2>2, <3>1 DEF WrittenInv, WorkerLeft, RunLeft, EndFits
  <2>3. CASE stateBy' = r /\ state' = "INSTALLING"
    <3>1. RunLeft(r)'
      BY <1>3, <1>6, <2>1, <2>3 DEF RunLeft
    <3> QED
      BY <1>2, <1>3, <1>4, <1>5, <1>6, <2>1, <2>3, <3>1, Distinct
      DEF WrittenInv, WorkerLeft, RunLeft, EndFits
  <2> QED
    BY <1>6, <2>2, <2>3 DEF MarkState, SetState, WroteState
<1>7. CASE MarkQuirk(r) /\ quirkBy' = r /\ UNCHANGED stateBy
  <2>1. /\ pc[r] = "markingQuirk" /\ pc'[r] = "calling" /\ quirk' = FALSE
        /\ UNCHANGED <<state, ending>>
    BY <1>2, <1>7 DEF MarkQuirk
  <2>2. RunLeft(r)'
    BY <1>3, <1>7, <2>1 DEF RunLeft
  <2> QED
    BY <1>2, <1>3, <1>4, <1>7, <2>1, <2>2, Distinct DEF WrittenInv, WorkerLeft, RunLeft, EndFits
<1>8. CASE UpdateSystem(r) \/ RetireMemo(r) \/ RebootRequired(r)
  <2>1. UNCHANGED <<state, quirk, stateBy, quirkBy>> /\ pc[r] \in {"calling", "retiring", "asking"}
    BY <1>8
    DEF RunHistory, historyVars, rowVars, UpdateAppsAsync, MarkState, MarkQuirk, UpdateSystem,
      RetireMemo, RebootRequired, EndState, EndQuirk
  <2>2. pc'[r] \in {"retiring", "asking", "ending"}
    BY <1>2, <1>8 DEF UpdateSystem, RetireMemo, RebootRequired
  <2>3. \/ UNCHANGED ending
        \/ \E s \in EndedState, b \in BOOLEAN :
             /\ EndAs(r, s, b)
             /\ s = "PENDING_INSTALL" => b
             /\ b => s \in {"PENDING_INSTALL", "INSTALLED"}
    BY <1>8 DEF UpdateSystem, RetireMemo, RebootRequired, EndedState
  <2>4. EndFits(r)'
    <3>1. CASE UNCHANGED ending
      BY <1>3, <3>1 DEF EndFits
    <3>2. ASSUME NEW s \in EndedState, NEW b \in BOOLEAN, EndAs(r, s, b),
                 s = "PENDING_INSTALL" => b,
                 b => s \in {"PENDING_INSTALL", "INSTALLED"}
          PROVE  EndFits(r)'
      <4>1. ending'[r] = [state |-> s, quirk |-> b]
        BY <3>2 DEF EndAs, UpdateTypeOK
      <4> QED
        BY <3>2, <4>1 DEF EndFits
    <3> QED
      BY <2>3, <3>1, <3>2
  <2>5. RunLeft(r)'
    BY <1>3, <2>1, <2>2 DEF RunLeft
  <2> QED
    BY <1>2, <1>4, <1>5, <2>1, <2>4, <2>5 DEF WrittenInv, WorkerLeft, RunLeft
<1>9. CASE EndState(r) /\ WroteState(r, ending[r].state) /\ UNCHANGED quirkBy
  <2>1. /\ pc[r] = "ending" /\ pc'[r] = "endingQuirk" /\ UNCHANGED <<quirk, ending>>
    BY <1>2, <1>9 DEF EndState
  <2>2. CASE UNCHANGED <<state, stateBy>> /\ <<state, ending[r].state>> \in Refused
    <3>1. stateBy # r
      BY <1>2, <1>3, <2>1, <2>2, UpdateAssumption DEF UpdateAssumption, RunLeft
    <3>2. RunLeft(r)'
      BY <1>3, <1>9, <2>1, <2>2, <3>1 DEF RunLeft
    <3> QED
      BY <1>2, <1>3, <1>4, <1>5, <1>9, <2>1, <2>2, <3>2 DEF WrittenInv, WorkerLeft, RunLeft, EndFits
  <2>3. CASE stateBy' = r /\ state' = ending[r].state
    <3>1. RunLeft(r)'
      BY <1>3, <1>9, <2>1, <2>3 DEF RunLeft
    <3> QED
      BY <1>2, <1>3, <1>4, <1>5, <1>9, <2>1, <2>3, <3>1, Distinct
      DEF WrittenInv, WorkerLeft, RunLeft, EndFits
  <2> QED
    BY <1>9, <2>2, <2>3 DEF EndState, SetState, WroteState
<1>10. CASE EndQuirk(r) /\ quirkBy' = r /\ UNCHANGED stateBy
  <2>1. /\ pc[r] = "endingQuirk" /\ pc'[r] = "done" /\ quirk' = ending[r].quirk
        /\ UNCHANGED <<state, ending>>
    BY <1>2, <1>10 DEF EndQuirk
  <2>2. RunLeft(r)' /\ (quirk' => pc'[r] = "done" /\ ending'[r].quirk)
    BY <1>3, <1>10, <2>1 DEF RunLeft
  <2> QED
    BY <1>2, <1>3, <1>4, <1>10, <2>1, <2>2, Distinct DEF WrittenInv, WorkerLeft, RunLeft, EndFits
<1>11. CASE UpdateAppsAsync(r)
  <2>1. /\ pc[r] = "idle" /\ pc'[r] \in {"marking", "done"}
        /\ UNCHANGED <<state, quirk, ending, stateBy, quirkBy>>
    BY <1>2, <1>11
    DEF RunHistory, historyVars, rowVars, UpdateAppsAsync, MarkState, MarkQuirk, UpdateSystem,
      RetireMemo, RebootRequired, EndState, EndQuirk
  <2>2. RunLeft(r)'
    BY <1>3, <2>1 DEF RunLeft
  <2> QED
    BY <1>2, <1>3, <1>4, <1>5, <2>1, <2>2 DEF WrittenInv, WorkerLeft, RunLeft, EndFits
<1> QED
  BY <1>6, <1>7, <1>8, <1>9, <1>10, <1>11
  DEF RunHistory, UpdateAppsAsync, MarkState, MarkQuirk, UpdateSystem, RetireMemo, RebootRequired,
    EndState, EndQuirk

LEMMA WrittenNext == UpdateTypeOK /\ WrittenInv /\ [HistoryNext]_allVars => WrittenInv'
<1>1. ASSUME WrittenInv, UNCHANGED <<state, quirk, pc, ending, stateBy, quirkBy>>
      PROVE  WrittenInv'
  BY <1>1 DEF WrittenInv, WorkerLeft, RunLeft, EndFits
<1>2. UNCHANGED allVars \/ OutsideHistory =>
        UNCHANGED <<state, quirk, pc, ending, stateBy, quirkBy>>
  BY DEF allVars, vars, historyVars, rowVars, runVars, OutsideHistory, CliUpdate, InputsExpire,
    Publish, Tick
<1> QED
  BY <1>1, <1>2, WrittenWorker, WrittenRun DEF HistoryNext

LEMMA WrittenInit == HistoryInit => WrittenInv
BY Distinct
DEF HistoryInit, Init, WrittenInv, Thread, WorkerLeft, RunLeft, EndFits

\* What one thread left last fits, state and quirk, and the row asks for a
\* restart only if a run ended with one due: for any jobs that overlap,
\* whatever calls fail and whatever changes of state are refused.
THEOREM QuirkAlwaysGoesWithState == HistorySpec => []QuirkGoesWithState
<1>1. WrittenInv => QuirkGoesWithState
  <2> SUFFICES ASSUME WrittenInv PROVE QuirkGoesWithState
    OBVIOUS
  <2>1. ASSUME NoHalfWrite, stateBy = quirkBy
        PROVE  QuirkFits
    <3>1. CASE stateBy = "nobody"
      BY <2>1, <3>1 DEF WrittenInv, QuirkFits
    <3>2. CASE stateBy \in Workers
      BY <2>1, <3>2 DEF WrittenInv, WorkerLeft, QuirkFits
    <3>3. CASE stateBy \in Runs
      <4>1. EndFits(stateBy) /\ RunLeft(stateBy) /\ pc[stateBy] # "endingQuirk"
        BY <2>1, <3>3 DEF WrittenInv, NoHalfWrite
      <4> QED
        BY <2>1, <4>1 DEF RunLeft, EndFits, QuirkFits
    <3> QED
      BY <3>1, <3>2, <3>3 DEF WrittenInv, Thread
  <2> QED
    BY <2>1 DEF QuirkGoesWithState, WrittenInv
<1> QED
  BY <1>1, WrittenInit, WrittenNext, HistoryTyped, PTL DEF HistorySpec

-------------------------------------------------------------------------------
(***************************************************************************)
(* A row that waits for a restart, and the jobs that are at it.  Whatever  *)
(* else GNOME Software refuses, such a row can be offered or installed     *)
(* again.                                                                  *)
(***************************************************************************)
RestartFree ==
  \A s \in {"INSTALLING", "UPDATABLE_LIVE"} : <<"PENDING_INSTALL", s>> \notin Refused

PendingInv ==
  /\ \A w \in Workers \ overtaken :
       /\ work[w].pc = "state" /\ state = "PENDING_INSTALL" => HasUpdates(w)
       /\ work[w].pc \in {"quirk", "details"} => state # "PENDING_INSTALL"
  /\ \A r \in Runs \ overtaken : InFlightRun(r) => state # "PENDING_INSTALL"

LEMMA PendingWorker ==
  ASSUME RestartFree, UpdateTypeOK, PendingInv, NEW w \in Workers, WorkHistory(w)
  PROVE  PendingInv'
<1>1. StartList(w) \/ StartRefresh(w) \/ WorkStep(w)
  BY DEF WorkHistory, WorkStep
<1>2. /\ UNCHANGED pc
      /\ \A v \in Workers \ {w} : work'[v] = work[v] /\ (HasUpdates(v)' <=> HasUpdates(v))
      /\ \A r \in Runs : InFlightRun(r)' <=> InFlightRun(r)
  BY <1>1, WorkerFrame DEF HasUpdates, InFlightRun, runVars
<1>3. /\ state' = "PENDING_INSTALL" => state = "PENDING_INSTALL"
      /\ ~ApplyState(w) => UNCHANGED state
  BY <1>1
  DEF StartList, StartRefresh, WorkStep, CheckUpdate, ListOutdatedInputs, UseMemo, JudgeRow,
    ApplyState, ApplyQuirk, ApplyDetails, ListRow, SetState, rowVars
<1>4. overtaken \ {w, "memo", "inputs"} \subseteq overtaken'
  BY DEF WorkHistory, Renew, Overtake, InputsRenewed, Reads, Records, historyVars
<1>5. ASSUME w \notin overtaken'
      PROVE  /\ work'[w].pc = "state" /\ state' = "PENDING_INSTALL" => HasUpdates(w)'
             /\ work'[w].pc \in {"quirk", "details"} => state' # "PENDING_INSTALL"
  <2>1. CASE StartList(w) \/ StartRefresh(w) \/ CheckUpdate(w) \/ ListOutdatedInputs(w) \/ UseMemo(w)
    BY <2>1, WorkerMoves
  <2>2. CASE JudgeRow(w)
    BY <2>2, WorkerMoves DEF JudgeRow, Dealt, IsTransient, rowVars
  <2>3. CASE ApplyState(w)
    <3>1. w \notin overtaken
      BY <1>4, <1>5, <2>3, Distinct
      DEF WorkHistory, StartList, StartRefresh, CheckUpdate, ListOutdatedInputs, UseMemo, JudgeRow,
        ApplyState, ApplyQuirk, ApplyDetails, ListRow
    <3>2. state = "PENDING_INSTALL" => HasUpdates(w)
      BY <2>3, <3>1 DEF PendingInv, ApplyState
    <3>3. state' # "PENDING_INSTALL" /\ work'[w].pc = "quirk"
      BY <2>3, <3>2, WorkerMoves DEF ApplyState, SetState, RestartFree
    <3> QED
      BY <3>3
  <2>4. CASE ApplyQuirk(w)
    <3>1. w \notin overtaken
      BY <1>4, <1>5, <2>4, Distinct
      DEF WorkHistory, StartList, StartRefresh, CheckUpdate, ListOutdatedInputs, UseMemo, JudgeRow,
        ApplyState, ApplyQuirk, ApplyDetails, ListRow
    <3> QED
      BY <2>4, <3>1, WorkerMoves DEF PendingInv, ApplyQuirk
  <2>5. CASE ApplyDetails(w) \/ ListRow(w)
    BY <2>5, WorkerMoves DEF ApplyDetails, ListRow, Dealt
  <2> QED
    BY <1>1, <2>1, <2>2, <2>3, <2>4, <2>5 DEF WorkStep
<1> QED
  BY <1>2, <1>3, <1>4, <1>5, Distinct DEF PendingInv

LEMMA PendingRun ==
  ASSUME RestartFree, UpdateTypeOK, PendingInv, NEW r \in Runs, RunHistory(r)
  PROVE  PendingInv'
<1>1. UpdateAppsAsync(r) \/ RunStep(r)
  BY DEF RunHistory, RunStep
<1>2. /\ UNCHANGED work
      /\ \A q \in Runs \ {r} : pc'[q] = pc[q]
      /\ \A label : Mark(r, label) => pc'[r] = label
  BY <1>1, RunFrame
<1>3. /\ \A v \in Workers : HasUpdates(v)' <=> HasUpdates(v)
      /\ \A q \in Runs \ {r} : InFlightRun(q)' <=> InFlightRun(q)
  BY <1>2 DEF HasUpdates, InFlightRun
<1>4. overtaken \ {"memo"} \subseteq overtaken'
  BY DEF RunHistory, Overtake, Renew, Applies, EndsPending, historyVars
<1>5. CASE EndState(r) /\ EndsPending(r)
  <2>1. ~InFlightRun(r)'
    BY <1>2, <1>5 DEF EndState, InFlightRun
  <2>2. CASE state' = "PENDING_INSTALL"
    BY <1>2, <1>3, <1>5, <2>1, <2>2 DEF EndsPending, Overtake, PendingInv, HasUpdates
  <2>3. CASE state' # "PENDING_INSTALL"
    BY <2>3 DEF PendingInv
  <2> QED
    BY <2>2, <2>3
<1>6. CASE MarkState(r)
  BY <1>6 DEF MarkState, SetState, RestartFree, PendingInv
<1>7. CASE ~EndState(r) /\ ~MarkState(r)
  <2>1. UNCHANGED state
    BY <1>1, <1>7
    DEF RunStep, UpdateAppsAsync, MarkQuirk, UpdateSystem, RetireMemo, RebootRequired, EndQuirk,
      rowVars
  <2>2. InFlightRun(r)' => InFlightRun(r)
    BY <1>1, <1>2, <1>7
    DEF RunStep, UpdateAppsAsync, MarkQuirk, UpdateSystem, RetireMemo, RebootRequired, EndQuirk,
      InFlightRun
  <2> QED
    BY <1>2, <1>3, <1>4, <2>1, <2>2, Distinct DEF PendingInv
<1> QED
  BY <1>5, <1>6, <1>7
  DEF RunHistory, UpdateAppsAsync, MarkState, MarkQuirk, UpdateSystem, RetireMemo, RebootRequired,
    EndState, EndQuirk

LEMMA PendingNext ==
  ASSUME RestartFree
  PROVE  UpdateTypeOK /\ PendingInv /\ [HistoryNext]_allVars => PendingInv'
<1>1. ASSUME PendingInv, UNCHANGED <<state, work, pc>>,
             overtaken \ {"memo", "inputs"} \subseteq overtaken'
      PROVE  PendingInv'
  BY <1>1, Distinct DEF PendingInv, HasUpdates, InFlightRun
<1>2. UNCHANGED allVars \/ OutsideHistory =>
        UNCHANGED <<state, work, pc>> /\ overtaken \ {"memo", "inputs"} \subseteq overtaken'
  BY DEF allVars, vars, historyVars, rowVars, runVars, OutsideHistory, CliUpdate, InputsExpire,
    Publish, Tick, Overtake, InputsRenewed, Renew
<1> QED
  BY <1>1, <1>2, PendingWorker, PendingRun DEF HistoryNext

LEMMA PendingAlways ==
  ASSUME RestartFree
  PROVE  HistorySpec => [](UpdateTypeOK /\ KnownIsTrue /\ PendingInv)
<1>1. HistoryInit => PendingInv
  BY DEF HistoryInit, Init, PendingInv, NoWork, InFlightRun
<1>2. UpdateTypeOK /\ PendingInv /\ [HistoryNext]_allVars => PendingInv'
  BY PendingNext
<1> QED
  BY <1>1, <1>2, KnownAlways, HistoryTyped, PTL DEF HistorySpec

\* A row that waits for a restart is changed only by a run that starts on it, a
\* worker that knows of an update there is, or a job that was overtaken: for
\* any jobs that overlap.
THEOREM PendingAlwaysKept ==
  ASSUME RestartFree
  PROVE  HistorySpec => PendingKept
<1> DEFINE Kept == state = "PENDING_INSTALL" /\ state' # state =>
                     \/ state' = "INSTALLING"
                     \/ state' = "UPDATABLE_LIVE" /\ Available
                     \/ stateBy' \in overtaken
<1>1. ASSUME UpdateTypeOK, KnownIsTrue, PendingInv, HistoryNext
      PROVE  Kept
  <2>1. ASSUME NEW w \in Workers, ApplyState(w),
               WroteState(w, IF HasUpdates(w) THEN "UPDATABLE_LIVE" ELSE "INSTALLED")
        PROVE  Kept
    <3>1. CASE w \in overtaken
      BY <2>1, <3>1 DEF ApplyState, SetState, WroteState
    <3>2. CASE w \notin overtaken
      BY <1>1, <2>1, <3>2 DEF ApplyState, SetState, PendingInv, KnownIsTrue
    <3> QED
      BY <3>1, <3>2
  <2>2. ASSUME NEW r \in Runs, MarkState(r)
        PROVE  Kept
    BY <2>2 DEF MarkState, SetState
  <2>3. ASSUME NEW r \in Runs, EndState(r), WroteState(r, ending[r].state)
        PROVE  Kept
    BY <1>1, <2>3 DEF EndState, SetState, WroteState, PendingInv, InFlightRun
  <2>4. CASE UNCHANGED state
    BY <2>4
  <2>5. ASSUME NEW w \in Workers, WorkHistory(w)
        PROVE  Kept
    BY <2>1, <2>4, <2>5
    DEF WorkHistory, rowVars, StartList, StartRefresh, CheckUpdate, ListOutdatedInputs, UseMemo,
      JudgeRow, ApplyQuirk, ApplyDetails, ListRow
  <2>6. ASSUME NEW r \in Runs, RunHistory(r)
        PROVE  Kept
    BY <2>2, <2>3, <2>4, <2>6
    DEF RunHistory, rowVars, UpdateAppsAsync, MarkQuirk, UpdateSystem, RetireMemo, RebootRequired,
      EndQuirk
  <2> QED
    BY <1>1, <2>4, <2>5, <2>6
    DEF HistoryNext, OutsideHistory, rowVars, CliUpdate, InputsExpire, Publish, Tick
<1>2. UpdateTypeOK /\ KnownIsTrue /\ PendingInv /\ [HistoryNext]_allVars => [Kept]_allVars
  BY <1>1
<1> QED
  BY <1>2, PendingAlways, PTL DEF HistorySpec, PendingKept

\* ... and its details are rewritten only by a worker that was overtaken.
THEOREM DetailsAlwaysKept ==
  ASSUME RestartFree
  PROVE  HistorySpec => RestartKeepsDetails
<1> DEFINE Kept == state = "PENDING_INSTALL" /\ details' # details =>
                     \E w \in overtaken \cap Workers : ApplyDetails(w)
<1>1. ASSUME UpdateTypeOK, PendingInv, HistoryNext
      PROVE  Kept
  <2>1. ASSUME NEW w \in Workers, ApplyDetails(w)
        PROVE  Kept
    BY <1>1, <2>1 DEF ApplyDetails, PendingInv
  <2>2. CASE UNCHANGED details
    BY <2>2
  <2>3. ASSUME NEW w \in Workers, WorkHistory(w)
        PROVE  Kept
    BY <2>1, <2>2, <2>3
    DEF WorkHistory, rowVars, StartList, StartRefresh, CheckUpdate, ListOutdatedInputs, UseMemo,
      JudgeRow, ApplyState, ApplyQuirk, ListRow
  <2>4. ASSUME NEW r \in Runs, RunHistory(r)
        PROVE  Kept
    BY <1>1, <2>2, <2>4, RunFrame DEF RunHistory, RunStep
  <2> QED
    BY <1>1, <2>2, <2>3, <2>4
    DEF HistoryNext, OutsideHistory, rowVars, CliUpdate, InputsExpire, Publish, Tick
<1>2. UpdateTypeOK /\ PendingInv /\ [HistoryNext]_allVars => [Kept]_allVars
  BY <1>1
<1> QED
  BY <1>2, PendingAlways, PTL DEF HistorySpec, RestartKeepsDetails
===============================================================================
