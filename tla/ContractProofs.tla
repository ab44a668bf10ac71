---------------------------- MODULE ContractProofs ----------------------------
(***************************************************************************)
(* Theorem: Lifecycle implements RequestContract, for any apps, job lists  *)
(* and requests: however the work is split into batched and single calls,  *)
(* what the daemon was made to do is what was asked, and the report says   *)
(* whether all of it was.                                                  *)
(***************************************************************************)
EXTENDS LifecycleProofs

\* The indices a request makes a call about, sooner or later.
Eligible(r) == {i \in Mine(List(r)) : KindOf[List(r)[i]] \in EnabledKinds \cup {"plugin"}}

\* A call about index i is behind the request: of an earlier stage, or of this
\* one, whose call was just answered, or of a plugin before the current one.
CalledFor(r, i) ==
  LET k == KindOf[List(r)[i]]
  IN  \/ pc[r] \in {"running", "calling", "stamping", "invalidating"} /\ Later(stage[r], k)
      \/ pc[r] \in {"running", "calling"} /\ stage[r] = "plugin" /\ k = "plugin" /\ i < cursor[r]
      \/ pc[r] \in {"stamping", "invalidating"} /\ k = stage[r] /\ (k = "plugin" => i <= cursor[r])
      \/ pc[r] \in {"returned", "done"}

\* The targets granted are wanted ones, all those called for while no call has
\* failed; after a failure there is no call.
GrantsOK(r) ==
  /\ pc[r] \in {"idle", "starting"} => applied[r] = {}
  /\ ~ok[r] => pc[r] \in {"stamping", "rollback", "resetting", "returned", "done"}
  /\ pc[r] \in {"rollback", "resetting"} => ~ok[r]
  /\ pc[r] = "calling" =>
       IF stage[r] = "plugin" THEN KindOf[Current(r)] = "plugin" ELSE stage[r] \in EnabledKinds
  /\ applied[r] \subseteq Wanted(r)
  /\ ok[r] => \A i \in Eligible(r) : CalledFor(r, i) => TargetOf[List(r)[i]] \in applied[r]

Grants == \A r \in Requests : GrantsOK(r)

-------------------------------------------------------------------------------
LEMMA InitGrants == Init => Grants
BY DEF Init, Grants, GrantsOK, Eligible, CalledFor, Wanted, Mine, List, Later

LEMMA OtherRequestGrants ==
  ASSUME NEW q \in Requests, GrantsOK(q),
         pc'[q] = pc[q], job'[q] = job[q], stage'[q] = stage[q], cursor'[q] = cursor[q],
         ok'[q] = ok[q], applied'[q] = applied[q]
  PROVE  GrantsOK(q)'
BY DEF GrantsOK, Eligible, CalledFor, Wanted, List, Current

\* The targets of a call are wanted by its request.
LEMMA CalledAreWanted ==
  ASSUME IndInv, NEW r \in Requests, GrantsOK(r), pc[r] = "calling"
  PROVE  /\ Group(r) \subseteq Eligible(r)
         /\ CalledTargets(r) \subseteq Wanted(r) /\ CalledTargets(r) \subseteq Targets
<1>1. cursor[r] \in DOMAIN List(r)
  BY CurrentIsApp DEF IndInv, CursorInRange
<1>2. Group(r) \subseteq Eligible(r)
  BY <1>1 DEF Group, Eligible, Mine, IsOurs, GrantsOK, Current, IndInv, TypeOK, Kind, BatchKind
<1>3. \A i \in DOMAIN List(r) : List(r)[i] \in Apps
  BY DEF IndInv, TypeOK, Job, List
<1>4. \A i \in Eligible(r) : TargetOf[List(r)[i]] \in Targets
  BY <1>3, LifecycleAssumption DEF LifecycleAssumption, Eligible, Mine
<1> QED
  BY <1>2, <1>4 DEF CalledTargets, Wanted, Eligible

\* A step of r that makes no call: it is enough to look at what it calls behind.
LEMMA NoCallGrants ==
  ASSUME IndInv, NEW r \in Requests, GrantsOK(r), UNCHANGED <<job, ok, applied>>,
         pc'[r] \in {"idle", "starting"} => pc[r] \in {"idle", "starting"},
         ~ok[r] => pc'[r] \in {"rollback", "resetting", "stamping", "returned", "done"},
         pc'[r] \in {"rollback", "resetting"} => ~ok[r],
         pc'[r] = "calling" =>
           IF stage'[r] = "plugin" THEN KindOf[Current(r)'] = "plugin" ELSE stage'[r] \in EnabledKinds,
         ok[r] => \A i \in Eligible(r) : CalledFor(r, i)' => CalledFor(r, i)
  PROVE  GrantsOK(r)'
<1>1. Eligible(r)' = Eligible(r) /\ Wanted(r)' = Wanted(r) /\ List(r)' = List(r)
  BY DEF Eligible, Wanted, List
<1> QED
  BY <1>1 DEF GrantsOK

LEMMA RequestGrants ==
  ASSUME IndInv, NEW r \in Requests, GrantsOK(r), StartLifecycle(r) \/ RequestStep(r)
  PROVE  GrantsOK(r)'
<1>0. /\ cursor[r] \in Nat \ {0} /\ stage[r] \in Kind /\ ok[r] \in BOOLEAN
      /\ pc[r] \in RequestPC /\ Len(List(r)) \in Nat /\ DOMAIN List(r) = 1 .. Len(List(r))
      /\ r \in DOMAIN pc /\ r \in DOMAIN cursor /\ r \in DOMAIN stage
  BY DEF IndInv, TypeOK, Job, List
<1>k. \A i \in Eligible(r) : i \in 1 .. Len(List(r)) /\ KindOf[List(r)[i]] \in Kind
  <2>1. \A i \in DOMAIN List(r) : List(r)[i] \in Apps
    BY DEF IndInv, TypeOK, Job, List
  <2> QED
    BY <1>0, <2>1, LifecycleAssumption DEF LifecycleAssumption, Eligible, Mine, IsOurs
<1>1. CASE StartLifecycle(r)
  <2>1. PICK j \in Jobs[r] :
          /\ job' = [job EXCEPT ![r] = j]
          /\ pc' = [pc EXCEPT ![r] = IF Mine(j.list) = {} THEN "returned" ELSE "starting"]
    BY <1>1 DEF StartLifecycle
  <2>2. UNCHANGED <<stage, cursor, ok, applied>> /\ pc[r] = "idle" /\ ok[r] /\ applied[r] = {}
    BY <1>1 DEF StartLifecycle, GrantsOK
  <2>3. List(r)' = j.list
    BY <2>1 DEF IndInv, TypeOK, List
  <2>4. CASE Mine(j.list) = {}
    <3>1. Eligible(r)' = {}
      BY <2>3, <2>4 DEF Eligible
    <3> QED
      BY <1>0, <2>1, <2>2, <2>4, <3>1 DEF GrantsOK
  <2>5. CASE Mine(j.list) # {}
    BY <1>0, <2>1, <2>2, <2>5 DEF GrantsOK, CalledFor
  <2> QED
    BY <2>4, <2>5
<1>2. CASE MarkInProgress(r)
  <2>1. UNCHANGED <<job, stage, ok, applied>> /\ pc[r] = "starting" /\ stage[r] = "package" /\ ok[r]
    BY <1>2 DEF MarkInProgress, IndInv, CursorInRange, GrantsOK
  <2>2. pc'[r] \in {"starting", "running"}
    BY <1>0, <1>2 DEF MarkInProgress
  <2>3. \A i : CalledFor(r, i)' => FALSE
    BY <2>1, <2>2 DEF CalledFor, Later
  <2> QED
    BY <2>1, <2>2, <2>3, NoCallGrants
<1>3. CASE CallForKind(r)
  <2>1. UNCHANGED <<job, cursor, ok, applied>> /\ pc[r] = "running" /\ stage[r] \in BatchKind /\ ok[r]
    BY <1>3 DEF CallForKind, GrantsOK
  <2>2. CASE stage[r] \in EnabledKinds /\ Group(r) # {}
    <3>1. pc'[r] = "calling" /\ UNCHANGED stage
      BY <1>0, <1>3, <2>2 DEF CallForKind
    <3>2. \A i \in Eligible(r) : CalledFor(r, i)' => CalledFor(r, i)
      BY <2>1, <3>1 DEF CalledFor, List
    <3> QED
      BY <2>1, <2>2, <3>1, <3>2, NoCallGrants DEF BatchKind
  <2>3. CASE ~(stage[r] \in EnabledKinds /\ Group(r) # {})
    <3>1. pc'[r] = "running" /\ stage'[r] = NextStage(stage[r])
      BY <1>0, <1>3, <2>1, <2>3 DEF CallForKind
    <3>2. \A i \in Eligible(r) : KindOf[List(r)[i]] # stage[r]
      BY <2>1, <2>3 DEF Eligible, Mine, Group, BatchKind
    <3>3. cursor[r] = 1
      BY <2>1 DEF IndInv, CursorInRange
    <3>4. \A i \in Eligible(r) : CalledFor(r, i)' => CalledFor(r, i)
      BY <1>0, <1>k, <2>1, <3>1, <3>2, <3>3 DEF CalledFor, List, Later, NextStage, BatchKind
    <3> QED
      BY <2>1, <3>1, <3>4, NoCallGrants
  <2> QED
    BY <2>2, <2>3
<1>4. CASE CallForPlugins(r)
  <2>1. UNCHANGED <<job, stage, ok, applied>> /\ pc[r] = "running" /\ stage[r] = "plugin" /\ ok[r]
    BY <1>4 DEF CallForPlugins, GrantsOK
  <2>2. \/ pc'[r] = "returned" /\ cursor[r] > Len(List(r))
        \/ pc'[r] = "calling" /\ UNCHANGED cursor /\ KindOf[Current(r)] = "plugin"
        \/ pc'[r] = "running" /\ cursor'[r] = cursor[r] + 1 /\ KindOf[Current(r)] # "plugin"
    BY <1>0, <1>4 DEF CallForPlugins
  <2>3. \A i \in Eligible(r) : CalledFor(r, i)' => CalledFor(r, i)
    BY <1>0, <1>k, <2>1, <2>2 DEF CalledFor, List, Later, Kind, BatchKind, Current
  <2> QED
    BY <2>1, <2>2, <2>3, NoCallGrants DEF Current, List
<1>5. CASE DaemonReplies(r)
  <2>1. /\ UNCHANGED <<job, stage, cursor>> /\ pc[r] = "calling" /\ pc'[r] = "stamping"
        /\ (ok'[r] => applied'[r] = applied[r] \cup CalledTargets(r))
        /\ applied'[r] \subseteq applied[r] \cup CalledTargets(r)
    BY <1>0, <1>5 DEF DaemonReplies, IndInv, TypeOK
  <2>2. ok[r] /\ CalledTargets(r) \subseteq Wanted(r) /\ Wanted(r)' = Wanted(r)
    BY <2>1, CalledAreWanted DEF GrantsOK, Wanted, List
  <2>3. ASSUME NEW i \in Eligible(r), CalledFor(r, i)'
        PROVE  CalledFor(r, i) \/ i \in Group(r)
    BY <1>0, <1>k, <2>1, <2>3 DEF CalledFor, Group, List, Kind, BatchKind, Later
  <2>4. \A i \in Group(r) : TargetOf[List(r)[i]] \in CalledTargets(r)
    BY DEF CalledTargets
  <2>5. Eligible(r)' = Eligible(r) /\ List(r)' = List(r)
    BY <2>1 DEF Eligible, List
  <2> QED
    BY <2>1, <2>2, <2>3, <2>4, <2>5 DEF GrantsOK
<1>6. CASE SetGroupState(r)
  <2>1. UNCHANGED <<job, ok, applied>> /\ pc[r] = "stamping" /\ stage[r] \in BatchKind
    BY <1>6 DEF SetGroupState
  <2>2. \/ pc'[r] = "stamping" /\ stage'[r] = stage[r]
        \/ ok[r] /\ pc'[r] = "running" /\ stage'[r] = NextStage(stage[r]) /\ cursor'[r] = 1
        \/ ~ok[r] /\ pc'[r] = "rollback"
    BY <1>0, <1>6, <2>1 DEF SetGroupState
  <2>3. ok[r] => \A i \in Eligible(r) : CalledFor(r, i)' => CalledFor(r, i)
    BY <1>0, <1>k, <2>1, <2>2 DEF CalledFor, List, Later, NextStage, Kind, BatchKind
  <2> QED
    BY <2>1, <2>2, <2>3, NoCallGrants
<1>7. CASE SetPluginState(r)
  <2>1. UNCHANGED <<job, stage, ok, applied>> /\ pc[r] = "stamping" /\ stage[r] = "plugin"
    BY <1>7 DEF SetPluginState
  <2>2. \/ ok[r] /\ pc'[r] = "invalidating" /\ UNCHANGED cursor
        \/ ~ok[r] /\ pc'[r] = "rollback"
    BY <1>0, <1>7 DEF SetPluginState
  <2>3. ok[r] => \A i \in Eligible(r) : CalledFor(r, i)' => CalledFor(r, i)
    BY <2>1, <2>2 DEF CalledFor, List
  <2> QED
    BY <2>1, <2>2, <2>3, NoCallGrants
<1>8. CASE InvalidatePlugins(r)
  <2>1. /\ UNCHANGED <<job, stage, ok, applied>> /\ pc[r] = "invalidating" /\ stage[r] = "plugin" /\ ok[r]
        /\ pc'[r] = "running" /\ cursor'[r] = cursor[r] + 1
    BY <1>0, <1>8 DEF InvalidatePlugins, IndInv, CursorInRange, GrantsOK
  <2>2. \A i \in Eligible(r) : CalledFor(r, i)' => CalledFor(r, i)
    BY <1>0, <1>k, <2>1 DEF CalledFor, List
  <2> QED
    BY <2>1, <2>2, NoCallGrants
<1>9. CASE RollbackCheck(r) \/ RollbackReset(r)
  <2>1. UNCHANGED <<job, stage, ok, applied>> /\ pc[r] \in {"rollback", "resetting"} /\ ~ok[r]
    BY <1>9 DEF RollbackCheck, RollbackReset, GrantsOK
  <2>2. pc'[r] \in {"rollback", "resetting", "returned"}
    BY <1>0, <1>9 DEF RollbackCheck, RollbackReset, RollbackNext
  <2> QED
    BY <2>1, <2>2, NoCallGrants
<1>10. CASE Finish(r)
  <2>1. UNCHANGED <<job, ok, applied, stage, cursor>> /\ pc[r] = "returned" /\ pc'[r] = "done"
    BY <1>0, <1>10 DEF Finish
  <2>2. \A i : CalledFor(r, i)' => CalledFor(r, i)
    BY <2>1 DEF CalledFor
  <2> QED
    BY <2>1, <2>2, NoCallGrants
<1> QED
  BY <1>1, <1>2, <1>3, <1>4, <1>5, <1>6, <1>7, <1>8, <1>9, <1>10 DEF RequestStep, Worker

LEMMA StepOfOneRequestGrants ==
  ASSUME TypeOK, NEW r \in Requests, StartLifecycle(r) \/ RequestStep(r),
         NEW q \in Requests, q # r
  PROVE  ok'[q] = ok[q] /\ applied'[q] = applied[q]
BY DEF TypeOK, RequestStep, Worker, StartLifecycle, MarkInProgress, CallForKind, CallForPlugins,
       DaemonReplies, SetGroupState, SetPluginState, InvalidatePlugins, RollbackCheck,
       RollbackReset, RollbackNext, Finish

LEMMA NextGrants == IndInv /\ Grants /\ [Next]_vars => Grants'
<1> SUFFICES ASSUME IndInv, Grants, [Next]_vars PROVE Grants'
  OBVIOUS
<1>1. ASSUME NEW r \in Requests, StartLifecycle(r) \/ RequestStep(r), NEW q \in Requests
      PROVE  GrantsOK(q)'
  <2>1. GrantsOK(r) /\ GrantsOK(q) /\ TypeOK
    BY DEF Grants, IndInv
  <2>2. CASE q = r
    BY <1>1, <2>1, <2>2, RequestGrants
  <2>3. CASE q # r
    BY <1>1, <2>1, <2>3, StepOfOneRequest, StepOfOneRequestGrants, OtherRequestGrants
  <2> QED
    BY <2>2, <2>3
<1>2. ASSUME UNCHANGED requestVars, NEW q \in Requests PROVE GrantsOK(q)'
  BY <1>2, OtherRequestGrants DEF requestVars, Grants
<1>3. ASSUME NEW r \in Requests, Cancel(r) PROVE UNCHANGED requestVars
  BY <1>3 DEF Cancel
<1>4. ASSUME NEW t \in CliTargets, CliChanges(t) PROVE UNCHANGED requestVars
  BY <1>4 DEF CliChanges
<1> QED
  BY <1>1, <1>2, <1>3, <1>4, ReaderKeepsRequests DEF Next, Grants, vars

LEMMA GrantsHold == Spec => [](IndInv /\ Grants)
BY InitIndInv, NextIndInv, InitGrants, NextGrants, PTL DEF Spec

-------------------------------------------------------------------------------
(* The mapping: initial states to initial states, a step to a step.        *)

\* What the contract sees of a request.
Phase(r) == IF pc[r] \in {"idle", "done"} THEN IF pc[r] = "idle" THEN "idle" ELSE report[r]
            ELSE "running"

\* ... and of them all.
Phases == [r \in Requests |-> IF pc[r] \in {"idle", "done"}
                             THEN IF pc[r] = "idle" THEN "idle" ELSE report[r]
                             ELSE "running"]
Ops == [r \in Requests |-> job[r].op]
Wants == [r \in Requests |-> Wanted(r)]
Failures == [r \in Requests |-> ~ok[r]]

LEMMA InitContract == Init => Contract!Init
<1> SUFFICES ASSUME Init PROVE Contract!Init
  OBVIOUS
<1>1. Phases = [r \in Requests |-> "idle"]
  BY DEF Init, Phases
<1>2. Ops = [r \in Requests |-> "install"]
  BY DEF Init, Ops
<1>3. Wants = [r \in Requests |-> {}]
  <2>1. \A r \in Requests : Wanted(r) = {}
    BY DEF Init, Wanted, Mine, List
  <2> QED
    BY <2>1 DEF Wants
<1>4. Failures = [r \in Requests |-> FALSE]
  BY DEF Init, Failures
<1> QED
  BY <1>1, <1>2, <1>3, <1>4 DEF Init, Contract!Init, Phases, Ops, Wants, Failures

\* A step that leaves what the contract sees of r as it is.
Unseen(r) ==
  /\ pc'[r] \notin {"idle", "done"} /\ pc[r] \notin {"idle", "done"}
  /\ UNCHANGED <<job, ok, applied, report, installed>>

LEMMA ContractStutters ==
  ASSUME \A q \in Requests : Phase(q)' = Phase(q), UNCHANGED <<job, ok, applied, installed>>
  PROVE  UNCHANGED Contract!vars
BY DEF Phase, Contract!vars, Contract!requestVars, Wanted, List

LEMMA UnseenStutters ==
  ASSUME IndInv, NEW r \in Requests, StartLifecycle(r) \/ RequestStep(r), Unseen(r)
  PROVE  UNCHANGED Contract!vars
<1>1. \A q \in Requests : Phase(q)' = Phase(q)
  BY StepOfOneRequest DEF Phase, Unseen, IndInv
<1> QED
  BY <1>1, ContractStutters DEF Unseen

LEMMA StepContract ==
  ASSUME IndInv, Grants, NEW r \in Requests, StartLifecycle(r) \/ RequestStep(r)
  PROVE  Contract!Next \/ UNCHANGED Contract!vars
<1>0. /\ \A q \in Requests : q # r => pc'[q] = pc[q] /\ job'[q] = job[q]
      /\ pc \in [Requests -> RequestPC] /\ ok \in [Requests -> BOOLEAN]
      /\ r \in DOMAIN pc /\ r \in DOMAIN job /\ r \in DOMAIN ok /\ r \in DOMAIN report
      /\ job[r].op \in Op
  BY StepOfOneRequest DEF IndInv, TypeOK, Job
<1>w. \A q \in Requests : q # r => Wanted(q)' = Wanted(q)
  BY <1>0 DEF Wanted, List
<1>1. CASE StartLifecycle(r)
  <2>1. PICK j \in Jobs[r] :
          /\ job' = [job EXCEPT ![r] = j]
          /\ pc' = [pc EXCEPT ![r] = IF Mine(j.list) = {} THEN "returned" ELSE "starting"]
    BY <1>1 DEF StartLifecycle
  <2>2. j \in Job
    BY <2>1, LifecycleAssumption DEF LifecycleAssumption
  <2>3. Wanted(r)' \in SUBSET Targets
    <3>1. \A i \in DOMAIN j.list : j.list[i] \in Apps
      BY <2>2 DEF Job
    <3>2. List(r)' = j.list
      BY <1>0, <2>1 DEF List
    <3> QED
      BY <3>1, <3>2, LifecycleAssumption DEF LifecycleAssumption, Wanted, Mine
  <2>4. UNCHANGED <<installed, ok, applied, report>> /\ pc[r] = "idle"
    BY <1>1 DEF StartLifecycle, taskVars
  <2>5. job'[r].op \in {"install", "uninstall"}
    BY <1>0, <2>1, <2>2 DEF Job, Op
  <2>6. Phases' = [Phases EXCEPT ![r] = "running"]
    BY <1>0, <2>1, <2>4 DEF Phases
  <2>7. Ops' = [Ops EXCEPT ![r] = job'[r].op]
    <3>1. \A q \in Requests : job'[q].op = IF q = r THEN job'[r].op ELSE job[q].op
      BY <1>0
    <3>2. Ops' = [q \in Requests |-> job'[q].op]
      BY DEF Ops
    <3> QED
      BY <3>1, <3>2 DEF Ops
  <2>8. Wants' = [Wants EXCEPT ![r] = Wanted(r)']
    BY <1>w DEF Wants
  <2>9. Failures' = Failures
    BY <2>4 DEF Failures
  <2>10. Contract!Begin(r)
    BY <2>3, <2>4, <2>5, <2>6, <2>7, <2>8, <2>9 DEF Contract!Begin, Phases, Ops, Wants, Failures
  <2> QED
    BY <2>10 DEF Contract!Next
<1>2. CASE MarkInProgress(r)
  BY <1>0, <1>2, UnseenStutters DEF MarkInProgress, Unseen, taskVars
<1>3. CASE CallForKind(r)
  BY <1>0, <1>3, UnseenStutters DEF CallForKind, Unseen, taskVars
<1>4. CASE CallForPlugins(r)
  BY <1>0, <1>4, UnseenStutters DEF CallForPlugins, Unseen, taskVars
<1>5. CASE DaemonReplies(r)
  <2>1. PICK done \in BOOLEAN, heard \in {TRUE, ~LostReplies} :
          /\ ok' = [ok EXCEPT ![r] = done /\ heard]
          /\ IF done
             THEN /\ installed' = Effect(job[r].op, CalledTargets(r))
                  /\ applied' = [applied EXCEPT ![r] = @ \cup CalledTargets(r)]
             ELSE UNCHANGED <<installed, applied>>
    BY <1>5 DEF DaemonReplies
  <2>2. /\ pc[r] = "calling" /\ pc' = [pc EXCEPT ![r] = "stamping"]
        /\ UNCHANGED <<job, report>>
    BY <1>5 DEF DaemonReplies, taskVars
  <2>3. ok[r] /\ CalledTargets(r) \subseteq Wanted(r)
    BY <2>2, CalledAreWanted DEF Grants, GrantsOK
  <2>4. \A q \in Requests : Wanted(q)' = Wanted(q) /\ Phase(q)' = Phase(q)
    BY <1>0, <2>2 DEF Wanted, List, Phase
  <2>5. CASE done
    <3>1. PICK lost \in {FALSE, LostReplies} : ok' = [ok EXCEPT ![r] = ~lost]
      BY <2>1, <2>5, LifecycleAssumption DEF LifecycleAssumption
    <3>2. Phases' = Phases /\ Phases[r] = "running"
      BY <1>0, <2>2 DEF Phases
    <3>3. Ops' = Ops /\ Wants' = Wants /\ Ops[r] = job[r].op /\ Wants[r] = Wanted(r)
      BY <2>2, <2>4 DEF Ops, Wants
    <3>4. Failures' = [Failures EXCEPT ![r] = lost] /\ ~Failures[r]
      <4>1. lost \in BOOLEAN
        BY LifecycleAssumption DEF LifecycleAssumption
      <4>2. \A q \in Requests : ok'[q] = IF q = r THEN ~lost ELSE ok[q]
        BY <1>0, <3>1
      <4> QED
        BY <2>3, <4>1, <4>2 DEF Failures
    <3>5. installed' = IF job[r].op = "install" THEN installed \cup CalledTargets(r)
                                              ELSE installed \ CalledTargets(r)
      BY <2>1, <2>5 DEF Effect
    <3>6. Contract!Grant(r)
      BY <2>1, <2>3, <2>5, <3>2, <3>3, <3>4, <3>5
      DEF Contract!Grant, Phases, Ops, Wants, Failures
    <3> QED
      BY <3>6 DEF Contract!Next
  <2>6. CASE ~done
    BY <1>0, <2>1, <2>2, <2>3, <2>4, <2>6 DEF Contract!Next, Contract!Refuse, Phase
  <2> QED
    BY <2>5, <2>6
<1>6. CASE SetGroupState(r)
  BY <1>0, <1>6, UnseenStutters DEF SetGroupState, Unseen, taskVars
<1>7. CASE SetPluginState(r)
  BY <1>0, <1>7, UnseenStutters DEF SetPluginState, Unseen, taskVars
<1>8. CASE InvalidatePlugins(r)
  BY <1>0, <1>8, UnseenStutters DEF InvalidatePlugins, Cache!Invalidate, Unseen, taskVars
<1>9. CASE RollbackCheck(r) \/ RollbackReset(r)
  BY <1>0, <1>9, UnseenStutters DEF RollbackCheck, RollbackReset, RollbackNext, Unseen, taskVars
<1>10. CASE Finish(r)
  <2>1. /\ pc[r] = "returned" /\ pc' = [pc EXCEPT ![r] = "done"]
        /\ UNCHANGED <<installed, job, ok, applied>>
        /\ \E outcome \in {"cancelled", IF ok[r] THEN "success" ELSE "failed"} :
              report' = [report EXCEPT ![r] = outcome]
    BY <1>10 DEF Finish
  <2>2. ok[r] => applied[r] = Wanted(r)
    BY <2>1 DEF Grants, GrantsOK, CalledFor, Eligible, Wanted
  <2>3. \A q \in Requests : Wanted(q)' = Wanted(q)
    BY <2>1 DEF Wanted, List
  <2>5. Phases[r] = "running" /\ Phases' = [Phases EXCEPT ![r] = report'[r]]
    <3>1. \A q \in Requests : q # r => report'[q] = report[q]
      BY <2>1
    <3>2. pc'[r] = "done"
      BY <1>0, <2>1
    <3>3. Phases' = [q \in Requests |-> IF pc'[q] \in {"idle", "done"}
                                       THEN IF pc'[q] = "idle" THEN "idle" ELSE report'[q]
                                       ELSE "running"]
      BY DEF Phases
    <3> QED
      BY <1>0, <2>1, <3>1, <3>2, <3>3 DEF Phases
  <2>6. Ops' = Ops /\ Wants' = Wants /\ Failures' = Failures /\ Failures[r] = ~ok[r]
        /\ Wants[r] = Wanted(r)
    BY <2>1, <2>3 DEF Ops, Wants, Failures
  <2>7. report'[r] \in {"cancelled", IF ~ok[r] THEN "failed" ELSE "success"}
    BY <1>0, <2>1
  <2>4. Contract!End(r)
    BY <2>1, <2>2, <2>5, <2>6, <2>7 DEF Contract!End, Phases, Ops, Wants, Failures
  <2> QED
    BY <2>4 DEF Contract!Next
<1> QED
  BY <1>1, <1>2, <1>3, <1>4, <1>5, <1>6, <1>7, <1>8, <1>9, <1>10 DEF RequestStep, Worker

LEMMA NextContract ==
  ASSUME IndInv, Grants, [Next]_vars
  PROVE  Contract!Next \/ UNCHANGED Contract!vars
<1>1. ASSUME NEW r \in Requests, Cancel(r) PROVE UNCHANGED Contract!vars
  BY <1>1, ContractStutters DEF Cancel, requestVars, Phase
<1>2. ASSUME NEW l \in Readers, ReaderStep(l) PROVE UNCHANGED Contract!vars
  <2>1. UNCHANGED <<installed, report>>
    BY <1>2 DEF ReaderStep, ReadListing, PrefetchInstalledPlugins, LookupAddons, FetchAddons,
       AddModulePlugins, GuardRow, StampRow, taskVars, Cache!Lookup, Cache!FetchStep, Cache!Reply,
       Cache!Insert, Cache!Release
  <2> QED
    BY <1>2, <2>1, ReaderKeepsRequests, ContractStutters DEF requestVars, Phase
<1>3. ASSUME NEW t \in CliTargets, CliChanges(t) PROVE Contract!Next
  <2>1. UNCHANGED <<requestVars, taskVars>>
    BY <1>3 DEF CliChanges
  <2> QED
    BY <1>3, <2>1 DEF CliChanges, Contract!Next, Contract!Outside, Contract!requestVars, requestVars,
       taskVars, Wanted, List
<1>4. CASE UNCHANGED vars
  BY <1>4, ContractStutters DEF vars, requestVars, taskVars, Phase
<1> QED
  BY <1>1, <1>2, <1>3, <1>4, StepContract DEF Next

\* Every behaviour of the requests is one the contract allows
\* (lifecycle_execute(), gs_modulix_lifecycle_finish()).
THEOREM ContractKept == Spec => KeepsContract
<1>1. IndInv /\ Grants /\ [Next]_vars => [Contract!Next]_(Contract!vars)
  BY NextContract
<1> QED
  BY <1>1, InitContract, GrantsHold, PTL DEF Spec, KeepsContract, Contract!Spec
===============================================================================
