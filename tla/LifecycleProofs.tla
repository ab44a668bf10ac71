--------------------------- MODULE LifecycleProofs ---------------------------
(***************************************************************************)
(* Theorems about Lifecycle, for any apps, targets, requests, job lists    *)
(* and workers, and any transition table that lets an operation in flight  *)
(* end (RefusedAssumption).                                                *)
(***************************************************************************)
EXTENDS Lifecycle, TLAPS

(***************************************************************************)
(* Where the loops are: an index is used only inside the list, and a       *)
(* request that has not reached its worker is at the first stage.          *)
(***************************************************************************)
CursorInRange ==
  \A r \in Requests :
    /\ pc[r] = "idle" => cursor[r] = 1
    /\ pc[r] \in {"idle", "starting"} => stage[r] = "package"
    /\ pc[r] \in {"starting", "calling", "stamping", "invalidating", "rollback", "resetting"}
         => cursor[r] <= Len(List(r))
    /\ pc[r] = "running" /\ stage[r] \in BatchKind => cursor[r] = 1 /\ 1 <= Len(List(r))
    /\ pc[r] = "invalidating" => stage[r] = "plugin"

IndInv == TypeOK /\ CursorInRange

-------------------------------------------------------------------------------
(* The operators the actions are built from.                               *)

LEMMA ValuesTyped ==
  /\ \A b \in BOOLEAN : Settled(b) \in {"INSTALLED", "AVAILABLE"}
  /\ \A op \in Op : InProgress(op) \in InFlight
  /\ \A op \in Op, b \in BOOLEAN : Outcome(op, b) \in {"INSTALLED", "AVAILABLE"}
  /\ \A s \in Kind : NextStage(s) \in Kind
  /\ \A old, new \in AppState : SetState(old, new) \in AppState
  /\ InFlight \subseteq AppState /\ {"INSTALLED", "AVAILABLE"} \subseteq AppState
BY DEF Settled, InProgress, InFlight, Outcome, NextStage, Kind, BatchKind, SetState, AppState, Op

\* An element of a request's list is an app.
LEMMA ListElement ==
  ASSUME TypeOK, NEW r \in Requests, NEW i \in Nat \ {0}, i <= Len(List(r))
  PROVE  List(r)[i] \in Apps /\ i \in DOMAIN List(r)
BY DEF TypeOK, Job, List

LEMMA CurrentIsApp ==
  ASSUME TypeOK, NEW r \in Requests, cursor[r] <= Len(List(r))
  PROVE  Current(r) \in Apps /\ cursor[r] \in DOMAIN List(r)
<1>1. cursor[r] \in Nat \ {0}
  BY DEF TypeOK
<1> QED
  BY <1>1, ListElement DEF Current

LEMMA SetAppStateTyped ==
  ASSUME TypeOK, NEW a \in Apps, NEW new \in AppState, SetAppState(a, new)
  PROVE  state' \in [Apps -> AppState]
BY ValuesTyped DEF TypeOK, SetAppState

\* Ending an operation leaves the app out of flight, whatever it was.
LEMMA EndsFlight ==
  ASSUME TypeOK, NEW a \in Apps, NEW new \in {"INSTALLED", "AVAILABLE"}, SetAppState(a, new)
  PROVE  /\ state'[a] \notin InFlight
         /\ \A b \in Apps : b # a => state'[b] = state[b]
BY RefusedAssumption DEF TypeOK, SetAppState, SetState, InFlight

-------------------------------------------------------------------------------
(* Type correctness and CursorInRange.                                     *)

LEMMA InitIndInv == Init => IndInv
<1> SUFFICES ASSUME Init PROVE IndInv
  OBVIOUS
<1>1. Cache!CacheTypeOK
  BY LifecycleAssumption DEF Init, Cache!CacheInit, Cache!CacheTypeOK, Cache!Idle,
     Cache!FetchPC, Cache!Payload
<1>2. state \in [Apps -> AppState]
  BY DEF Init, Settled, AppState
<1>3. job \in [Requests -> Job]
  BY DEF Init, Job, Op
<1>4. TypeOK
  BY <1>1, <1>2, <1>3 DEF Init, TypeOK, RequestPC, Kind, BatchKind, Report
<1>5. CursorInRange
  BY DEF Init, CursorInRange
<1> QED
  BY <1>4, <1>5 DEF IndInv

\* A step of the cache keeps its tables typed: the four operations workers use.
LEMMA CacheStepTyped ==
  ASSUME TypeOK, NEW l \in Readers
  PROVE  /\ \A m \in Modules : Cache!Lookup(l, m) => Cache!CacheTypeOK'
         /\ Cache!FetchStep(l) => Cache!CacheTypeOK'
         /\ Cache!Release(l) => Cache!CacheTypeOK'
         /\ \A m : Cache!Invalidate(m) => Cache!CacheTypeOK'
<1> USE DEF TypeOK, Cache!CacheTypeOK, Cache!FetchPC, Cache!Payload
<1>1. ASSUME NEW m \in Modules, Cache!Lookup(l, m) PROVE Cache!CacheTypeOK'
  BY <1>1 DEF Cache!Lookup
<1>2. ASSUME NEW m \in Modules PROVE Cache!PluginRows(m) \in SUBSET Cache!PluginRow
  <2> SUFFICES ASSUME NEW x \in Cache!PluginRows(m) PROVE x \in Cache!PluginRow
    OBVIOUS
  <2>1. PICK p \in PluginTargets : x = [target |-> p, installed |-> p \in installed]
    BY DEF Cache!PluginRows
  <2>2. (p \in installed) \in BOOLEAN
    OBVIOUS
  <2> QED
    BY <2>1, <2>2 DEF Cache!PluginRow
<1>3. ASSUME Cache!Reply(l) PROVE Cache!CacheTypeOK'
  <2>1. PICK answer \in {Cache!PluginRows(fetch[l].module), {}} :
          fetch' = [fetch EXCEPT ![l] =
            [pc |-> "inserting", module |-> fetch[l].module, payload |-> answer]]
    BY <1>3 DEF Cache!Reply
  <2>2. answer \in SUBSET Cache!PluginRow
    BY <1>2, <2>1
  <2> QED
    BY <1>3, <2>1, <2>2 DEF Cache!Reply
<1>4. ASSUME Cache!Insert(l) PROVE Cache!CacheTypeOK'
  <2>1. fetch[l].module \in Modules /\ fetch[l].payload \in SUBSET Cache!PluginRow
    OBVIOUS
  <2>2. /\ DOMAIN cache' \subseteq Modules
        /\ \A m \in DOMAIN cache' : cache'[m] \in SUBSET Cache!PluginRow
        /\ fetch[l].module \in DOMAIN cache'
    BY <1>4, <2>1 DEF Cache!Insert
  <2> QED
    BY <1>4, <2>1, <2>2 DEF Cache!Insert
<1>5. ASSUME Cache!Release(l) PROVE Cache!CacheTypeOK'
  BY <1>5, LifecycleAssumption DEF Cache!Release, Cache!Idle, LifecycleAssumption
<1>6. ASSUME NEW m, Cache!Invalidate(m) PROVE Cache!CacheTypeOK'
  BY <1>6 DEF Cache!Invalidate
<1> QED
  BY <1>1, <1>3, <1>4, <1>5, <1>6 DEF Cache!FetchStep

\* The cache part is untouched by any step that leaves its variables alone.
LEMMA CacheUntouched ==
  ASSUME TypeOK, UNCHANGED cacheVars PROVE Cache!CacheTypeOK'
BY DEF TypeOK, cacheVars, Cache!CacheTypeOK

\* What a step of r does to its loop index and program counter.
LEMMA LoopTyped ==
  ASSUME TypeOK, NEW r \in Requests, NEW label \in RequestPC,
         \/ UNCHANGED cursor
         \/ cursor' = [cursor EXCEPT ![r] = 1]
         \/ cursor' = [cursor EXCEPT ![r] = @ + 1],
         UNCHANGED pc \/ pc' = [pc EXCEPT ![r] = label]
  PROVE  cursor' \in [Requests -> Nat \ {0}] /\ pc' \in [Requests -> RequestPC]
<1> USE DEF TypeOK
<1>1. cursor[r] \in Nat
  OBVIOUS
<1>2. cursor' \in [Requests -> Nat \ {0}]
  BY <1>1
<1>3. pc' \in [Requests -> RequestPC]
  OBVIOUS
<1> QED
  BY <1>2, <1>3

LEMMA RequestStepTyped ==
  ASSUME IndInv, NEW r \in Requests, StartLifecycle(r) \/ RequestStep(r) \/ Cancel(r)
  PROVE  TypeOK'
<1> USE DEF IndInv
<1>1. CASE StartLifecycle(r)
  <2>1. PICK j \in Jobs[r] : job' = [job EXCEPT ![r] = j]
    BY <1>1 DEF StartLifecycle
  <2>2. j \in Job
    BY <2>1, LifecycleAssumption DEF LifecycleAssumption
  <2>3. pc' \in [Requests -> RequestPC]
    BY <1>1 DEF StartLifecycle, TypeOK, RequestPC
  <2> QED
    BY <1>1, <2>1, <2>2, <2>3, CacheUntouched
    DEF StartLifecycle, TypeOK, taskVars, readerVars, cacheVars
<1>2. CASE MarkInProgress(r)
  <2>1. Current(r) \in Apps /\ InProgress(job[r].op) \in AppState
    BY <1>2, CurrentIsApp, ValuesTyped DEF MarkInProgress, CursorInRange, TypeOK, Job
  <2>2. state' \in [Apps -> AppState]
    BY <1>2, <2>1, SetAppStateTyped DEF MarkInProgress, TypeOK
  <2>3. cursor' \in [Requests -> Nat \ {0}] /\ pc' \in [Requests -> RequestPC]
    BY <1>2, LoopTyped DEF MarkInProgress, RequestPC
  <2> QED
    BY <1>2, <2>2, <2>3, CacheUntouched DEF MarkInProgress, TypeOK, taskVars, readerVars, cacheVars
<1>3. CASE CallForKind(r)
  BY <1>3, CacheUntouched, ValuesTyped
  DEF CallForKind, TypeOK, RequestPC, taskVars, readerVars, cacheVars
<1>4. CASE CallForPlugins(r)
  <2>1. cursor' \in [Requests -> Nat \ {0}] /\ pc' \in [Requests -> RequestPC]
    BY <1>4, LoopTyped DEF CallForPlugins, RequestPC
  <2> QED
    BY <1>4, <2>1, CacheUntouched DEF CallForPlugins, TypeOK, taskVars, readerVars, cacheVars
<1>5. CASE DaemonReplies(r)
  <2>1. CalledTargets(r) \subseteq Targets
    <3>1. \A k \in Group(r) : List(r)[k] \in Apps
      BY <1>5, ListElement DEF DaemonReplies, Group, CursorInRange, TypeOK, Job, List
    <3> QED
      BY <3>1, LifecycleAssumption DEF CalledTargets, LifecycleAssumption
  <2>2. Effect(job[r].op, CalledTargets(r)) \subseteq Targets
    BY <2>1 DEF Effect, TypeOK
  <2>3. installed' \subseteq Targets /\ applied' \in [Requests -> SUBSET Targets]
    BY <1>5, <2>1, <2>2 DEF DaemonReplies, TypeOK
  <2> QED
    BY <1>5, <2>3, CacheUntouched DEF DaemonReplies, TypeOK, RequestPC, taskVars, readerVars, cacheVars
<1>6. CASE SetGroupState(r)
  <2>1. Current(r) \in Apps /\ Outcome(job[r].op, ok[r]) \in AppState
    <3>1. job[r].op \in Op /\ ok[r] \in BOOLEAN
      BY DEF TypeOK, Job
    <3> QED
      BY <1>6, <3>1, CurrentIsApp, ValuesTyped DEF SetGroupState, CursorInRange
  <2>2. state' \in [Apps -> AppState]
    BY <1>6, <2>1, SetAppStateTyped DEF SetGroupState, TypeOK
  <2>3. cursor' \in [Requests -> Nat \ {0}] /\ pc' \in [Requests -> RequestPC]
    BY <1>6, LoopTyped DEF SetGroupState, RequestPC
  <2>4. stage' \in [Requests -> Kind]
    <3>1. NextStage(stage[r]) \in Kind
      BY ValuesTyped DEF TypeOK
    <3> QED
      BY <1>6, <3>1 DEF SetGroupState, TypeOK
  <2> QED
    BY <1>6, <2>2, <2>3, <2>4, CacheUntouched DEF SetGroupState, TypeOK, taskVars, readerVars, cacheVars
<1>7. CASE SetPluginState(r)
  <2>1. Current(r) \in Apps /\ Outcome(job[r].op, ok[r]) \in AppState
    <3>1. job[r].op \in Op /\ ok[r] \in BOOLEAN
      BY DEF TypeOK, Job
    <3> QED
      BY <1>7, <3>1, CurrentIsApp, ValuesTyped DEF SetPluginState, CursorInRange
  <2>2. state' \in [Apps -> AppState]
    BY <1>7, <2>1, SetAppStateTyped DEF SetPluginState
  <2> QED
    BY <1>7, <2>2, CacheUntouched
    DEF SetPluginState, TypeOK, RequestPC, taskVars, readerVars, cacheVars
<1>8. CASE InvalidatePlugins(r)
  <2>1. Cache!CacheTypeOK'
    <3>1. PICK m : Cache!Invalidate(m)
      BY <1>8 DEF InvalidatePlugins
    <3> QED
      BY <3>1 DEF TypeOK, Cache!Invalidate, Cache!CacheTypeOK
  <2> QED
    BY <1>8, <2>1
    DEF InvalidatePlugins, Cache!Invalidate, TypeOK, RequestPC, taskVars, readerVars
<1>9. CASE RollbackCheck(r)
  <2>1. cursor' \in [Requests -> Nat \ {0}] /\ pc' \in [Requests -> RequestPC]
    BY <1>9, LoopTyped DEF RollbackCheck, RollbackNext, RequestPC
  <2> QED
    BY <1>9, <2>1, CacheUntouched DEF RollbackCheck, TypeOK, taskVars, readerVars, cacheVars
<1>10. CASE RollbackReset(r)
  <2>1. Current(r) \in Apps /\ Outcome(job[r].op, FALSE) \in AppState
    BY <1>10, CurrentIsApp, ValuesTyped DEF RollbackReset, CursorInRange, TypeOK, Job
  <2>2. state' \in [Apps -> AppState]
    BY <1>10, <2>1, SetAppStateTyped DEF RollbackReset
  <2>3. cursor' \in [Requests -> Nat \ {0}] /\ pc' \in [Requests -> RequestPC]
    BY <1>10, LoopTyped DEF RollbackReset, RollbackNext, RequestPC
  <2> QED
    BY <1>10, <2>2, <2>3, CacheUntouched DEF RollbackReset, TypeOK, taskVars, readerVars, cacheVars
<1>11. CASE Finish(r)
  BY <1>11, CacheUntouched DEF Finish, TypeOK, RequestPC, Report, readerVars, cacheVars
<1>12. CASE Cancel(r)
  BY <1>12, CacheUntouched DEF Cancel, TypeOK, requestVars, readerVars, cacheVars
<1> QED
  BY <1>1, <1>2, <1>3, <1>4, <1>5, <1>6, <1>7, <1>8, <1>9, <1>10, <1>11, <1>12
  DEF RequestStep, Worker

LEMMA ReaderStepTyped ==
  ASSUME TypeOK, NEW l \in Readers, ReaderStep(l)
  PROVE  TypeOK'
<1>1. CASE ReadListing(l)
  <2>1. PICK q \in Queries :
          rows' = [rows EXCEPT ![l] = {[target |-> t, installed |-> t \in installed] : t \in q}]
    BY <1>1 DEF ReadListing
  <2>2. q \subseteq Targets
    BY <2>1, LifecycleAssumption DEF LifecycleAssumption
  <2>3. ASSUME NEW t \in q PROVE [target |-> t, installed |-> t \in installed] \in Row
    <3>1. (t \in installed) \in BOOLEAN
      OBVIOUS
    <3> QED
      BY <2>2, <3>1 DEF Row
  <2> QED
    BY <1>1, <2>1, <2>3, CacheUntouched
    DEF ReadListing, TypeOK, requestVars, taskVars, cacheVars
<1>2. ASSUME NEW m \in Modules, PrefetchInstalledPlugins(l, m) PROVE TypeOK'
  <2> DEFINE P == {p \in PluginTargets : ParentOf[p] = m}
  <2>1. PICK answered \in BOOLEAN :
          rows' = [rows EXCEPT ![l] =
            {[target |-> p, installed |-> answered /\ p \in installed] : p \in P}]
    BY <1>2 DEF PrefetchInstalledPlugins
  <2>2. ASSUME NEW p \in P
        PROVE  [target |-> p, installed |-> answered /\ p \in installed] \in Row
    <3>1. (answered /\ p \in installed) \in BOOLEAN
      OBVIOUS
    <3> QED
      BY <3>1, LifecycleAssumption DEF LifecycleAssumption, Row
  <2> QED
    BY <1>2, <2>1, <2>2, CacheUntouched
    DEF PrefetchInstalledPlugins, TypeOK, requestVars, taskVars, cacheVars
<1>3. ASSUME NEW m \in Modules, LookupAddons(l, m) PROVE TypeOK'
  BY <1>3, CacheStepTyped
  DEF LookupAddons, Cache!Lookup, TypeOK, requestVars, taskVars, readerVars
<1>4. CASE FetchAddons(l)
  <2>1. UNCHANGED installed /\ Cache!FetchStep(l)
    BY <1>4 DEF FetchAddons, Cache!FetchStep, Cache!Reply, Cache!Insert
  <2> QED
    BY <1>4, <2>1, CacheStepTyped DEF FetchAddons, TypeOK, requestVars, taskVars, readerVars
<1>5. CASE AddModulePlugins(l)
  <2>1. Cache!PluginRow \subseteq Row
    BY LifecycleAssumption DEF LifecycleAssumption, Cache!PluginRow, Row
  <2>2. fetch[l].payload \in SUBSET Cache!PluginRow
    BY DEF TypeOK, Cache!CacheTypeOK, Cache!Payload
  <2>3. rows' \in [Readers -> SUBSET Row]
    BY <1>5, <2>1, <2>2 DEF AddModulePlugins, TypeOK
  <2> QED
    BY <1>5, <2>3, CacheStepTyped
    DEF AddModulePlugins, Cache!Release, TypeOK, requestVars, taskVars
<1>6. CASE GuardRow(l)
  <2>1. PICK row \in rows[l], a \in Apps :
          /\ rows' = [rows EXCEPT ![l] = @ \ {row}]
          /\ stamp' = [stamp EXCEPT ![l] =
               IF IsTransient(state[a]) THEN {} ELSE {[app |-> a, installed |-> row.installed]}]
    BY <1>6 DEF GuardRow
  <2>2. [app |-> a, installed |-> row.installed] \in Stamp
    BY DEF TypeOK, Row, Stamp
  <2>3. rows' \in [Readers -> SUBSET Row] /\ stamp' \in [Readers -> SUBSET Stamp]
    BY <2>1, <2>2 DEF TypeOK
  <2> QED
    BY <1>6, <2>3, CacheUntouched DEF GuardRow, TypeOK, requestVars, taskVars, cacheVars
<1>7. CASE StampRow(l)
  <2>1. PICK s \in stamp[l] : SetAppState(s.app, Settled(s.installed))
    BY <1>7 DEF StampRow
  <2>2. s.app \in Apps /\ Settled(s.installed) \in AppState
    BY ValuesTyped DEF TypeOK, Stamp
  <2>3. state' \in [Apps -> AppState]
    BY <2>1, <2>2, SetAppStateTyped
  <2> QED
    BY <1>7, <2>3, CacheUntouched DEF StampRow, TypeOK, requestVars, taskVars, cacheVars
<1> QED
  BY <1>1, <1>2, <1>3, <1>4, <1>5, <1>6, <1>7 DEF ReaderStep

LEMMA RequestStepInRange ==
  ASSUME IndInv, NEW r \in Requests, StartLifecycle(r) \/ RequestStep(r)
  PROVE  CursorInRange'
<1> SUFFICES ASSUME NEW q \in Requests
             PROVE  /\ pc'[q] = "idle" => cursor'[q] = 1
                    /\ pc'[q] \in {"idle", "starting"} => stage'[q] = "package"
                    /\ pc'[q] \in {"starting", "calling", "stamping", "invalidating",
                                   "rollback", "resetting"}
                         => cursor'[q] <= Len(job'[q].list)
                    /\ pc'[q] = "running" /\ stage'[q] \in BatchKind
                         => cursor'[q] = 1 /\ 1 <= Len(job'[q].list)
                    /\ pc'[q] = "invalidating" => stage'[q] = "plugin"
  BY DEF CursorInRange, List
<1> USE DEF IndInv, TypeOK, CursorInRange, List, BatchKind
<1>0. /\ cursor[r] \in Nat \ {0}
      /\ Len(job[r].list) \in Nat
      /\ \A j \in Job : Len(j.list) \in Nat /\ (Mine(j.list) # {} => 1 <= Len(j.list))
  BY DEF Job, Mine
<1>1. CASE StartLifecycle(r)
  <2>1. PICK j \in Jobs[r] :
          /\ job' = [job EXCEPT ![r] = j]
          /\ pc' = [pc EXCEPT ![r] = IF Mine(j.list) = {} THEN "returned" ELSE "starting"]
    BY <1>1 DEF StartLifecycle
  <2>2. j \in Job
    BY <2>1, LifecycleAssumption DEF LifecycleAssumption
  <2> QED
    BY <1>0, <1>1, <2>1, <2>2 DEF StartLifecycle
<1>2. CASE MarkInProgress(r)
  BY <1>0, <1>2 DEF MarkInProgress
<1>3. CASE CallForKind(r)
  BY <1>0, <1>3 DEF CallForKind
<1>4. CASE CallForPlugins(r)
  BY <1>0, <1>4 DEF CallForPlugins
<1>5. CASE DaemonReplies(r)
  BY <1>0, <1>5 DEF DaemonReplies
<1>6. CASE SetGroupState(r)
  BY <1>0, <1>6 DEF SetGroupState
<1>7. CASE SetPluginState(r)
  BY <1>0, <1>7 DEF SetPluginState
<1>8. CASE InvalidatePlugins(r)
  BY <1>0, <1>8 DEF InvalidatePlugins
<1>9. CASE RollbackCheck(r)
  BY <1>0, <1>9 DEF RollbackCheck, RollbackNext
<1>10. CASE RollbackReset(r)
  BY <1>0, <1>10 DEF RollbackReset, RollbackNext
<1>11. CASE Finish(r)
  BY <1>11 DEF Finish
<1> QED
  BY <1>1, <1>2, <1>3, <1>4, <1>5, <1>6, <1>7, <1>8, <1>9, <1>10, <1>11
  DEF RequestStep, Worker

\* Steps that touch no request keep the invariant on requests.
LEMMA OtherStepInRange ==
  ASSUME CursorInRange, UNCHANGED requestVars PROVE CursorInRange'
BY DEF CursorInRange, requestVars, List

LEMMA ReaderKeepsRequests ==
  ASSUME NEW l \in Readers, ReaderStep(l) PROVE UNCHANGED requestVars
BY DEF ReaderStep, ReadListing, PrefetchInstalledPlugins, LookupAddons, FetchAddons,
       AddModulePlugins, GuardRow, StampRow

LEMMA NextIndInv == IndInv /\ [Next]_vars => IndInv'
<1> SUFFICES ASSUME IndInv, [Next]_vars PROVE IndInv'
  OBVIOUS
<1>1. ASSUME NEW r \in Requests, StartLifecycle(r) \/ RequestStep(r) PROVE IndInv'
  BY <1>1, RequestStepTyped, RequestStepInRange DEF IndInv
<1>2. ASSUME NEW r \in Requests, Cancel(r) PROVE IndInv'
  BY <1>2, RequestStepTyped, OtherStepInRange DEF IndInv, Cancel
<1>3. ASSUME NEW l \in Readers, ReaderStep(l) PROVE IndInv'
  BY <1>3, ReaderStepTyped, ReaderKeepsRequests, OtherStepInRange DEF IndInv
<1>4. ASSUME NEW t \in CliTargets, CliChanges(t) PROVE IndInv'
  <2>1. TypeOK'
    BY <1>4, CacheUntouched, LifecycleAssumption
    DEF IndInv, CliChanges, TypeOK, LifecycleAssumption, requestVars, taskVars, readerVars, cacheVars
  <2> QED
    BY <1>4, <2>1, OtherStepInRange DEF IndInv, CliChanges
<1>5. CASE UNCHANGED vars
  <2>1. TypeOK'
    BY <1>5, CacheUntouched
    DEF IndInv, vars, TypeOK, requestVars, taskVars, readerVars, cacheVars
  <2> QED
    BY <1>5, <2>1, OtherStepInRange DEF IndInv, vars
<1> QED
  BY <1>1, <1>2, <1>3, <1>4, <1>5 DEF Next

LEMMA IndInvHolds == Spec => []IndInv
BY InitIndInv, NextIndInv, PTL DEF Spec

\* Type correctness of the whole component, the plugins cache included.
THEOREM TypeCorrect == Spec => []TypeOK
<1>1. IndInv => TypeOK
  BY DEF IndInv
<1> QED
  BY <1>1, IndInvHolds, PTL

-------------------------------------------------------------------------------
(***************************************************************************)
(* No app is left stranded.  NoStranded is inductive on top of IndInv:     *)
(* what a request has still to decide (Unresolved) only shrinks by         *)
(* deciding it, and only marking makes it grow.                            *)
(***************************************************************************)

\* Request r is bound to decide the app at index i, which shows r's operation.
Covers(r, i, a) ==
  /\ i \in Mine(List(r))
  /\ List(r)[i] = a
  /\ InProgress(job[r].op) = state[a]
  /\ Unresolved(r, i)

\* Packages and modules are both compiled in, or the app list never holds an
\* app of a kind that is not.
KindsEnabled == \A a \in Apps : KindOf[a] \in BatchKind => KindOf[a] \in EnabledKinds

LEMMA MineTyped ==
  ASSUME TypeOK, NEW r \in Requests, NEW i \in Mine(List(r))
  PROVE  /\ i \in Nat \ {0} /\ i <= Len(List(r))
         /\ List(r)[i] \in Apps
         /\ KindOf[List(r)[i]] \in Kind
<1>1. job[r].list \in Seq(Apps)
  BY DEF TypeOK, Job
<1>2. i \in Nat \ {0} /\ i <= Len(List(r)) /\ List(r)[i] \in Apps
  BY <1>1 DEF Mine, List
<1>3. KindOf[List(r)[i]] \in Kind
  BY <1>2, LifecycleAssumption DEF LifecycleAssumption, Mine, IsOurs
<1> QED
  BY <1>2, <1>3

\* A step of r decides an app it covers, or goes on covering it.
LEMMA StepCovers ==
  ASSUME IndInv, KindsEnabled, NEW r \in Requests, StartLifecycle(r) \/ RequestStep(r),
         NEW i, NEW a \in Apps, Covers(r, i, a)
  PROVE  state'[a] \notin InFlight \/ Covers(r, i, a)'
<1> DEFINE k == KindOf[List(r)[i]]
<1>0. /\ i \in Nat \ {0} /\ i <= Len(List(r))
      /\ k \in Kind
      /\ cursor[r] \in Nat \ {0}
      /\ Len(List(r)) \in Nat
      /\ Current(r) = List(r)[cursor[r]]
      /\ k = KindOf[a]
      /\ job[r].op \in Op /\ ok[r] \in BOOLEAN
      /\ stage[r] \in Kind /\ pc[r] \in RequestPC
  BY MineTyped DEF Covers, IndInv, TypeOK, Job, List, Current
<1>1. CASE StartLifecycle(r)
  BY <1>1 DEF StartLifecycle, Covers, Unresolved
<1>2. CASE MarkInProgress(r)
  <2>1. UNCHANGED <<job, stage>> /\ pc[r] = "starting" /\ i < cursor[r] /\ stage[r] = "package"
    BY <1>2 DEF MarkInProgress, Covers, Unresolved, IndInv, CursorInRange
  <2>2. state'[a] = state[a]
    BY <1>2, <1>0 DEF MarkInProgress, SetAppState, SetState, Covers, IndInv, TypeOK
  <2>3. \/ pc'[r] = "starting" /\ cursor'[r] = cursor[r] + 1
        \/ pc'[r] = "running" /\ cursor'[r] = 1
    BY <1>2 DEF MarkInProgress, IndInv, TypeOK
  <2>4. Unresolved(r, i)'
    BY <1>0, <2>1, <2>3 DEF Unresolved, List, Later, Kind, BatchKind
  <2> QED
    BY <2>1, <2>2, <2>4 DEF Covers, List
<1>3. CASE CallForKind(r)
  <2>1. /\ UNCHANGED <<state, job, cursor>> /\ cursor[r] = 1
        /\ pc[r] = "running" /\ stage[r] \in BatchKind
    BY <1>3 DEF CallForKind, IndInv, CursorInRange
  <2>2. CASE stage[r] \in EnabledKinds /\ Group(r) # {}
    <3>1. pc'[r] = "calling" /\ stage'[r] = stage[r]
      BY <1>3, <2>2 DEF CallForKind, IndInv, TypeOK
    <3> QED
      BY <2>1, <3>1 DEF Covers, Unresolved, List
  <2>3. CASE ~(stage[r] \in EnabledKinds /\ Group(r) # {})
    <3>1. pc'[r] = "running" /\ stage'[r] = NextStage(stage[r])
      BY <1>3, <2>3 DEF CallForKind, IndInv, TypeOK
    <3>2. k # stage[r]
      BY <1>0, <2>1, <2>3 DEF KindsEnabled, Group, BatchKind, Covers, Mine
    <3>3. Later(k, stage[r])
      BY <2>1, <3>2 DEF Covers, Unresolved
    <3>4. Unresolved(r, i)'
      BY <1>0, <2>1, <3>1, <3>3 DEF Unresolved, List, Later, NextStage, BatchKind
    <3> QED
      BY <2>1, <3>4 DEF Covers, List
  <2> QED
    BY <2>2, <2>3
<1>4. CASE CallForPlugins(r)
  <2>1. UNCHANGED <<state, job, stage>> /\ pc[r] = "running" /\ stage[r] = "plugin"
    BY <1>4 DEF CallForPlugins
  <2>2. k = "plugin" /\ i >= cursor[r]
    BY <2>1 DEF Covers, Unresolved, Later
  <2>3. \/ pc'[r] = "calling" /\ cursor'[r] = cursor[r]
        \/ pc'[r] = "running" /\ cursor'[r] = cursor[r] + 1 /\ i # cursor[r]
    BY <1>0, <1>4, <2>2 DEF CallForPlugins, IndInv, TypeOK
  <2>4. Unresolved(r, i)'
    BY <1>0, <2>1, <2>2, <2>3 DEF Unresolved, List
  <2> QED
    BY <2>1, <2>4 DEF Covers, List
<1>5. CASE DaemonReplies(r)
  <2>1. /\ UNCHANGED <<state, job, stage, cursor>>
        /\ pc[r] = "calling" /\ pc'[r] = "stamping"
    BY <1>5 DEF DaemonReplies, IndInv, TypeOK
  <2> QED
    BY <2>1 DEF Covers, Unresolved, List
<1>6. CASE SetGroupState(r)
  <2>1. UNCHANGED job /\ pc[r] = "stamping" /\ stage[r] \in BatchKind
    BY <1>6 DEF SetGroupState
  <2>2. (k = stage[r] /\ i >= cursor[r]) \/ Later(k, stage[r])
    BY <2>1 DEF Covers, Unresolved
  <2>3. Current(r) \in Apps /\ Outcome(job[r].op, ok[r]) \in {"INSTALLED", "AVAILABLE"}
    BY <1>0, <2>1, CurrentIsApp, ValuesTyped DEF IndInv, CursorInRange
  <2>4. CASE i = cursor[r] /\ k = stage[r]
    <3>1. SetAppState(a, Outcome(job[r].op, ok[r]))
      BY <1>0, <1>6, <2>4 DEF SetGroupState, Covers
    <3> QED
      BY <2>3, <3>1, EndsFlight DEF IndInv
  <2>5. CASE ~(i = cursor[r] /\ k = stage[r])
    <3>1. state'[a] = state[a] \/ state'[a] \notin InFlight
      BY <1>6, <2>3, EndsFlight DEF SetGroupState, IndInv
    <3>2. \/ pc'[r] = "stamping" /\ stage'[r] = stage[r] /\ cursor'[r] = cursor[r] + 1
          \/ pc'[r] = "running" /\ stage'[r] = NextStage(stage[r]) /\ cursor'[r] = 1
               /\ cursor[r] >= Len(List(r))
          \/ pc'[r] = "rollback" /\ stage'[r] = stage[r] /\ cursor'[r] = 1
      BY <1>0, <1>6 DEF SetGroupState, IndInv, TypeOK
    <3>3. (k = stage[r] /\ i >= cursor[r] + 1) \/ Later(k, stage[r])
      BY <1>0, <2>2, <2>5
    <3>4. Unresolved(r, i)'
      BY <1>0, <2>1, <3>2, <3>3 DEF Unresolved, List, Later, NextStage, BatchKind
    <3> QED
      BY <2>1, <3>1, <3>4 DEF Covers, List
  <2> QED
    BY <2>4, <2>5
<1>7. CASE SetPluginState(r)
  <2>1. UNCHANGED <<job, stage>> /\ pc[r] = "stamping" /\ stage[r] = "plugin"
    BY <1>7 DEF SetPluginState
  <2>2. k = "plugin" /\ i >= cursor[r]
    BY <2>1 DEF Covers, Unresolved, Later
  <2>3. Current(r) \in Apps /\ Outcome(job[r].op, ok[r]) \in {"INSTALLED", "AVAILABLE"}
    BY <1>0, <2>1, CurrentIsApp, ValuesTyped DEF IndInv, CursorInRange
  <2>4. /\ state'[Current(r)] \notin InFlight
        /\ a # Current(r) => state'[a] = state[a]
    BY <1>7, <2>3, EndsFlight DEF SetPluginState, IndInv
  <2>5. \/ pc'[r] = "invalidating" /\ cursor'[r] = cursor[r]
        \/ pc'[r] = "rollback" /\ cursor'[r] = 1
    BY <1>7 DEF SetPluginState, IndInv, TypeOK
  <2>6. CASE i = cursor[r]
    BY <1>0, <2>4, <2>6 DEF Covers
  <2>7. CASE i # cursor[r]
    <3>1. Unresolved(r, i)'
      BY <1>0, <2>1, <2>2, <2>5, <2>7 DEF Unresolved, List
    <3> QED
      BY <2>1, <2>4, <3>1 DEF Covers, List
  <2> QED
    BY <2>6, <2>7
<1>8. CASE InvalidatePlugins(r)
  <2>1. /\ UNCHANGED <<state, job, stage>> /\ pc[r] = "invalidating" /\ pc'[r] = "running"
        /\ stage[r] = "plugin" /\ cursor'[r] = cursor[r] + 1
    BY <1>8 DEF InvalidatePlugins, IndInv, CursorInRange, TypeOK
  <2>2. Unresolved(r, i)'
    BY <1>0, <2>1 DEF Covers, Unresolved, List
  <2> QED
    BY <2>1, <2>2 DEF Covers, List
<1>9. CASE RollbackCheck(r)
  <2>1. UNCHANGED <<state, job, stage>> /\ pc[r] = "rollback" /\ i >= cursor[r]
    BY <1>9 DEF RollbackCheck, Covers, Unresolved
  <2>2. \/ pc'[r] = "resetting" /\ cursor'[r] = cursor[r]
        \/ pc'[r] = "rollback" /\ cursor'[r] = cursor[r] + 1 /\ i # cursor[r]
    BY <1>0, <1>9, <2>1 DEF RollbackCheck, RollbackNext, Covers, Mine, IndInv, TypeOK
  <2>3. Unresolved(r, i)'
    BY <1>0, <2>1, <2>2 DEF Unresolved
  <2> QED
    BY <2>1, <2>3 DEF Covers, List
<1>10. CASE RollbackReset(r)
  <2>1. UNCHANGED <<job, stage>> /\ pc[r] = "resetting" /\ i >= cursor[r]
    BY <1>10 DEF RollbackReset, Covers, Unresolved
  <2>2. Current(r) \in Apps /\ Outcome(job[r].op, FALSE) \in {"INSTALLED", "AVAILABLE"}
    BY <1>0, <2>1, CurrentIsApp, ValuesTyped DEF IndInv, CursorInRange
  <2>3. /\ state'[Current(r)] \notin InFlight
        /\ a # Current(r) => state'[a] = state[a]
    BY <1>10, <2>2, EndsFlight DEF RollbackReset, IndInv
  <2>4. CASE i = cursor[r]
    BY <1>0, <2>3, <2>4 DEF Covers
  <2>5. CASE i # cursor[r]
    <3>1. pc'[r] = "rollback" /\ cursor'[r] = cursor[r] + 1
      BY <1>0, <1>10, <2>1, <2>5 DEF RollbackReset, RollbackNext, IndInv, TypeOK
    <3>2. Unresolved(r, i)'
      BY <1>0, <2>1, <2>5, <3>1 DEF Unresolved
    <3> QED
      BY <2>1, <2>3, <3>2 DEF Covers, List
  <2> QED
    BY <2>4, <2>5
<1>11. CASE Finish(r)
  BY <1>11 DEF Finish, Covers, Unresolved
<1> QED
  BY <1>1, <1>2, <1>3, <1>4, <1>5, <1>6, <1>7, <1>8, <1>9, <1>10, <1>11
  DEF RequestStep, Worker

\* A step of r leaves the other requests as they are.
LEMMA StepOfOneRequest ==
  ASSUME TypeOK, NEW r \in Requests, StartLifecycle(r) \/ RequestStep(r),
         NEW q \in Requests, q # r
  PROVE  /\ pc'[q] = pc[q] /\ job'[q] = job[q] /\ stage'[q] = stage[q]
         /\ cursor'[q] = cursor[q]
BY DEF TypeOK, RequestStep, Worker, StartLifecycle, MarkInProgress, CallForKind, CallForPlugins,
       DaemonReplies, SetGroupState, SetPluginState, InvalidatePlugins, RollbackCheck,
       RollbackReset, RollbackNext, Finish

\* Only marking puts an app in flight, and then the marking request covers it.
LEMMA StepState ==
  ASSUME IndInv, NEW r \in Requests, StartLifecycle(r) \/ RequestStep(r), NEW a \in Apps
  PROVE  \/ state'[a] = state[a]
         \/ state'[a] \notin InFlight
         \/ \E i : Covers(r, i, a)'
<1>0. job[r].op \in Op /\ ok[r] \in BOOLEAN /\ cursor[r] \in Nat \ {0} /\ Len(List(r)) \in Nat
  BY DEF IndInv, TypeOK, Job, List
<1>1. CASE MarkInProgress(r)
  <2>1. cursor[r] \in DOMAIN List(r) /\ pc[r] = "starting" /\ UNCHANGED <<job, stage>>
    BY <1>1, CurrentIsApp DEF MarkInProgress, IndInv, CursorInRange
  <2>2. ASSUME IsOurs(Current(r)), Current(r) = a, state'[a] # state[a],
               NEW i, i = cursor[r]
        PROVE  Covers(r, i, a)'
    <3>1. state'[a] = InProgress(job[r].op)
      BY <1>1, <2>2 DEF MarkInProgress, SetAppState, SetState, IndInv, TypeOK
    <3>2. \/ pc'[r] = "starting" /\ cursor'[r] = cursor[r] + 1
          \/ pc'[r] = "running" /\ cursor'[r] = 1
      BY <1>1 DEF MarkInProgress, IndInv, TypeOK
    <3>3. stage[r] = "package" /\ KindOf[a] \in Kind
      BY <2>1, <2>2, LifecycleAssumption
      DEF IndInv, CursorInRange, LifecycleAssumption, IsOurs
    <3>4. Unresolved(r, i)'
      BY <1>0, <2>1, <2>2, <3>2, <3>3 DEF Unresolved, List, Current, Later, Kind, BatchKind
    <3> QED
      BY <2>1, <2>2, <3>1, <3>4 DEF Covers, Mine, List, Current
  <2> QED
    BY <1>1, <2>2 DEF MarkInProgress, SetAppState, IndInv, TypeOK
<1>2. CASE SetGroupState(r) \/ SetPluginState(r) \/ RollbackReset(r)
  <2>1. /\ Current(r) \in Apps
        /\ \A b \in BOOLEAN : Outcome(job[r].op, b) \in {"INSTALLED", "AVAILABLE"}
    BY <1>0, <1>2, CurrentIsApp, ValuesTyped
    DEF SetGroupState, SetPluginState, RollbackReset, IndInv, CursorInRange
  <2> QED
    BY <1>0, <1>2, <2>1, EndsFlight DEF SetGroupState, SetPluginState, RollbackReset, IndInv
<1>3. CASE UNCHANGED state
  BY <1>3
<1> QED
  BY <1>1, <1>2, <1>3
  DEF RequestStep, Worker, StartLifecycle, CallForKind, CallForPlugins, DaemonReplies,
      InvalidatePlugins, RollbackCheck, Finish

\* A worker's stamp ends what it lands on.
LEMMA StampEndsFlight ==
  ASSUME TypeOK, NEW l \in Readers, ReaderStep(l), NEW a \in Apps
  PROVE  state'[a] = state[a] \/ state'[a] \notin InFlight
<1>1. CASE StampRow(l)
  <2>1. PICK s \in stamp[l] : SetAppState(s.app, Settled(s.installed))
    BY <1>1 DEF StampRow
  <2>2. s.app \in Apps /\ Settled(s.installed) \in {"INSTALLED", "AVAILABLE"}
    BY ValuesTyped DEF TypeOK, Stamp
  <2> QED
    BY <2>1, <2>2, EndsFlight
<1>2. CASE UNCHANGED state
  BY <1>2
<1> QED
  BY <1>1, <1>2
  DEF ReaderStep, ReadListing, PrefetchInstalledPlugins, LookupAddons, FetchAddons,
      AddModulePlugins, GuardRow

\* NoStranded, in the terms of the lemmas above.
LEMMA StrandedCovers ==
  NoStranded <=> \A a \in Apps : (IsOurs(a) /\ state[a] \in InFlight) =>
                    \E r \in Requests : \E i : Covers(r, i, a)
BY DEF NoStranded, Covers

LEMMA NextNoStranded ==
  ASSUME KindsEnabled, IndInv, NoStranded, [Next]_vars
  PROVE  NoStranded'
<1> SUFFICES ASSUME NEW a \in Apps, IsOurs(a), state'[a] \in InFlight
             PROVE  \E q \in Requests : \E i : Covers(q, i, a)'
  BY DEF NoStranded, Covers
<1>1. ASSUME state'[a] = state[a]
      PROVE  \E q \in Requests : \E i : Covers(q, i, a)
  BY <1>1, StrandedCovers
<1>2. ASSUME NEW r \in Requests, StartLifecycle(r) \/ RequestStep(r)
      PROVE  \E q \in Requests : \E i : Covers(q, i, a)'
  <2>1. CASE state'[a] = state[a]
    <3>0. PICK q \in Requests : \E i : Covers(q, i, a)
      BY <1>1, <2>1
    <3>1. PICK i : Covers(q, i, a)
      BY <3>0
    <3>2. CASE q = r
      BY <1>2, <3>1, <3>2, StepCovers
    <3>3. CASE q # r
      <4>1. /\ pc'[q] = pc[q] /\ job'[q] = job[q] /\ stage'[q] = stage[q]
            /\ cursor'[q] = cursor[q]
        BY <1>2, <3>3, StepOfOneRequest DEF IndInv
      <4> QED
        BY <2>1, <3>1, <4>1 DEF Covers, Unresolved, List
    <3> QED
      BY <3>2, <3>3
  <2> QED
    BY <1>2, <2>1, StepState
<1>3. ASSUME UNCHANGED requestVars, state'[a] = state[a]
      PROVE  \E q \in Requests : \E i : Covers(q, i, a)'
  <2>1. PICK q \in Requests : \E i : Covers(q, i, a)
    BY <1>1, <1>3
  <2>2. PICK i : Covers(q, i, a)
    BY <2>1
  <2> QED
    BY <1>3, <2>2 DEF Covers, Unresolved, List, requestVars
<1>4. ASSUME NEW r \in Requests, Cancel(r)
      PROVE  \E q \in Requests : \E i : Covers(q, i, a)'
  BY <1>3, <1>4 DEF Cancel
<1>5. ASSUME NEW l \in Readers, ReaderStep(l)
      PROVE  \E q \in Requests : \E i : Covers(q, i, a)'
  BY <1>3, <1>5, StampEndsFlight, ReaderKeepsRequests DEF IndInv
<1>6. ASSUME NEW t \in CliTargets, CliChanges(t)
      PROVE  \E q \in Requests : \E i : Covers(q, i, a)'
  BY <1>3, <1>6 DEF CliChanges
<1>7. CASE UNCHANGED vars
  BY <1>3, <1>7 DEF vars
<1> QED
  BY <1>2, <1>4, <1>5, <1>6, <1>7 DEF Next

LEMMA InitNoStranded == Init => NoStranded
<1>1. ASSUME Init, NEW a \in Apps PROVE state[a] \notin InFlight
  BY <1>1 DEF Init, Settled, InFlight
<1> QED
  BY <1>1 DEF NoStranded

\* An app that shows an install or an uninstall in progress is one that a live
\* request is still going to decide: for any number of overlapping requests
\* and listing workers, any lists, any answers of the daemon, and any
\* transition table that lets an operation in flight end.
THEOREM NoAppStranded ==
  ASSUME KindsEnabled
  PROVE  Spec => []NoStranded
<1>1. IndInv /\ NoStranded /\ [Next]_vars => NoStranded'
  BY NextNoStranded
<1> QED
  BY <1>1, InitNoStranded, IndInvHolds, PTL DEF Spec

-------------------------------------------------------------------------------
(***************************************************************************)
(* What is shown is what is installed.  An app that is out of progress     *)
(* shows the truth (ShowsTruth); for it to stay so when a call is answered *)
(* and stamped, the apps a call is still to be made for are in progress    *)
(* and as the daemon had them (Ahead), those of an answered call are as    *)
(* the answer says (CallOK), and what a rollback finds in progress is as   *)
(* it was (RollbackOK).                                                    *)
(***************************************************************************)
Target(r, i) == TargetOf[List(r)[i]]
InstallingIs(r, b) == (job[r].op = "install") = b
AsBefore(r, i) == (Target(r, i) \in installed) = (job[r].op = "uninstall")
Flying(r, i) == state[List(r)[i]] \in InFlight

\* The call that decides the app at index i is still to be answered.
Ahead(r, i) ==
  LET k == KindOf[List(r)[i]]
  IN  \/ pc[r] \in {"running", "calling", "stamping"} /\ Later(k, stage[r])
      \/ pc[r] \in {"running", "calling"} /\ k = stage[r] /\ i >= cursor[r]
      \/ pc[r] \in {"stamping", "invalidating"} /\ stage[r] = "plugin" /\ k = "plugin" /\ i > cursor[r]

MarkOK(r) ==
  pc[r] = "starting" =>
    \A i \in Mine(List(r)) : AsBefore(r, i) /\ (i < cursor[r] => Flying(r, i))

AheadOK(r) == \A i \in Mine(List(r)) : Ahead(r, i) => AsBefore(r, i) /\ Flying(r, i)

CallOK(r) ==
  /\ pc[r] \in {"calling", "stamping"} =>
       \A g \in Group(r) : g \in Mine(List(r)) /\ KindOf[List(r)[g]] = stage[r]
  /\ pc[r] = "calling" => \A g \in Group(r) : g >= cursor[r]
  /\ pc[r] = "stamping" => \A g \in Group(r) : (Target(r, g) \in installed) = InstallingIs(r, ok[r])

RollbackOK(r) ==
  /\ pc[r] \in {"rollback", "resetting"} =>
       \A i \in Mine(List(r)) : Flying(r, i) => AsBefore(r, i)
  /\ pc[r] = "resetting" => cursor[r] \in Mine(List(r)) /\ Flying(r, cursor[r])

RequestOK(r) ==
  /\ pc[r] = "idle" => \A j \in Jobs[r] : Offered(j)
  /\ pc[r] # "idle" => job[r] \in Jobs[r]
  /\ MarkOK(r) /\ AheadOK(r) /\ CallOK(r) /\ RollbackOK(r)

ShowsTruth ==
  \A a \in Apps : \/ state[a] = Settled(TargetOf[a] \in installed)
                  \/ IsOurs(a) /\ state[a] \in InFlight

SettledInv == ShowsTruth /\ \A r \in Requests : RequestOK(r)

-------------------------------------------------------------------------------
LEMMA RequestFacts ==
  ASSUME IndInv, NEW r \in Requests
  PROVE  /\ cursor[r] \in Nat \ {0} /\ stage[r] \in Kind /\ ok[r] \in BOOLEAN
         /\ pc[r] \in RequestPC /\ Len(List(r)) \in Nat /\ DOMAIN List(r) = 1 .. Len(List(r))
         /\ job[r].op \in Op /\ Current(r) = List(r)[cursor[r]]
         /\ \A i \in DOMAIN List(r) : List(r)[i] \in Apps
         /\ \A i \in Mine(List(r)) : i \in 1 .. Len(List(r)) /\ KindOf[List(r)[i]] \in Kind
         /\ DOMAIN pc = Requests /\ DOMAIN cursor = Requests /\ DOMAIN stage = Requests
         /\ DOMAIN job = Requests /\ DOMAIN ok = Requests
<1>1. job[r].list \in Seq(Apps) /\ List(r) = job[r].list
  BY DEF IndInv, TypeOK, Job, List
<1>2. \A i \in DOMAIN List(r) : List(r)[i] \in Apps
  BY <1>1
<1>3. \A i \in Mine(List(r)) : i \in 1 .. Len(List(r)) /\ KindOf[List(r)[i]] \in Kind
  BY <1>1, <1>2, LifecycleAssumption DEF LifecycleAssumption, Mine, IsOurs
<1> QED
  BY <1>1, <1>2, <1>3 DEF IndInv, TypeOK, Job, Current

\* What the jobs' lists have to do with one another.
LEMMA JobsApart ==
  ASSUME Uncontended, NEW q \in Requests, NEW r \in Requests, q # r,
         NEW j \in Jobs[q], NEW k \in Jobs[r], NEW i \in Mine(j.list), NEW l \in Mine(k.list)
  PROVE  TargetOf[j.list[i]] # TargetOf[k.list[l]]
<1>1. TargetOf[j.list[i]] \in Listed(j) /\ TargetOf[k.list[l]] \in Listed(k)
  BY DEF Listed
<1> QED
  BY <1>1 DEF Uncontended

\* A step of r changes the state of its own apps, and the daemon's set at
\* their targets.
LEMMA Touched ==
  ASSUME IndInv, NEW r \in Requests, RequestOK(r), StartLifecycle(r) \/ RequestStep(r)
  PROVE  /\ \A a \in Apps : state'[a] # state[a] =>
              pc[r] # "idle" /\ \E i \in Mine(List(r)) : a = List(r)[i]
         /\ \A t : (t \in installed') # (t \in installed) =>
              pc[r] # "idle" /\ \E i \in Mine(List(r)) : t = Target(r, i)
<1>0. /\ pc[r] \in {"starting", "stamping", "resetting"} => cursor[r] \in DOMAIN List(r)
      /\ state \in [Apps -> AppState]
  BY RequestFacts DEF IndInv, CursorInRange, TypeOK
<1>1. CASE MarkInProgress(r)
  BY <1>0, <1>1, RequestFacts DEF MarkInProgress, SetAppState, Mine
<1>2. CASE SetGroupState(r)
  <2>1. KindOf[Current(r)] = stage[r] => cursor[r] \in Group(r)
    BY <1>0, <1>2, RequestFacts DEF SetGroupState, Group
  <2> QED
    BY <1>0, <1>2, <2>1, RequestFacts DEF SetGroupState, SetAppState, RequestOK, CallOK
<1>3. CASE SetPluginState(r)
  <2>1. cursor[r] \in Group(r)
    BY <1>3 DEF SetPluginState, Group
  <2> QED
    BY <1>0, <1>3, <2>1, RequestFacts DEF SetPluginState, SetAppState, RequestOK, CallOK
<1>4. CASE RollbackReset(r)
  BY <1>0, <1>4, RequestFacts DEF RollbackReset, SetAppState, RequestOK, RollbackOK
<1>5. CASE DaemonReplies(r)
  <2>1. UNCHANGED state /\ pc[r] = "calling"
    BY <1>5 DEF DaemonReplies
  <2>2. installed' = installed \/ installed' = Effect(job[r].op, CalledTargets(r))
    BY <1>5 DEF DaemonReplies
  <2>3. \A t : (t \in installed') # (t \in installed) => t \in CalledTargets(r)
    BY <2>2 DEF Effect
  <2>4. \A g \in Group(r) : g \in Mine(List(r))
    BY <2>1 DEF RequestOK, CallOK
  <2> QED
    BY <2>1, <2>3, <2>4 DEF CalledTargets, Target
<1>6. CASE UNCHANGED <<state, installed>>
  BY <1>6
<1> QED
  BY <1>1, <1>2, <1>3, <1>4, <1>5, <1>6
  DEF RequestStep, Worker, StartLifecycle, CallForKind, CallForPlugins, InvalidatePlugins,
      Cache!Invalidate, RollbackCheck, Finish

\* What RequestOK says of q rests on its job, its apps and their targets.
LEMMA Framed ==
  ASSUME IndInv, NEW q \in Requests, RequestOK(q),
         pc'[q] = pc[q], job'[q] = job[q], stage'[q] = stage[q], cursor'[q] = cursor[q],
         ok'[q] = ok[q],
         \A j \in Jobs[q] : \A t \in Listed(j) : t \in installed' <=> t \in installed,
         pc[q] # "idle" => \A i \in Mine(List(q)) : state'[List(q)[i]] = state[List(q)[i]]
  PROVE  RequestOK(q)'
<1>1. List(q)' = List(q) /\ Mine(List(q))' = Mine(List(q)) /\ Group(q)' = Group(q)
  BY DEF List, Group, Current, Mine
<1>2. pc[q] # "idle" => \A i \in Mine(List(q)) :
        /\ AsBefore(q, i)' <=> AsBefore(q, i)
        /\ Flying(q, i)' <=> Flying(q, i)
        /\ Target(q, i) \in installed' <=> Target(q, i) \in installed
  <2>1. pc[q] # "idle" => \A i \in Mine(List(q)) : Target(q, i) \in Listed(job[q])
    BY DEF Listed, Target, List
  <2>2. pc[q] # "idle" => job[q] \in Jobs[q]
    BY DEF RequestOK
  <2> QED
    BY <1>1, <2>1, <2>2 DEF AsBefore, Flying, Target
<1>3. \A i : Ahead(q, i)' <=> Ahead(q, i)
  BY <1>1 DEF Ahead
<1>4. pc[q] = "idle" => \A j \in Jobs[q] : Offered(j)'
  BY DEF RequestOK, Offered
<1>5. MarkOK(q)'
  BY <1>1, <1>2 DEF RequestOK, MarkOK
<1>6. AheadOK(q)'
  <2>1. \A i : Ahead(q, i) => pc[q] # "idle"
    BY DEF Ahead
  <2> QED
    BY <1>1, <1>2, <1>3, <2>1 DEF RequestOK, AheadOK
<1>7. CallOK(q)'
  BY <1>1, <1>2 DEF RequestOK, CallOK, InstallingIs, Target
<1>8. RollbackOK(q)'
  BY <1>1, <1>2 DEF RequestOK, RollbackOK
<1> QED
  BY <1>4, <1>5, <1>6, <1>7, <1>8 DEF RequestOK

LEMMA OthersFramed ==
  ASSUME Uncontended, IndInv, NEW r \in Requests, RequestOK(r), StartLifecycle(r) \/ RequestStep(r),
         NEW q \in Requests, q # r, RequestOK(q)
  PROVE  RequestOK(q)'
<1>1. /\ pc'[q] = pc[q] /\ job'[q] = job[q] /\ stage'[q] = stage[q] /\ cursor'[q] = cursor[q]
  BY StepOfOneRequest DEF IndInv
<1>2. ok'[q] = ok[q]
  BY RequestFacts DEF RequestStep, Worker, StartLifecycle, MarkInProgress, CallForKind, CallForPlugins,
       DaemonReplies, SetGroupState, SetPluginState, InvalidatePlugins, RollbackCheck,
       RollbackReset, Finish
<1>3. \A j \in Jobs[q] : \A i \in Mine(j.list), l \in Mine(List(r)) :
        pc[r] # "idle" => TargetOf[j.list[i]] # Target(r, l)
  BY JobsApart DEF RequestOK, List, Target
<1>4. \A j \in Jobs[q] : \A t \in Listed(j) : t \in installed' <=> t \in installed
  BY <1>3, Touched DEF Listed
<1>5. pc[q] # "idle" => \A i \in Mine(List(q)) : state'[List(q)[i]] = state[List(q)[i]]
  <2> SUFFICES ASSUME pc[q] # "idle", NEW i \in Mine(List(q)), state'[List(q)[i]] # state[List(q)[i]]
               PROVE  FALSE
    OBVIOUS
  <2>1. List(q)[i] \in Apps
    BY RequestFacts DEF Mine
  <2>2. PICK l \in Mine(List(r)) : pc[r] # "idle" /\ List(q)[i] = List(r)[l]
    BY <2>1, Touched
  <2>3. job[q] \in Jobs[q] /\ List(q) = job[q].list
    BY DEF RequestOK, List
  <2> QED
    BY <1>3, <2>2, <2>3 DEF Target
<1> QED
  BY <1>1, <1>2, <1>4, <1>5, Framed

-------------------------------------------------------------------------------
LEMMA SettledValues ==
  /\ \A b \in BOOLEAN : Settled(b) \in {"INSTALLED", "AVAILABLE"} /\ Settled(b) \notin InFlight
  /\ \A op \in Op : InProgress(op) \in InFlight
  /\ \A op \in Op, b \in BOOLEAN : Outcome(op, b) = Settled((op = "install") = b)
BY DEF Settled, InProgress, InFlight, Outcome, Op

\* A state written over one in progress, or over itself, is the one that shows.
LEMMA Stamped ==
  ASSUME IndInv, NEW a \in Apps, NEW new \in {"INSTALLED", "AVAILABLE"}, SetAppState(a, new),
         state[a] \in InFlight \/ state[a] = new
  PROVE  state'[a] = new /\ \A c \in Apps : c # a => state'[c] = state[c]
BY RefusedAssumption DEF IndInv, TypeOK, SetAppState, SetState

\* What a stamp or a reset writes is what is installed.
LEMMA StampIsTrue ==
  ASSUME IndInv, ShowsTruth, NEW r \in Requests, RequestOK(r),
         SetGroupState(r) \/ SetPluginState(r) \/ RollbackReset(r)
  PROVE  /\ UNCHANGED installed
         /\ \/ UNCHANGED state /\ SetGroupState(r) /\ KindOf[Current(r)] # stage[r]
            \/ /\ cursor[r] \in Mine(List(r))
               /\ state'[Current(r)] = Settled(TargetOf[Current(r)] \in installed)
               /\ \A c \in Apps : c # Current(r) => state'[c] = state[c]
<1>1. cursor[r] \in DOMAIN List(r) /\ Current(r) \in Apps
  BY CurrentIsApp DEF IndInv, CursorInRange, SetGroupState, SetPluginState, RollbackReset
<1>2. CASE cursor[r] \in Group(r) /\ pc[r] = "stamping" /\ SetAppState(Current(r), Outcome(job[r].op, ok[r]))
  <2>1. /\ cursor[r] \in Mine(List(r))
        /\ (TargetOf[Current(r)] \in installed) = InstallingIs(r, ok[r])
    BY <1>2, RequestFacts DEF RequestOK, CallOK, Target
  <2>2. Outcome(job[r].op, ok[r]) = Settled(TargetOf[Current(r)] \in installed)
    BY <2>1, SettledValues, RequestFacts DEF InstallingIs
  <2>3. state[Current(r)] \in InFlight \/ state[Current(r)] = Settled(TargetOf[Current(r)] \in installed)
    BY <1>1 DEF ShowsTruth
  <2>4. /\ state'[Current(r)] = Settled(TargetOf[Current(r)] \in installed)
        /\ \A c \in Apps : c # Current(r) => state'[c] = state[c]
    <3>1. PICK new \in {"INSTALLED", "AVAILABLE"} : new = Settled(TargetOf[Current(r)] \in installed)
      BY DEF Settled
    <3> QED
      BY <1>1, <1>2, <2>2, <2>3, <3>1, Stamped
  <2>5. UNCHANGED installed
    BY DEF SetGroupState, SetPluginState, RollbackReset
  <2> QED
    BY <2>1, <2>4, <2>5
<1>3. CASE RollbackReset(r)
  <2>1. cursor[r] \in Mine(List(r)) /\ Flying(r, cursor[r]) /\ AsBefore(r, cursor[r])
    BY <1>3 DEF RollbackReset, RequestOK, RollbackOK
  <2>2. Outcome(job[r].op, FALSE) = Settled(TargetOf[Current(r)] \in installed)
    BY <2>1, SettledValues, RequestFacts DEF AsBefore, Target, Op
  <2>3. SetAppState(Current(r), Settled(TargetOf[Current(r)] \in installed)) /\ UNCHANGED installed
    BY <1>3, <2>2 DEF RollbackReset
  <2>4. state[Current(r)] \in InFlight
    BY <2>1, RequestFacts DEF Flying
  <2>5. /\ state'[Current(r)] = Settled(TargetOf[Current(r)] \in installed)
        /\ \A c \in Apps : c # Current(r) => state'[c] = state[c]
    <3>1. PICK new \in {"INSTALLED", "AVAILABLE"} : new = Settled(TargetOf[Current(r)] \in installed)
      BY DEF Settled
    <3> QED
      BY <1>1, <2>3, <2>4, <3>1, Stamped
  <2> QED
    BY <2>1, <2>3, <2>5
<1>4. CASE SetGroupState(r)
  <2>1. KindOf[Current(r)] = stage[r] => cursor[r] \in Group(r)
    BY <1>1, <1>4, RequestFacts DEF SetGroupState, Group
  <2> QED
    BY <1>2, <1>4, <2>1 DEF SetGroupState
<1>5. CASE SetPluginState(r)
  <2>1. cursor[r] \in Group(r)
    BY <1>5 DEF SetPluginState, Group
  <2> QED
    BY <1>2, <1>5, <2>1 DEF SetPluginState
<1> QED
  BY <1>3, <1>4, <1>5

\* A mark shows the operation in progress, or leaves what was in progress so.
LEMMA MarkShows ==
  ASSUME Uncontended, IndInv, ShowsTruth, NEW r \in Requests, RequestOK(r), MarkInProgress(r),
         IsOurs(Current(r))
  PROVE  /\ cursor[r] \in Mine(List(r)) /\ state'[Current(r)] \in InFlight
         /\ \A c \in Apps : c # Current(r) => state'[c] = state[c]
<1>1. cursor[r] \in DOMAIN List(r) /\ Current(r) \in Apps
  BY CurrentIsApp DEF IndInv, CursorInRange, MarkInProgress
<1>2. cursor[r] \in Mine(List(r)) /\ pc[r] = "starting"
  BY <1>1, RequestFacts DEF Mine, MarkInProgress
<1>3. AsBefore(r, cursor[r])
  BY <1>2 DEF RequestOK, MarkOK
<1>4. (TargetOf[Current(r)] \in installed) = (job[r].op = "uninstall")
  BY <1>3, RequestFacts DEF AsBefore, Target
<1>5. SetAppState(Current(r), InProgress(job[r].op))
  BY DEF MarkInProgress
<1>6. \/ state[Current(r)] \in InFlight
      \/ <<state[Current(r)], InProgress(job[r].op)>> \notin Refused
  BY <1>1, <1>4, RequestFacts DEF Uncontended, ShowsTruth, Settled, InProgress, Op
<1>7. state'[Current(r)] = SetState(state[Current(r)], InProgress(job[r].op))
      /\ \A c \in Apps : c # Current(r) => state'[c] = state[c]
  BY <1>1, <1>5 DEF SetAppState, IndInv, TypeOK
<1> QED
  BY <1>2, <1>6, <1>7, SettledValues, RequestFacts DEF SetState

\* The apps of a target that is called for are those the call is about.
LEMMA CalledApps ==
  ASSUME Uncontended, IndInv, NEW r \in Requests, RequestOK(r), pc[r] = "calling"
  PROVE  /\ \A g \in Group(r) : Ahead(r, g) /\ g \in Mine(List(r))
         /\ \A i \in Mine(List(r)) : Target(r, i) \in CalledTargets(r) => i \in Group(r)
         /\ \A a \in Apps : TargetOf[a] \in CalledTargets(r) =>
              \E g \in Group(r) : List(r)[g] = a
<1>1. /\ job[r] \in Jobs[r] /\ List(r) = job[r].list
      /\ \A g \in Group(r) : g \in Mine(List(r)) /\ KindOf[List(r)[g]] = stage[r] /\ g >= cursor[r]
  BY DEF RequestOK, CallOK, List
<1>2. \A g \in Group(r) : Ahead(r, g)
  BY <1>1 DEF Ahead
<1>3. \A i \in Mine(List(r)) : Target(r, i) \in CalledTargets(r) => i \in Group(r)
  <2> SUFFICES ASSUME NEW i \in Mine(List(r)), NEW g \in Group(r), Target(r, i) = Target(r, g)
               PROVE  i \in Group(r)
    BY DEF CalledTargets, Target
  <2>1. /\ KindOf[List(r)[i]] = KindOf[List(r)[g]]
        /\ KindOf[List(r)[i]] = "plugin" => i = g
    BY <1>1 DEF Uncontended, Target
  <2> QED
    BY <1>1, <2>1, RequestFacts DEF Group, Mine
<1>4. ASSUME NEW a \in Apps, TargetOf[a] \in CalledTargets(r)
      PROVE  \E g \in Group(r) : List(r)[g] = a
  <2>1. TargetOf[a] \in Listed(job[r])
    BY <1>1, <1>4 DEF CalledTargets, Listed
  <2>2. PICK i \in Mine(List(r)) : List(r)[i] = a
    BY <1>1, <2>1 DEF Uncontended
  <2> QED
    BY <1>3, <1>4, <2>2 DEF Target
<1> QED
  BY <1>1, <1>2, <1>3, <1>4

LEMMA TruthKept ==
  ASSUME Uncontended, IndInv, ShowsTruth, NEW r \in Requests, RequestOK(r),
         StartLifecycle(r) \/ RequestStep(r)
  PROVE  ShowsTruth'
<1>0. cursor[r] \in Mine(List(r)) => Current(r) \in Apps /\ IsOurs(Current(r))
  BY RequestFacts DEF Mine
<1>1. CASE MarkInProgress(r)
  <2>1. UNCHANGED installed
    BY <1>1 DEF MarkInProgress
  <2>2. CASE IsOurs(Current(r))
    BY <1>1, <2>1, <2>2, MarkShows DEF ShowsTruth
  <2>3. CASE ~IsOurs(Current(r))
    BY <1>1, <2>1, <2>3 DEF ShowsTruth, MarkInProgress
  <2> QED
    BY <2>2, <2>3
<1>2. CASE SetGroupState(r) \/ SetPluginState(r) \/ RollbackReset(r)
  BY <1>0, <1>2, StampIsTrue DEF ShowsTruth
<1>3. CASE DaemonReplies(r)
  <2>1. UNCHANGED state /\ pc[r] = "calling"
    BY <1>3 DEF DaemonReplies
  <2>2. \A t : (t \in installed') # (t \in installed) => t \in CalledTargets(r)
    BY <1>3 DEF DaemonReplies, Effect
  <2>3. \A a \in Apps : TargetOf[a] \in CalledTargets(r) => IsOurs(a) /\ state[a] \in InFlight
    BY <2>1, CalledApps DEF RequestOK, AheadOK, Flying, Mine
  <2> QED
    BY <2>1, <2>2, <2>3 DEF ShowsTruth
<1>4. CASE UNCHANGED <<state, installed>>
  BY <1>4 DEF ShowsTruth
<1> QED
  BY <1>1, <1>2, <1>3, <1>4
  DEF RequestStep, Worker, StartLifecycle, CallForKind, CallForPlugins, InvalidatePlugins,
      Cache!Invalidate, RollbackCheck, Finish

\* Where the states, the daemon's set and the job of r stay as they are, the
\* parts of RequestOK rest on which indices are ahead.
LEMMA QuietStep ==
  ASSUME IndInv, NEW r \in Requests, RequestOK(r),
         UNCHANGED <<state, installed>>, job'[r] = job[r],
         pc[r] # "idle", pc'[r] \notin {"idle", "starting", "stamping"},
         \A i \in Mine(List(r)) : Ahead(r, i)' => Ahead(r, i),
         pc'[r] = "calling" => \A g \in Group(r)' :
           g \in Mine(List(r)) /\ KindOf[List(r)[g]] = stage'[r] /\ g >= cursor'[r],
         pc'[r] \in {"rollback", "resetting"} => pc[r] = "rollback",
         pc'[r] = "resetting" => cursor'[r] \in Mine(List(r)) /\ Flying(r, cursor'[r])
  PROVE  RequestOK(r)'
<1>1. List(r)' = List(r) /\ Mine(List(r))' = Mine(List(r))
  BY DEF List, Mine
<1>2. \A i : (AsBefore(r, i)' <=> AsBefore(r, i)) /\ (Flying(r, i)' <=> Flying(r, i))
  BY <1>1 DEF AsBefore, Flying, Target
<1>3. MarkOK(r)' /\ AheadOK(r)' /\ CallOK(r)' /\ RollbackOK(r)'
  BY <1>1, <1>2 DEF RequestOK, MarkOK, AheadOK, CallOK, RollbackOK, Flying
<1> QED
  BY <1>3 DEF RequestOK

LEMMA StartSettled ==
  ASSUME Uncontended, IndInv, NEW r \in Requests, RequestOK(r), StartLifecycle(r)
  PROVE  RequestOK(r)'
<1>1. PICK j \in Jobs[r] :
        /\ job' = [job EXCEPT ![r] = j]
        /\ pc' = [pc EXCEPT ![r] = IF Mine(j.list) = {} THEN "returned" ELSE "starting"]
  BY DEF StartLifecycle
<1>2. job'[r] = j /\ List(r)' = j.list /\ pc'[r] \in {"starting", "returned"}
  BY <1>1, RequestFacts DEF List
<1>3. UNCHANGED <<state, installed, cursor>> /\ cursor[r] = 1 /\ Offered(j)
  BY DEF StartLifecycle, IndInv, CursorInRange, RequestOK
<1>4. \A i \in Mine(j.list) : AsBefore(r, i)' /\ ~(i < 1)
  <2>1. j.list \in Seq(Apps)
    BY LifecycleAssumption DEF LifecycleAssumption, Job
  <2>2. \A i \in Mine(j.list) : i \in 1 .. Len(j.list)
    BY <2>1 DEF Mine
  <2> QED
    BY <1>2, <1>3, <2>2 DEF AsBefore, Target, Offered, Listed
<1>5. MarkOK(r)' /\ AheadOK(r)' /\ CallOK(r)' /\ RollbackOK(r)'
  BY <1>2, <1>3, <1>4 DEF MarkOK, AheadOK, Ahead, CallOK, RollbackOK
<1> QED
  BY <1>1, <1>2, <1>5 DEF RequestOK

LEMMA MarkSettled ==
  ASSUME Uncontended, IndInv, ShowsTruth, NEW r \in Requests, RequestOK(r), MarkInProgress(r)
  PROVE  RequestOK(r)'
<1>0. /\ pc[r] = "starting" /\ stage[r] = "package" /\ UNCHANGED <<installed, job, stage>>
      /\ cursor[r] <= Len(List(r)) /\ job[r] \in Jobs[r]
  BY DEF MarkInProgress, IndInv, CursorInRange, RequestOK
<1>1. List(r)' = List(r) /\ Mine(List(r))' = Mine(List(r))
  BY <1>0 DEF List, Mine
<1>2. \A i \in Mine(List(r)) : AsBefore(r, i)'
  BY <1>0, <1>1 DEF AsBefore, Target, RequestOK, MarkOK
<1>3. \A i \in Mine(List(r)) : i <= cursor[r] => Flying(r, i)'
  <2> SUFFICES ASSUME NEW i \in Mine(List(r)), i <= cursor[r]
               PROVE  state'[List(r)[i]] \in InFlight
    BY <1>1 DEF Flying
  <2>1. List(r)[i] \in Apps /\ IsOurs(List(r)[i])
    BY RequestFacts DEF Mine
  <2>2. CASE i = cursor[r]
    BY <2>1, <2>2, MarkShows, RequestFacts
  <2>3. CASE i < cursor[r]
    <3>1. state[List(r)[i]] \in InFlight
      BY <1>0, <2>3 DEF RequestOK, MarkOK, Flying
    <3>2. CASE IsOurs(Current(r))
      BY <2>1, <3>1, <3>2, MarkShows
    <3>3. CASE ~IsOurs(Current(r))
      BY <3>1, <3>3 DEF MarkInProgress
    <3> QED
      BY <3>2, <3>3
  <2> QED
    BY <2>2, <2>3, RequestFacts
<1>4. CASE cursor[r] < Len(List(r))
  <2>1. pc'[r] = "starting" /\ cursor'[r] = cursor[r] + 1
    BY <1>0, <1>4, RequestFacts DEF MarkInProgress
  <2>2. MarkOK(r)'
    BY <1>1, <1>2, <1>3, <2>1, RequestFacts DEF MarkOK
  <2> QED
    BY <1>0, <2>1, <2>2 DEF RequestOK, AheadOK, Ahead, CallOK, RollbackOK
<1>5. CASE ~(cursor[r] < Len(List(r)))
  <2>1. pc'[r] = "running" /\ cursor'[r] = 1
    BY <1>5, RequestFacts DEF MarkInProgress
  <2>2. \A i \in Mine(List(r)) : Flying(r, i)'
    BY <1>0, <1>3, <1>5, RequestFacts
  <2>3. AheadOK(r)'
    BY <1>1, <1>2, <2>2 DEF AheadOK
  <2> QED
    BY <1>0, <2>1, <2>3 DEF RequestOK, MarkOK, CallOK, RollbackOK
<1> QED
  BY <1>4, <1>5

LEMMA RunSettled ==
  ASSUME Uncontended, IndInv, NEW r \in Requests, RequestOK(r), CallForKind(r) \/ CallForPlugins(r)
  PROVE  RequestOK(r)'
<1>0. /\ pc[r] = "running" /\ UNCHANGED <<state, installed, job>>
      /\ stage[r] \in BatchKind => cursor[r] = 1
      /\ List(r)' = List(r)
  BY DEF CallForKind, CallForPlugins, IndInv, CursorInRange, List
<1>1. CASE CallForKind(r) /\ stage[r] \in EnabledKinds /\ Group(r) # {}
  <2>1. pc'[r] = "calling" /\ UNCHANGED <<stage, cursor>> /\ stage[r] \in BatchKind
    BY <1>1, RequestFacts DEF CallForKind
  <2>2. \A i : Ahead(r, i)' => Ahead(r, i)
    BY <1>0, <2>1 DEF Ahead
  <2>3. \A g \in Group(r)' : g \in Mine(List(r)) /\ KindOf[List(r)[g]] = stage'[r] /\ g >= cursor'[r]
    BY <1>0, <2>1, RequestFacts DEF Group, Mine, IsOurs, BatchKind
  <2> QED
    BY <1>0, <2>1, <2>2, <2>3, QuietStep
<1>2. CASE CallForKind(r) /\ ~(stage[r] \in EnabledKinds /\ Group(r) # {})
  <2>1. /\ pc'[r] = "running" /\ UNCHANGED cursor /\ stage[r] \in BatchKind
        /\ stage'[r] = NextStage(stage[r])
    BY <1>0, <1>2, RequestFacts DEF CallForKind
  <2>2. \A i : Ahead(r, i)' => Ahead(r, i)
    BY <1>0, <2>1 DEF Ahead, Later, NextStage, BatchKind
  <2> QED
    BY <1>0, <2>1, <2>2, QuietStep
<1>3. CASE CallForPlugins(r) /\ cursor[r] > Len(List(r))
  <2>1. pc'[r] = "returned"
    BY <1>3, RequestFacts DEF CallForPlugins
  <2>2. \A i : ~Ahead(r, i)'
    BY <2>1 DEF Ahead
  <2> QED
    BY <1>0, <2>1, <2>2, QuietStep
<1>4. CASE CallForPlugins(r) /\ ~(cursor[r] > Len(List(r))) /\ KindOf[Current(r)] = "plugin"
  <2>1. pc'[r] = "calling" /\ UNCHANGED <<stage, cursor>> /\ stage[r] = "plugin"
    BY <1>4, RequestFacts DEF CallForPlugins
  <2>2. \A i : Ahead(r, i)' => Ahead(r, i)
    BY <1>0, <2>1 DEF Ahead
  <2>3. Group(r)' = {cursor[r]} /\ cursor[r] \in Mine(List(r))
    BY <1>4, <2>1, RequestFacts DEF Group, Mine, IsOurs
  <2> QED
    BY <1>0, <1>4, <2>1, <2>2, <2>3, QuietStep, RequestFacts
<1>5. CASE CallForPlugins(r) /\ ~(cursor[r] > Len(List(r))) /\ KindOf[Current(r)] # "plugin"
  <2>1. pc'[r] = "running" /\ cursor'[r] = cursor[r] + 1 /\ UNCHANGED stage /\ stage[r] = "plugin"
    BY <1>0, <1>5, RequestFacts DEF CallForPlugins
  <2>2. \A i \in Mine(List(r)) : Ahead(r, i)' => Ahead(r, i)
    BY <1>0, <2>1, RequestFacts DEF Ahead
  <2> QED
    BY <1>0, <2>1, <2>2, QuietStep
<1> QED
  BY <1>1, <1>2, <1>3, <1>4, <1>5

LEMMA ReplySettled ==
  ASSUME Uncontended, IndInv, NEW r \in Requests, RequestOK(r), DaemonReplies(r)
  PROVE  RequestOK(r)'
<1>0. /\ pc[r] = "calling" /\ pc'[r] = "stamping" /\ UNCHANGED <<state, job, stage, cursor>>
      /\ List(r)' = List(r) /\ Mine(List(r))' = Mine(List(r)) /\ Group(r)' = Group(r)
  BY RequestFacts DEF DaemonReplies, List, Mine, Group, Current
<1>1. PICK done \in BOOLEAN :
        /\ ok'[r] = done
        /\ IF done THEN installed' = Effect(job[r].op, CalledTargets(r)) ELSE UNCHANGED installed
  BY RequestFacts DEF DaemonReplies, Uncontended
<1>2. \A i \in Mine(List(r)) : Ahead(r, i)' => Ahead(r, i) /\ i \notin Group(r)
  BY <1>0, RequestFacts DEF Ahead, Later, Group, Kind, BatchKind
<1>3. \A i \in Mine(List(r)) : Ahead(r, i)' => AsBefore(r, i)' /\ Flying(r, i)'
  <2> SUFFICES ASSUME NEW i \in Mine(List(r)), Ahead(r, i)'
               PROVE  AsBefore(r, i)' /\ Flying(r, i)'
    OBVIOUS
  <2>1. Target(r, i) \notin CalledTargets(r)
    BY <1>0, <1>2, CalledApps
  <2>2. AsBefore(r, i) /\ Flying(r, i)
    BY <1>2 DEF RequestOK, AheadOK
  <2>3. Target(r, i) \in installed' <=> Target(r, i) \in installed
    BY <1>1, <2>1 DEF Effect
  <2> QED
    BY <1>0, <2>2, <2>3 DEF AsBefore, Flying, Target
<1>4. \A g \in Group(r) : (Target(r, g) \in installed') = InstallingIs(r, ok[r])'
  <2> SUFFICES ASSUME NEW g \in Group(r)
               PROVE  (Target(r, g) \in installed') = ((job[r].op = "install") = done)
    BY <1>0, <1>1 DEF InstallingIs
  <2>1. Target(r, g) \in CalledTargets(r)
    BY DEF CalledTargets, Target
  <2>2. AsBefore(r, g)
    BY <1>0, CalledApps DEF RequestOK, AheadOK
  <2>3. CASE done
    <3>1. Target(r, g) \in installed' <=> job[r].op = "install"
      BY <1>1, <2>1, <2>3 DEF Effect
    <3>2. done = TRUE
      BY <2>3
    <3>3. ((job[r].op = "install") = done) <=> job[r].op = "install"
      BY <3>2
    <3> QED
      BY <3>1, <3>3
  <2>4. CASE ~done
    BY <1>1, <2>2, <2>4, RequestFacts DEF AsBefore, Op
  <2> QED
    BY <2>3, <2>4
<1>5. AheadOK(r)'
  BY <1>0, <1>3 DEF AheadOK
<1>6. CallOK(r)'
  BY <1>0, <1>4 DEF RequestOK, CallOK, Target
<1> QED
  BY <1>0, <1>5, <1>6 DEF RequestOK, MarkOK, RollbackOK

\* An app in progress that a request lists is one that it has still to decide.
LEMMA FlyingUnresolved ==
  ASSUME Uncontended, IndInv, NoStranded, \A q \in Requests : RequestOK(q), NEW r \in Requests,
         pc[r] # "idle", NEW i \in Mine(List(r)), Flying(r, i)
  PROVE  \E k \in Mine(List(r)) : List(r)[k] = List(r)[i] /\ Unresolved(r, k)
<1>1. List(r)[i] \in Apps /\ IsOurs(List(r)[i])
  BY RequestFacts DEF Mine
<1>2. PICK q \in Requests : \E k \in Mine(List(q)) : List(q)[k] = List(r)[i] /\ Unresolved(q, k)
  BY <1>1 DEF NoStranded, Flying
<1>3. PICK k \in Mine(List(q)) : List(q)[k] = List(r)[i] /\ Unresolved(q, k)
  BY <1>2
<1>4. pc[q] # "idle"
  BY <1>3 DEF Unresolved
<1>5. q = r
  BY <1>3, <1>4, JobsApart DEF RequestOK, List
<1> QED
  BY <1>3, <1>5

\* A stamp changes what is shown of one app, which is then out of progress.
LEMMA StampFrame ==
  ASSUME IndInv, ShowsTruth, NEW r \in Requests, RequestOK(r),
         SetGroupState(r) \/ SetPluginState(r) \/ RollbackReset(r)
  PROVE  /\ UNCHANGED <<installed, job>> /\ List(r)' = List(r) /\ Mine(List(r))' = Mine(List(r))
         /\ pc[r] # "idle" /\ ok'[r] = ok[r]
         /\ \A i : AsBefore(r, i)' <=> AsBefore(r, i)
         /\ \A i \in Mine(List(r)) : Flying(r, i)' => Flying(r, i)
         /\ \A i \in Mine(List(r)) : List(r)[i] # Current(r) => (Flying(r, i)' <=> Flying(r, i))
<1>1. UNCHANGED <<installed, job>> /\ pc[r] # "idle" /\ ok'[r] = ok[r]
  BY DEF SetGroupState, SetPluginState, RollbackReset
<1>2. List(r)' = List(r) /\ Mine(List(r))' = Mine(List(r))
  BY <1>1 DEF List, Mine
<1>3. \A i \in Mine(List(r)) : List(r)[i] \in Apps
  BY RequestFacts DEF Mine
<1>4. \A i : AsBefore(r, i)' <=> AsBefore(r, i)
  BY <1>1, <1>2 DEF AsBefore, Target
<1>5. state'[Current(r)] \notin InFlight \/ UNCHANGED state
  BY StampIsTrue DEF Settled, InFlight
<1>6. \A c \in Apps : c # Current(r) => state'[c] = state[c]
  BY StampIsTrue
<1> QED
  BY <1>1, <1>2, <1>3, <1>4, <1>5, <1>6 DEF Flying

LEMMA GroupSettled ==
  ASSUME Uncontended, IndInv, ShowsTruth, NoStranded, \A q \in Requests : RequestOK(q),
         NEW r \in Requests, SetGroupState(r)
  PROVE  RequestOK(r)'
<1>0. /\ pc[r] = "stamping" /\ stage[r] \in BatchKind /\ RequestOK(r) /\ job[r] \in Jobs[r]
      /\ cursor[r] \in DOMAIN List(r)
  BY CurrentIsApp DEF SetGroupState, RequestOK, IndInv, CursorInRange
<1>1. /\ UNCHANGED <<installed, job>> /\ List(r)' = List(r) /\ Mine(List(r))' = Mine(List(r))
      /\ pc[r] # "idle" /\ ok'[r] = ok[r]
      /\ \A i : AsBefore(r, i)' <=> AsBefore(r, i)
      /\ \A i \in Mine(List(r)) : Flying(r, i)' => Flying(r, i)
      /\ \A i \in Mine(List(r)) : List(r)[i] # Current(r) => (Flying(r, i)' <=> Flying(r, i))
  BY <1>0, StampFrame
<1>2. \A i \in Mine(List(r)) : KindOf[List(r)[i]] # stage[r] => (Flying(r, i)' <=> Flying(r, i))
  <2>1. CASE KindOf[Current(r)] = stage[r]
    BY <1>1, <2>1
  <2>2. CASE KindOf[Current(r)] # stage[r]
    BY <1>1, <2>2 DEF SetGroupState, Flying
  <2> QED
    BY <2>1, <2>2
<1>3. \A i \in Mine(List(r)) : Later(KindOf[List(r)[i]], stage[r]) =>
        Ahead(r, i) /\ KindOf[List(r)[i]] # stage[r]
  BY <1>0 DEF Ahead, Later
<1>4. AheadOK(r)'
  <2>1. \A i \in Mine(List(r)) : Ahead(r, i)' => Later(KindOf[List(r)[i]], stage[r])
    BY <1>0, <1>1, RequestFacts DEF SetGroupState, Ahead, Later, NextStage, BatchKind
  <2> QED
    BY <1>0, <1>1, <1>2, <1>3, <2>1 DEF RequestOK, AheadOK
<1>5. CASE cursor[r] < Len(List(r))
  <2>1. pc'[r] = "stamping" /\ UNCHANGED stage /\ Group(r)' = Group(r)
    BY <1>0, <1>1, <1>5 DEF SetGroupState, Group, BatchKind
  <2>2. CallOK(r)'
    BY <1>0, <1>1, <2>1 DEF RequestOK, CallOK, Target, InstallingIs
  <2> QED
    BY <1>0, <1>1, <1>4, <2>1, <2>2 DEF RequestOK, MarkOK, RollbackOK
<1>6. CASE ~(cursor[r] < Len(List(r))) /\ ok[r]
  <2>1. pc'[r] = "running"
    BY <1>6, RequestFacts DEF SetGroupState
  <2> QED
    BY <1>0, <1>1, <1>4, <2>1 DEF RequestOK, MarkOK, CallOK, RollbackOK
<1>7. CASE ~(cursor[r] < Len(List(r))) /\ ~ok[r]
  <2>1. pc'[r] = "rollback"
    BY <1>7, RequestFacts DEF SetGroupState
  <2>2. ASSUME NEW i \in Mine(List(r)), Flying(r, i)
        PROVE  AsBefore(r, i)
    <3>1. PICK k \in Mine(List(r)) : List(r)[k] = List(r)[i] /\ Unresolved(r, k)
      BY <1>0, <2>2, FlyingUnresolved
    <3>2. CASE KindOf[List(r)[i]] = stage[r]
      <4>1. i \in Group(r)
        BY <1>0, <3>2 DEF Group, Mine, BatchKind
      <4>2. (Target(r, i) \in installed) = ((job[r].op = "install") = FALSE)
        BY <1>0, <1>7, <4>1, RequestFacts DEF RequestOK, CallOK, InstallingIs
      <4> QED
        BY <4>2, RequestFacts DEF AsBefore, Op
    <3>3. CASE Later(KindOf[List(r)[i]], stage[r])
      BY <1>0, <1>3, <3>3 DEF RequestOK, AheadOK
    <3> QED
      BY <1>0, <3>1, <3>2, <3>3 DEF Unresolved
  <2>3. RollbackOK(r)'
    BY <1>1, <2>1, <2>2 DEF RollbackOK
  <2> QED
    BY <1>0, <1>1, <1>4, <2>1, <2>3 DEF RequestOK, MarkOK, CallOK
<1> QED
  BY <1>5, <1>6, <1>7

LEMMA PluginSettled ==
  ASSUME Uncontended, IndInv, ShowsTruth, NoStranded, \A q \in Requests : RequestOK(q),
         NEW r \in Requests, SetPluginState(r)
  PROVE  RequestOK(r)'
<1>0. /\ pc[r] = "stamping" /\ stage[r] = "plugin" /\ RequestOK(r) /\ job[r] \in Jobs[r]
      /\ stage'[r] = stage[r] /\ cursor[r] \in DOMAIN List(r) /\ Group(r) = {cursor[r]}
  BY CurrentIsApp DEF SetPluginState, RequestOK, IndInv, CursorInRange, Group
<1>1. /\ UNCHANGED <<installed, job>> /\ List(r)' = List(r) /\ Mine(List(r))' = Mine(List(r))
      /\ pc[r] # "idle" /\ ok'[r] = ok[r]
      /\ \A i : AsBefore(r, i)' <=> AsBefore(r, i)
      /\ \A i \in Mine(List(r)) : Flying(r, i)' => Flying(r, i)
      /\ \A i \in Mine(List(r)) : List(r)[i] # Current(r) => (Flying(r, i)' <=> Flying(r, i))
  BY <1>0, StampFrame
<1>2. cursor[r] \in Mine(List(r)) /\ KindOf[Current(r)] = "plugin"
  BY <1>0, RequestFacts DEF RequestOK, CallOK
\* No other entry of the list stands for the plugin.
<1>3. \A i \in Mine(List(r)) : i # cursor[r] => List(r)[i] # Current(r)
  <2>1. \A i, k \in Mine(job[r].list) :
          /\ TargetOf[job[r].list[i]] = TargetOf[job[r].list[k]]
          /\ KindOf[job[r].list[i]] = "plugin"
          => i = k
    BY <1>0 DEF Uncontended
  <2> QED
    BY <1>2, <2>1, RequestFacts DEF List
<1>4. CASE ok[r]
  <2>1. pc'[r] = "invalidating" /\ UNCHANGED cursor
    BY <1>4, RequestFacts DEF SetPluginState
  <2>2. \A i \in Mine(List(r)) : Ahead(r, i)' => Ahead(r, i) /\ i # cursor[r]
    BY <1>0, <1>1, <2>1, RequestFacts DEF Ahead
  <2>3. AheadOK(r)'
    BY <1>0, <1>1, <1>3, <2>2 DEF RequestOK, AheadOK
  <2> QED
    BY <1>0, <1>1, <2>1, <2>3 DEF RequestOK, MarkOK, CallOK, RollbackOK
<1>5. CASE ~ok[r]
  <2>1. pc'[r] = "rollback"
    BY <1>5, RequestFacts DEF SetPluginState
  <2>2. ASSUME NEW i \in Mine(List(r)), Flying(r, i)
        PROVE  AsBefore(r, i)
    <3>1. PICK k \in Mine(List(r)) : List(r)[k] = List(r)[i] /\ Unresolved(r, k)
      BY <1>0, <2>2, FlyingUnresolved
    <3>2. KindOf[List(r)[k]] = "plugin" /\ k >= cursor[r]
      BY <1>0, <3>1 DEF Unresolved, Later
    <3>3. k = i
      BY <1>0, <3>1, <3>2 DEF Uncontended, List
    <3>4. CASE i = cursor[r]
      <4>1. (Target(r, i) \in installed) = ((job[r].op = "install") = FALSE)
        BY <1>0, <1>5, <3>4, RequestFacts DEF RequestOK, CallOK, InstallingIs
      <4> QED
        BY <4>1, RequestFacts DEF AsBefore, Op
    <3>5. CASE i > cursor[r]
      BY <1>0, <3>2, <3>3, <3>5 DEF RequestOK, AheadOK, Ahead
    <3> QED
      BY <3>2, <3>3, <3>4, <3>5, RequestFacts
  <2>3. RollbackOK(r)'
    BY <1>1, <2>1, <2>2 DEF RollbackOK
  <2>4. \A i : ~Ahead(r, i)'
    BY <2>1 DEF Ahead
  <2> QED
    BY <1>0, <1>1, <2>1, <2>3, <2>4 DEF RequestOK, MarkOK, AheadOK, CallOK
<1> QED
  BY <1>4, <1>5

LEMMA TailSettled ==
  ASSUME Uncontended, IndInv, NEW r \in Requests, RequestOK(r),
         InvalidatePlugins(r) \/ RollbackCheck(r) \/ Finish(r)
  PROVE  RequestOK(r)'
<1>0. UNCHANGED <<state, installed, job>> /\ pc[r] # "idle" /\ List(r)' = List(r)
  BY DEF InvalidatePlugins, Cache!Invalidate, RollbackCheck, Finish, List
<1>1. CASE InvalidatePlugins(r)
  <2>1. /\ pc[r] = "invalidating" /\ pc'[r] = "running" /\ cursor'[r] = cursor[r] + 1
        /\ stage[r] = "plugin" /\ UNCHANGED stage
    BY <1>1, RequestFacts DEF InvalidatePlugins, IndInv, CursorInRange
  <2>2. \A i \in Mine(List(r)) : Ahead(r, i)' => Ahead(r, i)
    BY <1>0, <2>1, RequestFacts DEF Ahead, Later
  <2> QED
    BY <1>0, <2>1, <2>2, QuietStep
<1>2. CASE RollbackCheck(r)
  <2>1. /\ pc[r] = "rollback" /\ cursor[r] \in DOMAIN List(r)
        /\ pc'[r] \in {"rollback", "resetting", "returned"}
    BY <1>2, CurrentIsApp, RequestFacts DEF RollbackCheck, RollbackNext, IndInv, CursorInRange
  <2>2. pc'[r] = "resetting" => cursor'[r] \in Mine(List(r)) /\ Flying(r, cursor'[r])
    BY <1>2, <2>1, SettledValues, RequestFacts DEF RollbackCheck, RollbackNext, Mine, Flying
  <2>3. \A i : ~Ahead(r, i)'
    BY <2>1 DEF Ahead
  <2> QED
    BY <1>0, <2>1, <2>2, <2>3, QuietStep
<1>3. CASE Finish(r)
  <2>1. pc'[r] = "done"
    BY <1>3, RequestFacts DEF Finish
  <2>2. \A i : ~Ahead(r, i)'
    BY <2>1 DEF Ahead
  <2> QED
    BY <1>0, <2>1, <2>2, QuietStep
<1> QED
  BY <1>1, <1>2, <1>3

LEMMA ResetSettled ==
  ASSUME IndInv, ShowsTruth, NEW r \in Requests, RequestOK(r), RollbackReset(r)
  PROVE  RequestOK(r)'
<1>1. pc[r] = "resetting" /\ pc'[r] \in {"rollback", "returned"}
  BY RequestFacts DEF RollbackReset, RollbackNext
<1>2. /\ UNCHANGED <<installed, job>> /\ List(r)' = List(r) /\ Mine(List(r))' = Mine(List(r))
      /\ \A i : AsBefore(r, i)' <=> AsBefore(r, i)
      /\ \A i \in Mine(List(r)) : Flying(r, i)' => Flying(r, i)
  BY StampFrame
<1>3. RollbackOK(r)'
  BY <1>1, <1>2 DEF RequestOK, RollbackOK
<1>4. \A i : ~Ahead(r, i)'
  BY <1>1 DEF Ahead
<1> QED
  BY <1>1, <1>2, <1>3, <1>4 DEF RequestOK, MarkOK, AheadOK, CallOK

-------------------------------------------------------------------------------
LEMMA InitSettled == OfferedInit => SettledInv
<1> SUFFICES ASSUME OfferedInit PROVE SettledInv
  OBVIOUS
<1>1. ShowsTruth
  BY DEF OfferedInit, Init, ShowsTruth
<1>2. \A r \in Requests : pc[r] = "idle" /\ \A j \in Jobs[r] : Offered(j)
  BY DEF OfferedInit, Init
<1>3. \A r \in Requests : RequestOK(r)
  BY <1>2 DEF RequestOK, MarkOK, AheadOK, Ahead, CallOK, RollbackOK
<1> QED
  BY <1>1, <1>3 DEF SettledInv

LEMMA NextSettled ==
  ASSUME Uncontended, IndInv, NoStranded, SettledInv, [Next]_vars
  PROVE  SettledInv'
<1>0. ShowsTruth /\ \A r \in Requests : RequestOK(r)
  BY DEF SettledInv
<1>1. ASSUME NEW r \in Requests, StartLifecycle(r) \/ RequestStep(r)
      PROVE  SettledInv'
  <2>1. ShowsTruth'
    BY <1>0, <1>1, TruthKept
  <2>2. RequestOK(r)'
    BY <1>0, <1>1, StartSettled, MarkSettled, RunSettled, ReplySettled, GroupSettled, PluginSettled,
       TailSettled, ResetSettled
    DEF RequestStep, Worker
  <2>3. \A q \in Requests : q # r => RequestOK(q)'
    BY <1>0, <1>1, OthersFramed
  <2> QED
    BY <2>1, <2>2, <2>3 DEF SettledInv
<1>2. ASSUME UNCHANGED <<state, installed, requestVars>>
      PROVE  SettledInv'
  <2>1. ShowsTruth'
    BY <1>0, <1>2 DEF ShowsTruth
  <2>2. \A q \in Requests : RequestOK(q)'
    BY <1>0, <1>2, Framed DEF requestVars
  <2> QED
    BY <2>1, <2>2 DEF SettledInv
<1>3. ASSUME NEW r \in Requests, Cancel(r)
      PROVE  SettledInv'
  BY <1>2, <1>3 DEF Cancel
<1>4. CASE UNCHANGED vars
  BY <1>2, <1>4 DEF vars
<1> QED
  BY <1>1, <1>3, <1>4 DEF Next, Uncontended

\* When requests do not compete, every app that no request is still deciding
\* shows what the daemon has installed, wherever a call failed: for any number
\* of requests, lists in any order, several apps of one package or module, and
\* a transition table that may refuse all but the start and the end of an
\* operation.
THEOREM SettledAlwaysShowsDaemon ==
  ASSUME Uncontended, KindsEnabled
  PROVE  OfferedSpec => []SettledShowsDaemon
<1>1. SettledInv /\ NoStranded => SettledShowsDaemon
  <2> SUFFICES ASSUME SettledInv, NoStranded, NEW a \in Apps,
                      state[a] # Settled(TargetOf[a] \in installed)
               PROVE  \E r \in Requests : \E i \in Mine(List(r)) :
                        List(r)[i] = a /\ Unresolved(r, i)
    BY DEF SettledShowsDaemon
  <2>1. IsOurs(a) /\ state[a] \in InFlight
    BY DEF SettledInv, ShowsTruth
  <2> QED
    BY <2>1 DEF NoStranded
<1>2. OfferedSpec => Spec
  BY PTL DEF OfferedSpec, OfferedInit, Spec
<1>3. IndInv /\ NoStranded /\ SettledInv /\ [Next]_vars => SettledInv'
  BY NextSettled
<1> QED
  BY <1>1, <1>2, <1>3, InitSettled, IndInvHolds, NoAppStranded, PTL DEF OfferedSpec
===============================================================================
