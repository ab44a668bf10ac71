------------------------------ MODULE Lifecycle ------------------------------
(***************************************************************************)
(* Install and uninstall (gs-modulix-lifecycle.c), together with what else *)
(* writes the states of the same apps: the listing and refine workers      *)
(* (gs-modulix-app.c, gs-modulix-refine.c), fed by direct daemon reads or  *)
(* by the plugins cache (PluginsCache).                                    *)
(*                                                                         *)
(* Threads.  The main thread starts a request and marks its apps.  A       *)
(* worker thread per request makes the blocking daemon calls and stamps    *)
(* their outcome.  Listing workers stamp what the daemon told them.  One   *)
(* action is one access to shared state: one daemon call answered, one     *)
(* gs_app_get_state() or gs_app_set_state(), one section of a lock.        *)
(***************************************************************************)
EXTENDS GsApp, Naturals, Sequences, FiniteSets

CONSTANTS
  Apps,          \* GsApp objects
  Targets,       \* what the daemon installs: a package, a module or a plugin
  KindOf,        \* "modulix::kind" of an app, "foreign" for another plugin's
  TargetOf,      \* kind and name of an app, as the daemon knows them
  Modules,       \* module names
  ParentOf,      \* the parent module of each plugin target
  Requests,      \* install_apps / uninstall_apps vfunc calls
  Jobs,          \* what GNOME Software may ask in each: operation and app list
  Cancellable,   \* the requests that come with a GCancellable
  EnabledKinds,  \* MODULIX_ENABLE_PACKAGES, MODULIX_ENABLE_MODULES
  Readers,       \* listing and refine worker threads
  Queries,       \* the sets of targets a listing may match
  CliTargets,    \* the targets `mx` may change from outside this process
  LostReplies    \* whether a write the daemon carried out may look failed

BatchKind == {"package", "module"}
Kind == BatchKind \cup {"plugin"}
Op == {"install", "uninstall"}
Job == [op : Op, list : Seq(Apps)]
IsOurs(a) == KindOf[a] # "foreign"
PluginTargets == DOMAIN ParentOf

ASSUME LifecycleAssumption ==
  /\ KindOf \in [Apps -> Kind \cup {"foreign"}]
  /\ TargetOf \in [Apps -> Targets]
  /\ Modules # {}
  /\ PluginTargets \subseteq Targets
  /\ ParentOf \in [PluginTargets -> Modules]
  /\ \A a \in Apps : KindOf[a] = "plugin" => TargetOf[a] \in PluginTargets
  /\ \A r \in Requests : Jobs[r] \subseteq Job
  /\ EnabledKinds \subseteq BatchKind
  /\ Queries \subseteq SUBSET Targets
  /\ CliTargets \subseteq Targets
  /\ LostReplies \in BOOLEAN

VARIABLES
  state,      \* state[a]: the GsAppState of each app
  installed,  \* the targets the daemon has installed
  pc,         \* pc[r]: where request r is
  job,        \* job[r]: its operation and app list
  stage,      \* stage[r]: the kind whose call is due
  cursor,     \* cursor[r]: index of the loop its thread is in
  ok,         \* ok[r]: no call of r has failed
  applied,    \* applied[r]: history: the targets r's calls were granted
  cancelled,  \* the requests whose GCancellable was triggered
  report,     \* report[r]: what gs_modulix_lifecycle_finish() returned
  rows,       \* rows[l]: the rows worker l has still to build
  stamp,      \* stamp[l]: the row whose guard passed, about to be stamped
  cache,      \* PluginsCache: the table
  fetch       \* PluginsCache: the workers inside get_or_fetch()

requestVars == <<pc, job, stage, cursor, ok, applied>>
taskVars == <<cancelled, report>>
readerVars == <<rows, stamp>>
cacheVars == <<cache, fetch>>
vars == <<state, installed, requestVars, taskVars, readerVars, cacheVars>>

Cache == INSTANCE PluginsCache WITH Plugins <- PluginTargets, Fetchers <- Readers

Row == [target : Targets, installed : BOOLEAN]
Stamp == [app : Apps, installed : BOOLEAN]
RequestPC == {"idle", "starting", "running", "calling", "stamping",
              "invalidating", "rollback", "resetting", "returned", "done"}
Report == {"none", "success", "failed", "cancelled"}

TypeOK ==
  /\ state \in [Apps -> AppState]
  /\ installed \in SUBSET Targets
  /\ pc \in [Requests -> RequestPC]
  /\ job \in [Requests -> Job]
  /\ stage \in [Requests -> Kind]
  /\ cursor \in [Requests -> Nat \ {0}]
  /\ ok \in [Requests -> BOOLEAN]
  /\ applied \in [Requests -> SUBSET Targets]
  /\ cancelled \in SUBSET Requests
  /\ report \in [Requests -> Report]
  /\ rows \in [Readers -> SUBSET Row]
  /\ stamp \in [Readers -> SUBSET Stamp]
  /\ Cache!CacheTypeOK

\* The apps were built by an earlier listing, so they show the daemon's truth.
Settled(isInstalled) == IF isInstalled THEN "INSTALLED" ELSE "AVAILABLE"

Init ==
  /\ installed \in SUBSET Targets
  /\ state = [a \in Apps |-> Settled(TargetOf[a] \in installed)]
  /\ pc = [r \in Requests |-> "idle"]
  /\ job = [r \in Requests |-> [op |-> "install", list |-> <<>>]]
  /\ stage = [r \in Requests |-> "package"]
  /\ cursor = [r \in Requests |-> 1]
  /\ ok = [r \in Requests |-> TRUE]
  /\ applied = [r \in Requests |-> {}]
  /\ cancelled = {}
  /\ report = [r \in Requests |-> "none"]
  /\ rows = [l \in Readers |-> {}]
  /\ stamp = [l \in Readers |-> {}]
  /\ Cache!CacheInit

-------------------------------------------------------------------------------
(* LifecycleOps: install_ops and uninstall_ops.                            *)

InProgress(op) == IF op = "install" THEN "INSTALLING" ELSE "REMOVING"
\* Mutant: a failed call shows as the success it would have been.
OutcomeIgnoresFailure(op, success) == Settled(op = "install")
Outcome(op, success) == Settled((op = "install") = success)
Effect(op, T) == IF op = "install" THEN installed \cup T ELSE installed \ T

List(r) == job[r].list
Current(r) == List(r)[cursor[r]]

\* The owned apps of a list.  collect_owned_apps() keeps their order, so a
\* loop over the list that skips the others visits the apps it would.
Mine(list) == {i \in DOMAIN list : IsOurs(list[i])}

\* The indices the call of r's stage is about.
Group(r) == IF stage[r] = "plugin"
            THEN {cursor[r]}
            ELSE {i \in DOMAIN List(r) : KindOf[List(r)[i]] = stage[r]}

\* Mutant: the call names the apps of every kind, and other plugins' too.
CalledTargetsOfAllKinds(r) == {TargetOf[List(r)[i]] : i \in DOMAIN List(r)}

\* names_of_kind(): a name carried by two apps is sent once.
CalledTargets(r) == {TargetOf[List(r)[i]] : i \in Group(r)}

SetAppState(a, new) == state' = [state EXCEPT ![a] = SetState(@, new)]

-------------------------------------------------------------------------------
(* The main thread: start_lifecycle().                                     *)

\* The main thread runs one vfunc at a time.
MainThreadFree == \A r \in Requests : pc[r] # "starting"

StartLifecycle(r) ==
  /\ pc[r] = "idle"
  /\ MainThreadFree
  /\ \E j \in Jobs[r] :
       /\ job' = [job EXCEPT ![r] = j]
       /\ pc' = [pc EXCEPT ![r] = IF Mine(j.list) = {} THEN "returned" ELSE "starting"]
  /\ UNCHANGED <<state, installed, stage, cursor, ok, applied, taskVars, readerVars, cacheVars>>

\* One iteration of the loop that shows the operation in progress; the last
\* one is followed by g_task_run_in_thread().
MarkInProgress(r) ==
  /\ pc[r] = "starting"
  /\ IF IsOurs(Current(r))
     THEN SetAppState(Current(r), InProgress(job[r].op))
     ELSE UNCHANGED state
  /\ IF cursor[r] < Len(List(r))
     THEN /\ cursor' = [cursor EXCEPT ![r] = @ + 1]
          /\ UNCHANGED pc
     ELSE /\ cursor' = [cursor EXCEPT ![r] = 1]
          /\ pc' = [pc EXCEPT ![r] = "running"]
  /\ UNCHANGED <<installed, job, stage, ok, applied, taskVars, readerVars, cacheVars>>

-------------------------------------------------------------------------------
(* The worker thread: lifecycle_thread().                                  *)

\* Mutant: the module call is left out of the chain.
NextStageSkipsModules(s) == "plugin"

\* lifecycle_execute(): packages, then modules, then plugins.
NextStage(s) == IF s = "package" THEN "module" ELSE "plugin"

\* call_for_kind(): one batched call, skipped when the kind is compiled out
\* or no app is of it.
CallForKind(r) ==
  /\ pc[r] = "running" /\ stage[r] \in BatchKind
  /\ IF stage[r] \in EnabledKinds /\ Group(r) # {}
     THEN /\ pc' = [pc EXCEPT ![r] = "calling"]
          /\ UNCHANGED stage
     ELSE /\ stage' = [stage EXCEPT ![r] = NextStage(@)]
          /\ UNCHANGED pc
  /\ UNCHANGED <<state, installed, job, cursor, ok, applied, taskVars, readerVars, cacheVars>>

\* call_for_plugins(): one call per plugin app, in list order.
CallForPlugins(r) ==
  /\ pc[r] = "running" /\ stage[r] = "plugin"
  /\ IF cursor[r] > Len(List(r))
     THEN /\ pc' = [pc EXCEPT ![r] = "returned"]
          /\ UNCHANGED cursor
     ELSE IF KindOf[Current(r)] = "plugin"
     THEN /\ pc' = [pc EXCEPT ![r] = "calling"]
          /\ UNCHANGED cursor
     ELSE /\ cursor' = [cursor EXCEPT ![r] = @ + 1]
          /\ UNCHANGED pc
  /\ UNCHANGED <<state, installed, job, stage, ok, applied, taskVars, readerVars, cacheVars>>

\* The call blocks until mx-daemon, which runs write commands one at a time,
\* has carried it out as a whole or refused it (rebuild failed, polkit said
\* no).  A reply lost with the bus or the daemon looks like a refusal.
DaemonReplies(r) ==
  /\ pc[r] = "calling"
  /\ \E done \in BOOLEAN, heard \in {TRUE, ~LostReplies} :
       /\ ok' = [ok EXCEPT ![r] = done /\ heard]
       /\ IF done
          THEN /\ installed' = Effect(job[r].op, CalledTargets(r))
               /\ applied' = [applied EXCEPT ![r] = @ \cup CalledTargets(r)]
          ELSE UNCHANGED <<installed, applied>>
  /\ pc' = [pc EXCEPT ![r] = "stamping"]
  /\ UNCHANGED <<state, job, stage, cursor, taskVars, readerVars, cacheVars>>

\* set_group_state(), one iteration; lifecycle_execute() then goes on to the
\* next kind only if the call succeeded.
SetGroupState(r) ==
  /\ pc[r] = "stamping" /\ stage[r] \in BatchKind
  /\ IF KindOf[Current(r)] = stage[r]
     THEN SetAppState(Current(r), Outcome(job[r].op, ok[r]))
     ELSE UNCHANGED state
  /\ IF cursor[r] < Len(List(r))
     THEN /\ cursor' = [cursor EXCEPT ![r] = @ + 1]
          /\ UNCHANGED <<pc, stage>>
     ELSE /\ cursor' = [cursor EXCEPT ![r] = 1]
          /\ IF ok[r]
             THEN /\ pc' = [pc EXCEPT ![r] = "running"]
                  /\ stage' = [stage EXCEPT ![r] = NextStage(@)]
             ELSE /\ pc' = [pc EXCEPT ![r] = "rollback"]
                  /\ UNCHANGED stage
  /\ UNCHANGED <<installed, job, ok, applied, taskVars, readerVars, cacheVars>>

\* call_for_plugins(), after a call: the app's own outcome.
SetPluginState(r) ==
  /\ pc[r] = "stamping" /\ stage[r] = "plugin"
  /\ SetAppState(Current(r), Outcome(job[r].op, ok[r]))
  /\ IF ok[r]
     THEN /\ pc' = [pc EXCEPT ![r] = "invalidating"]
          /\ UNCHANGED cursor
     ELSE /\ pc' = [pc EXCEPT ![r] = "rollback"]
          /\ cursor' = [cursor EXCEPT ![r] = 1]
  /\ UNCHANGED <<installed, job, stage, ok, applied, taskVars, readerVars, cacheVars>>

\* ... then the parent module's cached plugin list is dropped.
InvalidatePlugins(r) ==
  /\ pc[r] = "invalidating"
  /\ Cache!Invalidate(ParentOf[TargetOf[Current(r)]])
  /\ pc' = [pc EXCEPT ![r] = "running"]
  /\ cursor' = [cursor EXCEPT ![r] = @ + 1]
  /\ UNCHANGED <<state, job, stage, ok, applied, taskVars, readerVars>>

\* Mutant: the rollback loop stops before the last app.
RollbackNextStopsEarly(r) ==
  IF cursor[r] + 1 < Len(List(r))
  THEN /\ cursor' = [cursor EXCEPT ![r] = @ + 1]
       /\ pc' = [pc EXCEPT ![r] = "rollback"]
  ELSE /\ pc' = [pc EXCEPT ![r] = "returned"]
       /\ UNCHANGED cursor

\* On to the next app of the rollback loop, or to g_task_return_error().
RollbackNext(r) ==
  IF cursor[r] < Len(List(r))
  THEN /\ cursor' = [cursor EXCEPT ![r] = @ + 1]
       /\ pc' = [pc EXCEPT ![r] = "rollback"]
  ELSE /\ pc' = [pc EXCEPT ![r] = "returned"]
       /\ UNCHANGED cursor

\* The rollback loop reads the state of an app ...
RollbackCheck(r) ==
  /\ pc[r] = "rollback"
  /\ IF IsOurs(Current(r)) /\ state[Current(r)] = InProgress(job[r].op)
     THEN /\ pc' = [pc EXCEPT ![r] = "resetting"]
          /\ UNCHANGED cursor
     ELSE RollbackNext(r)
  /\ UNCHANGED <<state, installed, job, stage, ok, applied, taskVars, readerVars, cacheVars>>

\* ... and, if it still shows this operation in progress, ends it.
RollbackReset(r) ==
  /\ pc[r] = "resetting"
  /\ SetAppState(Current(r), Outcome(job[r].op, FALSE))
  /\ RollbackNext(r)
  /\ UNCHANGED <<installed, job, stage, ok, applied, taskVars, readerVars, cacheVars>>

\* Mutant: a cancelled task is dropped without a report.
FinishUnlessCancelled(r) ==
  /\ pc[r] = "returned" /\ r \notin cancelled
  /\ pc' = [pc EXCEPT ![r] = "done"]
  /\ report' = [report EXCEPT ![r] = IF ok[r] THEN "success" ELSE "failed"]
  /\ UNCHANGED <<state, installed, job, stage, cursor, ok, applied, cancelled, readerVars, cacheVars>>

\* The callback runs gs_modulix_lifecycle_finish(): a GTask whose cancellable
\* was triggered reports that, whatever the worker returned.
Finish(r) ==
  /\ pc[r] = "returned"
  /\ pc' = [pc EXCEPT ![r] = "done"]
  /\ report' = [report EXCEPT ![r] = IF r \in cancelled THEN "cancelled"
                                     ELSE IF ok[r] THEN "success" ELSE "failed"]
  /\ UNCHANGED <<state, installed, job, stage, cursor, ok, applied, cancelled, readerVars, cacheVars>>

\* The user cancels; no code of the file looks at the cancellable.
Cancel(r) ==
  /\ r \in Cancellable \ cancelled
  /\ pc[r] \notin {"idle", "done"}
  /\ cancelled' = cancelled \cup {r}
  /\ UNCHANGED <<state, installed, requestVars, report, readerVars, cacheVars>>

-------------------------------------------------------------------------------
(* Listing and refine workers.                                             *)

ReaderFree(l) == rows[l] = {} /\ stamp[l] = {} /\ fetch[l].pc = "idle"

\* A listing read: the daemon answers from its current state.
ReadListing(l) ==
  /\ ReaderFree(l)
  /\ \E q \in Queries :
       rows' = [rows EXCEPT ![l] = {[target |-> t, installed |-> t \in installed] : t \in q}]
  /\ UNCHANGED <<state, installed, requestVars, taskVars, stamp, cacheVars>>

\* prefetch_installed_plugins(): a module whose read fails contributes no
\* plugin, so refine_plugin() takes its plugins for not installed.
PrefetchInstalledPlugins(l, m) ==
  /\ ReaderFree(l)
  /\ \E answered \in BOOLEAN :
       rows' = [rows EXCEPT ![l] =
         {[target |-> p, installed |-> answered /\ p \in installed] :
            p \in {q \in PluginTargets : ParentOf[q] = m}}]
  /\ UNCHANGED <<state, installed, requestVars, taskVars, stamp, cacheVars>>

\* gs_modulix_add_module_plugins(): the addon rows come from the cache.
LookupAddons(l, m) ==
  /\ ReaderFree(l)
  /\ Cache!Lookup(l, m)
  /\ UNCHANGED <<state, requestVars, taskVars, readerVars>>

FetchAddons(l) ==
  /\ Cache!FetchStep(l)
  /\ UNCHANGED <<state, requestVars, taskVars, readerVars>>

AddModulePlugins(l) ==
  /\ rows' = [rows EXCEPT ![l] = fetch[l].payload]
  /\ Cache!Release(l)
  /\ UNCHANGED <<state, requestVars, taskVars, stamp>>

\* The guard of make_app_from_variant(), make_plugin_app_from_variant() and
\* refine_plugin(): read the app's state, and skip it while transient.
GuardRow(l) ==
  /\ stamp[l] = {}
  /\ \E row \in rows[l], a \in Apps :
       /\ IsOurs(a) /\ TargetOf[a] = row.target
       /\ rows' = [rows EXCEPT ![l] = @ \ {row}]
       /\ stamp' = [stamp EXCEPT ![l] =
            IF IsTransient(state[a]) THEN {} ELSE {[app |-> a, installed |-> row.installed]}]
  /\ UNCHANGED <<state, installed, requestVars, taskVars, cacheVars>>

\* ... then set it to what the reply said.
StampRow(l) ==
  /\ \E s \in stamp[l] : SetAppState(s.app, Settled(s.installed))
  /\ stamp' = [stamp EXCEPT ![l] = {}]
  /\ UNCHANGED <<installed, requestVars, taskVars, rows, cacheVars>>

\* `mx` in a terminal.
CliChanges(t) ==
  /\ installed' = IF t \in installed THEN installed \ {t} ELSE installed \cup {t}
  /\ UNCHANGED <<state, requestVars, taskVars, readerVars, cacheVars>>

-------------------------------------------------------------------------------
Worker(r) ==
  \/ CallForKind(r) \/ CallForPlugins(r) \/ DaemonReplies(r)
  \/ SetGroupState(r) \/ SetPluginState(r) \/ InvalidatePlugins(r)
  \/ RollbackCheck(r) \/ RollbackReset(r)

RequestStep(r) == MarkInProgress(r) \/ Worker(r) \/ Finish(r)

ReaderStep(l) ==
  \/ ReadListing(l) \/ FetchAddons(l) \/ AddModulePlugins(l)
  \/ GuardRow(l) \/ StampRow(l)
  \/ \E m \in Modules : PrefetchInstalledPlugins(l, m) \/ LookupAddons(l, m)

Next ==
  \/ \E r \in Requests : StartLifecycle(r) \/ RequestStep(r) \/ Cancel(r)
  \/ \E l \in Readers : ReaderStep(l)
  \/ \E t \in CliTargets : CliChanges(t)

\* The main loop and the worker threads are scheduled, and the daemon ends
\* every write it starts (the call itself has no timeout).  Nobody has to ask
\* for anything, and nothing is assumed of listings.
Fairness == \A r \in Requests : WF_vars(RequestStep(r))

Spec == Init /\ [][Next]_vars /\ Fairness

-------------------------------------------------------------------------------
(* Properties.                                                             *)

\* Kind k's call comes after that of stage s.
Later(k, s) == <<s, k>> \in {<<"package", "module">>, <<"package", "plugin">>,
                            <<"module", "plugin">>}

\* r has marked the app at index i and has still to decide its state.
Unresolved(r, i) ==
  LET k == KindOf[List(r)[i]]
  IN  \/ pc[r] = "starting" /\ i < cursor[r]
      \/ /\ pc[r] \in {"running", "calling", "stamping"}
         /\ (k = stage[r] /\ i >= cursor[r]) \/ Later(k, stage[r])
      \/ pc[r] = "invalidating" /\ k = "plugin" /\ i > cursor[r]
      \/ pc[r] \in {"rollback", "resetting"} /\ i >= cursor[r]

\* No app is left stuck in INSTALLING or REMOVING (the promise of
\* lifecycle_thread() and of gs-modulix-lifecycle.h): an app that shows an
\* operation in progress is one that a live request of that operation is
\* still going to decide, however requests overlap and whichever call failed.
NoStranded ==
  \A a \in Apps :
    (IsOurs(a) /\ state[a] \in InFlight) =>
      \E r \in Requests : \E i \in Mine(List(r)) :
        /\ List(r)[i] = a
        /\ InProgress(job[r].op) = state[a]
        /\ Unresolved(r, i)

\* The user's view of the same promise: no progress indicator stays forever.
ProgressEnds ==
  \A a \in Apps : (IsOurs(a) /\ state[a] \in InFlight) ~> state[a] \notin InFlight

\* Every request that was started is reported, cancelled or not, and whatever
\* the other requests do.
EveryRequestReports ==
  \A r \in Requests : (pc[r] # "idle") ~> (report[r] # "none")

\* When requests do not compete for an app, the state shown of an app no
\* request is still deciding is the daemon's, also after a call failed midway
\* (the groups before it are installed, the rest is back as it was).
SettledShowsDaemon ==
  \A a \in Apps :
    \/ \E r \in Requests : \E i \in Mine(List(r)) :
         List(r)[i] = a /\ Unresolved(r, i)
    \/ state[a] = Settled(TargetOf[a] \in installed)

\* ... where requests do not compete: nobody else changes what is installed or
\* shown, no reply is lost, GNOME Software lets an operation start; requests
\* list different targets, a plugin once, and all the apps of a target they list.
Listed(j) == {TargetOf[j.list[i]] : i \in Mine(j.list)}
Uncontended ==
  /\ Readers = {} /\ CliTargets = {} /\ ~LostReplies
  /\ <<"AVAILABLE", "INSTALLING">> \notin Refused /\ <<"INSTALLED", "REMOVING">> \notin Refused
  /\ \A q, r \in Requests : q # r =>
       \A j \in Jobs[q], k \in Jobs[r] : Listed(j) \cap Listed(k) = {}
  /\ \A r \in Requests : \A j \in Jobs[r] :
       /\ \A a \in Apps : TargetOf[a] \in Listed(j) => \E i \in Mine(j.list) : j.list[i] = a
       /\ \A i, k \in Mine(j.list) :
            TargetOf[j.list[i]] = TargetOf[j.list[k]] =>
              KindOf[j.list[i]] = KindOf[j.list[k]] /\ (KindOf[j.list[i]] = "plugin" => i = k)

\* ... and each job is one its apps are offered for: GNOME Software shows
\* Install on an available app, Uninstall on an installed one.
Offered(j) == \A t \in Listed(j) : (t \in installed) = (j.op = "uninstall")
OfferedInit == Init /\ \A r \in Requests : \A j \in Jobs[r] : Offered(j)
OfferedSpec == OfferedInit /\ [][Next]_vars /\ Fairness

\* What lifecycle_execute() will ask of the daemon for r.
Wanted(r) == {TargetOf[List(r)[i]] :
                i \in {k \in Mine(List(r)) : KindOf[List(r)[k]] \in EnabledKinds \cup {"plugin"}}}

\* Requests keep their contract: see RequestContract.
Contract == INSTANCE RequestContract WITH
  phase   <- [r \in Requests |-> IF pc[r] \in {"idle", "done"}
                                THEN IF pc[r] = "idle" THEN "idle" ELSE report[r]
                                ELSE "running"],
  op      <- [r \in Requests |-> job[r].op],
  want    <- [r \in Requests |-> Wanted(r)],
  failed  <- [r \in Requests |-> ~ok[r]]

\* The worker, whose work is split over batched and single calls, name
\* deduplication, early returns and a rollback, implements the contract.
KeepsContract == Contract!Spec

\* A worker that stamps what the daemon said before an operation does not
\* overwrite the operation's state (gs_modulix_state_is_transient()).
ListingLeavesTransientAlone ==
  [][(\E l \in Readers : StampRow(l)) =>
       \A a \in Apps : IsTransient(state[a]) => state'[a] = state[a]]_vars

\* r has changed a plugin of m and not yet dropped m's cache entry: the
\* staleness window of gs-modulix-plugins-cache.h.
WindowOpen(r, m) ==
  /\ pc[r] \in {"stamping", "invalidating"} /\ stage[r] = "plugin" /\ ok[r]
  /\ ParentOf[TargetOf[Current(r)]] = m

\* Outside that window a cached plugin list tells the installed plugins (the
\* empty payload, which stands for a failed read too, tells nothing).
CacheFollowsPluginOps ==
  \A m \in DOMAIN cache :
    \/ \E r \in Requests : WindowOpen(r, m)
    \/ \A row \in cache[m] : row.installed = (row.target \in installed)
===============================================================================
