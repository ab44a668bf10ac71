------------------------------ MODULE PluginShell ------------------------------
(***************************************************************************)
(* gs-plugin-modulix.c: the life of a plugin object, and what its jobs     *)
(* share: the bus connection (Bus), the icon resolver (IconResolver) and   *)
(* the locks of the three caches.  GNOME Software constructs the object,   *)
(* sets it up, calls its vfuncs, drops it, and may load the plugin again.  *)
(*                                                                         *)
(* A job is here the sequence of the shared resources its worker goes      *)
(* through; what it does with them is in the module of its vfunc.          *)
(***************************************************************************)
EXTENDS Bus, IconResolver

CONSTANTS
  Gens,      \* objects of the plugin one process may construct
  ScanOf,    \* the scan thread each object's set-up starts
  VfuncsOf   \* VfuncsOf[c]: the vfuncs caller c may be given

Lock == {"icon_urls", "enrichment", "plugins", "icons"}
Vfunc == {"list_apps", "refresh_metadata", "refine", "update_apps", "install_apps",
          "uninstall_apps"}

ASSUME ShellAssumption ==
  /\ Gens \in Nat \ {0}
  /\ ScanOf \in [1 .. Gens -> Scans]
  /\ VfuncsOf \in [Callers -> SUBSET Vfunc]

VARIABLES
  gen,       \* objects constructed so far
  object,    \* where the last one is
  job,       \* job[c]: the steps left to c's job, and how it goes
  urls,      \* icon_cache # NULL
  dead,      \* dead[lock]: the last object that cleared the lock, or 0
  misused,   \* history: <<lock, g, h>>: object g took a lock object h had cleared
  late       \* history: the scans under way when the resolver was last shut down

shellVars == <<gen, object, job, urls, dead, misused, late>>
vars == <<busVars, resolverVars, shellVars>>

ObjectPC == {"none", "constructed", "set_up", "ready", "disabled", "dropped", "bus",
             "icon_urls", "enrichment", "plugins", "icons", "gone"}
JobPC == {"idle", "running", "calling", "returned"}
NoJob == [pc |-> "idle", todo |-> <<>>, ok |-> TRUE]

ShellTypeOK ==
  /\ BusTypeOK /\ ResolverTypeOK
  /\ gen \in 0 .. Gens
  /\ object \in ObjectPC
  /\ job \in [Callers -> [pc : JobPC, todo : Seq(Method \cup Lock), ok : BOOLEAN]]
  /\ urls \in BOOLEAN
  /\ dead \in [Lock -> 0 .. Gens]
  /\ misused \subseteq Lock \X (1 .. Gens) \X (1 .. Gens)
  /\ late \subseteq Scans

Init ==
  /\ BusClosed /\ ResolverInit
  /\ gen = 0 /\ object = "none"
  /\ job = [c \in Callers |-> NoJob]
  /\ urls = FALSE /\ dead = [lock \in Lock |-> 0] /\ misused = {} /\ late = {}

-------------------------------------------------------------------------------
(* The object: main thread.                                                *)

\* gs_plugin_query_type(), g_object_new(): at first, or after the last object
\* is finalized.
Construct ==
  /\ object \in {"none", "gone"} /\ gen < Gens
  /\ gen' = gen + 1 /\ object' = "constructed"
  /\ UNCHANGED <<busVars, resolverVars, job, urls, dead, misused, late>>

\* gs_plugin_modulix_setup_async()
SetupAsync ==
  /\ object = "constructed" /\ object' = "set_up"
  /\ ThemeSetup
  /\ ResolverSetup(ScanOf[gen])
  /\ \E reachable \in BOOLEAN : BusInit(reachable)
  /\ UNCHANGED <<call, display, theme, files, disk, gen, job, urls, dead, misused, late>>

\* gs_plugin_modulix_setup_finish(): the loader disables the plugin that fails.
SetupFinish ==
  /\ object = "set_up" /\ object' = IF bus THEN "ready" ELSE "disabled"
  /\ UNCHANGED <<busVars, resolverVars, gen, job, urls, dead, misused, late>>

\* The loader lets go of the object.
Drop ==
  /\ object \in {"ready", "disabled"} /\ object' = "dropped"
  /\ UNCHANGED <<busVars, resolverVars, gen, job, urls, dead, misused, late>>

InFlight(c) == job[c].pc # "idle"

\* Mutant: a job holds no reference on the plugin.
LastReferenceOfLoader == object = "dropped"

\* The GTask of a job holds a reference on the plugin.
LastReference == object = "dropped" /\ \A c \in Callers : ~InFlight(c)

\* gs_plugin_modulix_finalize(), one call after the other.
Finalize ==
  /\ LastReference
  /\ BusShutdown /\ object' = "bus"
  /\ UNCHANGED <<call, resolverVars, gen, job, urls, dead, misused, late>>

\* gs_modulix_icon_cache_clear(): the lock is kept.
ClearIconCache ==
  /\ object = "bus" /\ object' = "icon_urls"
  /\ urls' = FALSE
  /\ UNCHANGED <<busVars, resolverVars, gen, job, dead, misused, late>>

\* The lock is taken, cleared or not.
Use(lock) ==
  misused' = misused \cup (IF dead[lock] = 0 THEN {} ELSE {<<lock, gen, dead[lock]>>})

\* The lock is taken, the table dropped, the lock cleared.
Clear(lock) ==
  /\ Use(lock)
  /\ dead' = [dead EXCEPT ![lock] = gen]

ClearEnrichmentCache ==
  /\ object = "icon_urls" /\ object' = "enrichment"
  /\ Clear("enrichment")
  /\ UNCHANGED <<busVars, resolverVars, gen, job, urls, late>>

ClearPluginsCache ==
  /\ object = "enrichment" /\ object' = "plugins"
  /\ Clear("plugins")
  /\ UNCHANGED <<busVars, resolverVars, gen, job, urls, late>>

\* The scan thread holds no reference on the plugin: nobody waits for it.
UnderWay(s) == scan[s].pc \in {"scanning", "publishing"}

\* Mutant: the resolver's lock is cleared as well.
ShutdownResolverClears ==
  /\ object = "plugins" /\ object' = "gone"
  /\ ResolverShutdown
  /\ dead' = [dead EXCEPT !["icons"] = gen]
  /\ late' = {s \in Scans : UnderWay(s)}
  /\ UNCHANGED <<busVars, gen, job, urls, misused>>

ShutdownResolver ==
  /\ object = "plugins" /\ object' = "gone"
  /\ ResolverShutdown
  /\ late' = {s \in Scans : UnderWay(s)}
  /\ UNCHANGED <<busVars, gen, job, urls, dead, misused>>

-------------------------------------------------------------------------------
(* The vfuncs: gs_plugin_modulix_class_init().  What each goes through.    *)

ListApps == {
  <<"SearchModules", "icon_urls", "icons", "SearchPackages", "icon_urls", "icons">>,
  <<"ListInstalledModules", "icon_urls", "icons", "ListInstalledPackages", "icon_urls", "icons",
    "ListInstalledPlugins", "icons">>,
  <<"PackagesForAppId", "icon_urls", "icons">>,
  <<"ListOutdatedInputs">>}
RefreshMetadata == {<<"CheckUpdate", "ListOutdatedInputs">>}
RefineApps == {<<"enrichment", "GetAppEnrichment", "enrichment", "GetPackageLicenses",
                 "ListInstalledPlugins", "icons", "enrichment", "icon_urls",
                 "plugins", "ListModulePlugins", "plugins", "icons">>}
UpdateApps == {<<"UpdateSystem", "RebootRequired">>}
InstallApps == {<<"NamesCall", "NamesCall", "PluginCall", "plugins">>}
UninstallApps == {<<"NamesCall", "NamesCall", "PluginCall", "plugins">>}

Steps(vfunc) ==
  CASE vfunc = "list_apps"        -> ListApps
    [] vfunc = "refresh_metadata" -> RefreshMetadata
    [] vfunc = "refine"           -> RefineApps
    [] vfunc = "update_apps"      -> UpdateApps
    [] vfunc = "install_apps"     -> InstallApps
    [] vfunc = "uninstall_apps"   -> UninstallApps

\* A vfunc is called on the main thread, and starts a GTask.
StartJob(c) ==
  /\ object = "ready" /\ ~InFlight(c)
  /\ \E vfunc \in VfuncsOf[c] : \E steps \in Steps(vfunc) :
       job' = [job EXCEPT ![c] = [NoJob EXCEPT !.pc = "running", !.todo = steps]]
  /\ UNCHANGED <<busVars, resolverVars, gen, object, urls, dead, misused, late>>

At(c, steps) == job[c].pc = "running" /\ job[c].todo # <<>> /\ Head(job[c].todo) \in steps

\* The job has nothing of this step to do: no app of the kind, an error before it.
SkipStep(c) ==
  /\ At(c, Method \cup Lock)
  /\ job' = [job EXCEPT ![c].todo = Tail(@)]
  /\ UNCHANGED <<busVars, resolverVars, gen, object, urls, dead, misused, late>>

CallDaemon(c) ==
  /\ At(c, Method)
  /\ BusCall(c, Head(job[c].todo))
  /\ job' = [job EXCEPT ![c].pc = "calling", ![c].todo = Tail(@)]
  /\ UNCHANGED <<bus, resolverVars, gen, object, urls, dead, misused, late>>

\* Mutant: a write that fails is never returned.
TakeAnswerOfSuccess(c) ==
  /\ \/ TakeReply(c)
     \/ TakeStatus(c) /\ Status(c)
  /\ job' = [job EXCEPT ![c].pc = "running"]
  /\ UNCHANGED <<resolverVars, gen, object, urls, dead, misused, late>>

\* A read that fails is an empty one; a write that fails ends the job.
TakeAnswer(c) ==
  /\ \/ /\ TakeReply(c)
        /\ job' = [job EXCEPT ![c].pc = "running"]
     \/ /\ TakeStatus(c)
        /\ job' = [job EXCEPT ![c].pc = "running", ![c].ok = Status(c),
                              ![c].todo = IF Status(c) THEN @ ELSE <<>>]
  /\ UNCHANGED <<resolverVars, gen, object, urls, dead, misused, late>>

\* A section of the lock of a cache, after which it may have a table.
UseCache(c) ==
  /\ At(c, {"icon_urls", "enrichment", "plugins"})
  /\ LET lock == Head(job[c].todo)
     IN  /\ Use(lock)
         /\ urls' = (urls \/ lock = "icon_urls")
  /\ job' = [job EXCEPT ![c].todo = Tail(@)]
  /\ UNCHANGED <<busVars, resolverVars, gen, object, dead, late>>

\* gs_modulix_icon_resolve() for some app: WinningLevel, under the reader lock.
ResolveIcon(c) ==
  /\ At(c, {"icons"})
  /\ Use("icons")
  /\ job' = [job EXCEPT ![c].todo = Tail(@)]
  /\ UNCHANGED <<busVars, resolverVars, gen, object, urls, dead, late>>

\* The worker returns, and the main loop runs the callback.
Return(c) ==
  /\ job[c].pc = "running" /\ job[c].todo = <<>>
  /\ job' = [job EXCEPT ![c].pc = "returned"]
  /\ UNCHANGED <<busVars, resolverVars, gen, object, urls, dead, misused, late>>

Report(c) ==
  /\ job[c].pc = "returned"
  /\ job' = [job EXCEPT ![c] = NoJob]
  /\ UNCHANGED <<busVars, resolverVars, gen, object, urls, dead, misused, late>>

JobStep(c) ==
  \/ CallDaemon(c) \/ TakeAnswer(c) \/ UseCache(c) \/ ResolveIcon(c)
  \/ Return(c) \/ Report(c)

-------------------------------------------------------------------------------
(* The rest of the process, and the daemon.                                *)

\* Holds no reference on the plugin.
Publish(s) ==
  /\ PublishScan(s)
  /\ Use("icons")
  /\ UNCHANGED <<gen, object, job, urls, dead, late>>

ScanStep(s) ==
  /\ \/ ScanFileCaches(s) /\ UNCHANGED shellVars
     \/ Publish(s)
  /\ UNCHANGED busVars

Desktop ==
  /\ (\E t \in Themes : ThemeChanges(t)) \/ OnThemeChanged
  /\ UNCHANGED <<busVars, shellVars>>

Daemon(c) == DaemonEnds(c) /\ UNCHANGED <<resolverVars, shellVars>>
Wire(c) == (ReplyArrives(c) \/ TimesOut(c)) /\ UNCHANGED <<resolverVars, shellVars>>
Crash(c) == DaemonDies(c) /\ UNCHANGED <<resolverVars, shellVars>>

Teardown == Finalize \/ ClearIconCache \/ ClearEnrichmentCache \/ ClearPluginsCache \/ ShutdownResolver

Next ==
  \/ Construct \/ SetupAsync \/ SetupFinish \/ Drop \/ Teardown \/ Desktop
  \/ \E c \in Callers : StartJob(c) \/ SkipStep(c) \/ JobStep(c) \/ Daemon(c) \/ Wire(c) \/ Crash(c)
  \/ \E s \in Scans : ScanStep(s)

\* The calls without a time-out: a rebuild, and nix flake update.
MayTakeMinutes == WriteMethod \cup {"CheckUpdate"}

\* Threads and the main loop are scheduled; replies and time-outs arrive.  The
\* daemon is only trusted to end the calls that have no time-out.
Fairness ==
  /\ WF_vars(Teardown)
  /\ \A c \in Callers :
       /\ WF_vars(JobStep(c)) /\ WF_vars(Wire(c))
       /\ WF_vars(call[c].method \in MayTakeMinutes /\ Daemon(c))

Spec == Init /\ [][Next]_vars /\ Fairness

-------------------------------------------------------------------------------
(* Properties.                                                             *)

\* In every load, no job, no call of finalize and no scan left behind takes a lock
\* that its own object has cleared; and no lock but those of the enrichment and
\* the plugins cache is ever met cleared (gs_modulix_icon_cache_clear() and
\* gs_modulix_icon_resolver_shutdown() keep theirs for a reload).  A later object
\* does take those two: finalize's comment forbids it, and nothing prevents it.
LocksLive ==
  \A use \in misused : use[1] \in {"enrichment", "plugins"} /\ use[3] < use[2]

\* "No gs_modulix_bus_call() may run concurrently with or after" the shutdown
\* (gs-modulix-bus.h), nor before a set-up that succeeded: no worker finds the
\* connection missing.
JobsFindTheBus ==
  \A c \in Callers : (InFlight(c) => bus) /\ call[c].answer # "not_connected"

\* A write is reported as done only if the daemon has done it, and as failed
\* only when it has ended: no caller rolls back a rebuild that is still running
\* (MODULIX_DAEMON1_NO_TIMEOUT).
NoRebuildAbandoned ==
  \A c \in Callers : call[c].method \in WriteMethod /\ Answered(c) =>
    IF Status(c) THEN call[c].progress = "served" ELSE call[c].progress # "working"

\* While the plugin is set up, and no change of the theme waits to be delivered,
\* the names in the index are those the theme has.
NamesFollowTheme ==
  /\ display /\ object \in {"set_up", "ready", "disabled", "dropped"} /\ ~changed
  => names = NamesOf[theme] \cup AddedNames

\* What an app id is indexed to: the first remote that has an icon of it, and
\* of that remote's two sizes the large one (gs-modulix-icon-resolver.h).
LargeIconWins ==
  LET index == files.flatpak.index
      Holds(n, size, id) == \E i \in DOMAIN disk.trees[n][size] : disk.trees[n][size][i] = id
  IN  index # Null => \A id \in Stems :
        /\ id \in DOMAIN index <=> \E n \in DOMAIN disk.trees, size \in {1, 2} : Holds(n, size, id)
        /\ id \in DOMAIN index =>
             /\ \A n \in 1 .. index[id].at - 1, size \in {1, 2} : ~Holds(n, size, id)
             /\ index[id].width = IF Holds(index[id].at, 1, id) THEN 128 ELSE 64

\* What a finalized plugin leaves behind, however often it was loaded: no
\* connection, no icon URL, no handler on a theme that outlives it, no name of
\* that theme; and of threads and indexes of files only the scans that were
\* under way when the resolver was shut down, with what these publish late.
TornDown ==
  object = "gone" =>
    /\ ~bus /\ ~urls /\ handlers = 0
    /\ \A id \in Stems : WinningLevel({id}, id) # "theme"
    /\ \A s \in Scans : UnderWay(s) => s \in late
    /\ \A table \in {files.flatpak, files.gsCache} : table = NoTable \/ table.by \in late

\* Every job is reported, though the daemon may never answer a read.
EveryJobReports == \A c \in Callers : InFlight(c) ~> ~InFlight(c)

\* A plugin GNOME Software lets go of is finalized, whatever its jobs wait for.
DroppedIsFinalized == object = "dropped" ~> object = "gone"
===============================================================================
