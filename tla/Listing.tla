-------------------------------- MODULE Listing --------------------------------
(***************************************************************************)
(* gs-modulix-list.c: list_apps jobs, and the identity of the apps they    *)
(* return (gs-modulix-app.c).  The main thread turns a query into a plan   *)
(* of daemon reads; a GTask worker issues them, builds the app of each row *)
(* or takes it from the plugin cache all workers share, and drops a row    *)
(* whose id the pair of reads has already listed.  The states the rows     *)
(* write are in Lifecycle, their icons in Refine, and the update row in    *)
(* SystemUpdate.                                                           *)
(*                                                                         *)
(* A step is one daemon read, one section of the lock of the plugin cache, *)
(* one row written to its app, or one look at the cancellable.             *)
(***************************************************************************)
EXTENDS AppOrder, Sequences, FiniteSets

CONSTANTS
  Jobs,         \* list_apps vfunc calls
  Queries,      \* what GNOME Software may ask: the properties a query has set
  Cancellable,  \* the jobs that come with a GCancellable
  Enabled,      \* MODULIX_ENABLE_MODULES, MODULIX_ENABLE_PACKAGES
  Keys,         \* what the plugin cache tells apps by: a kind and a name
  NoKey,        \* ... of a row without a name
  KindOfKey,    \* the kind in a key
  Ids,          \* GsApp ids
  VariantRank,  \* of each key: the daemon ranks the variants of an application
  Replies       \* Replies[read]: the replies the daemon may give

\* A property of a GsAppQuery, told apart by the values that matter; "other"
\* is any this plugin does not look at.
Property == {"alternate", "alternate_no_id", "installed", "not_installed", "for_update",
             "not_for_update", "keywords", "empty_keyword", "no_keywords", "other"}
Half == {"modules", "packages"}
Read == {"alternates", "installed_modules", "installed_packages", "installed_plugins",
         "search_modules", "search_packages", "updates"}
NoScore == -1
Unset == -1
Row == [key : Keys \cup {NoKey}, id : Ids, score : Nat \cup {NoScore}]

ASSUME ListingAssumption ==
  /\ Queries \subseteq SUBSET Property
  /\ Cancellable \subseteq Jobs
  /\ Enabled \subseteq Half
  /\ NoKey \notin Keys
  /\ KindOfKey \in [Keys -> {"module", "package", "plugin", "update"}]
  /\ VariantRank \in [Keys -> Nat]
  /\ Replies \in [Read -> SUBSET Seq(Row)]

\* The kinds of app a read is answered with, and the reads that have a score:
\* org.modulix.Store1.
KindsIn(read) ==
  CASE read \in {"installed_modules", "search_modules"}   -> {"module"}
    [] read \in {"installed_packages", "search_packages"} -> {"package"}
    [] read = "installed_plugins"                         -> {"plugin"}
    [] read = "updates"                                   -> {"update"}
    [] read = "alternates"                                -> {"module", "package"}

IsSearch(read) == read \in {"search_modules", "search_packages"}

\* A row is one read may be answered with.
Fits(row, read) ==
  /\ (row.score # NoScore) <=> IsSearch(read)
  /\ row.key # NoKey => KindOfKey[row.key] \in KindsIn(read)

ASSUME RepliesAssumption ==
  \A read \in Read : \A reply \in Replies[read] : \A i \in DOMAIN reply : Fits(reply[i], read)

VARIABLES
  appCache,   \* gs_plugin_cache: the id of the app made for each key
  matches,    \* the match value of each app, 0 if never set
  sortKey,    \* "GnomeSoftware::SortKey" of each app, Unset until written
  job,        \* job[j]: its ListData, its list, and where it is
  cancelled   \* the jobs whose cancellable is cancelled

vars == <<appCache, matches, sortKey, job, cancelled>>

JobPC == {"idle", "checking", "reading", "rows", "appending", "returned", "done"}
Result == {"none", "apps", "cancelled", "not_supported"}
JobRecord == [pc : JobPC, query : SUBSET Property, todo : Seq(Read), reply : Seq(Row),
              seen : SUBSET Ids, list : Seq(Keys), got : Seq(Keys), returns : Nat,
              result : Result]

NoJob == [pc |-> "idle", query |-> {}, todo |-> <<>>, reply |-> <<>>, seen |-> {},
          list |-> <<>>, got |-> <<>>, returns |-> 0, result |-> "none"]

ListingTypeOK ==
  /\ DOMAIN appCache \subseteq Keys
  /\ \A k \in DOMAIN appCache : appCache[k] \in Ids
  /\ matches \in [Keys -> Nat]
  /\ sortKey \in [Keys -> Nat \cup {Unset}]
  /\ job \in [Jobs -> JobRecord]
  /\ cancelled \subseteq Cancellable

Init ==
  /\ appCache = [k \in {} |-> CHOOSE i \in Ids : TRUE]
  /\ matches = [k \in Keys |-> 0]
  /\ sortKey = [k \in Keys |-> Unset]
  /\ job = [j \in Jobs |-> NoJob]
  /\ cancelled = {}

-------------------------------------------------------------------------------
(* The main thread: gs_modulix_list_apps_async().                          *)

Supported(query) ==
  /\ query \cap {"alternate", "alternate_no_id", "installed", "for_update",
                 "keywords", "empty_keyword"} # {}
  /\ Cardinality(query) = 1

\* A half that is compiled out is skipped.
IfCompiled(half, reads) == IF half \in Enabled THEN reads ELSE <<>>

\* Mutant: a package is listed before the module of the same id.
PlanPackagesFirst(query) ==
  CASE query = {"alternate"}  -> <<"alternates">>
    [] query = {"installed"}  -> <<"installed_packages", "installed_modules", "installed_plugins">>
    [] query = {"keywords"}   -> <<"search_packages", "search_modules">>
    [] query = {"for_update"} -> <<"updates">>
    [] OTHER                  -> <<>>

\* The reads the worker issues for the one property set, in their order.
Plan(query) ==
  CASE query = {"alternate"}  -> <<"alternates">>
    [] query = {"installed"}  -> IfCompiled("modules", <<"installed_modules">>)
                                 \o IfCompiled("packages", <<"installed_packages">>)
                                 \o IfCompiled("modules", <<"installed_plugins">>)
    [] query = {"keywords"}   -> IfCompiled("modules", <<"search_modules">>)
                                 \o IfCompiled("packages", <<"search_packages">>)
    [] query = {"for_update"} -> <<"updates">>
    [] OTHER                  -> <<>>

ListAppsAsync(j) ==
  /\ job[j].pc = "idle"
  /\ \E q \in Queries :
       job' = [job EXCEPT ![j] =
         IF Supported(q)
         THEN [NoJob EXCEPT !.pc = "checking", !.query = q, !.todo = Plan(q)]
         ELSE [NoJob EXCEPT !.pc = "returned", !.query = q, !.returns = 1,
                            !.result = "not_supported"]]
  /\ UNCHANGED <<appCache, matches, sortKey, cancelled>>

-------------------------------------------------------------------------------
(* The worker: list_apps_thread(), collect_pair().                         *)

Alternates(j) == job[j].query = {"alternate"}

\* g_task_return_pointer(), g_task_return_error().
Returned(record, result) ==
  [record EXCEPT !.pc = "returned", !.returns = @ + 1, !.result = result]

\* Mutant: the caller goes on after bail_if_cancelled() has returned the error
\* and freed the list.
BailAndGoOn(j) ==
  /\ job[j].pc = "checking" /\ j \in cancelled
  /\ job' = [job EXCEPT ![j] =
       IF job[j].todo = <<>> THEN Returned(@, "cancelled")
       ELSE [Returned(@, "cancelled") EXCEPT !.pc = "reading"]]
  /\ UNCHANGED <<appCache, matches, sortKey, cancelled>>

\* bail_if_cancelled(), when it is.
BailIfCancelled(j) ==
  /\ job[j].pc = "checking" /\ j \in cancelled
  /\ job' = [job EXCEPT ![j] = [Returned(@, "cancelled") EXCEPT !.list = <<>>]]
  /\ UNCHANGED <<appCache, matches, sortKey, cancelled>>

\* When it is not: on to the next read, or to the answer.
NotCancelled(j) ==
  /\ job[j].pc = "checking" /\ j \notin cancelled
  /\ job' = [job EXCEPT ![j] =
       IF job[j].todo = <<>> THEN Returned(@, "apps") ELSE [@ EXCEPT !.pc = "reading"]]
  /\ UNCHANGED <<appCache, matches, sortKey, cancelled>>

\* store_read(), gs_modulix_update_list(): the daemon answers.
StoreRead(j) ==
  /\ job[j].pc = "reading"
  /\ \E rows \in Replies[Head(job[j].todo)] :
       job' = [job EXCEPT ![j].pc = "rows", ![j].reply = rows]
  /\ UNCHANGED <<appCache, matches, sortKey, cancelled>>

\* A read that fails (no bus, a D-Bus error, the time-out) lists nothing.
StoreReadFails(j) ==
  /\ job[j].pc = "reading"
  /\ job' = [job EXCEPT ![j].pc = "rows", ![j].reply = <<>>]
  /\ UNCHANGED <<appCache, matches, sortKey, cancelled>>

\* The app a key already has keeps the id of the row that made it.
MakeApp(row) ==
  appCache' = [k \in DOMAIN appCache \cup {row.key} |->
                 IF k \in DOMAIN appCache THEN appCache[k] ELSE row.id]

\* The next row of the reply becomes an app; a row without a name is skipped.
RowToApp(j) ==
  /\ job[j].pc = "rows" /\ job[j].reply # <<>>
  /\ LET row == Head(job[j].reply)
     IN  IF row.key = NoKey
         THEN job' = [job EXCEPT ![j].reply = Tail(@)] /\ UNCHANGED appCache
         ELSE job' = [job EXCEPT ![j].pc = "appending"] /\ MakeApp(row)
  /\ UNCHANGED <<matches, sortKey, cancelled>>

\* gs_modulix_make_app_from_variant(), under its lock.
LookUpOrMake(j) ==
  job[j].pc = "rows" /\ Head(job[j].todo) # "installed_plugins" /\ RowToApp(j)

\* gs_modulix_make_plugin_app_from_variant(), under a lock of its own: the keys
\* of plugins are theirs alone.
LookUpOrMakePlugin(j) ==
  job[j].pc = "rows" /\ Head(job[j].todo) = "installed_plugins" /\ RowToApp(j)

\* Mutant: the match value is written from a row that has no score.
ScoreUnguarded(row) ==
  matches' = [matches EXCEPT ![row.key] =
                MatchValue(IF row.score = NoScore THEN 0 ELSE row.score,
                           KindOfKey[row.key] = "module")]

\* What the row writes to its app: its rank in a search, if it has one.
Score(row) ==
  matches' = [matches EXCEPT ![row.key] =
                IF row.score = NoScore THEN @
                ELSE MatchValue(row.score, KindOfKey[row.key] = "module")]

\* ... and its place among the sources, written once per app; an addon and
\* the update row have none.
Rank(row) ==
  sortKey' = [sortKey EXCEPT ![row.key] =
                IF @ # Unset \/ KindOfKey[row.key] \notin {"module", "package"} THEN @
                ELSE SortKey(KindOfKey[row.key] = "module", VariantRank[row.key])]

\* The pairs share a table of the ids listed; the other reads have none.
Deduped(j) == Head(job[j].todo) \in {"installed_modules", "installed_packages",
                                     "search_modules", "search_packages"}

\* append_apps_from_variant(), append_plugin_apps_from_variant().
AppendRow(j) ==
  /\ job[j].pc = "appending"
  /\ LET row == Head(job[j].reply)
         id  == appCache[row.key]
         dup == Deduped(j) /\ id \in job[j].seen
     IN  /\ Score(row) /\ Rank(row)
         /\ job' = [job EXCEPT ![j].pc = "rows", ![j].reply = Tail(@),
                               ![j].got = Append(@, row.key),
                               ![j].list = IF dup THEN @ ELSE Append(@, row.key),
                               ![j].seen = IF Deduped(j) THEN @ \cup {id} ELSE @]
  /\ UNCHANGED <<appCache, cancelled>>

\* Mutant: each half of a pair has its own table of ids.
EndReadForgetsIds(j) ==
  /\ job[j].pc = "rows" /\ job[j].reply = <<>>
  /\ job' = [job EXCEPT ![j] =
       IF Alternates(j) THEN Returned([@ EXCEPT !.todo = Tail(@)], "apps")
       ELSE [@ EXCEPT !.todo = Tail(@), !.seen = {}, !.pc = "checking"]]
  /\ UNCHANGED <<appCache, matches, sortKey, cancelled>>

\* Mutant: the worker never leaves the read it has finished.
EndReadRepeats(j) ==
  /\ job[j].pc = "rows" /\ job[j].reply = <<>>
  /\ job' = [job EXCEPT ![j].pc = "checking"]
  /\ UNCHANGED <<appCache, matches, sortKey, cancelled>>

\* After the last row of a read: an alternate-of job returns at once, the
\* others look at the cancellable first.
EndRead(j) ==
  /\ job[j].pc = "rows" /\ job[j].reply = <<>>
  /\ LET next == [job[j] EXCEPT !.todo = Tail(@)]
     IN  job' = [job EXCEPT ![j] =
           IF Alternates(j) THEN Returned(next, "apps") ELSE [next EXCEPT !.pc = "checking"]]
  /\ UNCHANGED <<appCache, matches, sortKey, cancelled>>

\* gs_modulix_list_apps_finish(): a GTask whose cancellable is cancelled
\* reports that, whatever was returned.
Finish(j) ==
  /\ job[j].pc = "returned"
  /\ job' = [job EXCEPT ![j].pc = "done",
                        ![j].result = IF j \in cancelled THEN "cancelled" ELSE @]
  /\ UNCHANGED <<appCache, matches, sortKey, cancelled>>

\* GNOME Software cancels a job it has started.
Cancel(j) ==
  /\ j \in Cancellable \ cancelled
  /\ job[j].pc \notin {"idle", "done"}
  /\ cancelled' = cancelled \cup {j}
  /\ UNCHANGED <<appCache, matches, sortKey, job>>

-------------------------------------------------------------------------------
JobStep(j) ==
  \/ BailIfCancelled(j) \/ NotCancelled(j)
  \/ StoreRead(j) \/ StoreReadFails(j)
  \/ LookUpOrMake(j) \/ LookUpOrMakePlugin(j)
  \/ AppendRow(j) \/ EndRead(j)
  \/ Finish(j)

Next == \E j \in Jobs : ListAppsAsync(j) \/ JobStep(j) \/ Cancel(j)

\* Workers and the main loop are scheduled, and a read ends: the wrappers of
\* every method a listing calls give it a time-out (see Bus).
Fairness == \A j \in Jobs : WF_vars(JobStep(j))

Spec == Init /\ [][Next]_vars /\ Fairness

-------------------------------------------------------------------------------
(* Properties.                                                             *)

\* The rows of a sequence at the given places, in their order.
RowsAt(keys, places) ==
  LET upTo[i \in 0 .. Len(keys)] ==
        IF i = 0 THEN <<>>
        ELSE IF i \in places THEN Append(upTo[i - 1], keys[i]) ELSE upTo[i - 1]
  IN  upTo[Len(keys)]

\* The rows read with a table of ids.
Tabled(query, keys) ==
  {i \in DOMAIN keys : query \in {{"installed"}, {"keywords"}} /\ KindOfKey[keys[i]] # "plugin"}

\* The rows a list keeps: all of those read without a table of ids, and of the
\* others the first of each id.
FirstOfEachId(query, keys) ==
  LET tabled == Tabled(query, keys)
  IN  RowsAt(keys, {i \in DOMAIN keys :
        i \in tabled => \A h \in tabled : h < i => appCache[keys[h]] # appCache[keys[i]]})

\* The contract of gs_modulix_append_apps_from_variant() over both reads of a
\* pair, while another worker makes the same apps: a list holds the rows the
\* daemon gave, in order, less those whose id came earlier.
FirstWins ==
  \A j \in Jobs :
    job[j].result # "cancelled" => job[j].list = FirstOfEachId(job[j].query, job[j].got)

\* collect_pair()'s "a module wins its own dedup": no list drops the module of
\* an id for the package of that id, whoever made the two apps first.
ModuleBeatsPackage ==
  \A j \in Jobs : \A g \in DOMAIN job[j].got : \A n \in DOMAIN job[j].list :
    LET module == job[j].got[g]
        listed == job[j].list[n]
    IN  /\ job[j].query \in {{"installed"}, {"keywords"}}
        /\ KindOfKey[module] = "module" /\ KindOfKey[listed] = "package"
        => appCache[module] # appCache[listed]

\* A job is completed once, and its worker does nothing after that
\* (bail_if_cancelled()'s "callers must return immediately").  A query is
\* refused only for what it asks, and one that was accepted fails only when
\* cancelled: whichever of its reads failed, the others are listed.
AnsweredOnce ==
  \A j \in Jobs :
    /\ job[j].returns = IF job[j].pc \in {"returned", "done"} THEN 1 ELSE 0
    /\ job[j].pc = "done" =>
         \/ job[j].result = "cancelled" /\ j \in cancelled
         \/ job[j].result = "not_supported" /\ ~Supported(job[j].query) /\ job[j].got = <<>>
         \/ job[j].result = "apps" /\ Supported(job[j].query) /\ job[j].todo = <<>>

\* In the results of a search, whatever other jobs have written to the apps,
\* every module ranks above every package and nothing has rank 0
\* (modulix_match_value()).
SearchRanks ==
  \A j \in Jobs : job[j].query = {"keywords"} =>
    \A m, p \in {job[j].list[n] : n \in DOMAIN job[j].list} :
      /\ matches[p] > 0
      /\ KindOfKey[m] = "module" /\ KindOfKey[p] = "package" => matches[m] > matches[p]

FLATPAK_SORT_KEY == 100
DEFAULT_SORT_KEY == 1000

\* In the "Sources" popover, whichever listing made the apps, the module of an
\* application comes before its Flatpak, and its packages come after the
\* Flatpak and after a source that has no SortKey (MODULIX_MODULE_SORT_KEY).
SourcesOrder ==
  \A j \in Jobs : Alternates(j) =>
    \A n \in DOMAIN job[j].list :
      LET k == job[j].list[n]
      IN  IF KindOfKey[k] = "module"
          THEN sortKey[k] \in 0 .. FLATPAK_SORT_KEY - 1
          ELSE sortKey[k] > DEFAULT_SORT_KEY

\* A listing that is no search leaves the rank of a search alone: while only
\* one job searches, each row it lists keeps the rank its score gave it.
OnlyJobToRank(j) == \A k \in Jobs \ {j} : job[k].query # {"keywords"}

RankIsOfTheSearch ==
  [][\A j \in Jobs : job[j].query = {"keywords"} /\ OnlyJobToRank(j) =>
       \A n \in DOMAIN job[j].list :
         \/ matches'[job[j].list[n]] = matches[job[j].list[n]]
         \/ AppendRow(j)]_vars

\* Every list_apps job is answered.
EveryListingReports == \A j \in Jobs : job[j].pc # "idle" ~> job[j].pc = "done"

\* gs-modulix-list.c:397, of an alternate-of job: "Never fail this job on
\* cancellation".
AlternatesNeverFail == \A j \in Jobs : Alternates(j) => job[j].result # "cancelled"
===============================================================================
