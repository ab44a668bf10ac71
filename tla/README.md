# A TLA+ model of gnome-software-plugin (Modulix)

This project specifies, model-checks and proves things about the GNOME Software
plugin for Modulix OS. All paths are relative to `src/plugin/src/` unless they
start with `src/`. The TLA+ says what the code does; where a comment or header
of the code promises something else, a run shows the disagreement.

## The system

The plugin is a shared object loaded by GNOME Software. Its vfuncs are called on
the main thread, each makes a `GTask`, and the work is done on a `GTask` worker
thread with *blocking* D-Bus calls to `mx-daemon`. Requests are not queued
against each other, so any number of worker threads may run at once. They share

* the `GsApp` objects: the plugin cache returns the same object for the same
  package, module or plugin, so a listing, a refine and an install of it write
  the same state;
* the caches of daemon replies (`plugins-cache`, `enrichment-cache`);
* the icon tables;
* the memo of the last update check;
* the daemon and its set of installed things.

### Inventory

| part | source | state | operations | hard because | correct when |
|---|---|---|---|---|---|
| install / uninstall | `gs-modulix-lifecycle.c` | one `LifecycleTask` per request; the states of its apps | `start_lifecycle` (mark, main thread), `lifecycle_thread`: `call_for_kind` ×2, `call_for_plugins`, rollback; `finish` | a batch stops at its first failure; requests overlap on an app; listings write the same states; cancellation is not looked at | no app stays in progress; each request reports; a report of success means all was done; settled apps show the daemon's truth |
| plugins cache | `gs-modulix-plugins-cache.c` | table module → reply, reader/writer lock | `get_or_fetch`, `invalidate`, `clear` | fetch with no lock held between two critical sections; invalidation falls between | one payload per module until invalidated; callers agree; nothing stale outlives an invalidation |
| shared app states | `gs-modulix-app.c` | `GsApp` state, plugin cache | `make_app_from_variant`, `make_plugin_app_from_variant`, `add_module_plugins`, `append_*` | check of the state and write of it are two calls; workers race with the main thread | a listing leaves an operation's state alone |
| system update | `gs-modulix-update.c` | the one "Modulix OS" row: state, reboot quirk, details; the memo with its time | `update_list`, `update_check` (`refresh_metadata`), `update_apps_async` / `update_run` | three kinds of thread write one row with no lock; answers arrive late; updates are also applied outside | quirk matches state; a pending restart is kept, with its details; a retired memo stays retired; a stale one expires (the first four fail for jobs that cross: below) |
| listing | `gs-modulix-list.c` | the list under construction, ids seen | `list_apps_async`, `list_apps_thread` (search, installed, alternates, for-update) | cancelled between two reads; a read that fails is an empty one | deduplicated by id except for alternates; the task completes exactly once |
| refine | `gs-modulix-refine.c` | flags, three prefetched tables, the shared apps | `refine_async`, `refine_thread`, `refine_one`, `refine_plugin` | prefetched once and used for each app later; passes and listings write the same apps; precedence of several sources; cancelled between two apps | a better source is never overwritten by a worse one; a pass that succeeds has filled in what it could; a prefetch is enough; every pass reports |
| enrichment cache | `gs-modulix-enrichment-cache.c` | table app-id → reply | `get_or_fetch`, `prefetch_many`, `clear` | a batch and single fetches race | first insertion wins for every caller; an id with no data is remembered |
| icon cache, resolver, theme | `gs-modulix-icon-*.c` | table app-id → icon URL; three name tables, replaced by a scan thread | `put`, `get`, `clear`; `init`, `shutdown`, `resolve` | the scan publishes late, also after a shutdown | an index is whole or absent; the order of levels is kept |
| markup | `gs-modulix-markup.c` | none | AppStream markup → Pango text | nesting, unknown tags, elements never closed, stray `<` | well-nested, escaped output for any input; nothing of a paragraph or an item is lost |
| shell | `gs-plugin-modulix.c` | the vfunc table, the lifetime of the rest | `setup_async`, `finalize`, forwarding vfuncs | finalize runs while scan threads do; locks destroyed there are taken again after a reload | a job never finds what it uses torn down; what is dropped is finalized, and leaves nothing |
| D-Bus | `dbus/*.c` | one connection | `bus_init`, `bus_call`, one wrapper per method | reads time out, writes never do; every failure becomes NULL or FALSE | a failed call never looks like a successful one; no rebuild is given up on |
| external | `mx-daemon`, upstream, `mx`, `nixos-rebuild`, GNOME Software | installed set, revisions, `GsApp` | | change at any time, answers lost | |

`PROJECT.json` lists the hazards of this code at their lines, each with the
properties that would catch it going wrong.

## Modules

| module | models |
|---|---|
| `RequestContract` | abstract: what an install or uninstall promises its caller (`Begin`, `Grant`, `Refuse`, `End`) |
| `Lifecycle` | `gs-modulix-lifecycle.c`, with the listing and refine workers that write the same apps, and `PluginsCache` as an instance |
| `GsApp` | the state setter of GNOME Software, `gs_modulix_state_is_transient()` |
| `PluginsCache` | abstract: a lookup and an invalidation of the plugins cache, each lock section a step |
| `CacheSections` | `gs-modulix-plugins-cache.c` at the grain of its lock, readers beside one another; implements `PluginsCache` |
| `SystemUpdate` | `gs-modulix-update.c` |
| `UpdateHistory` | `SystemUpdate` with history variables: who wrote the row last, which jobs were overtaken |
| `EnrichmentCache` | `gs-modulix-enrichment-cache.c`: `Missing`, `EnrichmentReplies`, `Fill` |
| `Refine` | `gs-modulix-refine.c`, with the listing workers that give the same apps their icons; extends `EnrichmentCache` |
| `IconHistory` | `Refine` with a history variable: the apps returned while another listing chose their icon |
| `AppOrder` | the match value and the `SortKey` of `gs-modulix-app.c`, as operators |
| `Listing` | `gs-modulix-list.c`, and which app a row becomes (`gs-modulix-app.c`); extends `AppOrder` |
| `Bus` | `dbus/`: the connection, a blocking call, the time-out of each method |
| `IconResolver` | `gs-modulix-icon-theme.c`, `gs-modulix-icon-resolver.c` |
| `PluginShell` | `gs-plugin-modulix.c`: composes `Bus`, `IconResolver` and the locks of the caches with the life of a plugin object |
| `Markup` | `gs-modulix-markup.c`, with a reference rendering it is checked against |
| `*Proofs` | theorems about the module of that name (`ContractProofs`: that `Lifecycle` implements `RequestContract`) |
| `MC*` | instances for TLC |

One action is one access to shared state: one daemon call answered, one
`gs_app_get_state()`, one `gs_app_set_state()`, one quirk, one section of a
lock, one table published. This is the grain at which threads can interleave in
the code, and it is where the findings are.

**Lifecycle.** `StartLifecycle` and `MarkInProgress` are `start_lifecycle()`: the
loop that marks the apps, one app a step, on the main thread
(`MainThreadFree`: two vfuncs never run at once). `CallForKind`,
`CallForPlugins` and `DaemonReplies` are the calls, the last with success,
refusal and, under `LostReplies`, a change that was made and reported as failed.
`SetGroupState` / `SetPluginState` stamp the outcome, `InvalidatePlugins` drops
the cache entry, `RollbackCheck` / `RollbackReset` are the read and the write of
the loop at the end of `lifecycle_thread()`. `Finish` reports: `GTask` reports
cancellation over any other result. The task's `apps` array is represented by
the full list with the other plugins' apps skipped (`Mine`), which
`collect_owned_apps()` leaves in order. `ReadListing`, `PrefetchInstalledPlugins`
and the addon actions obtain rows; `GuardRow` and `StampRow` are the guard and
the write of `make_app_from_variant()`, `make_plugin_app_from_variant()` and
`refine_plugin()`. Texts, icons and licences of a row are left out: no state
depends on them.

**CacheSections.** `EnterReader`, `TestMarker`, `MakeMarker` and `Compare` are a
reader section, which other readers interleave with: `plugins_cache_empty()`
creates its marker there, under a lock that does not exclude them. `empty` is
read by the code without synchronisation, so `Compare` takes either the pointer
tested or the one now there. `WriterSection` (`LoseRace`, `FillEntry`) and
`InvalidateEntry` are steps that need the readers gone.
`ImplementsPluginsCache` maps a worker in a reader section to one that has not
looked yet.

**SystemUpdate.** Upstream revisions are numbers; a reply of
`ListOutdatedInputs` is the revision its rows describe, 0 when it has none.
`Transitive` revisions move no direct input, so no row describes them: that is
the reason the code has a memo at all. A worker's steps are the statements of
`update_sync()` / `update_check()` and `update_app_apply()`; a run's are those of
`update_apps_async()` and `update_run()`. `update_set_state()` is two steps, as
it is two unlocked writes. The memo's age is counted in ticks up to `TTL`. Any
number of jobs run at once, as GNOME Software's scheduling allows.

**UpdateHistory**, **IconHistory.** Four things the comments of
`gs-modulix-update.c` promise, and one of `gs-modulix-app.c`, fail when the wrong
two jobs meet (see the disagreements below). These modules add variables that no
action reads, so that the properties can say *which* two jobs, and that without
them the promise holds, among all other interleavings. `overtaken` holds the jobs
whose knowledge has become false: the ones that know of an update when it is
applied, and the ones past their look at the row when a run leaves it waiting for
a restart; a job that reads from something overtaken (the memo, the daemon's
cache) is overtaken too, one that starts afresh no more. `stateBy` and `quirkBy`
tell whose write of each came last. `early` has the apps a listing returned while
another was between their first icon and the mark. `HistoryNext` is `Next` with the
history of each action beside it.

**Refine.** Texts are told apart by where they come from (`Source`), icons by
the level of the resolver that chose them, screenshots by how often they were
attached. `RefineAsync` is `gs_modulix_refine_async()`; `ScanMissing`,
`PrefetchReplies` and `FillMissing` are `prefetch_enrichment()` over
`prefetch_many()`; `PrefetchLicenses` is the `nix eval` of the details page.
`StepApp` is the head of the loop of `refine_thread()` (cancellation,
ownership, kind); `RefineIcon`, `SeedDescription`, `RefineLicense`, `Lookup`,
`FetchReplies`, `InsertFetched`, `ApplyTexts`, `ApplyIconUrl`,
`AddRemoteIcon`, `CheckScreenshots` and `AddScreenshots` are `refine_one()` in
its order, one shared access a step; where a step writes two properties the
second is not read by anyone else in between. `Improved` is the rule of
`gs_app_set_description()` and `gs_app_set_license()`: a write of lower quality
is ignored. A listing worker takes the app, checks its icons, adds them and
marks it as themed (`MakeApp`, `CheckIcons`, `AddIcons`, `MarkThemed`). The
addons and states a pass writes are in `Lifecycle`. A branch the code cannot
reach is kept: `refine_icon()` resolves an icon only for an app without one, and
every app of ours is given one, the generic one at least, when it is made.

**Listing.** `ListAppsAsync` is the main thread: which query is supported
(`Supported`), and the reads it asks for (`Plan`). A worker looks at the
cancellable (`BailIfCancelled`, `NotCancelled`), reads (`StoreRead`,
`StoreReadFails`), looks the app of a row up or makes it under the lock of the
plugin cache (`LookUpOrMake`, `LookUpOrMakePlugin`), writes its rank and sort
key and appends it unless its id was listed (`AppendRow`). The plugin cache
knows an app by a key, a kind and a name, while deduplication goes by the id,
which is the one given by whichever row made the app first: the two are the
state that jobs share. What the daemon may reply is a constant; only the kinds
and scores of each read are assumed (`RepliesAssumption`).

**PluginShell**, **Bus**, **IconResolver.** `SetupAsync` to `ShutdownResolver` are the
life of one object, `finalize()` one teardown a step; `Construct` begins a second one in
the same process. A job is the sequence of calls, locks and icon look-ups its vfunc makes
(`Steps`), any of which it may skip; what it does with them is in the other modules. `Use`
records who takes a lock that was cleared, and which object had cleared it; `late` the
scans under way when the resolver was shut down. A call has what the daemon does with it
(`progress`) beside what its caller is told (`answer`), since a time-out ends the one and
not the other. A scan thread holds no reference on the plugin, so `Publish` may come after
the resolver was shut down, and after a later scan.

**Markup.** Text is a sequence of tokens: the characters the scanner looks at,
and words. `FormatInline` and `FormatBlocks` are the two loops, as recursive
functions of where the loop is (`InlineAt`, `BlocksAt`); the first returns that
place and its output so far, the second what it still appends.
`ExtractTagName` has its two buffer sizes. The machine spoils a description
with one stray token and one cut. `Shown` is the reference: what the reader of
the author's blocks should see, without blanks at either end as the function's
contract has it (`gs-modulix-markup.c:145`).

## Runs

Passing:

| run | question | properties | bounds |
|---|---|---|---|
| `lifecycle_overlap` | can two overlapping requests, failures and lost replies leave an app in progress, a request without a report, or break the contract? | `NoStranded`, `KeepsContract`, `ProgressEnds`, `EveryRequestReports` | 2 requests over the same plugin, in both operations; one has a foreign app in the middle and a cancellable, the other lists a plugin before the module that is worked off first |
| `lifecycle_readers` | can listings, the cache, refine and `mx` do it? | `NoStranded` | 1 request, 1 worker, `StartRefused` as the transition table |
| `lifecycle_settled` | does what a request leaves behind show the daemon's truth? | `SettledShowsDaemon` | 2 requests on different apps, 6 apps of which two stand for one package, a list of 5, any call failing, a transition table without a way between the settled states |
| `plugins_cache` | is the empty marker always told from a reply, and do the lock sections do what `PluginsCache` promises, to the end of every lookup? | `MarkersRecognised`, `ImplementsPluginsCache` | 2 workers, 2 modules with a plugin each |
| `update_overlap` | when everything interleaves, is the row in progress only while a run is at it, does each run end, does the row stop offering an update applied behind its back? | `InstallingHasRun`, `InstallingEnds`, `StaleUpdateGoes` | 2 runs, 1 worker, 1 revision that only a check can find, TTL of 1 tick, `CliUpdates`, lost replies |
| `update_history` | when everything interleaves, which jobs can part quirk and state, set the memo again, or spoil a row that waits for its restart? | `QuirkGoesWithState`, `MemoRetired`, `PendingKept`, `RestartKeepsDetails` | 2 runs, 1 worker, 1 revision, TTL of 1 tick, `CliUpdates`, lost replies; the runs are symmetric, which is sound for these four as none is about liveness |
| `refine_overlap` | do two passes over one app, with a listing and a cancellation, keep the better source, the icon that won and the first entry; does the prefetch suffice; does a pass that succeeds deliver, and each pass report? | `PassesAgree`, `PrefetchSuffices`, `ThemedIconAlone`, `PassDelivers`, `FirstEntryWins`, `BetterSourceKept`, `EveryPassReports` | 2 passes: one the details page or a request for the licence only (not prefetched), the other a search page of three apps or a request for nothing; 4 apps; 1 id with every field; 1 listing worker |
| `listing` | is each list what its reads gave, deduplicated in order, whoever makes the apps meanwhile; does a module win over its package; do ranks hold; is each job completed once? | `FirstWins`, `ModuleBeatsPackage`, `AnsweredOnce`, `SearchRanks`, `RankIsOfTheSearch`, `EveryListingReports` | 2 jobs of any of ten queries, one cancellable, any read failing; 5 keys, 4 ids, packages of the module's id or of their own, scores of 0, 1700 and 3000, rows without a name |
| `plugin_shell` | is everything there while a job runs, and nothing left after the last one? | `ShellTypeOK`, `LocksLive`, `JobsFindTheBus`, `NoRebuildAbandoned`, `NamesFollowTheme`, `LargeIconWins`, `TornDown`, `EveryJobReports`, `DroppedIsFinalized` | the plugin constructed twice, 1 caller with any vfunc again and again, 2 scan threads, 2 themes or no display, a bus out of reach, 2 remotes with both sizes |
| `rendering` | is the markup accepted by Pango whatever arrives, and right when the description is whole or cut? | `PangoAccepts`, `RendersDescription`, `CutShowsBeginning` | every description of one block and some of two, one of six stray tokens at any place, cut at any place |

Violations: each checks what a comment of the code says, and fails.

| run | said | done |
|---|---|---|
| `listing_overwrites` | a listing "must not stamp the daemon's — necessarily pre-operation — state over them" (`gs-modulix-app.c:287`) | guard and write are two calls; an operation started between them is overwritten |
| `disabled_kind` | "no app is left stuck" (`gs-modulix-lifecycle.c:461`) | a kind compiled out is marked, never decided, and not rolled back when the rest succeeds |

### Disagreements that have a configuration and no run

`tlc -config <cfg> <module>` shows each of them.

| configuration, module, property | said | done |
|---|---|---|
| `StaleCache.cfg`, `MCLifecycle`, `CacheFollowsPluginOps` | the window of staleness ends with the call's return (`gs-modulix-plugins-cache.h:94`) | a list fetched before the call is inserted after the invalidation |
| `TornQuirk.cfg`, `MCSystemUpdate`, `QuirkAlwaysFits` | routing every change through `update_set_state()` keeps quirk and state together (`gs-modulix-update.c:93`) | two unlocked writes interleave |
| `ScreenshotsTwice.cfg`, `MCRefine`, `ScreenshotsOnce` | "appending would show each of them twice", hence the test for screenshots (`gs-modulix-app.c:205`) | test and append are separate; two passes over one app both find none |
| `AlternatesCancelled.cfg`, `MCListing`, `AlternatesNeverFail` | "Never fail this job on cancellation" (`gs-modulix-list.c:397`) | `bail_if_cancelled()` stands before its read, and `GTask` reports cancellation over the list that was returned |
| `ThemedTwice.cfg`, `MCRefine`, `EveryIconAlone` | "exactly one GIcon per GsApp", and a mark "read by refine to avoid letting a later remote icon override it" (`gs-modulix-app.c:440`) | the test for an icon, the icon and the mark (574-577) are three steps outside the lock of the app cache: two listings that make one app both give it an icon, and a pass adds the remote one between icon and mark |

`TornQuirk.cfg` and `ThemedTwice.cfg` show what `QuirkGoesWithState` and `ThemedIconAlone`
except: the runs and the theorems show that crossed writes, and a listing that returns an
app early, are the only way there. (In `refine_overlap` one worker lists,
so no app is early; `ThemedIcons.cfg` with `MCIconHistory` has two workers and one pass,
and passes.) Three more have no configuration and are told by what a property excepts:

* The memo is "cleared once an update has been applied" (`gs-modulix-update.c:23`),
  but a check answered before the run sets it again (`"memo" \in overtaken` in
  `MemoRetired`).
* The comment in `update_app_apply()` has a waiting row left alone, but a listing
  that judged the row before the run ended writes its state after (`stateBy' \in
  overtaken` in `PendingKept`).
* The details of an applied update are "in every case [...] kept"
  (`gs-modulix-update.c:387`), but a listing at the row during the run rewrites
  them (`RestartKeepsDetails`).

Smaller ones, met while modelling:

* "The per-app work is pure cache reads" (`gs-modulix-refine.c:14`) holds for the
  passes that prefetch (`PrefetchSuffices`); a request for the licence alone does
  not prefetch and makes one call per app, as `prefetch_enrichment()`'s own
  condition says.
* The headers of the icon resolver (`gs-modulix-icon-resolver.h:61`) and of the
  icon cache (`gs-modulix-icon-cache.h:78`) provide for a plugin that is unloaded
  and loaded again; `gs-plugin-modulix.c:619` says it "must not be used again",
  since the other two caches destroy their locks. A second object does take these
  two: `LocksLive` says that no object takes a lock it has destroyed itself, in
  any load, and that no other lock is ever destroyed.
* The header of the resolver has the tables NULL after the shutdown
  (`gs_modulix_icon_resolver_shutdown()`); a scan under way publishes them after
  it. `TornDown` says that this is all that can be left.
* "128×128 wins when both exist" (`gs-modulix-icon-resolver.h:91`) holds within a
  remote (`LargeIconWins`); a 64×64 icon of an earlier remote is kept over the
  128×128 of a later one.
* Two searches at once overwrite each other's rank, as a `GsApp` has one match
  value: `RankIsOfTheSearch` is stated for one search among other jobs.
* `gs-modulix-markup.c`: the file header says the content of an unknown tag is
  consumed, `format_inline()`'s comment that such a tag "never loses its text"
  (line 49). In a paragraph or an item the second holds (`RendersDescription`),
  between blocks the first. A tag without an end tag (`<br/>` too) takes the rest
  of the description as its content; in `a < b > c` everything between the two
  characters is taken for a tag and lost; a description cut inside a tag shows
  the piece of it as text; and entities are escaped a second time.

### Why the bounds are enough

Requests interact only through an app's state, the
daemon's set and a module's cache entry, and two requests of either operation on
one shared app, each with an app of another kind before or after it, give every
pair of phases of a request a chance to meet. A third would only repeat a pair.
In `Refine` two passes meet in the table, in an app's texts and in its icons, and
each of these is one id or one app; the other three apps are there for the
branches of the loop before it. Two list jobs meet in the app of a key; the
replies hold a package that shares the module's id, one that does not, and one
that does in one reply only. In `PluginShell` jobs meet nowhere but in what the
object owns, and finalize waits for all of them, so one caller stands for each
(`PluginShellProofs` proves the invariants for any number); two objects and two
scans make a late publication, and a lock destroyed before, meet a later life.
In `UpdateHistory` a job is overtaken by one other job, which needs one of each
kind beside the one that is (two runs, a worker); that a second worker adds
nothing is proved. A scanner of markup looks at
one tag at a time, with the enclosing one: nesting of two, and one stray
character, put every branch in every context. The theorems remove the bound for
the properties they state.

Deadlock is checked in `plugins_cache` and `rendering`; in the others all
requests may be done and nobody asks for anything more.

### Fairness

* Each request's next step (`WF(RequestStep(r))`), each run's and each listing
  worker's: threads are scheduled by the kernel, and the main loop runs
  callbacks. The step that stands for a write assumes that `mx-daemon` ends the
  command it runs: the call has no timeout (`dbus/gs-modulix-daemon1.c:11`), so
  without it even a correct plugin waits for ever. A read ends by its timeout.
* `PluginShell` takes that apart: only of the calls without a time-out
  (`MayTakeMinutes`) is it assumed that the daemon ends them; a read may never be
  answered, and `EveryJobReports` holds by its time-out (`Wire`).
* `WF(JobStep(j))` in `Listing`: every call a listing makes has a time-out.
* `CacheSections`: a reader's steps and the end of a call, weakly; a writer
  strongly, and `[]<>(Readers = {})`: a `GRWLock` may let readers overlap for
  ever, but a job looks up finitely many modules, so they drain.
* Strong fairness of `StartList` in `SystemUpdate`: the Updates page, or the
  update monitor, lists updates again and again; each time the worker is free is
  only now and then when jobs compete, hence strong.
* `Tick` and `InputsExpire`: time passes, and the daemon's own cache has a
  lifetime.
* Each refine pass's next step (`WF(PassStep(p))`): every daemon call in it is a
  read, which ends by its timeout. Listings of `Refine` may stop anywhere.
* Nobody has to install, update, cancel, publish, list apps, drop the plugin or
  load it again.

## Theorems

**Lifecycle**, for any set of apps, targets, requests, job lists,
workers and cancellables, and any transition table that lets an operation end:

* `TypeCorrect`: `Spec => []TypeOK`. `TypeOK` alone is not inductive: indexing a
  list needs the loop index to be inside it. The inductive invariant is
  `TypeOK /\ CursorInRange`; `CursorInRange` says in which phases the index is
  inside the list, that a request that is still being marked is at the first
  stage, and that at a batched stage the index is at the start.
* `NoAppStranded`: `Spec => []NoStranded`, assuming `KindsEnabled` (no kind is
  compiled out: without it the theorem is false, as `disabled_kind` shows). The
  argument has two halves. `StepCovers`: a step of a request that stops being
  responsible for an index (`Unresolved`) leaves that app out of progress,
  because it has just stamped an outcome, reset it, or seen that it is not in
  progress. `StepState`: a step that changes an app's state either ends its
  progress, or is a mark of a request that is from then on responsible for it.
  An overlapping request can only help: whoever stamps last leaves the app
  settled, and whoever marks it is responsible. Listings write settled states
  only. That is why the check-then-set race of `listing_overwrites` does not
  strand an app.
* `SettledAlwaysShowsDaemon`: `OfferedSpec => []SettledShowsDaemon`, assuming
  `KindsEnabled` and `Uncontended`: no reader and no `mx` beside the requests, no reply
  lost, no two requests that list one target, every app of a target in the list
  that has it, a plugin in a list once. Each of these is needed: a reader stamps
  stale answers (`listing_overwrites`), a lost reply is shown as a failure, and an
  app of an installed package that is in no list waits for the next listing. Of
  GNOME Software's transition table only the start of an operation
  must be accepted, beside its end. The invariant `SettledInv` says that an app out of
  progress shows the truth; that while the call for an app is still to be made it
  is in progress and as it was offered (`AheadOK`); that a call that was answered
  did what the answer says (`CallOK`); and that what a rollback finds in progress
  is as it was (`RollbackOK`), which rests on `NoStranded`: no app of a group that
  was stamped is in progress any more.
* `ContractKept` (`ContractProofs`): `Spec => KeepsContract`, that is, initial
  states map to initial states of `RequestContract` and each step to a step or
  a stutter, in that inductive invariant strengthened by `Grants`: what the
  daemon was made to do is wanted, all of it that is behind the cursor is done
  while no call has failed, and after a failure no call is made.

**CacheSections**, for any modules, plugins and workers: `SectionsTypeCorrect`,
and `MarkersAlwaysRecognised`, from an invariant whose part `MarkersCurrent`
carries the argument: a marker in an entry is the current one, since only a
writer stores it and no reader that found none can still be about to replace it.
`SectionsImplement`: the initial states and every step map to `PluginsCache`
(the safety half of `ImplementsPluginsCache`); from it `EntriesNeverReplaced` and
`CallersAlwaysAgree`, which are proved of the abstract cache.

**SystemUpdate**: `UpdateTypeCorrect` and `InstallingAlwaysHasRun`, for
any number of workers and runs: a run that leaves
its in-flight phases does so by writing its end state in the same step
(`RunKeepsInstalling`), and no worker writes INSTALLING
(`WorkerKeepsInstalling`). `UpdateTypeOK` is inductive by itself. Of
`UpdateHistory`, for any number of workers and runs, overlapping as they like,
with replies lost and updates from a terminal:

* `MemoAlwaysRetired` (`MemoRetired`), from `KnownIsTrue`: whoever knows of an
  update and is not overtaken is right, as is the daemon's cache.
* `QuirkAlwaysGoesWithState`, from `WrittenInv`, which says for the thread whose
  write of the state, or of the quirk, came last what it left there, by where that
  thread is now. It holds whatever changes of state GNOME Software refuses.
* `PendingAlwaysKept` and `DetailsAlwaysKept`, from `PendingInv`: a job that is past
  its look at the row, and not overtaken, is not at a row that waits for a restart
  (or knows of an update). They assume `RestartFree`: GNOME Software lets a waiting
  row be installed and offered again. With the first refused, a run that starts on
  such a row leaves it as it is, goes on, and moves it when it ends; with the second, a worker
  rewrites the details of a row it could not move.

**Refine**, for any apps, ids, payloads, requests, passes and listing
workers:

* `RefineTypeCorrect` and `PrefetchSpares` (`[]RefineTypeOK`,
  `[]PrefetchSuffices`) from one inductive invariant. Its part `CursorOK` says
  which app a pass is at in which phase, so that the index is inside the list
  and the app has an id wherever the table is looked up. `PrefetchOK` says that
  once a pass has prefetched, the table has an entry for every id of its list;
  while it is at it, the table and its reply have one together. That survives the
  other passes because entries are never removed (`FillTyped`).
* `EntriesKept` (`FirstEntryWins`) and `BestSourceWins` (`BetterSourceKept`),
  action properties, step by step from the same invariant.
* `SameTextsShown` (`PassesAgree`) and `Delivers` (`PassDelivers`). `DeliveriesOK`
  says, for each app a pass is done with and each field of the one it is at,
  that what the tables had is on the app. It survives the other passes because
  nothing an app got is taken back: no step empties a table, removes an
  icon or screenshots, or replaces a text by a worse one (`Grows`).
* `ThemedStaysAlone` (`ThemedIconAlone`, of `IconHistory`), for any number of
  listings and passes. The argument is that an app no listing returned early is in
  no pass's list before the last listing that found it without an icon has marked
  it (`Alone`).

**PluginShell**, for any number of callers, objects, scans and themes:
`ShellInvariant`, and from it `LocksAlwaysLive`, `JobsAlwaysFindTheBus`,
`NoRebuildEverAbandoned` and `NamesAlwaysFollowTheme`. The parts
of `ShellInv` rest on one another: where the object is says whether the bus is
open (`ObjectOK`); a job keeps the object from being finalized, hence the bus
(`JobsOK`); what a caller is told fits what the daemon did, because only calls
that are not writes time out (`CallsOK`); an object clears a lock when its last
job is over, and takes it no more, so that a lock met cleared was cleared in an
earlier life (`LocksOK`); the signal is connected exactly while
there is an instance, and a change not yet delivered is the only time the index
lags (`ThemeOK`). From `FilesOK` (the tables, and what a scan holds before it
stores it, are nothing or what the scan of the disk gives) come
`LargeIconAlwaysWins`, for any trees and any files in them, and
`ShellTypeCorrect`; with `LeftOK` (what was under way at the shutdown, and what it
has published since) `AlwaysTornDown`. `FlatpakScanned` is what the two nested loops of
the scan compute: the entry of an id is of the first tree that has it, of the
larger size if that tree has both.

**Listing**, for any jobs, queries, replies that fit their read, and halves
compiled in:

* `ListingTypeCorrect` and `AnswersAreOnce`, from `TypeInv`: beside the types, a
  job knows which read it is in and its row's app is made (`AtRead`), what is left
  to read belongs to its query, modules first (`PlanKept`), and it is answered by
  the step that ends its work (`Answering`).
* `RanksOfASearch`, `RanksLeftAlone` and `SourcesInOrder`, from `RanksOK`: a match
  value is 0 or in the range of its kind (`MatchValueBounds`: for any score), a
  `SortKey` unset or that of its kind, and those of a listed row are set.
* `ModulesWin`, from `PairsOK`: no package is listed while modules are still to
  be read, the ids of the modules got are in the table of ids, and ids of apps
  never change.
* `FirstOfEachIdListed` (`FirstWins`), from `ListsOK`: the rows got are apps of the
  cache, the table of ids is that of the rows that are to be tabled, and what is
  not dropped is the first row of each id. A row appended adds itself or
  nothing (`FirstOfOneMore`), and the rows listed before keep their ids (`Steady`).

**Markup**, for any words, descriptions, stray tokens and number of them.
`PangoAlwaysAccepts` (`[]PangoAccepts`), from `MarkupInv`: the text is always made
of words and characters and the markup is what the converter makes of it. It
rests on what the two loops compute for every text:

* They end. A tag of `format_inline()` goes on from wherever its content ended,
  so the function exists only because that is no longer than where the content
  began: `InlineBodyAgrees` carries `Returns` along, and `FormatInlineIs` and
  `FormatBlocksIs` give the equations of the two functions.
* What they make is balanced (`Balanced`): it leaves open whatever was open before
  it, for every stack of open elements, not only the empty one. That is what a
  wrapped element (`BalancedBetween`) and one run after another
  (`BalancedConcat`) keep, and what `g_strstrip()` cannot break (`FineStripped`).
* Special characters are escaped (`EscapedTyped`) and nothing else makes one.
* Items are numbered in digits (`NumeralTyped`: for any number), none of them
  special. `Numeral` is what `%u` makes of a `guint`; the run also compares it with
  the numbers TLC writes (`NumeralsRead`).

`DescriptionsRendered` (`[]RendersDescription`), from
`RenderInv`: until something is spoiled, the text is the one the author's
description is written as. What remains is that the converter makes `Shown` of
every description in `Written`: any number of blocks, of items and of inline tags
around a word, a space or a sign. The converter reads tokens, `Shown` folds over
blocks, and neither is defined along the other, so each piece of text is related
to what it becomes *wherever it is met*:

* `Conv(h, s)`: whatever text follows, whichever element is open and whatever was
  written, reading h appends s in `format_inline()`. A word does (`ConvertsWord`);
  an element around such a text does, since its closing tag ends the recursive
  call where it should (`ContentRead`, `ConvertsTag`); so does one such text after
  another (`ConvertsJoins`), hence a span and an item (`SpanRead`, `ItemRead`).
* `Lays(h, L)`: whatever list came before and whether or not something is
  written, the outer loop makes the lines L of h. A paragraph (`LaysParagraph`),
  a list, whose items are counted from 1 (`MoreItems`, `LaysList`), text outside
  both, which makes none (`LaysNothing`), and blocks after one another
  (`LaysJoins`); hence a description (`DescriptionLays`).
* What the scanner takes for a tag is one: `Reads` relates the tags as they are
  written (`StartTagRead`, `EndTagRead`) to `TagAt`, attribute and buffer size included.
* The author's side is folds of the community modules, of which the library
  proves nothing: `FlattenPairs` and `AroundPairs` carry a relation through the two
  that are used, by induction on sets of positions and on sequences (`SeqInduct`).

`CutKeepsBeginning` (`CutShowsBeginning`, of every step), from `MarkupInv`. A cut
relates what the converter makes of a text p to what it makes of p with any q
behind it. Here nothing is well formed, so neither `Conv` nor `Lays` applies: the
two conversions agree at every position of p, until p ends, up to the elements
that the end leaves open. By induction on what is left of the text (`ByLength`):

* `Grows(s, t)`: s is a beginning of t, behind which s closes the elements then
  open; if there are any, t closes some too, further on. `CutInline` keeps it through `format_inline()`: where its content ends
  within p both calls return the same, and where it does not, p ends and nothing
  is read after it. `CutBlocks` keeps it through the outer loop.
* When only closing tags are missing there is nothing left to add:
  `InlineEnding` and `BlocksEnding` give what the loops make of these.
* What is shown is what `g_strstrip()` leaves. A beginning that is stripped on its
  own may end earlier, and is still a beginning (`StrippedGrows`); the elements
  closed are no text (`TextOfJoined`).

What a recursive function computes is reached by a least counterexample: the
library's induction theorems take an operator as a parameter, which no prover
here can instantiate, but that the order of the naturals is well founded is
stated without one (`NatLessThanWellFounded`, `WFMin`). `LeastNatural` draws from
it that a nonempty set of naturals has a least element; with it a function
defined by recursion on its argument is shown to exist and to satisfy its
equation (`UpToExists`, `InlineUpToExists`), and then to have a property at every argument.

Assumed: `LifecycleAssumption`, `ParentAssumption`, `SectionsAssumption`,
`UpdateAssumption`, `HistoryAssumption` (threads are told apart by name), `RefineAssumption`, `EnrichmentAssumption`,
`ResolverAssumption`, `ShellAssumption`, `ListingAssumption` and `MarkupAssumption`
on the constants,
`RefusedAssumption`, what the plugin needs of GNOME Software's transition table,
and `RepliesAssumption`, the kinds and scores `org.modulix.Store1` puts in the
rows of each read. `MarkupAssumption` says that words hold none of the characters
the scanner looks at, that tag names are words, and that the descriptions are
written as AppStream has them: `<` escaped, no empty item or paragraph. TLC evaluates all of them in the passing runs. The type
invariants of `Lifecycle`, `CacheSections`, `SystemUpdate`, `Refine` and `Listing`
and `SourcesOrder` are proved and no run is spent on them.

Only model-checked: every liveness property, and the fairness half of
`ImplementsPluginsCache`; both are beyond the prover.

## Not modelled, and why

* Build files, packaging, translations, icons: nothing at run time.
* Texts, labels and pictures copied from a reply to an app, the format of the
  update details, D-Bus argument types and marshalling: data no state depends on.
* What `resolve()` returns for each level, beyond which level wins; the file
  names of icons: I/O.
* GDBus itself, such as its exit when the system bus closes.
* Two plugin objects alive at once: GNOME Software's loader makes one.
* In `PluginShell`, files on disk do not change during a behaviour.
* A forced refresh of `ListOutdatedInputs`: nothing in the plugin asks for one.

## Plan

Done, in this order: `Lifecycle` with its cache and contract; `SystemUpdate`;
`EnrichmentCache` and `Refine`; `CacheSections`; `Bus`, `IconResolver` and
`PluginShell`; `AppOrder` and `Listing`; `Markup`; the theorems above. Nothing of
the plan is open.
