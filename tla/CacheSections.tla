----------------------------- MODULE CacheSections -----------------------------
(***************************************************************************)
(* gs-modulix-plugins-cache.c at the grain of its lock.  PluginsCache says *)
(* what a lookup promises, each lock section being one step; here a reader *)
(* section is several, since readers run beside one another and race on    *)
(* the one thing the lock does not protect from them: the marker that      *)
(* plugins_cache_empty() creates when it is first asked for, and that      *)
(* entries are compared with by pointer.  A writer section stays one step, *)
(* which can only be taken while no reader is inside.                      *)
(*                                                                         *)
(* A marker is known by the worker that created it.  NULL and the empty    *)
(* reply are one value: the caller loops over the rows of either.          *)
(***************************************************************************)
CONSTANTS Modules, Plugins, ParentOf, Fetchers,
          NULL        \* no marker

ASSUME SectionsAssumption ==
  /\ Modules # {} /\ ParentOf \in [Plugins -> Modules]
  /\ NULL \notin Fetchers

VARIABLES installed,  \* what the daemon knows to be installed
          table,      \* plugins_cache: a function of the cached keys
          empty,      \* the static of plugins_cache_empty()
          worker      \* each worker's progress

PluginRow == [target : Plugins, installed : BOOLEAN]
MarkerId == Fetchers \cup {NULL}

\* What the table holds: a reply, or a marker.
Value == [marker : MarkerId, rows : SUBSET PluginRow]
ReplyOf(rows) == [marker |-> NULL, rows |-> rows]
Marker(id) == [marker |-> id, rows |-> {}]
Nothing == ReplyOf({})

SectionPC == {"idle", "testing", "making", "comparing", "calling", "inserting", "returned"}

SectionsTypeOK ==
  /\ installed \in SUBSET Plugins
  /\ DOMAIN table \subseteq Modules
  /\ \A m \in DOMAIN table : table[m] \in Value
  /\ empty \in MarkerId
  /\ worker \in [Fetchers -> [pc : SectionPC, module : Modules, seen : MarkerId,
                              result : Value]]

AtRest == [pc |-> "idle", module |-> CHOOSE m \in Modules : TRUE, seen |-> NULL,
           result |-> Nothing]

SectionsInit ==
  /\ installed \in SUBSET Plugins
  /\ table = [m \in {} |-> Nothing]
  /\ empty = NULL
  /\ worker = [f \in Fetchers |-> AtRest]

\* Who holds the lock for reading.
Readers == {f \in Fetchers : worker[f].pc \in {"testing", "making", "comparing"}}

PluginRows(m) ==
  {[target |-> p, installed |-> p \in installed] : p \in {q \in Plugins : ParentOf[q] = m}}

\* What a caller gets for an entry, compared with the marker id it has.
Taken(v, id) == IF v.marker = id /\ id # NULL THEN Nothing ELSE v

\* g_rw_lock_reader_lock(), and the look at the table: a miss leaves the
\* section at once.
EnterReader(f, m) ==
  /\ worker[f].pc = "idle"
  /\ worker' = [worker EXCEPT ![f].module = m,
                              ![f].pc = IF m \in DOMAIN table THEN "testing" ELSE "calling"]
  /\ UNCHANGED <<installed, table, empty>>

\* `if (empty == NULL)`
TestMarker(f) ==
  /\ worker[f].pc = "testing"
  /\ worker' = [worker EXCEPT ![f].pc = IF empty = NULL THEN "making" ELSE "comparing",
                              ![f].seen = empty]
  /\ UNCHANGED <<installed, table, empty>>

\* `empty = g_variant_ref_sink(...)`, over the one another reader has just made.
MakeMarker(f) ==
  /\ worker[f].pc = "making"
  /\ empty' = f
  /\ worker' = [worker EXCEPT ![f].pc = "comparing", ![f].seen = f]
  /\ UNCHANGED <<installed, table>>

\* `v != plugins_cache_empty()`, and the lock released.  The pointer compared
\* is the one stored or tested, or `empty` loaded again: the race is undefined
\* behaviour, and a build does either.
Compare(f) ==
  /\ worker[f].pc = "comparing"
  /\ \E id \in {worker[f].seen, empty} :
       worker' = [worker EXCEPT ![f].pc = "returned", ![f].seen = NULL,
                                ![f].result = Taken(table[worker[f].module], id)]
  /\ UNCHANGED <<installed, table, empty>>

\* gs_modulix_store1_list_module_plugins(), with no lock held: the reply, or
\* NULL when the call fails.
Fetched(f) ==
  /\ worker[f].pc = "calling"
  /\ \E rows \in {PluginRows(worker[f].module), {}} :
       worker' = [worker EXCEPT ![f].pc = "inserting", ![f].result = ReplyOf(rows)]
  /\ UNCHANGED <<installed, table, empty>>

\* The value a writer inserts: its reply, or the marker when it has none.  A
\* reply without rows may be a real one.
Inserted(f, id) ==
  IF worker[f].result = Nothing THEN {Nothing, Marker(id)} ELSE {worker[f].result}

\* The marker plugins_cache_empty() returns to a writer, alone in its section.
MarkerFor(f) == IF empty = NULL THEN f ELSE empty

WithEntry(m, v) == [k \in DOMAIN table \cup {m} |-> IF k = m THEN v ELSE table[k]]

Leave(f, v) == [worker EXCEPT ![f].pc = "returned", ![f].result = v]

\* Inside the writer section, an entry being there already.
LoseRace(f) ==
  LET m == worker[f].module
  IN  /\ m \in DOMAIN table
      /\ empty' = MarkerFor(f)
      /\ worker' = Leave(f, Taken(table[m], MarkerFor(f)))
      /\ UNCHANGED <<installed, table>>

\* Inside the writer section, no entry being there.
FillEntry(f) ==
  LET m == worker[f].module
  IN  /\ m \notin DOMAIN table
      /\ \E v \in Inserted(f, MarkerFor(f)) :
           /\ table' = WithEntry(m, v)
           /\ empty' = IF v.marker = NULL THEN empty ELSE v.marker
      /\ worker' = Leave(f, worker[f].result)
      /\ UNCHANGED installed

\* Mutant: the writer section does not keep the readers out.
WriterSectionBesideReaders(f) ==
  /\ worker[f].pc = "inserting"
  /\ LoseRace(f) \/ FillEntry(f)

\* Mutant: the loser of the race returns what it fetched itself.
WriterSectionKeepsOwn(f) ==
  /\ worker[f].pc = "inserting" /\ Readers = {}
  /\ \/ FillEntry(f)
     \/ /\ worker[f].module \in DOMAIN table
        /\ worker' = Leave(f, worker[f].result)
        /\ UNCHANGED <<installed, table, empty>>

\* The writer section of get_or_fetch().
WriterSection(f) ==
  /\ worker[f].pc = "inserting" /\ Readers = {}
  /\ LoseRace(f) \/ FillEntry(f)

\* gs_modulix_plugins_cache_invalidate(), a writer too.
InvalidateEntry(m) ==
  /\ Readers = {}
  /\ table' = [k \in DOMAIN table \ {m} |-> table[k]]
  /\ UNCHANGED <<installed, empty, worker>>

\* The caller has taken the payload and may call again.
ReleaseResult(f) ==
  /\ worker[f].pc = "returned"
  /\ worker' = [worker EXCEPT ![f] = AtRest]
  /\ UNCHANGED <<installed, table, empty>>

PluginChanges(p) ==
  /\ installed' = IF p \in installed THEN installed \ {p} ELSE installed \cup {p}
  /\ UNCHANGED <<table, empty, worker>>

ReaderStep(f) == TestMarker(f) \/ MakeMarker(f) \/ Compare(f)

SectionsNext ==
  \/ \E f \in Fetchers : ReaderStep(f) \/ Fetched(f) \/ WriterSection(f) \/ ReleaseResult(f)
  \/ \E f \in Fetchers, m \in Modules : EnterReader(f, m)
  \/ \E m \in Modules : InvalidateEntry(m)
  \/ \E p \in Plugins : PluginChanges(p)

sectionsVars == <<installed, table, empty, worker>>

\* A reader runs on and a call ends.  The lock lets a writer in once the
\* readers have drained, and they do: a job looks up finitely many modules, so
\* readers do not overlap one another for ever.
SectionsFairness ==
  /\ \A f \in Fetchers : WF_sectionsVars(ReaderStep(f) \/ Fetched(f))
  /\ \A f \in Fetchers : SF_sectionsVars(WriterSection(f))
  /\ []<>(Readers = {})

SectionsSpec == SectionsInit /\ [][SectionsNext]_sectionsVars /\ SectionsFairness

-------------------------------------------------------------------------------
(***************************************************************************)
(* The lock sections implement PluginsCache, whose lookup that hits is one *)
(* step: the one that leaves the reader section.                           *)
(***************************************************************************)
AbstractFetch ==
  [f \in Fetchers |->
     LET w == worker[f]
     IN  IF w.pc = "idle" \/ f \in Readers
         THEN [pc |-> "idle", module |-> AtRest.module, payload |-> {}]
         ELSE [pc |-> w.pc, module |-> w.module, payload |-> w.result.rows]]

Abstract == INSTANCE PluginsCache
  WITH cache <- [m \in DOMAIN table |-> table[m].rows], fetch <- AbstractFetch

\* Seen from outside, a lookup is the atomic reader section, daemon call and
\* writer section of PluginsCache, and it ends as that one does.
ImplementsPluginsCache == Abstract!CacheSpec

\* What PluginsCache says of its steps.
EntriesAreStable == Abstract!EntriesAreStable
CallersAgreeWithTable == Abstract!CallersAgreeWithTable

\* No caller is ever handed the marker itself: however many readers create it
\* at once, the ones that are overwritten are in no entry, so that comparing by
\* pointer tells "cached nothing" from a reply.
MarkersRecognised ==
  \A f \in Fetchers : worker[f].pc = "returned" => worker[f].result.marker = NULL
===============================================================================
