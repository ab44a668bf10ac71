----------------------------- MODULE PluginsCache -----------------------------
(***************************************************************************)
(* gs-modulix-plugins-cache.c: the per-module cache of ListModulePlugins   *)
(* replies.  Each fetcher is a worker thread inside                        *)
(* gs_modulix_plugins_cache_get_or_fetch(); the reader section, the daemon *)
(* call (made with no lock held) and the writer section are one step each. *)
(*                                                                         *)
(* A payload is the set of rows of a reply.  The empty singleton that      *)
(* stands for "the daemon reported none, or did not answer" is the empty   *)
(* payload: the caller gets NULL for it and cannot tell the two apart.     *)
(***************************************************************************)
CONSTANTS Modules,    \* module names
          Plugins,    \* plugin ids
          ParentOf,   \* the module each plugin belongs to
          Fetchers    \* worker threads

VARIABLES installed,  \* what the daemon knows to be installed
          cache,      \* the hash table: a function of the cached keys
          fetch       \* each worker's progress

PluginRow == [target : Plugins, installed : BOOLEAN]
Payload == SUBSET PluginRow

FetchPC == {"idle", "calling", "inserting", "returned"}

CacheTypeOK ==
  /\ DOMAIN cache \subseteq Modules
  /\ \A m \in DOMAIN cache : cache[m] \in Payload
  /\ fetch \in [Fetchers -> [pc : FetchPC, module : Modules, payload : Payload]]

\* No call under way (the module named is then without meaning).
Idle == [pc |-> "idle", module |-> CHOOSE m \in Modules : TRUE, payload |-> {}]

CacheInit ==
  /\ cache = [m \in {} |-> {}]
  /\ fetch = [f \in Fetchers |-> Idle]

\* The daemon's reply to ListModulePlugins(m), now.
PluginRows(m) ==
  {[target |-> p, installed |-> p \in installed] : p \in {q \in Plugins : ParentOf[q] = m}}

\* Reader section: a hit returns the cached payload at once.
Lookup(f, m) ==
  /\ fetch[f].pc = "idle"
  /\ fetch' = [fetch EXCEPT ![f] =
       IF m \in DOMAIN cache
       THEN [pc |-> "returned", module |-> m, payload |-> cache[m]]
       ELSE [pc |-> "calling", module |-> m, payload |-> {}]]
  /\ UNCHANGED <<installed, cache>>

\* gs_modulix_store1_list_module_plugins(), with no lock held: the daemon
\* answers from its current state, or the call fails and yields NULL.
Reply(f) ==
  /\ fetch[f].pc = "calling"
  /\ \E answer \in {PluginRows(fetch[f].module), {}} :
       fetch' = [fetch EXCEPT ![f] =
         [pc |-> "inserting", module |-> fetch[f].module, payload |-> answer]]
  /\ UNCHANGED <<installed, cache>>

\* Writer section: insert unless another worker got there first, in which
\* case its payload replaces the one just fetched.
Insert(f) ==
  LET m == fetch[f].module
  IN  /\ fetch[f].pc = "inserting"
      /\ cache' = IF m \in DOMAIN cache
                  THEN cache
                  ELSE [k \in DOMAIN cache \cup {m} |->
                          IF k = m THEN fetch[f].payload ELSE cache[k]]
      /\ fetch' = [fetch EXCEPT ![f] =
           [pc |-> "returned", module |-> m, payload |-> cache'[m]]]
      /\ UNCHANGED installed

\* The caller has taken the payload and may call again.
Release(f) ==
  /\ fetch[f].pc = "returned"
  /\ fetch' = [fetch EXCEPT ![f] = Idle]
  /\ UNCHANGED <<installed, cache>>

\* gs_modulix_plugins_cache_invalidate(): a no-op when there is no entry.
Invalidate(m) ==
  /\ cache' = [k \in DOMAIN cache \ {m} |-> cache[k]]
  /\ UNCHANGED <<installed, fetch>>

-------------------------------------------------------------------------------
(***************************************************************************)
(* The cache on its own, under any caller: modules are looked up and       *)
(* invalidated, and plugins come and go, at any time.                      *)
(***************************************************************************)
PluginChanges(p) ==
  /\ installed' = IF p \in installed THEN installed \ {p} ELSE installed \cup {p}
  /\ UNCHANGED <<cache, fetch>>

FetchStep(f) == Reply(f) \/ Insert(f)

CacheNext ==
  \/ \E f \in Fetchers : FetchStep(f) \/ Release(f)
  \/ \E f \in Fetchers, m \in Modules : Lookup(f, m)
  \/ \E m \in Modules : Invalidate(m)
  \/ \E p \in Plugins : PluginChanges(p)

cacheVars == <<installed, cache, fetch>>

\* A store1 read has a finite timeout, so a fetch always gets its answer.
CacheFairness == \A f \in Fetchers : WF_cacheVars(FetchStep(f))

AloneInit == installed \in SUBSET Plugins /\ CacheInit

CacheSpec ==
  /\ AloneInit
  /\ [][CacheNext]_cacheVars
  /\ CacheFairness

-------------------------------------------------------------------------------
\* An entry is never replaced in place: between two invalidations every reader
\* of a module sees the one payload, however many workers fetched it at once
\* and whatever the daemon answered each (the double check of the writer
\* section).
EntriesAreStable ==
  [][\A m \in DOMAIN cache : m \in DOMAIN cache' => cache'[m] = cache[m]]_cacheVars

\* A call leaves with what the table holds at that moment: a worker that lost
\* the race to insert drops its own payload for the winner's, so two callers
\* that return with no invalidation in between agree.
CallersAgreeWithTable ==
  [][\A f \in Fetchers :
       (fetch[f].pc # "returned" /\ fetch'[f].pc = "returned") =>
         LET m == fetch'[f].module
         IN  m \in DOMAIN cache' /\ fetch'[f].payload = cache'[m]]_cacheVars
===============================================================================
