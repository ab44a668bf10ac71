-------------------------- MODULE CacheSectionsProofs --------------------------
(***************************************************************************)
(* Theorems about the plugins cache, for any modules, plugins and number   *)
(* of workers: what the lock sections keep, and that they implement        *)
(* PluginsCache, from which the rest follows.                              *)
(***************************************************************************)
EXTENDS CacheSections, TLAPS

WorkerRecord == [pc : SectionPC, module : Modules, seen : MarkerId, result : Value]

\* Every marker in an entry is the current one: a marker is replaced only by a
\* reader that saw none, and no writer, who alone stores one, gets in before
\* that reader is out.
MarkersCurrent ==
  /\ \A m \in DOMAIN table :
       table[m].marker # NULL => table[m].marker = empty /\ table[m].rows = {}
  /\ \A f \in Fetchers, m \in DOMAIN table :
       /\ worker[f].pc = "making" => table[m].marker = NULL
       /\ worker[f].pc = "comparing" /\ table[m].marker # NULL => worker[f].seen = empty

\* A reader is inside because its entry was there, and no writer has removed it.
ReadersHaveEntry ==
  \A f \in Fetchers : f \in Readers => worker[f].module \in DOMAIN table

\* No worker holds a marker, and before its call is answered it has no rows.
ResultsBare ==
  \A f \in Fetchers :
    /\ worker[f].result.marker = NULL
    /\ worker[f].pc \in {"idle", "testing", "making", "comparing", "calling"}
         => worker[f].result.rows = {}

SectionsInv == SectionsTypeOK /\ MarkersCurrent /\ ReadersHaveEntry /\ ResultsBare

-------------------------------------------------------------------------------
LEMMA ValuesTyped ==
  /\ NULL \in MarkerId
  /\ Nothing \in Value /\ Nothing.marker = NULL /\ Nothing.rows = {}
  /\ \A f \in Fetchers : Marker(f) \in Value
  /\ \A id \in MarkerId : Marker(id) \in Value /\ Marker(id).rows = {} /\ Marker(id).marker = id
  /\ \A rows \in SUBSET PluginRow :
       ReplyOf(rows) \in Value /\ ReplyOf(rows).marker = NULL /\ ReplyOf(rows).rows = rows
BY DEF MarkerId, Nothing, Value, Marker, ReplyOf

LEMMA AtRestTyped == AtRest \in WorkerRecord /\ AtRest.module \in Modules
<1>1. (CHOOSE m \in Modules : TRUE) \in Modules
  BY SectionsAssumption DEF SectionsAssumption
<1> QED
  BY <1>1, ValuesTyped DEF AtRest, WorkerRecord, SectionPC

LEMMA RowsTyped ==
  ASSUME SectionsTypeOK, NEW m \in Modules
  PROVE  PluginRows(m) \in SUBSET PluginRow
<1> SUFFICES ASSUME NEW x \in PluginRows(m) PROVE x \in PluginRow
  OBVIOUS
<1>1. PICK p \in {q \in Plugins : ParentOf[q] = m} :
        x = [target |-> p, installed |-> p \in installed]
  BY DEF PluginRows
<1>2. (p \in installed) \in BOOLEAN
  OBVIOUS
<1> QED
  BY <1>1, <1>2 DEF PluginRow

\* What a caller takes from an entry, comparing it with a marker that is NULL
\* only if the entry is none: the rows of the entry, and never a marker.
LEMMA TakenIsRows ==
  ASSUME NEW v \in Value, NEW id \in MarkerId, v.marker # NULL => v.marker = id /\ v.rows = {}
  PROVE  Taken(v, id) \in Value /\ Taken(v, id).marker = NULL /\ Taken(v, id).rows = v.rows
BY ValuesTyped DEF Taken

LEMMA EntryTyped ==
  ASSUME SectionsTypeOK, NEW m \in Modules, NEW v \in Value, table' = WithEntry(m, v)
  PROVE  /\ DOMAIN table' = DOMAIN table \cup {m}
         /\ DOMAIN table' \subseteq Modules
         /\ \A k \in DOMAIN table' : table'[k] \in Value
         /\ table'[m] = v
         /\ \A k \in DOMAIN table \ {m} : table'[k] = table[k]
BY DEF SectionsTypeOK, WithEntry

-------------------------------------------------------------------------------
(* The invariant.                                                          *)

LEMMA SectionsInitInv == SectionsInit => SectionsInv
<1> SUFFICES ASSUME SectionsInit PROVE SectionsInv
  OBVIOUS
<1>1. SectionsTypeOK
  BY AtRestTyped, ValuesTyped DEF SectionsInit, SectionsTypeOK, WorkerRecord
<1>2. \A f \in Fetchers :
        worker[f].pc = "idle" /\ worker[f].result.marker = NULL /\ worker[f].result.rows = {}
  BY ValuesTyped DEF SectionsInit, AtRest
<1> QED
  BY <1>1, <1>2 DEF SectionsInit, SectionsInv, MarkersCurrent, ReadersHaveEntry, ResultsBare,
                    Readers

LEMMA ReaderStepInv ==
  ASSUME SectionsInv, NEW f \in Fetchers, ReaderStep(f)
  PROVE  SectionsInv'
<1> USE DEF SectionsInv
<1>1. CASE TestMarker(f)
  <2>1. SectionsTypeOK'
    <3>1. PICK label \in {"making", "comparing"} :
            /\ worker' = [worker EXCEPT ![f].pc = label, ![f].seen = empty]
            /\ UNCHANGED <<installed, table, empty>>
      BY <1>1 DEF TestMarker
    <3>2. worker' \in [Fetchers -> WorkerRecord]
      BY <3>1 DEF SectionsTypeOK, WorkerRecord, SectionPC
    <3> QED
      BY <3>1, <3>2 DEF SectionsTypeOK, WorkerRecord
  <2>2. MarkersCurrent'
    BY <1>1 DEF TestMarker, SectionsTypeOK, MarkersCurrent
  <2>3. ReadersHaveEntry' /\ ResultsBare'
    BY <1>1 DEF TestMarker, SectionsTypeOK, ReadersHaveEntry, ResultsBare, Readers
  <2> QED
    BY <2>1, <2>2, <2>3
<1>2. CASE MakeMarker(f)
  <2>1. SectionsTypeOK'
    BY <1>2, ZenonT(40) DEF MakeMarker, SectionsTypeOK, SectionPC, MarkerId
  <2>2. \A m \in DOMAIN table : table[m].marker = NULL
    BY <1>2 DEF MakeMarker, MarkersCurrent
  <2>3. MarkersCurrent'
    BY <1>2, <2>2 DEF MakeMarker, SectionsTypeOK, MarkersCurrent
  <2>4. ReadersHaveEntry' /\ ResultsBare'
    BY <1>2 DEF MakeMarker, SectionsTypeOK, ReadersHaveEntry, ResultsBare, Readers
  <2> QED
    BY <2>1, <2>3, <2>4
<1>3. CASE Compare(f)
  <2> DEFINE m == worker[f].module
  <2>1. m \in DOMAIN table /\ table[m] \in Value
    BY <1>3 DEF Compare, ReadersHaveEntry, Readers, SectionsTypeOK
  <2>2. PICK id \in {worker[f].seen, empty} :
          worker' = [worker EXCEPT ![f].pc = "returned", ![f].seen = NULL,
                                   ![f].result = Taken(table[m], id)]
    BY <1>3 DEF Compare
  <2>3. id \in MarkerId /\ (table[m].marker # NULL => table[m].marker = id /\ table[m].rows = {})
    BY <1>3, <2>1, <2>2 DEF Compare, SectionsTypeOK, MarkersCurrent
  <2>4. Taken(table[m], id) \in Value /\ Taken(table[m], id).marker = NULL
    BY <2>1, <2>3, TakenIsRows
  <2>5. SectionsTypeOK'
    <3>1. PICK v \in Value : v = Taken(table[m], id)
      BY <2>4
    <3>2. worker' = [worker EXCEPT ![f].pc = "returned", ![f].seen = NULL, ![f].result = v]
      BY <2>2, <3>1
    <3>3. [pc |-> "returned", module |-> m, seen |-> NULL, result |-> v] \in WorkerRecord
      BY ValuesTyped DEF SectionsTypeOK, WorkerRecord, SectionPC
    <3>4. worker[f] \in WorkerRecord
      BY DEF SectionsTypeOK, WorkerRecord
    <3>5. worker' \in [Fetchers -> WorkerRecord]
      BY <3>2, <3>3, <3>4, ValuesTyped, ZenonT(40) DEF SectionsTypeOK, WorkerRecord, SectionPC
    <3> QED
      BY <1>3, <3>5 DEF Compare, SectionsTypeOK, WorkerRecord
  <2>6. MarkersCurrent' /\ ReadersHaveEntry' /\ ResultsBare'
    BY <1>3, <2>2, <2>4 DEF Compare, SectionsTypeOK, MarkersCurrent, ReadersHaveEntry,
                            ResultsBare, Readers
  <2> QED
    BY <2>5, <2>6
<1> QED
  BY <1>1, <1>2, <1>3 DEF ReaderStep

LEMMA OutsideStepInv ==
  ASSUME SectionsInv, NEW f \in Fetchers,
         Fetched(f) \/ ReleaseResult(f) \/ \E m \in Modules : EnterReader(f, m)
  PROVE  SectionsInv'
<1> USE DEF SectionsInv
<1>1. CASE Fetched(f)
  <2>1. PICK rows \in {PluginRows(worker[f].module), {}} :
          worker' = [worker EXCEPT ![f].pc = "inserting", ![f].result = ReplyOf(rows)]
    BY <1>1 DEF Fetched
  <2>2. rows \in SUBSET PluginRow
    BY <2>1, RowsTyped DEF SectionsTypeOK
  <2>3. SectionsTypeOK'
    BY <1>1, <2>1, <2>2, ValuesTyped DEF Fetched, SectionsTypeOK, SectionPC
  <2>4. MarkersCurrent' /\ ReadersHaveEntry' /\ ResultsBare'
    BY <1>1, <2>1, <2>2, ValuesTyped
       DEF Fetched, SectionsTypeOK, MarkersCurrent, ReadersHaveEntry, ResultsBare, Readers
  <2> QED
    BY <2>3, <2>4
<1>2. CASE ReleaseResult(f)
  <2>1. SectionsTypeOK'
    BY <1>2, AtRestTyped DEF ReleaseResult, SectionsTypeOK, WorkerRecord
  <2>2. AtRest.pc = "idle" /\ AtRest.result.marker = NULL /\ AtRest.result.rows = {}
    BY ValuesTyped DEF AtRest
  <2>3. MarkersCurrent' /\ ReadersHaveEntry' /\ ResultsBare'
    BY <1>2, <2>2 DEF ReleaseResult, SectionsTypeOK, MarkersCurrent, ReadersHaveEntry,
                      ResultsBare, Readers
  <2> QED
    BY <2>1, <2>3
<1>3. ASSUME NEW m \in Modules, EnterReader(f, m)
      PROVE  SectionsInv'
  <2>1. SectionsTypeOK'
    <3>1. PICK label \in {"testing", "calling"} :
            worker' = [worker EXCEPT ![f].module = m, ![f].pc = label]
      BY <1>3 DEF EnterReader
    <3>2. worker' \in [Fetchers -> WorkerRecord]
      BY <3>1 DEF SectionsTypeOK, WorkerRecord, SectionPC
    <3> QED
      BY <1>3, <3>2 DEF EnterReader, SectionsTypeOK, WorkerRecord
  <2>2. MarkersCurrent' /\ ReadersHaveEntry' /\ ResultsBare'
    <3>1. PICK label \in {"testing", "calling"} :
            /\ worker' = [worker EXCEPT ![f].module = m, ![f].pc = label]
            /\ label = "testing" => m \in DOMAIN table
            /\ worker[f].pc = "idle"
            /\ UNCHANGED <<installed, table, empty>>
      BY <1>3 DEF EnterReader
    <3>2. \A g \in Fetchers :
            /\ worker'[g].seen = worker[g].seen /\ worker'[g].result = worker[g].result
            /\ g = f => worker'[g].pc = label /\ worker'[g].module = m
            /\ g # f => worker'[g].pc = worker[g].pc /\ worker'[g].module = worker[g].module
      BY <3>1 DEF SectionsTypeOK
    <3> QED
      <4>1. MarkersCurrent'
        <5>1. \A g \in Fetchers : worker'[g].pc \in {"making", "comparing"}
                => worker'[g].pc = worker[g].pc
          BY <3>1, <3>2
        <5>2. \A g \in Fetchers, k \in DOMAIN table :
                /\ worker'[g].pc = "making" => table[k].marker = NULL
                /\ worker'[g].pc = "comparing" /\ table[k].marker # NULL
                     => worker'[g].seen = empty
          <6> TAKE g \in Fetchers, k \in DOMAIN table
          <6>1. worker'[g].seen = worker[g].seen
            BY <3>2
          <6> QED
            BY <5>1, <6>1 DEF MarkersCurrent
        <5> QED
          BY <3>1, <5>2 DEF MarkersCurrent
      <4>2. ReadersHaveEntry'
        BY <3>1, <3>2 DEF ReadersHaveEntry, Readers
      <4>3. ResultsBare'
        BY <3>1, <3>2 DEF ResultsBare
      <4> QED
        BY <4>1, <4>2, <4>3
  <2> QED
    BY <2>1, <2>2
<1> QED
  BY <1>1, <1>2, <1>3

LEMMA WriterSectionInv ==
  ASSUME SectionsInv, NEW f \in Fetchers, WriterSection(f)
  PROVE  SectionsInv'
<1> USE DEF SectionsInv
<1> DEFINE m == worker[f].module
           id == MarkerFor(f)
<1>1. /\ m \in Modules /\ id \in MarkerId /\ id # NULL
      /\ empty # NULL => id = empty
      /\ worker[f].pc = "inserting" /\ Readers = {}
      /\ worker[f].result \in Value
  BY SectionsAssumption DEF WriterSection, SectionsTypeOK, MarkerFor, MarkerId, SectionsAssumption
<1>2. \A g \in Fetchers : worker[g].pc \notin {"testing", "making", "comparing"}
  BY <1>1 DEF Readers
<1>3. CASE LoseRace(f)
  <2>1. m \in DOMAIN table /\ table[m] \in Value
    BY <1>3 DEF LoseRace, SectionsTypeOK
  <2>2. table[m].marker # NULL => table[m].marker = id /\ table[m].rows = {}
    BY <1>1, <2>1 DEF MarkersCurrent
  <2>3. Taken(table[m], id) \in Value /\ Taken(table[m], id).marker = NULL
    BY <1>1, <2>1, <2>2, TakenIsRows
  <2>4. /\ worker' = [worker EXCEPT ![f].pc = "returned", ![f].result = Taken(table[m], id)]
        /\ empty' = id /\ installed' = installed /\ table' = table
    BY <1>3 DEF LoseRace, Leave
  <2>5. SectionsTypeOK'
    BY <1>1, <2>3, <2>4 DEF SectionsTypeOK, SectionPC
  <2>6. MarkersCurrent'
    BY <1>1, <1>2, <2>4 DEF MarkersCurrent, SectionsTypeOK
  <2>7. ReadersHaveEntry' /\ ResultsBare'
    BY <1>2, <2>3, <2>4 DEF SectionsTypeOK, ReadersHaveEntry, ResultsBare, Readers
  <2> QED
    BY <2>5, <2>6, <2>7
<1>4. CASE FillEntry(f)
  <2>1. PICK v \in Inserted(f, id) :
          /\ table' = WithEntry(m, v)
          /\ empty' = IF v.marker = NULL THEN empty ELSE v.marker
    BY <1>4 DEF FillEntry
  <2>2. v \in Value /\ (v.marker # NULL => v.marker = id /\ v.rows = {})
    BY <1>1, <2>1, ValuesTyped DEF Inserted, ResultsBare
  <2>3. /\ worker' = [worker EXCEPT ![f].pc = "returned", ![f].result = worker[f].result]
        /\ installed' = installed
    BY <1>4 DEF FillEntry, Leave
  <2>4. /\ DOMAIN table' = DOMAIN table \cup {m} /\ DOMAIN table' \subseteq Modules
        /\ \A k \in DOMAIN table' : table'[k] \in Value
        /\ table'[m] = v
        /\ \A k \in DOMAIN table \ {m} : table'[k] = table[k]
    BY <1>1, <2>1, <2>2, EntryTyped
  <2>5. empty' \in MarkerId
    BY <1>1, <2>1, <2>2 DEF SectionsTypeOK
  <2>6. worker' \in [Fetchers -> WorkerRecord]
    BY <1>1, <2>3 DEF SectionsTypeOK, WorkerRecord, SectionPC
  <2>7. SectionsTypeOK'
    BY <2>3, <2>4, <2>5, <2>6 DEF SectionsTypeOK, WorkerRecord
  <2>8. \A g \in Fetchers : worker'[g].pc \notin {"testing", "making", "comparing"}
    BY <1>2, <2>3 DEF SectionsTypeOK
  <2>9. MarkersCurrent'
    BY <1>1, <2>1, <2>2, <2>4, <2>8 DEF MarkersCurrent
  <2>10. ReadersHaveEntry' /\ ResultsBare'
    BY <2>3, <2>8 DEF SectionsTypeOK, ReadersHaveEntry, ResultsBare, Readers
  <2> QED
    BY <2>7, <2>9, <2>10
<1> QED
  BY <1>3, <1>4 DEF WriterSection

LEMMA EnvironmentInv ==
  ASSUME SectionsInv,
         (\E m \in Modules : InvalidateEntry(m)) \/ (\E p \in Plugins : PluginChanges(p))
  PROVE  SectionsInv'
<1> USE DEF SectionsInv
<1>1. ASSUME NEW m \in Modules, InvalidateEntry(m)
      PROVE  SectionsInv'
  <2>1. SectionsTypeOK'
    BY <1>1 DEF InvalidateEntry, SectionsTypeOK
  <2>2. MarkersCurrent' /\ ReadersHaveEntry' /\ ResultsBare'
    BY <1>1 DEF InvalidateEntry, MarkersCurrent, ReadersHaveEntry, ResultsBare, Readers
  <2> QED
    BY <2>1, <2>2
<1>2. ASSUME NEW p \in Plugins, PluginChanges(p)
      PROVE  SectionsInv'
  BY <1>2 DEF PluginChanges, SectionsTypeOK, MarkersCurrent, ReadersHaveEntry, ResultsBare,
              Readers
<1> QED
  BY <1>1, <1>2

LEMMA SectionsNextInv == SectionsInv /\ [SectionsNext]_sectionsVars => SectionsInv'
<1> SUFFICES ASSUME SectionsInv, [SectionsNext]_sectionsVars PROVE SectionsInv'
  OBVIOUS
<1>1. CASE SectionsNext
  BY <1>1, ReaderStepInv, OutsideStepInv, WriterSectionInv, EnvironmentInv DEF SectionsNext
<1>2. CASE UNCHANGED sectionsVars
  BY <1>2 DEF sectionsVars, SectionsInv, SectionsTypeOK, MarkersCurrent, ReadersHaveEntry,
              ResultsBare, Readers
<1> QED
  BY <1>1, <1>2

LEMMA SectionsInvariant == SectionsSpec => []SectionsInv
<1> QED
  BY SectionsInitInv, SectionsNextInv, PTL DEF SectionsSpec

\* The state of the plugins cache is well typed, for any number of workers.
THEOREM SectionsTypeCorrect == SectionsSpec => []SectionsTypeOK
<1>1. SectionsInv => SectionsTypeOK
  BY DEF SectionsInv
<1> QED
  BY <1>1, SectionsInvariant, PTL

\* However many readers create the empty marker at once, no caller is handed one.
THEOREM MarkersAlwaysRecognised == SectionsSpec => []MarkersRecognised
<1>1. SectionsInv => MarkersRecognised
  BY DEF SectionsInv, ResultsBare, MarkersRecognised
<1> QED
  BY <1>1, SectionsInvariant, PTL

-------------------------------------------------------------------------------
(* The lock sections implement PluginsCache.                               *)

AbstractCache == [m \in DOMAIN table |-> table[m].rows]

LEMMA InitImplements == SectionsInit => Abstract!AloneInit
<1> SUFFICES ASSUME SectionsInit PROVE Abstract!AloneInit
  OBVIOUS
<1>1. \A f \in Fetchers : worker[f].pc = "idle"
  BY DEF SectionsInit, AtRest
<1>2. AbstractFetch = [f \in Fetchers |-> Abstract!Idle]
  BY <1>1 DEF AbstractFetch, Abstract!Idle, AtRest
<1>3. AbstractCache = [m \in {} |-> {}]
  BY DEF SectionsInit, AbstractCache
<1> QED
  BY <1>2, <1>3 DEF Abstract!AloneInit, Abstract!CacheInit, SectionsInit, AbstractCache

LEMMA StepImplements ==
  ASSUME SectionsInv, [SectionsNext]_sectionsVars
  PROVE  [Abstract!CacheNext]_(Abstract!cacheVars)
<1> USE DEF SectionsInv, Abstract!cacheVars
<1>1. ASSUME NEW f \in Fetchers, TestMarker(f) \/ MakeMarker(f)
      PROVE  UNCHANGED Abstract!cacheVars
  <2>1. \A g \in Fetchers : g \in Readers <=> g \in Readers'
    BY <1>1 DEF TestMarker, MakeMarker, Readers, SectionsTypeOK
  <2>2. \A g \in Fetchers \ {f} : worker'[g] = worker[g]
    BY <1>1 DEF TestMarker, MakeMarker, SectionsTypeOK
  <2>3. f \in Readers
    BY <1>1 DEF TestMarker, MakeMarker, Readers
  <2>4. AbstractFetch' = AbstractFetch
    BY <2>1, <2>2, <2>3 DEF AbstractFetch
  <2> QED
    BY <1>1, <2>4 DEF TestMarker, MakeMarker
<1>2. ASSUME NEW f \in Fetchers, Compare(f)
      PROVE  Abstract!Lookup(f, worker[f].module)
  <2> DEFINE m == worker[f].module
  <2>1. f \in Readers /\ m \in DOMAIN table /\ table[m] \in Value
    BY <1>2 DEF Compare, Readers, ReadersHaveEntry, SectionsTypeOK
  <2>2. PICK id \in {worker[f].seen, empty} :
          worker' = [worker EXCEPT ![f].pc = "returned", ![f].seen = NULL,
                                   ![f].result = Taken(table[m], id)]
    BY <1>2 DEF Compare
  <2>3. Taken(table[m], id).rows = table[m].rows
    BY <1>2, <2>1, <2>2, TakenIsRows DEF Compare, SectionsTypeOK, MarkersCurrent
  <2>4. /\ worker'[f].pc = "returned" /\ worker'[f].module = m
        /\ worker'[f].result.rows = table[m].rows
        /\ \A g \in Fetchers \ {f} : worker'[g] = worker[g]
    BY <2>2, <2>3 DEF SectionsTypeOK
  <2>5. Readers' = Readers \ {f}
    BY <2>4 DEF Readers
  <2>6. AbstractFetch[f].pc = "idle"
    BY <2>1 DEF AbstractFetch
  <2>7. AbstractFetch' = [AbstractFetch EXCEPT ![f] =
          [pc |-> "returned", module |-> m, payload |-> table[m].rows]]
    BY <2>4, <2>5 DEF AbstractFetch
  <2> QED
    BY <1>2, <2>1, <2>6, <2>7 DEF Compare, Abstract!Lookup
<1>3. ASSUME NEW f \in Fetchers, NEW m \in Modules, EnterReader(f, m)
      PROVE  Abstract!Lookup(f, m) \/ UNCHANGED Abstract!cacheVars
  <2>1. PICK label \in {"testing", "calling"} :
          /\ worker' = [worker EXCEPT ![f].module = m, ![f].pc = label]
          /\ label = "calling" <=> m \notin DOMAIN table
          /\ worker[f].pc = "idle"
          /\ UNCHANGED <<installed, table, empty>>
    BY <1>3 DEF EnterReader
  <2>2. /\ worker'[f].pc = label /\ worker'[f].module = m
        /\ worker'[f].result = worker[f].result
        /\ \A g \in Fetchers \ {f} : worker'[g] = worker[g]
    BY <2>1 DEF SectionsTypeOK
  <2>3. AbstractFetch[f].pc = "idle"
    BY <2>1 DEF AbstractFetch
  <2>4. CASE label = "testing"
    <3>1. AbstractFetch' = AbstractFetch
      BY <2>1, <2>2, <2>4 DEF AbstractFetch, Readers
    <3> QED
      BY <2>1, <3>1
  <2>5. CASE label = "calling"
    <3>1. worker[f].result.rows = {}
      BY <2>1 DEF ResultsBare
    <3>2. AbstractFetch' = [AbstractFetch EXCEPT ![f] =
            [pc |-> "calling", module |-> m, payload |-> {}]]
      BY <2>1, <2>2, <2>5, <3>1 DEF AbstractFetch, Readers
    <3> QED
      BY <2>1, <2>3, <2>5, <3>2 DEF Abstract!Lookup
  <2> QED
    BY <2>1, <2>4, <2>5
<1>4. ASSUME NEW f \in Fetchers, Fetched(f)
      PROVE  Abstract!Reply(f)
  <2>1. PICK rows \in {PluginRows(worker[f].module), {}} :
          worker' = [worker EXCEPT ![f].pc = "inserting", ![f].result = ReplyOf(rows)]
    BY <1>4 DEF Fetched
  <2>2. rows \in SUBSET PluginRow
    BY <2>1, RowsTyped DEF SectionsTypeOK
  <2>3. /\ worker[f].pc = "calling" /\ worker'[f].pc = "inserting"
        /\ worker'[f].module = worker[f].module /\ worker'[f].result.rows = rows
        /\ \A g \in Fetchers \ {f} : worker'[g] = worker[g]
    BY <1>4, <2>1, <2>2, ValuesTyped DEF Fetched, SectionsTypeOK
  <2>4. AbstractFetch[f].pc = "calling" /\ AbstractFetch[f].module = worker[f].module
    BY <2>3 DEF AbstractFetch, Readers
  <2>5. AbstractFetch' = [AbstractFetch EXCEPT ![f] =
          [pc |-> "inserting", module |-> worker[f].module, payload |-> rows]]
    BY <2>3 DEF AbstractFetch, Readers
  <2>6. PluginRows(worker[f].module) = Abstract!PluginRows(worker[f].module)
    BY DEF PluginRows, Abstract!PluginRows
  <2> QED
    BY <1>4, <2>1, <2>4, <2>5, <2>6 DEF Fetched, Abstract!Reply
<1>5. ASSUME NEW f \in Fetchers, WriterSection(f)
      PROVE  Abstract!Insert(f)
  <2> DEFINE m == worker[f].module
             id == MarkerFor(f)
  <2>1. /\ worker[f].pc = "inserting" /\ Readers = {} /\ m \in Modules
        /\ id \in MarkerId /\ (empty # NULL => id = empty) /\ installed' = installed
    BY <1>5 DEF WriterSection, SectionsTypeOK, MarkerFor, MarkerId, LoseRace, FillEntry
  <2>2. PICK v \in Value :
          /\ worker' = Leave(f, v)
          /\ DOMAIN table' = DOMAIN table \cup {m}
          /\ \A k \in DOMAIN table : table'[k] = table[k]
          /\ table'[m].rows = v.rows
          /\ m \notin DOMAIN table => table'[m].rows = worker[f].result.rows
    <3>1. CASE LoseRace(f)
      <4>1. m \in DOMAIN table /\ table[m] \in Value
        BY <3>1 DEF LoseRace, SectionsTypeOK
      <4>2. table[m].marker # NULL => table[m].marker = id /\ table[m].rows = {}
        BY <2>1, <4>1 DEF MarkersCurrent
      <4>3. Taken(table[m], id) \in Value /\ Taken(table[m], id).rows = table[m].rows
        BY <2>1, <4>1, <4>2, TakenIsRows
      <4> QED
        BY <3>1, <4>1, <4>3 DEF LoseRace
    <3>2. CASE FillEntry(f)
      <4>1. PICK u \in Inserted(f, id) : table' = WithEntry(m, u)
        BY <3>2 DEF FillEntry
      <4>2. u \in Value /\ u.rows = worker[f].result.rows
        <5>1. worker[f].result \in Value
          BY DEF SectionsTypeOK
        <5>2. CASE worker[f].result = Nothing
          BY <2>1, <4>1, <5>2, ValuesTyped DEF Inserted
        <5>3. CASE worker[f].result # Nothing
          BY <4>1, <5>1, <5>3 DEF Inserted
        <5> QED
          BY <5>2, <5>3
      <4>3. /\ DOMAIN table' = DOMAIN table \cup {m}
            /\ table'[m] = u
            /\ \A k \in DOMAIN table \ {m} : table'[k] = table[k]
        BY <2>1, <4>1, <4>2, EntryTyped
      <4>4. worker[f].result \in Value /\ worker' = Leave(f, worker[f].result)
        BY <3>2 DEF FillEntry, SectionsTypeOK
      <4> QED
        BY <3>2, <4>2, <4>3, <4>4 DEF FillEntry
    <3> QED
      BY <1>5, <3>1, <3>2 DEF WriterSection
  <2>3. /\ worker'[f].pc = "returned" /\ worker'[f].module = m /\ worker'[f].result = v
        /\ \A g \in Fetchers \ {f} : worker'[g] = worker[g]
    BY <2>2 DEF Leave, SectionsTypeOK
  <2>4. Readers' = Readers
    BY <2>1, <2>3 DEF Readers
  <2>5. /\ AbstractFetch[f].pc = "inserting" /\ AbstractFetch[f].module = m
        /\ AbstractFetch[f].payload = worker[f].result.rows
    BY <2>1 DEF AbstractFetch
  <2>6. AbstractFetch' = [AbstractFetch EXCEPT ![f] =
          [pc |-> "returned", module |-> m, payload |-> v.rows]]
    BY <2>1, <2>3, <2>4 DEF AbstractFetch
  <2>7. AbstractCache' = IF m \in DOMAIN AbstractCache THEN AbstractCache
                         ELSE [k \in DOMAIN AbstractCache \cup {m} |->
                                 IF k = m THEN AbstractFetch[f].payload ELSE AbstractCache[k]]
    BY <2>2, <2>5 DEF AbstractCache
  <2>8. AbstractCache'[m] = v.rows
    BY <2>2 DEF AbstractCache
  <2> QED
    BY <2>1, <2>5, <2>6, <2>7, <2>8, ZenonT(40) DEF Abstract!Insert, AbstractCache
<1>6. ASSUME NEW f \in Fetchers, ReleaseResult(f)
      PROVE  Abstract!Release(f)
  <2>1. /\ worker[f].pc = "returned" /\ worker'[f] = AtRest
        /\ \A g \in Fetchers \ {f} : worker'[g] = worker[g]
    BY <1>6 DEF ReleaseResult, SectionsTypeOK
  <2>2. AbstractFetch[f].pc = "returned"
    BY <2>1 DEF AbstractFetch, Readers
  <2>3. AbstractFetch' = [AbstractFetch EXCEPT ![f] = Abstract!Idle]
    <3>1. AtRest.pc = "idle" /\ Abstract!Idle = [pc |-> "idle", module |-> AtRest.module, payload |-> {}]
      BY DEF AtRest, Abstract!Idle
    <3> QED
      BY <2>1, <3>1 DEF AbstractFetch, Readers
  <2> QED
    BY <1>6, <2>2, <2>3 DEF ReleaseResult, Abstract!Release
<1>7. ASSUME NEW m \in Modules, InvalidateEntry(m)
      PROVE  Abstract!Invalidate(m)
  <2>1. AbstractFetch' = AbstractFetch
    BY <1>7 DEF InvalidateEntry, AbstractFetch, Readers
  <2>2. AbstractCache' = [k \in DOMAIN AbstractCache \ {m} |-> AbstractCache[k]]
    BY <1>7 DEF InvalidateEntry, AbstractCache
  <2> QED
    BY <1>7, <2>1, <2>2 DEF InvalidateEntry, Abstract!Invalidate, AbstractCache
<1>8. ASSUME NEW p \in Plugins, PluginChanges(p)
      PROVE  Abstract!PluginChanges(p)
  <2>1. AbstractFetch' = AbstractFetch
    BY <1>8 DEF PluginChanges, AbstractFetch, Readers
  <2> QED
    BY <1>8, <2>1 DEF PluginChanges, Abstract!PluginChanges
<1>9. CASE SectionsNext
  BY <1>1, <1>2, <1>3, <1>4, <1>5, <1>6, <1>7, <1>8, <1>9
     DEF SectionsNext, ReaderStep, SectionsTypeOK, Abstract!CacheNext, Abstract!FetchStep
<1>10. CASE UNCHANGED sectionsVars
  BY <1>10 DEF sectionsVars, AbstractFetch, Readers
<1> QED
  BY <1>9, <1>10

\* Seen from outside, the lock sections take the steps of PluginsCache and no
\* others: readers racing to create the marker are not seen at all.
THEOREM SectionsImplement ==
  SectionsSpec => Abstract!AloneInit /\ [][Abstract!CacheNext]_(Abstract!cacheVars)
<1> QED
  BY InitImplements, StepImplements, SectionsInvariant, PTL DEF SectionsSpec

-------------------------------------------------------------------------------
(* What PluginsCache's steps keep, they keep.                              *)

\* Between two invalidations a module has one payload, whoever fetched it.
THEOREM EntriesNeverReplaced == SectionsSpec => EntriesAreStable
<1>1. ASSUME [Abstract!CacheNext]_(Abstract!cacheVars), NEW m \in DOMAIN AbstractCache,
             m \in DOMAIN AbstractCache'
      PROVE  AbstractCache'[m] = AbstractCache[m]
  BY <1>1 DEF Abstract!CacheNext, Abstract!cacheVars, Abstract!FetchStep, Abstract!Reply,
              Abstract!Insert, Abstract!Release, Abstract!Lookup, Abstract!Invalidate,
              Abstract!PluginChanges, AbstractCache
<1>2. [Abstract!CacheNext]_(Abstract!cacheVars)
        => [\A m \in DOMAIN AbstractCache : m \in DOMAIN AbstractCache' =>
              AbstractCache'[m] = AbstractCache[m]]_(Abstract!cacheVars)
  BY <1>1
<1> QED
  BY <1>2, SectionsImplement, PTL DEF EntriesAreStable, Abstract!EntriesAreStable, AbstractCache

\* A lookup returns what the table holds when it does, its own reply or not.
THEOREM CallersAlwaysAgree == SectionsSpec => CallersAgreeWithTable
<1> DEFINE Agrees(f) ==
             (AbstractFetch[f].pc # "returned" /\ AbstractFetch'[f].pc = "returned") =>
               LET m == AbstractFetch'[f].module
               IN  m \in DOMAIN AbstractCache' /\ AbstractFetch'[f].payload = AbstractCache'[m]
<1>1. ASSUME Abstract!CacheNext, NEW f \in Fetchers
      PROVE  Agrees(f)
  <2>1. DOMAIN AbstractFetch = Fetchers /\ AbstractFetch = [g \in Fetchers |-> AbstractFetch[g]]
    BY DEF AbstractFetch
  <2>2. ASSUME NEW g \in Fetchers, NEW m \in Modules, Abstract!Lookup(g, m)
        PROVE  Agrees(f)
    BY <2>1, <2>2 DEF Abstract!Lookup, AbstractCache
  <2>3. ASSUME NEW g \in Fetchers, Abstract!Reply(g)
        PROVE  Agrees(f)
    BY <2>1, <2>3 DEF Abstract!Reply
  <2>4. ASSUME NEW g \in Fetchers, Abstract!Insert(g)
        PROVE  Agrees(f)
    BY <2>1, <2>4 DEF Abstract!Insert, AbstractCache
  <2>5. ASSUME NEW g \in Fetchers, Abstract!Release(g)
        PROVE  Agrees(f)
    BY <2>1, <2>5 DEF Abstract!Release, Abstract!Idle
  <2>6. CASE UNCHANGED AbstractFetch
    BY <2>6
  <2> QED
    BY <1>1, <2>2, <2>3, <2>4, <2>5, <2>6
       DEF Abstract!CacheNext, Abstract!FetchStep, Abstract!Invalidate, Abstract!PluginChanges
<1>2. [Abstract!CacheNext]_(Abstract!cacheVars)
        => [\A f \in Fetchers : Agrees(f)]_(Abstract!cacheVars)
  BY <1>1
<1> QED
  BY <1>2, SectionsImplement, PTL
     DEF CallersAgreeWithTable, Abstract!CallersAgreeWithTable, AbstractCache
===============================================================================
