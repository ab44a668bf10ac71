----------------------------- MODULE RefineProofs -----------------------------
(***************************************************************************)
(* Theorems about Refine, for any apps, ids, requests, passes and listing  *)
(* workers, whatever the daemon answers.                                   *)
(***************************************************************************)
EXTENDS IconHistory, TLAPS

(***************************************************************************)
(* The inductive invariant.  Where a pass is says which app it is at       *)
(* (CursorOK) and, once a pass has prefetched, that the table has an entry *)
(* for every id of its list (PrefetchOK): entries are never removed.       *)
(***************************************************************************)
Enriching == {"lookup", "fetching", "inserting", "texts", "urls", "remote", "screenshots",
              "attaching"}
PerApp == {"icon", "seed", "license"} \cup Enriching

CursorOK(r) ==
  /\ r.pc \in PerApp => /\ r.i \in 1..Len(r.list)
                        /\ KindOf[r.list[r.i]] \notin {"other", "update"}
  /\ r.pc \in PerApp \ {"icon"} => KindOf[r.list[r.i]] # "plugin"
  /\ r.pc \in Enriching => AppIdOf[r.list[r.i]] # NoId
  /\ r.pc = "inserting" => AppIdOf[r.list[r.i]] \in DOMAIN r.reply

PrefetchOK(r, cached) ==
  Prefetches(r.flags) =>
    /\ r.pc \notin {"fetching", "inserting"}
    /\ r.pc \in {"prefetching", "filling"} => IdsOf(r.list) \subseteq cached \cup DOMAIN r.reply
    /\ r.pc \in {"licenses", "apps"} \cup PerApp => IdsOf(r.list) \subseteq cached

PassesOK == \A q \in Passes : CursorOK(pass[q]) /\ PrefetchOK(pass[q], DOMAIN enrichment)

IInv == RefineTypeOK /\ PassesOK

-------------------------------------------------------------------------------
(* Records, replies and tables.                                            *)

LEMMA ReplyTyped ==
  /\ NoReply \in Reply /\ DOMAIN NoReply = {}
  /\ \A reply \in Reply : DOMAIN reply \subseteq AppIds /\ reply \in [DOMAIN reply -> SUBSET Field]
  /\ \A ids \in SUBSET AppIds : [ids -> SUBSET Field] \subseteq Reply
BY DEF NoReply, Reply

LEMMA RepliesTyped ==
  ASSUME NEW ids \in SUBSET AppIds, NEW reply \in EnrichmentReplies(ids)
  PROVE  reply \in Reply /\ DOMAIN reply = ids
<1>1. reply \in [ids -> SUBSET Field]
  BY EnrichmentAssumption DEF EnrichmentAssumption, EnrichmentReplies
<1> QED
  BY <1>1, ReplyTyped

LEMMA FillTyped ==
  ASSUME EnrichmentTypeOK, NEW reply \in Reply, Fill(reply)
  PROVE  /\ EnrichmentTypeOK'
         /\ DOMAIN enrichment' = DOMAIN enrichment \cup DOMAIN reply
         /\ \A id \in DOMAIN enrichment : enrichment'[id] = enrichment[id]
BY ReplyTyped DEF Fill, EnrichmentTypeOK

LEMMA RecordMoved ==
  ASSUME NEW r \in PassRecord, NEW label \in PassPC
  PROVE  /\ [r EXCEPT !.pc = label] \in PassRecord
         /\ [r EXCEPT !.pc = label].pc = label
         /\ [r EXCEPT !.pc = label].flags = r.flags
         /\ [r EXCEPT !.pc = label].list = r.list
         /\ [r EXCEPT !.pc = label].i = r.i
         /\ [r EXCEPT !.pc = label].reply = r.reply
BY DEF PassRecord

LEMMA NextTyped ==
  ASSUME NEW r \in PassRecord
  PROVE  /\ Next1(r) \in PassRecord
         /\ Next1(r).pc = "apps"
         /\ Next1(r).flags = r.flags
         /\ Next1(r).list = r.list
<1>1. "apps" \in PassPC /\ {} \in SUBSET Field
  BY DEF PassPC
<1>2. r.i + 1 \in Nat \ {0}
  BY DEF PassRecord
<1> QED
  BY <1>1, <1>2 DEF Next1, PassRecord

\* The records of the passes, when one of them moves on.
LEMMA PassMoves ==
  ASSUME RefineTypeOK, PassesOK, NEW p \in Passes, NEW r \in PassRecord,
         pass' = [pass EXCEPT ![p] = r],
         DOMAIN enrichment \subseteq DOMAIN enrichment',
         CursorOK(r), PrefetchOK(r, DOMAIN enrichment')
  PROVE  pass' \in [Passes -> PassRecord] /\ PassesOK'
<1>1. pass' \in [Passes -> PassRecord]
  BY DEF RefineTypeOK
<1>2. ASSUME NEW q \in Passes
      PROVE  CursorOK(pass'[q]) /\ PrefetchOK(pass'[q], DOMAIN enrichment')
  <2>1. CASE q = p
    BY <2>1 DEF RefineTypeOK
  <2>2. CASE q # p
    <3>1. pass'[q] = pass[q] /\ CursorOK(pass[q]) /\ PrefetchOK(pass[q], DOMAIN enrichment)
      BY <2>2 DEF RefineTypeOK, PassesOK
    <3> QED
      BY <3>1 DEF PrefetchOK
  <2> QED
    BY <2>1, <2>2
<1> QED
  BY <1>1, <1>2 DEF PassesOK

\* The app a pass is at, and its id.
LEMMA AppTyped ==
  ASSUME RefineTypeOK, PassesOK, NEW p \in Passes, pass[p].pc \in PerApp
  PROVE  /\ pass[p] \in PassRecord
         /\ App(p) \in Apps
         /\ pass[p].pc \in Enriching => AppIdOf[App(p)] \in AppIds
         /\ pass[p].pc # "icon" /\ AppIdOf[App(p)] # NoId => AppIdOf[App(p)] \in IdsOf(pass[p].list)
<1>1. pass[p] \in PassRecord /\ CursorOK(pass[p])
  BY DEF RefineTypeOK, PassesOK
<1>2. pass[p].i \in DOMAIN pass[p].list /\ pass[p].list[pass[p].i] \in Apps
  BY <1>1 DEF CursorOK, PassRecord
<1>3. AppIdOf[App(p)] \in AppIds \cup {NoId}
  BY <1>2, RefineAssumption DEF RefineAssumption, App
<1>4. pass[p].pc \in Enriching => AppIdOf[App(p)] \in AppIds
  BY <1>1, <1>3 DEF CursorOK, App
<1>5. ASSUME pass[p].pc # "icon", AppIdOf[App(p)] # NoId
      PROVE  AppIdOf[App(p)] \in IdsOf(pass[p].list)
  <2>1. KindOf[App(p)] \notin {"plugin", "other"}
    BY <1>1, <1>5 DEF CursorOK, App, PerApp
  <2> QED
    BY <1>2, <1>5, <2>1 DEF IdsOf, App
<1> QED
  BY <1>1, <1>2, <1>4, <1>5 DEF App

LEMMA IdsTyped ==
  ASSUME NEW list \in Seq(Apps)
  PROVE  IdsOf(list) \subseteq AppIds /\ PackagesOf(list) \subseteq Apps
BY RefineAssumption DEF RefineAssumption, IdsOf, PackagesOf

-------------------------------------------------------------------------------
LEMMA InitOK == Init => IInv
<1> SUFFICES ASSUME Init PROVE IInv
  OBVIOUS
<1>1. NoPass \in PassRecord /\ NoPass.pc = "idle"
  BY ReplyTyped DEF NoPass, PassRecord, PassPC
<1>2. CursorOK(NoPass) /\ PrefetchOK(NoPass, DOMAIN enrichment)
  BY <1>1 DEF CursorOK, PrefetchOK, PerApp, Enriching
<1>3. PassesOK
  BY <1>1, <1>2 DEF Init, PassesOK
<1>4. NoRow \in [pc : ListerPC, app : Apps, url : BOOLEAN]
  BY RefineAssumption DEF RefineAssumption, NoRow, ListerPC
<1>5. EnrichmentTypeOK
  BY DEF Init, EnrichmentInit, EnrichmentTypeOK
<1>6. lister \in [Listers -> [pc : ListerPC, app : Apps, url : BOOLEAN]]
  BY <1>4 DEF Init
<1>7. pass \in [Passes -> PassRecord]
  BY <1>1 DEF Init
<1>8. DOMAIN iconUrls = {}
  BY DEF Init
<1>9. RefineTypeOK
  BY <1>5, <1>6, <1>7, <1>8 DEF Init, RefineTypeOK, Source
<1> QED
  BY <1>3, <1>9 DEF IInv

(***************************************************************************)
(* The steps before the first app.                                         *)
(***************************************************************************)
PassMoved(p) ==
  \E r \in PassRecord :
    /\ pass' = [pass EXCEPT ![p] = r]
    /\ CursorOK(r) /\ PrefetchOK(r, DOMAIN enrichment')

\* Where a pass goes when the prefetch of its ids is behind it, or not wanted.
LEMMA AfterEnrichmentOK ==
  ASSUME NEW r \in PassRecord, r.pc = AfterEnrichment(r.flags, r.list), NEW cached,
         Prefetches(r.flags) => IdsOf(r.list) \subseteq cached
  PROVE  CursorOK(r) /\ PrefetchOK(r, cached)
<1>1. r.pc \in {"licenses", "apps"}
  BY DEF AfterEnrichment
<1> QED
  BY <1>1 DEF CursorOK, PrefetchOK, PerApp, Enriching

LEMMA PrefetchMoves ==
  ASSUME RefineTypeOK, PassesOK, NEW p \in Passes,
         RefineAsync(p) \/ ScanMissing(p) \/ PrefetchReplies(p) \/ FillMissing(p)
           \/ PrefetchLicenses(p)
  PROVE  PassMoved(p) /\ EnrichmentTypeOK' /\ DOMAIN enrichment \subseteq DOMAIN enrichment'
<1>1. /\ pass[p] \in PassRecord /\ EnrichmentTypeOK
      /\ CursorOK(pass[p]) /\ PrefetchOK(pass[p], DOMAIN enrichment)
  BY DEF RefineTypeOK, PassesOK
<1>2. \A flags, list : AfterEnrichment(flags, list) \in PassPC
  BY DEF AfterEnrichment, PassPC
<1>3. IdsOf(pass[p].list) \subseteq AppIds /\ PackagesOf(pass[p].list) \subseteq Apps
  BY <1>1, IdsTyped DEF PassRecord
<1>4. EnrichmentTypeOK /\ UNCHANGED enrichment =>
        EnrichmentTypeOK' /\ DOMAIN enrichment' = DOMAIN enrichment
  BY DEF EnrichmentTypeOK
<1>5. CASE RefineAsync(p)
  <2>1. PICK job \in Jobs[p] :
          pass' = [pass EXCEPT ![p] =
            [NoPass EXCEPT !.flags = job.flags, !.list = job.list,
               !.pc = IF job.flags = {} THEN Report(p)
                      ELSE IF Prefetches(job.flags) THEN "scanning"
                      ELSE AfterEnrichment(job.flags, job.list)]]
    BY <1>5 DEF RefineAsync
  <2>2. job \in Request
    BY RefineAssumption DEF RefineAssumption
  <2> DEFINE at == IF job.flags = {} THEN Report(p)
                   ELSE IF Prefetches(job.flags) THEN "scanning"
                   ELSE AfterEnrichment(job.flags, job.list)
             r == [NoPass EXCEPT !.flags = job.flags, !.list = job.list, !.pc = at]
  <2>3. at \in PassPC
    BY <1>2 DEF Report, PassPC
  <2>4. r \in PassRecord /\ r.pc = at /\ r.flags = job.flags /\ r.list = job.list
    <3>1. NoPass \in PassRecord
      BY ReplyTyped DEF NoPass, PassRecord, PassPC
    <3> HIDE DEF at
    <3> QED
      BY <2>2, <2>3, <3>1 DEF PassRecord, Request
  <2>5. CursorOK(r) /\ PrefetchOK(r, DOMAIN enrichment)
    <3>1. CASE job.flags = {} \/ Prefetches(job.flags)
      <4>1. at \in {"ok", "cancelled", "scanning"}
        BY <3>1 DEF Report
      <4> QED
        BY <2>4, <4>1 DEF CursorOK, PrefetchOK, PerApp, Enriching
    <3>2. CASE job.flags # {} /\ ~Prefetches(job.flags)
      BY <2>4, <3>2, AfterEnrichmentOK
    <3> QED
      BY <3>1, <3>2
  <2> QED
    BY <1>1, <1>4, <1>5, <2>1, <2>4, <2>5 DEF PassMoved, RefineAsync
<1>6. CASE ScanMissing(p)
  <2> DEFINE missing == Missing(IdsOf(pass[p].list))
             at == IF missing = {} THEN AfterEnrichment(Flags(p), pass[p].list) ELSE "prefetching"
             r == [pass[p] EXCEPT !.reply = [id \in missing |-> {}], !.pc = at]
  <2>1. at \in PassPC
    BY <1>2 DEF PassPC
  <2>2. missing \in SUBSET AppIds /\ IdsOf(pass[p].list) \subseteq DOMAIN enrichment \cup missing
    BY <1>3 DEF Missing
  <2>3. [id \in missing |-> {}] \in Reply
    BY <2>2, ReplyTyped
  <2>4. /\ r \in PassRecord /\ r.pc = at /\ r.flags = pass[p].flags /\ r.list = pass[p].list
        /\ r.reply = [id \in missing |-> {}]
    BY <1>1, <2>1, <2>3 DEF PassRecord
  <2>5. CursorOK(r) /\ PrefetchOK(r, DOMAIN enrichment)
    <3>1. CASE missing = {}
      BY <2>2, <2>4, <3>1, AfterEnrichmentOK DEF Flags
    <3>2. CASE missing # {}
      BY <2>2, <2>4, <3>2 DEF CursorOK, PrefetchOK, PerApp, Enriching
    <3> QED
      BY <3>1, <3>2
  <2>6. pass' = [pass EXCEPT ![p] = r]
    BY <1>6 DEF ScanMissing
  <2> QED
    BY <1>1, <1>4, <1>6, <2>4, <2>5, <2>6 DEF PassMoved, ScanMissing
<1>7. CASE PrefetchReplies(p)
  <2>1. DOMAIN pass[p].reply \in SUBSET AppIds
    BY <1>1, ReplyTyped DEF PassRecord
  <2>2. PICK reply \in EnrichmentReplies(DOMAIN pass[p].reply) :
          pass' = [pass EXCEPT ![p] = [@ EXCEPT !.reply = reply, !.pc = "filling"]]
    BY <1>7 DEF PrefetchReplies
  <2> DEFINE r == [pass[p] EXCEPT !.reply = reply, !.pc = "filling"]
  <2>3. reply \in Reply /\ DOMAIN reply = DOMAIN pass[p].reply
    BY <2>1, RepliesTyped
  <2>4. /\ r \in PassRecord /\ r.pc = "filling" /\ r.flags = pass[p].flags
        /\ r.list = pass[p].list /\ r.reply = reply
    <3>1. "filling" \in PassPC
      BY DEF PassPC
    <3> QED
      BY <1>1, <2>3, <3>1 DEF PassRecord
  <2>5. CursorOK(r) /\ PrefetchOK(r, DOMAIN enrichment)
    BY <1>1, <1>7, <2>3, <2>4 DEF PrefetchReplies, At, CursorOK, PrefetchOK, PerApp, Enriching
  <2> QED
    BY <1>1, <1>4, <1>7, <2>2, <2>4, <2>5 DEF PassMoved, PrefetchReplies
<1>8. CASE FillMissing(p)
  <2> DEFINE at == AfterEnrichment(Flags(p), pass[p].list)
             r == [pass[p] EXCEPT !.reply = NoReply, !.pc = at]
  <2>1. /\ r \in PassRecord /\ r.pc = at /\ r.flags = pass[p].flags /\ r.list = pass[p].list
    BY <1>1, <1>2, ReplyTyped DEF PassRecord
  <2>2. /\ EnrichmentTypeOK'
        /\ DOMAIN enrichment' = DOMAIN enrichment \cup DOMAIN pass[p].reply
    BY <1>1, <1>8, FillTyped DEF FillMissing, PassRecord
  <2>3. Prefetches(r.flags) => IdsOf(r.list) \subseteq DOMAIN enrichment'
    BY <1>1, <1>8, <2>1, <2>2 DEF FillMissing, At, PrefetchOK
  <2>4. CursorOK(r) /\ PrefetchOK(r, DOMAIN enrichment')
    BY <2>1, <2>3, AfterEnrichmentOK DEF Flags
  <2>5. pass' = [pass EXCEPT ![p] = r]
    BY <1>8 DEF FillMissing
  <2> QED
    BY <2>1, <2>2, <2>4, <2>5 DEF PassMoved
<1>9. CASE PrefetchLicenses(p)
  <2>1. PICK found \in {PackagesOf(pass[p].list) \cap Licensed, {}} :
          pass' = [pass EXCEPT ![p] = [@ EXCEPT !.licenses = found, !.pc = "apps"]]
    BY <1>9 DEF PrefetchLicenses
  <2> DEFINE r == [pass[p] EXCEPT !.licenses = found, !.pc = "apps"]
  <2>2. found \in SUBSET Apps /\ "apps" \in PassPC
    BY <1>3 DEF PassPC
  <2>3. /\ r \in PassRecord /\ r.pc = "apps" /\ r.flags = pass[p].flags /\ r.list = pass[p].list
    BY <1>1, <2>2 DEF PassRecord
  <2>4. CursorOK(r) /\ PrefetchOK(r, DOMAIN enrichment)
    BY <1>1, <1>9, <2>3 DEF PrefetchLicenses, At, CursorOK, PrefetchOK, PerApp, Enriching
  <2> QED
    BY <1>1, <1>4, <1>9, <2>1, <2>3, <2>4 DEF PassMoved, PrefetchLicenses
<1> QED
  BY <1>5, <1>6, <1>7, <1>8, <1>9

(***************************************************************************)
(* The steps for one app.                                                  *)
(***************************************************************************)

\* From one step to the next for the same app.
LEMMA GotoMoves ==
  ASSUME RefineTypeOK, PassesOK, NEW p \in Passes, pass[p].pc \in PerApp,
         DOMAIN enrichment \subseteq DOMAIN enrichment',
         NEW label \in PerApp \ {"icon", "inserting"}, Goto(p, label),
         KindOf[App(p)] # "plugin",
         label \in Enriching => AppIdOf[App(p)] # NoId,
         Prefetches(Flags(p)) => label # "fetching"
  PROVE  PassMoved(p)
<1> DEFINE r == [pass[p] EXCEPT !.pc = label]
<1>1. /\ pass[p] \in PassRecord
      /\ CursorOK(pass[p]) /\ PrefetchOK(pass[p], DOMAIN enrichment)
  BY DEF RefineTypeOK, PassesOK
<1>2. label \in PassPC
  BY DEF PerApp, Enriching, PassPC
<1>3. /\ r \in PassRecord /\ r.pc = label /\ r.flags = pass[p].flags
      /\ r.list = pass[p].list /\ r.i = pass[p].i
  BY <1>1, <1>2, RecordMoved
<1>4. CursorOK(r)
  BY <1>1, <1>3 DEF CursorOK, App
<1>5. PrefetchOK(r, DOMAIN enrichment')
  BY <1>1, <1>3 DEF PrefetchOK, Flags, PerApp, Enriching
<1> QED
  BY <1>3, <1>4, <1>5 DEF Goto, PassMoved

\* On to the next app.
LEMMA NextMoves ==
  ASSUME RefineTypeOK, PassesOK, NEW p \in Passes, pass[p].pc \in PerApp \cup {"apps"},
         DOMAIN enrichment \subseteq DOMAIN enrichment', pass' = [pass EXCEPT ![p] = Next1(pass[p])]
  PROVE  PassMoved(p)
<1>1. pass[p] \in PassRecord /\ PrefetchOK(pass[p], DOMAIN enrichment)
  BY DEF RefineTypeOK, PassesOK
<1>2. /\ Next1(pass[p]) \in PassRecord /\ Next1(pass[p]).pc = "apps"
      /\ Next1(pass[p]).flags = pass[p].flags /\ Next1(pass[p]).list = pass[p].list
  BY <1>1, NextTyped
<1>3. CursorOK(Next1(pass[p])) /\ PrefetchOK(Next1(pass[p]), DOMAIN enrichment')
  BY <1>1, <1>2 DEF CursorOK, PrefetchOK, PerApp, Enriching
<1> QED
  BY <1>2, <1>3 DEF PassMoved

\* With what the table has, or what was just put in it.
LEMMA GotMoves ==
  ASSUME RefineTypeOK, PassesOK, NEW p \in Passes, pass[p].pc \in Enriching,
         DOMAIN enrichment \subseteq DOMAIN enrichment',
         NEW payload \in SUBSET Field, Got(p, payload)
  PROVE  PassMoved(p)
<1>1. /\ pass[p] \in PassRecord /\ pass[p].pc \in PerApp
      /\ CursorOK(pass[p]) /\ PrefetchOK(pass[p], DOMAIN enrichment)
  BY DEF RefineTypeOK, PassesOK, PerApp
<1>2. CASE payload = {}
  BY <1>1, <1>2, NextMoves DEF Got
<1>3. CASE payload # {}
  <2> DEFINE r == [pass[p] EXCEPT !.obj = payload, !.reply = NoReply, !.pc = "texts"]
  <2>1. "texts" \in PassPC
    BY DEF PassPC
  <2>2. /\ r \in PassRecord /\ r.pc = "texts" /\ r.flags = pass[p].flags
        /\ r.list = pass[p].list /\ r.i = pass[p].i
    BY <1>1, <2>1, ReplyTyped DEF PassRecord
  <2>3. CursorOK(r) /\ PrefetchOK(r, DOMAIN enrichment')
    BY <1>1, <2>2 DEF CursorOK, PrefetchOK, PerApp, Enriching
  <2> QED
    BY <1>3, <2>2, <2>3 DEF Got, PassMoved
<1> QED
  BY <1>2, <1>3

\* A label reached from one of its app's steps.
LEMMA AppStepMoves ==
  ASSUME RefineTypeOK, PassesOK, NEW p \in Passes,
         StepApp(p) \/ RefineIcon(p) \/ SeedDescription(p) \/ RefineLicense(p)
  PROVE  PassMoved(p)
<1>1. /\ pass[p] \in PassRecord
      /\ CursorOK(pass[p]) /\ PrefetchOK(pass[p], DOMAIN enrichment)
  BY DEF RefineTypeOK, PassesOK
<1>2. UNCHANGED enrichment
  BY DEF StepApp, RefineIcon, SeedDescription, RefineLicense
<1>3. CASE StepApp(p)
  <2>1. CASE NextApp(p)
    BY <1>2, <1>3, <2>1, NextMoves DEF StepApp, At, NextApp
  <2>2. CASE Goto(p, "ok") \/ Goto(p, "cancelled")
    <3>1. PICK label \in {"ok", "cancelled"} : pass' = [pass EXCEPT ![p] = [pass[p] EXCEPT !.pc = label]]
      BY <2>2 DEF Goto
    <3> DEFINE r == [pass[p] EXCEPT !.pc = label]
    <3>2. r \in PassRecord /\ r.pc = label
      <4>1. label \in PassPC
        BY DEF PassPC
      <4> QED
        BY <1>1, <4>1, RecordMoved
    <3>3. CursorOK(r) /\ PrefetchOK(r, DOMAIN enrichment')
      BY <3>2 DEF CursorOK, PrefetchOK, PerApp, Enriching
    <3> QED
      BY <3>1, <3>2, <3>3 DEF PassMoved
  <2>3. CASE /\ ~(pass[p].i > Len(pass[p].list))
             /\ KindOf[App(p)] \notin {"other", "update"}
             /\ Goto(p, "icon")
    <3> DEFINE r == [pass[p] EXCEPT !.pc = "icon"]
    <3>1. /\ r \in PassRecord /\ r.pc = "icon" /\ r.flags = pass[p].flags
          /\ r.list = pass[p].list /\ r.i = pass[p].i
      <4>1. "icon" \in PassPC
        BY DEF PassPC
      <4> QED
        BY <1>1, <4>1, RecordMoved
    <3>2. pass[p].i \in 1..Len(pass[p].list)
      <4>1. pass[p].i \in Nat \ {0} /\ Len(pass[p].list) \in Nat
        BY <1>1 DEF PassRecord
      <4> QED
        BY <2>3, <4>1
    <3>3. CursorOK(r) /\ PrefetchOK(r, DOMAIN enrichment')
      BY <1>1, <1>2, <1>3, <2>3, <3>1, <3>2
      DEF StepApp, At, App, CursorOK, PrefetchOK, PerApp, Enriching
    <3> QED
      BY <2>3, <3>1, <3>3 DEF Goto, PassMoved
  <2> QED
    BY <1>3, <2>1, <2>2, <2>3 DEF StepApp, Report
<1>4. CASE RefineIcon(p)
  <2>1. CASE NextApp(p)
    BY <1>2, <1>4, <2>1, NextMoves DEF RefineIcon, At, NextApp, PerApp
  <2>2. CASE KindOf[App(p)] # "plugin" /\ Goto(p, "seed")
    BY <1>2, <1>4, <2>2, GotoMoves DEF RefineIcon, At, PerApp, Enriching
  <2> QED
    BY <1>4, <2>1, <2>2 DEF RefineIcon
<1>5. CASE SeedDescription(p)
  <2>1. KindOf[App(p)] # "plugin"
    BY <1>1, <1>5 DEF SeedDescription, At, CursorOK, App, PerApp
  <2> QED
    BY <1>2, <1>5, <2>1, GotoMoves DEF SeedDescription, At, PerApp, Enriching
<1>6. CASE RefineLicense(p)
  <2>1. KindOf[App(p)] # "plugin"
    BY <1>1, <1>6 DEF RefineLicense, At, CursorOK, App, PerApp
  <2>2. CASE NextApp(p)
    BY <1>2, <1>6, <2>2, NextMoves DEF RefineLicense, At, NextApp, PerApp
  <2>3. CASE AppIdOf[App(p)] # NoId /\ Goto(p, "lookup")
    BY <1>2, <1>6, <2>1, <2>3, GotoMoves DEF RefineLicense, At, PerApp, Enriching
  <2> QED
    BY <1>6, <2>2, <2>3 DEF RefineLicense
<1> QED
  BY <1>3, <1>4, <1>5, <1>6

\* get_or_fetch(): a pass that prefetched finds its entry.
LEMMA FetchMoves ==
  ASSUME RefineTypeOK, PassesOK, NEW p \in Passes,
         Lookup(p) \/ FetchReplies(p) \/ InsertFetched(p)
  PROVE  PassMoved(p) /\ EnrichmentTypeOK' /\ DOMAIN enrichment \subseteq DOMAIN enrichment'
<1>1. /\ pass[p].pc \in Enriching /\ pass[p].pc \in PerApp
      /\ pass[p].pc \in {"lookup", "fetching", "inserting"}
  BY DEF Lookup, FetchReplies, InsertFetched, At, Enriching, PerApp
<1>2. /\ pass[p] \in PassRecord /\ EnrichmentTypeOK
      /\ CursorOK(pass[p]) /\ PrefetchOK(pass[p], DOMAIN enrichment)
  BY DEF RefineTypeOK, PassesOK
<1>3. /\ AppIdOf[App(p)] \in AppIds /\ AppIdOf[App(p)] # NoId
      /\ AppIdOf[App(p)] \in IdsOf(pass[p].list)
  BY <1>1, AppTyped, RefineAssumption DEF RefineAssumption, PerApp, Enriching
<1>4. EnrichmentTypeOK /\ UNCHANGED enrichment =>
        EnrichmentTypeOK' /\ DOMAIN enrichment' = DOMAIN enrichment
  BY DEF EnrichmentTypeOK
<1>5. CASE Lookup(p)
  <2>0. EnrichmentTypeOK' /\ DOMAIN enrichment' = DOMAIN enrichment
    BY <1>2, <1>4, <1>5 DEF Lookup
  <2>1. CASE AppIdOf[App(p)] \in DOMAIN enrichment
    <3>1. enrichment[AppIdOf[App(p)]] \in SUBSET Field
      BY <1>2, <2>1 DEF EnrichmentTypeOK
    <3> QED
      BY <1>1, <1>5, <2>0, <2>1, <3>1, GotMoves DEF Lookup
  <2>2. CASE AppIdOf[App(p)] \notin DOMAIN enrichment
    <3>1. ~Prefetches(Flags(p))
      BY <1>1, <1>2, <1>3, <2>2 DEF PrefetchOK, Flags
    <3>2. KindOf[App(p)] # "plugin"
      BY <1>1, <1>2 DEF CursorOK, App, Enriching
    <3> QED
      BY <1>1, <1>3, <1>5, <2>0, <2>2, <3>1, <3>2, GotoMoves DEF Lookup, PerApp, Enriching
  <2> QED
    BY <2>1, <2>2
<1>6. CASE FetchReplies(p)
  <2>1. PICK reply \in EnrichmentReplies({AppIdOf[App(p)]}) :
          pass' = [pass EXCEPT ![p] = [@ EXCEPT !.reply = reply, !.pc = "inserting"]]
    BY <1>6 DEF FetchReplies
  <2>2. reply \in Reply /\ DOMAIN reply = {AppIdOf[App(p)]}
    BY <1>3, RepliesTyped
  <2> DEFINE r == [pass[p] EXCEPT !.reply = reply, !.pc = "inserting"]
  <2>3. "inserting" \in PassPC
    BY DEF PassPC
  <2>4. /\ r \in PassRecord /\ r.pc = "inserting" /\ r.flags = pass[p].flags
        /\ r.list = pass[p].list /\ r.i = pass[p].i /\ r.reply = reply
    BY <1>2, <2>2, <2>3 DEF PassRecord
  <2>5. ~Prefetches(pass[p].flags)
    BY <1>2, <1>6 DEF PrefetchOK, FetchReplies, At
  <2>6. CursorOK(r) /\ PrefetchOK(r, DOMAIN enrichment')
    BY <1>1, <1>2, <2>2, <2>4, <2>5 DEF CursorOK, PrefetchOK, App
  <2> QED
    BY <1>2, <1>4, <1>6, <2>1, <2>4, <2>6 DEF FetchReplies, PassMoved
<1>7. CASE InsertFetched(p)
  <2>1. /\ EnrichmentTypeOK'
        /\ DOMAIN enrichment' = DOMAIN enrichment \cup DOMAIN pass[p].reply
    BY <1>2, <1>7, FillTyped DEF InsertFetched, PassRecord
  <2>2. AppIdOf[App(p)] \in DOMAIN enrichment'
    BY <1>2, <1>7, <2>1 DEF InsertFetched, At, CursorOK, App
  <2>3. enrichment'[AppIdOf[App(p)]] \in SUBSET Field
    BY <2>1, <2>2 DEF EnrichmentTypeOK
  <2> QED
    BY <1>1, <1>7, <2>1, <2>3, GotMoves DEF InsertFetched
<1> QED
  BY <1>5, <1>6, <1>7

LEMMA ApplyMoves ==
  ASSUME RefineTypeOK, PassesOK, NEW p \in Passes,
         ApplyTexts(p) \/ ApplyIconUrl(p) \/ AddRemoteIcon(p) \/ CheckScreenshots(p)
           \/ AddScreenshots(p)
  PROVE  PassMoved(p)
<1>1. pass[p].pc \in Enriching \ {"lookup", "fetching", "inserting"}
  BY DEF ApplyTexts, ApplyIconUrl, AddRemoteIcon, CheckScreenshots, AddScreenshots, At, Enriching
<1>2. pass[p] \in PassRecord /\ CursorOK(pass[p])
  BY DEF RefineTypeOK, PassesOK
<1>3. KindOf[App(p)] # "plugin" /\ AppIdOf[App(p)] # NoId
  BY <1>1, <1>2 DEF CursorOK, App, PerApp, Enriching
<1>4. UNCHANGED enrichment
  BY DEF ApplyTexts, ApplyIconUrl, AddRemoteIcon, CheckScreenshots, AddScreenshots
<1>5. NextApp(p) \/ \E label \in {"urls", "remote", "screenshots", "attaching"} : Goto(p, label)
  BY DEF ApplyTexts, ApplyIconUrl, AddRemoteIcon, CheckScreenshots, AddScreenshots
<1>6. CASE NextApp(p)
  BY <1>1, <1>4, <1>6, NextMoves DEF NextApp, PerApp
<1>7. CASE \E label \in {"urls", "remote", "screenshots", "attaching"} : Goto(p, label)
  BY <1>1, <1>3, <1>4, <1>7, GotoMoves DEF PerApp, Enriching
<1> QED
  BY <1>5, <1>6, <1>7

-------------------------------------------------------------------------------
(***************************************************************************)
(* The apps, the icons and the listing workers.                            *)
(***************************************************************************)
AppsTyped ==
  /\ description \in [Apps -> Source] /\ license \in [Apps -> Source]
  /\ icons \in [Apps -> SUBSET Level]
  /\ themed \in SUBSET Apps
  /\ screenshots \in [Apps -> Nat]
UrlsTyped ==
  /\ DOMAIN iconUrls \subseteq AppIds
  /\ \A id \in DOMAIN iconUrls : iconUrls[id] \in {"listing", "flathub"}
ListersTyped ==
  /\ lister \in [Listers -> [pc : ListerPC, app : Apps, url : BOOLEAN]]
  /\ listed \in SUBSET Apps

LEMMA ImprovedTyped ==
  \A current, source \in Source : Improved(current, source) \in Source
BY DEF Improved

LEMMA ResolvedTyped ==
  \A url \in BOOLEAN : Resolved(url) \subseteq SUBSET Level
BY DEF Resolved, Level

LEMMA PutTyped ==
  ASSUME UrlsTyped, NEW id \in AppIds, NEW source \in {"listing", "flathub"},
         IconCachePut(id, source)
  PROVE  UrlsTyped' /\ \A k \in DOMAIN iconUrls :
                          k \in DOMAIN iconUrls' /\ iconUrls'[k] = iconUrls[k]
BY DEF UrlsTyped, IconCachePut

LEMMA UnchangedTyped ==
  /\ AppsTyped /\ UNCHANGED appVars => AppsTyped'
  /\ UrlsTyped /\ UNCHANGED iconUrls => UrlsTyped'
  /\ ListersTyped /\ UNCHANGED <<lister, listed>> => ListersTyped'
BY DEF AppsTyped, appVars, UrlsTyped, ListersTyped

\* What a step of a pass writes into its app.
LEMMA PassWritesTyped ==
  ASSUME RefineTypeOK, PassesOK, NEW p \in Passes, PassStep(p) \/ RefineAsync(p)
  PROVE  AppsTyped' /\ UrlsTyped' /\ ListersTyped' /\ UNCHANGED cancelled
<1>1. AppsTyped /\ UrlsTyped /\ ListersTyped
  BY DEF RefineTypeOK, AppsTyped, UrlsTyped, ListersTyped
<1>2. UNCHANGED <<lister, listed, cancelled>>
  BY DEF PassStep, RefineAsync, ScanMissing, PrefetchReplies, FillMissing, PrefetchLicenses,
    StepApp, RefineIcon, SeedDescription, RefineLicense, Lookup, FetchReplies, InsertFetched,
    ApplyTexts, ApplyIconUrl, AddRemoteIcon, CheckScreenshots, AddScreenshots
<1>3. ListersTyped'
  BY <1>1, <1>2, UnchangedTyped
<1>4. CASE RefineAsync(p) \/ ScanMissing(p) \/ PrefetchReplies(p) \/ FillMissing(p)
             \/ PrefetchLicenses(p) \/ StepApp(p) \/ Lookup(p) \/ FetchReplies(p)
             \/ InsertFetched(p) \/ CheckScreenshots(p)
  <2>1. UNCHANGED <<appVars, iconUrls>>
    BY <1>4 DEF RefineAsync, ScanMissing, PrefetchReplies, FillMissing, PrefetchLicenses,
      StepApp, Lookup, FetchReplies, InsertFetched, CheckScreenshots
  <2> QED
    BY <1>1, <1>2, <1>3, <2>1, UnchangedTyped
<1>5. CASE RefineIcon(p)
  <2>1. App(p) \in Apps
    BY <1>5, AppTyped DEF RefineIcon, At, PerApp
  <2>2. PICK url \in BOOLEAN : \E found \in Resolved(url) :
          IF "ICON" \in Flags(p) /\ icons[App(p)] = {}
          THEN /\ icons' = [icons EXCEPT ![App(p)] = found]
               /\ themed' = IF "theme" \in found THEN themed \cup {App(p)} ELSE themed
          ELSE UNCHANGED <<icons, themed>>
    BY <1>5 DEF RefineIcon
  <2>3. icons' \in [Apps -> SUBSET Level] /\ themed' \in SUBSET Apps
    <3>1. Resolved(url) \subseteq SUBSET Level
      BY ResolvedTyped
    <3> QED
      BY <1>1, <2>1, <2>2, <3>1 DEF AppsTyped
  <2> QED
    BY <1>1, <1>2, <1>3, <1>5, <2>3, UnchangedTyped DEF RefineIcon, AppsTyped
<1>6. CASE SeedDescription(p)
  <2>1. App(p) \in Apps /\ Improved(description[App(p)], "summary") \in Source
    BY <1>1, <1>6, AppTyped, ImprovedTyped
    DEF SeedDescription, At, PerApp, AppsTyped, Source
  <2> QED
    BY <1>1, <1>2, <1>3, <1>6, <2>1, UnchangedTyped DEF SeedDescription, AppsTyped
<1>7. CASE RefineLicense(p)
  <2>1. App(p) \in Apps /\ Improved(license[App(p)], "nix") \in Source
    BY <1>1, <1>7, AppTyped, ImprovedTyped
    DEF RefineLicense, At, PerApp, AppsTyped, Source
  <2> QED
    BY <1>1, <1>2, <1>3, <1>7, <2>1, UnchangedTyped DEF RefineLicense, AppsTyped
<1>8. CASE ApplyTexts(p)
  <2>1. /\ App(p) \in Apps
        /\ Improved(license[App(p)], "flathub") \in Source
        /\ Improved(description[App(p)], "flathub") \in Source
    BY <1>1, <1>8, AppTyped, ImprovedTyped
    DEF ApplyTexts, At, PerApp, Enriching, AppsTyped, Source
  <2> QED
    BY <1>1, <1>2, <1>3, <1>8, <2>1, UnchangedTyped DEF ApplyTexts, AppsTyped
<1>9. CASE ApplyIconUrl(p)
  <2>1. AppIdOf[App(p)] \in AppIds
    BY <1>9, AppTyped DEF ApplyIconUrl, At, PerApp, Enriching
  <2> QED
    BY <1>1, <1>2, <1>3, <1>9, <2>1, UnchangedTyped, PutTyped DEF ApplyIconUrl
<1>10. CASE AddRemoteIcon(p)
  <2>1. App(p) \in Apps /\ icons[App(p)] \cup {"remote"} \in SUBSET Level
    BY <1>1, <1>10, AppTyped
    DEF AddRemoteIcon, At, PerApp, Enriching, AppsTyped, Level
  <2> QED
    BY <1>1, <1>2, <1>3, <1>10, <2>1, UnchangedTyped DEF AddRemoteIcon, AppsTyped
<1>11. CASE AddScreenshots(p)
  <2>1. App(p) \in Apps /\ screenshots[App(p)] + 1 \in Nat
    BY <1>1, <1>11, AppTyped DEF AddScreenshots, At, PerApp, Enriching, AppsTyped
  <2> QED
    BY <1>1, <1>2, <1>3, <1>11, <2>1, UnchangedTyped DEF AddScreenshots, AppsTyped
<1> QED
  BY <1>4, <1>5, <1>6, <1>7, <1>8, <1>9, <1>10, <1>11 DEF PassStep

LEMMA ListerMovesTyped ==
  ASSUME RefineTypeOK, NEW l \in Listers, ListerStep(l)
  PROVE  AppsTyped' /\ UrlsTyped' /\ ListersTyped' /\ UNCHANGED <<pass, cancelled, enrichment>>
<1>1. AppsTyped /\ UrlsTyped /\ ListersTyped
  BY DEF RefineTypeOK, AppsTyped, UrlsTyped, ListersTyped
<1>2. /\ lister[l] \in [pc : ListerPC, app : Apps, url : BOOLEAN]
      /\ NoRow \in [pc : ListerPC, app : Apps, url : BOOLEAN]
  BY <1>1, RefineAssumption DEF RefineAssumption, NoRow, ListerPC, ListersTyped
<1>3. \A label \in ListerPC :
        [lister[l] EXCEPT !.pc = label] \in [pc : ListerPC, app : Apps, url : BOOLEAN]
  BY <1>2
<1>4. ListRow(l) => ListersTyped'
  BY <1>1, <1>2 DEF ListRow, ListersTyped
<1>5. \A label \in ListerPC : GotoLister(l, label) /\ UNCHANGED listed => ListersTyped'
  BY <1>1, <1>3 DEF GotoLister, ListersTyped
<1>6. ASSUME NEW a \in Apps, MakeApp(l, a)
      PROVE  AppsTyped' /\ UrlsTyped' /\ ListersTyped' /\ UNCHANGED <<pass, cancelled, enrichment>>
  <2>1. PICK inRow \in BOOLEAN :
          /\ IF inRow /\ AppIdOf[a] # NoId
             THEN IconCachePut(AppIdOf[a], "listing")
             ELSE UNCHANGED iconUrls
          /\ lister' = [lister EXCEPT ![l] =
               [pc |-> "checking", app |-> a, url |-> inRow \/ AppIdOf[a] \in DOMAIN iconUrls]]
    BY <1>6 DEF MakeApp
  <2>2. AppIdOf[a] # NoId => AppIdOf[a] \in AppIds
    BY RefineAssumption DEF RefineAssumption
  <2>3. UrlsTyped'
    BY <1>1, <2>1, <2>2, PutTyped, UnchangedTyped
  <2>4. ListersTyped'
    BY <1>1, <1>6, <2>1 DEF MakeApp, ListersTyped, ListerPC
  <2> QED
    BY <1>1, <1>6, <2>3, <2>4, UnchangedTyped DEF MakeApp
<1>7. CASE CheckIcons(l)
  <2>1. ListersTyped'
    BY <1>4, <1>5, <1>7 DEF CheckIcons, ListerPC
  <2> QED
    BY <1>1, <1>7, <2>1, UnchangedTyped DEF CheckIcons
<1>8. CASE AddIcons(l)
  <2>1. PICK found \in Resolved(lister[l].url) :
          icons' = [icons EXCEPT ![lister[l].app] = @ \cup found]
    BY <1>8 DEF AddIcons
  <2>2. icons' \in [Apps -> SUBSET Level]
    <3>1. lister[l].app \in Apps /\ found \in SUBSET Level
      BY <1>2, ResolvedTyped
    <3> QED
      BY <1>1, <2>1, <3>1 DEF AppsTyped
  <2>3. ListersTyped'
    BY <1>4, <1>5, <1>8 DEF AddIcons, ListerPC
  <2> QED
    BY <1>1, <1>8, <2>2, <2>3, UnchangedTyped DEF AddIcons, AppsTyped
<1>9. CASE MarkThemed(l)
  <2>1. themed' \in SUBSET Apps
    BY <1>1, <1>2, <1>9 DEF MarkThemed, AppsTyped
  <2> QED
    BY <1>1, <1>4, <1>9, <2>1, UnchangedTyped DEF MarkThemed, AppsTyped
<1> QED
  BY <1>6, <1>7, <1>8, <1>9 DEF ListerStep

-------------------------------------------------------------------------------
LEMMA PassStepOK ==
  ASSUME RefineTypeOK, PassesOK, NEW p \in Passes, PassStep(p) \/ RefineAsync(p)
  PROVE  PassMoved(p) /\ EnrichmentTypeOK' /\ DOMAIN enrichment \subseteq DOMAIN enrichment'
<1>1. EnrichmentTypeOK /\ (UNCHANGED enrichment =>
        EnrichmentTypeOK' /\ DOMAIN enrichment \subseteq DOMAIN enrichment')
  BY DEF RefineTypeOK, EnrichmentTypeOK
<1>2. CASE RefineAsync(p) \/ ScanMissing(p) \/ PrefetchReplies(p) \/ FillMissing(p)
             \/ PrefetchLicenses(p)
  BY <1>2, PrefetchMoves
<1>3. CASE StepApp(p) \/ RefineIcon(p) \/ SeedDescription(p) \/ RefineLicense(p)
  <2>1. UNCHANGED enrichment
    BY <1>3 DEF StepApp, RefineIcon, SeedDescription, RefineLicense
  <2> QED
    BY <1>1, <1>3, <2>1, AppStepMoves
<1>4. CASE Lookup(p) \/ FetchReplies(p) \/ InsertFetched(p)
  BY <1>4, FetchMoves
<1>5. CASE ApplyTexts(p) \/ ApplyIconUrl(p) \/ AddRemoteIcon(p) \/ CheckScreenshots(p)
             \/ AddScreenshots(p)
  <2>1. UNCHANGED enrichment
    BY <1>5 DEF ApplyTexts, ApplyIconUrl, AddRemoteIcon, CheckScreenshots, AddScreenshots
  <2> QED
    BY <1>1, <1>5, <2>1, ApplyMoves
<1> QED
  BY <1>2, <1>3, <1>4, <1>5 DEF PassStep

LEMMA NextOK == IInv /\ [Next]_vars => IInv'
<1> SUFFICES ASSUME RefineTypeOK, PassesOK, [Next]_vars
             PROVE  RefineTypeOK' /\ PassesOK'
  BY DEF IInv
<1> DEFINE Goal == RefineTypeOK' /\ PassesOK'
<1>1. /\ EnrichmentTypeOK /\ AppsTyped /\ UrlsTyped /\ ListersTyped
      /\ pass \in [Passes -> PassRecord] /\ cancelled \in SUBSET Passes
  BY DEF RefineTypeOK, AppsTyped, UrlsTyped, ListersTyped
<1>2. /\ EnrichmentTypeOK' /\ AppsTyped' /\ UrlsTyped' /\ ListersTyped'
      /\ (pass \in [Passes -> PassRecord])' /\ (cancelled \in SUBSET Passes)'
      => RefineTypeOK'
  BY DEF RefineTypeOK, AppsTyped, UrlsTyped, ListersTyped
<1>3. UNCHANGED <<pass, enrichment>> =>
        EnrichmentTypeOK' /\ (pass \in [Passes -> PassRecord])' /\ PassesOK'
  BY <1>1 DEF PassesOK, EnrichmentTypeOK
<1>4. ASSUME NEW p \in Passes, PassStep(p) \/ RefineAsync(p)
      PROVE  Goal
  <2>1. PassMoved(p) /\ EnrichmentTypeOK' /\ DOMAIN enrichment \subseteq DOMAIN enrichment'
    BY <1>4, PassStepOK
  <2>2. AppsTyped' /\ UrlsTyped' /\ ListersTyped' /\ UNCHANGED cancelled
    BY <1>4, PassWritesTyped
  <2>3. PICK r \in PassRecord :
          /\ pass' = [pass EXCEPT ![p] = r]
          /\ CursorOK(r) /\ PrefetchOK(r, DOMAIN enrichment')
    BY <2>1 DEF PassMoved
  <2>4. pass' \in [Passes -> PassRecord] /\ PassesOK'
    BY <2>1, <2>3, PassMoves
  <2> QED
    BY <1>1, <1>2, <2>1, <2>2, <2>4
<1>5. ASSUME NEW p \in Passes, Cancel(p)
      PROVE  Goal
  <2>1. cancelled' \in SUBSET Passes
    BY <1>1, <1>5 DEF Cancel
  <2> QED
    BY <1>1, <1>2, <1>3, <1>5, <2>1, UnchangedTyped DEF Cancel
<1>6. ASSUME NEW l \in Listers, ListerStep(l)
      PROVE  Goal
  BY <1>1, <1>2, <1>3, <1>6, ListerMovesTyped
<1>7. CASE UNCHANGED vars
  BY <1>1, <1>2, <1>3, <1>7, UnchangedTyped DEF vars
<1> QED
  BY <1>4, <1>5, <1>6, <1>7 DEF Next

LEMMA Inductive == Spec => []IInv
BY InitOK, NextOK, PTL DEF Spec

\* Type correctness: in particular the index of the app a pass works on stays
\* inside its list, and a pass reads from the table only ids that have an entry.
THEOREM RefineTypeCorrect == Spec => []RefineTypeOK
<1>1. IInv => RefineTypeOK
  BY DEF IInv
<1> QED
  BY <1>1, Inductive, PTL

\* The prefetch of a pass is enough: no pass that prefetched its list calls the
\* daemon for a single app, however many passes fill the table at the same time
\* and whatever the batched call returned or failed to return.
THEOREM PrefetchSpares == Spec => []PrefetchSuffices
<1>1. IInv => PrefetchSuffices
  BY DEF IInv, PassesOK, PrefetchOK, PrefetchSuffices, Flags
<1> QED
  BY <1>1, Inductive, PTL

\* An entry of either table is kept by every step ...
EntriesStay ==
  /\ \A id \in DOMAIN enrichment : id \in DOMAIN enrichment' /\ enrichment'[id] = enrichment[id]
  /\ \A id \in DOMAIN iconUrls : id \in DOMAIN iconUrls' /\ iconUrls'[id] = iconUrls[id]

LEMMA StepKeepsEntries == ASSUME RefineTypeOK, PassesOK, [Next]_vars PROVE EntriesStay
<1>1. EnrichmentTypeOK /\ UrlsTyped
  BY DEF RefineTypeOK, UrlsTyped
<1>2. ASSUME NEW reply \in Reply, Fill(reply)
      PROVE  \A id \in DOMAIN enrichment :
               id \in DOMAIN enrichment' /\ enrichment'[id] = enrichment[id]
  BY <1>1, <1>2, FillTyped
<1>3. CASE UNCHANGED <<enrichment, iconUrls>>
  BY <1>3 DEF EntriesStay
<1>4. ASSUME NEW p \in Passes, PassStep(p)
      PROVE  EntriesStay
  <2>1. pass[p].reply \in Reply
    BY DEF RefineTypeOK, PassRecord
  <2>2. CASE FillMissing(p) \/ InsertFetched(p)
    BY <1>2, <2>1, <2>2 DEF FillMissing, InsertFetched, EntriesStay
  <2>3. CASE ApplyIconUrl(p)
    <3>1. AppIdOf[App(p)] \in AppIds
      BY <2>3, AppTyped DEF ApplyIconUrl, At, PerApp, Enriching
    <3> QED
      BY <1>1, <2>3, <3>1, PutTyped DEF ApplyIconUrl, EntriesStay
  <2> QED
    BY <1>3, <1>4, <2>2, <2>3
    DEF PassStep, ScanMissing, PrefetchReplies, PrefetchLicenses, StepApp, RefineIcon,
      SeedDescription, RefineLicense, Lookup, FetchReplies, ApplyTexts, AddRemoteIcon,
      CheckScreenshots, AddScreenshots
<1>5. ASSUME NEW l \in Listers, ListerStep(l)
      PROVE  EntriesStay
  <2>1. ASSUME NEW a \in Apps, MakeApp(l, a)
        PROVE  EntriesStay
    <3>1. AppIdOf[a] # NoId => AppIdOf[a] \in AppIds
      BY RefineAssumption DEF RefineAssumption
    <3>2. \/ UNCHANGED iconUrls
          \/ AppIdOf[a] # NoId /\ IconCachePut(AppIdOf[a], "listing")
      BY <2>1 DEF MakeApp
    <3> QED
      BY <1>1, <2>1, <3>1, <3>2, PutTyped DEF MakeApp, EntriesStay
  <2> QED
    BY <1>3, <1>5, <2>1 DEF ListerStep, CheckIcons, AddIcons, MarkThemed
<1>6. ASSUME NEW p \in Passes, RefineAsync(p) \/ Cancel(p)
      PROVE  EntriesStay
  BY <1>3, <1>6 DEF RefineAsync, Cancel
<1> QED
  BY <1>3, <1>4, <1>5, <1>6 DEF Next, vars

\* ... and so is a text of the best source.
TextsStay ==
  \A a \in Apps :
    /\ license[a] = "nix" => license'[a] = "nix"
    /\ license[a] # "none" => license'[a] # "none"
    /\ description[a] = "flathub" => description'[a] = "flathub"
    /\ description[a] # "none" => description'[a] # "none"

LEMMA StepKeepsTexts == ASSUME RefineTypeOK, [Next]_vars PROVE TextsStay
<1>1. description \in [Apps -> Source] /\ license \in [Apps -> Source]
  BY DEF RefineTypeOK
<1>2. /\ Improved("nix", "nix") = "nix" /\ Improved("nix", "flathub") = "nix"
      /\ Improved("flathub", "summary") = "flathub"
      /\ Improved("flathub", "flathub") = "flathub"
      /\ \A old \in Source, new \in Source \ {"none"} : Improved(old, new) # "none"
  BY DEF Improved, Quality, Source
<1>3. ASSUME NEW p \in Passes, SeedDescription(p) \/ RefineLicense(p) \/ ApplyTexts(p)
      PROVE  TextsStay
  BY <1>1, <1>2, <1>3 DEF SeedDescription, RefineLicense, ApplyTexts, TextsStay, Source
<1>4. CASE UNCHANGED <<description, license>>
  BY <1>4 DEF TextsStay
<1> QED
  BY <1>3, <1>4, ZenonT(40)
  DEF Next, vars, appVars, RefineAsync, PassStep, Cancel, ListerStep, MakeApp, CheckIcons,
    AddIcons, MarkThemed, ScanMissing, PrefetchReplies, FillMissing, PrefetchLicenses, StepApp,
    RefineIcon, Lookup, FetchReplies, InsertFetched, ApplyIconUrl, AddRemoteIcon,
    CheckScreenshots, AddScreenshots

\* An entry of the enrichment table or of the icon-URL table is never replaced
\* nor removed, so the threads that lost a race to insert it agree with the one
\* that won.
THEOREM EntriesKept == Spec => FirstEntryWins
<1>1. IInv /\ [Next]_vars => [EntriesStay]_vars
  BY StepKeepsEntries DEF IInv
<1> QED
  BY <1>1, Inductive, PTL DEF Spec, FirstEntryWins, EntriesStay

\* No step replaces a text of an app by one from a worse source, in whatever
\* order the passes over it and the fields of one pass come.
THEOREM BestSourceWins == Spec => BetterSourceKept
<1> DEFINE Kept == \A a \in Apps :
                     /\ license[a] = "nix" => license'[a] = "nix"
                     /\ description[a] = "flathub" => description'[a] = "flathub"
<1>1. IInv /\ [Next]_vars => [Kept]_vars
  BY StepKeepsTexts DEF IInv, TextsStay
<1> QED
  BY <1>1, Inductive, PTL DEF Spec, BetterSourceKept

-------------------------------------------------------------------------------
(***************************************************************************)
(* What passes deliver.  Behind the cursor of a pass everything that was   *)
(* asked for and known is shown; at the cursor, what the steps taken so    *)
(* far have written.  What is shown stays: no step takes back a text, an   *)
(* icon or a screenshot (Grows), so the other passes and the listings      *)
(* cannot undo it.                                                         *)
(***************************************************************************)
Ours == {"package", "module", "plugin"}
Applying == {"texts", "urls", "remote", "screenshots", "attaching"}
Before == {"idle", "scanning", "prefetching", "filling", "licenses"}

Seeded(a) == a \in Summaries => description[a] # "none"
LicensedBy(a, found) == a \in found => license[a] = "nix"
TextsShown(a, fields) ==
  /\ "description" \in fields => description[a] = "flathub"
  /\ "license" \in fields => license[a] # "none"
IconShown(a, fields) == "icon" \in fields => icons[a] \cap {"theme", "remote"} # {}
ScreenshotsShown(a, fields) == "screenshots" \in fields => screenshots[a] > 0

Enriched(a) ==
  LET id == AppIdOf[a]
  IN  id # NoId =>
        /\ id \in DOMAIN enrichment
        /\ TextsShown(a, enrichment[id]) /\ IconShown(a, enrichment[id])
        /\ ScreenshotsShown(a, enrichment[id])

Delivered(r, a) ==
  KindOf[a] \in {"package", "module"} =>
    Seeded(a) /\ LicensedBy(a, r.licenses) /\ (Prefetches(r.flags) => Enriched(a))

DeliveryOK(r) ==
  LET a == r.list[r.i]
  IN  /\ \A k \in DOMAIN r.list : r.list[k] \in listed
      /\ \A k \in DOMAIN r.list : k < r.i => Delivered(r, r.list[k])
      /\ r.pc \in Before => r.i = 1
      /\ r.pc = "ok" /\ r.flags # {} => r.i > Len(r.list)
      /\ r.pc = "licenses" \/ r.licenses # {} => "LICENSE" \in r.flags
      /\ r.pc \notin Applying => r.obj = {}
      /\ r.pc \in {"license"} \cup Enriching => Seeded(a)
      /\ r.pc \in Enriching => LicensedBy(a, r.licenses)
      /\ r.pc \in Applying => AppIdOf[a] \in DOMAIN enrichment /\ r.obj = enrichment[AppIdOf[a]]
      /\ r.pc \in Applying \ {"texts"} => TextsShown(a, r.obj)
      /\ r.pc \in {"screenshots", "attaching"} => IconShown(a, r.obj)

DeliveriesOK == \A p \in Passes : DeliveryOK(pass[p])

\* Every app that was listed has an icon, and a mark of a themed icon is true.
IconsOK ==
  /\ \A a \in listed : KindOf[a] \in Ours => icons[a] # {}
  /\ \A a \in themed : "theme" \in icons[a]
  /\ \A l \in Listers : lister[l].pc = "marking" => "theme" \in icons[lister[l].app]
  /\ \A a \in Apps : description[a] # "nix"

\* What a step leaves as good as it was.
Grows ==
  /\ EntriesStay /\ TextsStay
  /\ \A a \in Apps : icons[a] \subseteq icons'[a]
  /\ \A a \in Apps : screenshots'[a] \in Nat /\ screenshots'[a] >= screenshots[a]
  /\ listed \subseteq listed'

LEMMA StepGrows == ASSUME RefineTypeOK, PassesOK, [Next]_vars PROVE Grows
<1> DEFINE More == /\ \A a \in Apps : icons[a] \subseteq icons'[a]
                   /\ \A a \in Apps : screenshots'[a] \in Nat /\ screenshots'[a] >= screenshots[a]
<1>1. icons \in [Apps -> SUBSET Level] /\ screenshots \in [Apps -> Nat]
  BY DEF RefineTypeOK
<1>2. ASSUME NEW p \in Passes, RefineIcon(p) \/ AddRemoteIcon(p) \/ AddScreenshots(p)
      PROVE  More /\ UNCHANGED listed
  BY <1>1, <1>2 DEF RefineIcon, AddRemoteIcon, AddScreenshots
<1>3. ASSUME NEW l \in Listers, ListerStep(l)
      PROVE  More /\ listed \subseteq listed'
  BY <1>1, <1>3 DEF ListerStep, MakeApp, CheckIcons, AddIcons, MarkThemed, ListRow, appVars
<1>4. UNCHANGED <<icons, screenshots>> => More
  BY <1>1
<1> HIDE DEF More
<1>5. More /\ listed \subseteq listed'
  BY <1>2, <1>3, <1>4
  DEF Next, vars, appVars, RefineAsync, PassStep, Cancel, ScanMissing, PrefetchReplies,
    FillMissing, PrefetchLicenses, StepApp, SeedDescription, RefineLicense, Lookup, FetchReplies,
    InsertFetched, ApplyTexts, ApplyIconUrl, CheckScreenshots
<1> QED
  BY <1>5, StepKeepsEntries, StepKeepsTexts DEF Grows, More

\* A pass that does not move keeps what it has delivered.
LEMMA DeliveryStays ==
  ASSUME RefineTypeOK, Grows, NEW r \in PassRecord, CursorOK(r), DeliveryOK(r)
  PROVE  DeliveryOK(r)'
<1>1. /\ \A k \in DOMAIN r.list : r.list[k] \in Apps
      /\ r.pc \in PerApp => r.list[r.i] \in Apps
  BY DEF PassRecord, CursorOK
<1>2. /\ \A a \in Apps : Seeded(a) => Seeded(a)'
      /\ \A a \in Apps : \A s : LicensedBy(a, s) => LicensedBy(a, s)'
      /\ \A a \in Apps : \A s :
           /\ TextsShown(a, s) => TextsShown(a, s)'
           /\ IconShown(a, s) => IconShown(a, s)'
           /\ ScreenshotsShown(a, s) => ScreenshotsShown(a, s)'
  <2>1. TextsStay => \A a \in Apps : \A s :
          /\ Seeded(a) => Seeded(a)'
          /\ LicensedBy(a, s) => LicensedBy(a, s)'
          /\ TextsShown(a, s) => TextsShown(a, s)'
    BY DEF TextsStay, Seeded, LicensedBy, TextsShown
  <2>2. \A a \in Apps : \A s : IconShown(a, s) => IconShown(a, s)'
    BY DEF Grows, IconShown
  <2>3. \A a \in Apps : \A s : ScreenshotsShown(a, s) => ScreenshotsShown(a, s)'
    BY DEF Grows, ScreenshotsShown, RefineTypeOK
  <2> QED
    BY <2>1, <2>2, <2>3 DEF Grows
<1>3. \A id \in DOMAIN enrichment :
        /\ enrichment[id] \in SUBSET Field
        /\ id \in DOMAIN enrichment' /\ enrichment'[id] = enrichment[id]
  BY DEF Grows, EntriesStay, RefineTypeOK, EnrichmentTypeOK
<1>4. \A a \in Apps : Enriched(a) => Enriched(a)'
  BY <1>2, <1>3 DEF Enriched
<1>5. \A a \in Apps : Delivered(r, a) => Delivered(r, a)'
  BY <1>2, <1>4 DEF Delivered, PassRecord
<1> QED
  BY <1>1, <1>2, <1>3, <1>5 DEF DeliveryOK, PassRecord, Grows, PerApp, Enriching, Applying

\* From one step to the next for the same app.
LEMMA Carried ==
  ASSUME NEW r \in PassRecord, NEW label \in PerApp, DeliveryOK(r)',
         label \in Applying <=> r.pc \in Applying,
         label \in {"license"} \cup Enriching => Seeded(r.list[r.i])',
         label \in Enriching => LicensedBy(r.list[r.i], r.licenses)',
         label \in Applying \ {"texts"} => TextsShown(r.list[r.i], r.obj)',
         label \in {"screenshots", "attaching"} => IconShown(r.list[r.i], r.obj)'
  PROVE  DeliveryOK([r EXCEPT !.pc = label])'
<1> DEFINE s == [r EXCEPT !.pc = label]
<1>1. /\ s.list = r.list /\ s.i = r.i /\ s.flags = r.flags /\ s.licenses = r.licenses
      /\ s.obj = r.obj /\ s.pc = label
  BY DEF PassRecord
<1>2. label \notin Before \cup {"ok"}
  BY DEF PerApp, Enriching, Before
<1>3. \A a : Delivered(s, a)' <=> Delivered(r, a)'
  BY <1>1 DEF Delivered
<1> HIDE DEF s
<1>4. DeliveryOK(s)'
  BY <1>1, <1>2, <1>3 DEF DeliveryOK, Before
<1> QED
  BY <1>4 DEF s

\* The cursor leaves an app that was given what there is.
LEMMA Advanced ==
  ASSUME NEW r \in PassRecord, r.pc \in PerApp \cup {"apps"}, DeliveryOK(r)',
         Delivered(r, r.list[r.i])'
  PROVE  DeliveryOK(Next1(r))'
<1> DEFINE s == Next1(r)
<1>1. /\ s.list = r.list /\ s.i = r.i + 1 /\ s.flags = r.flags /\ s.licenses = r.licenses
      /\ s.obj = {} /\ s.pc = "apps"
  BY DEF Next1, PassRecord
<1>2. r.i \in Nat /\ \A k \in DOMAIN r.list : k \in Nat
  BY DEF PassRecord
<1>3. \A a : Delivered(s, a)' <=> Delivered(r, a)'
  BY <1>1 DEF Delivered
<1> HIDE DEF s
<1>4. \A k \in DOMAIN s.list : k < s.i => Delivered(s, s.list[k])'
  <2> SUFFICES ASSUME NEW k \in DOMAIN r.list, k < r.i + 1 PROVE Delivered(r, r.list[k])'
    BY <1>1, <1>3
  <2>1. k < r.i \/ k = r.i
    BY <1>2
  <2> QED
    BY <2>1 DEF DeliveryOK
<1>5. DeliveryOK(s)'
  BY <1>1, <1>4 DEF DeliveryOK, Applying, Before, Enriching
<1> QED
  BY <1>5 DEF s

\* A pass that is not at an app yet, or was asked for nothing.
LEMMA NothingYet ==
  ASSUME NEW r \in PassRecord, r.i = 1, r.obj = {},
         r.pc \in Before \cup {"apps", "ok", "cancelled"}, r.pc = "ok" => r.flags = {},
         r.pc = "licenses" \/ r.licenses # {} => "LICENSE" \in r.flags,
         \A k \in DOMAIN r.list : r.list[k] \in listed'
  PROVE  DeliveryOK(r)'
<1>1. \A k \in DOMAIN r.list : ~(k < r.i)
  BY DEF PassRecord
<1> QED
  BY <1>1 DEF DeliveryOK, Applying, Before, Enriching

PassDelivered(p) ==
  \E r \in PassRecord : pass' = [pass EXCEPT ![p] = r] /\ DeliveryOK(r)'

LEMMA PrefetchDelivers ==
  ASSUME RefineTypeOK, PassesOK, NEW p \in Passes, NEW r \in PassRecord, r = pass[p],
         Grows, DeliveryOK(r)',
         RefineAsync(p) \/ ScanMissing(p) \/ PrefetchReplies(p) \/ FillMissing(p)
           \/ PrefetchLicenses(p)
  PROVE  PassDelivered(p)
<1>1. \A flags, list : /\ AfterEnrichment(flags, list) \in {"licenses", "apps"}
                       /\ AfterEnrichment(flags, list) = "licenses" => "LICENSE" \in flags
  BY DEF AfterEnrichment, DetailsPage
<1>2. "licenses" \in PassPC /\ "apps" \in PassPC /\ "prefetching" \in PassPC /\ "filling" \in PassPC
  BY DEF PassPC
<1>3. CASE RefineAsync(p)
  <2>1. PICK job \in Jobs[p] :
          /\ \A k \in DOMAIN job.list : job.list[k] \in listed
          /\ pass' = [pass EXCEPT ![p] =
               [NoPass EXCEPT !.flags = job.flags, !.list = job.list,
                  !.pc = IF job.flags = {} THEN Report(p)
                         ELSE IF Prefetches(job.flags) THEN "scanning"
                         ELSE AfterEnrichment(job.flags, job.list)]]
    BY <1>3 DEF RefineAsync
  <2>2. job \in Request
    BY RefineAssumption DEF RefineAssumption
  <2> DEFINE at == IF job.flags = {} THEN Report(p)
                   ELSE IF Prefetches(job.flags) THEN "scanning"
                   ELSE AfterEnrichment(job.flags, job.list)
             s == [NoPass EXCEPT !.flags = job.flags, !.list = job.list, !.pc = at]
  <2>3. /\ at \in {"ok", "cancelled", "scanning", "licenses", "apps"}
        /\ at = "ok" => job.flags = {}
        /\ at = "licenses" => "LICENSE" \in job.flags
    BY <1>1 DEF Report
  <2>4. /\ s \in PassRecord /\ s.pc = at /\ s.flags = job.flags /\ s.list = job.list
        /\ s.i = 1 /\ s.obj = {} /\ s.licenses = {}
    <3>1. NoPass \in PassRecord /\ NoPass.i = 1 /\ NoPass.obj = {} /\ NoPass.licenses = {}
      BY ReplyTyped DEF NoPass, PassRecord, PassPC
    <3>2. at \in PassPC
      BY <2>3 DEF PassPC
    <3> HIDE DEF at
    <3> QED
      BY <2>2, <3>1, <3>2 DEF PassRecord, Request
  <2>5. PICK moved \in PassRecord :
          /\ pass' = [pass EXCEPT ![p] = moved]
          /\ moved.pc = at /\ moved.flags = job.flags /\ moved.list = job.list
          /\ moved.i = 1 /\ moved.obj = {} /\ moved.licenses = {}
    BY <2>1, <2>4
  <2>6. \A k \in DOMAIN moved.list : moved.list[k] \in listed'
    BY <2>1, <2>5 DEF Grows
  <2> HIDE DEF at
  <2>7. DeliveryOK(moved)'
    BY <2>3, <2>5, <2>6, NothingYet DEF Before
  <2> QED
    BY <2>5, <2>7 DEF PassDelivered
<1>4. CASE ScanMissing(p) \/ PrefetchReplies(p) \/ FillMissing(p) \/ PrefetchLicenses(p)
  <2>1. /\ r.pc \in Before /\ r.i = 1 /\ r.obj = {}
        /\ \A k \in DOMAIN r.list : r.list[k] \in listed'
        /\ r.pc = "licenses" \/ r.licenses # {} => "LICENSE" \in r.flags
    BY <1>4 DEF ScanMissing, PrefetchReplies, FillMissing, PrefetchLicenses, At, Before, Applying,
      DeliveryOK
  <2>2. IdsOf(r.list) \subseteq AppIds /\ PackagesOf(r.list) \subseteq Apps
    BY IdsTyped DEF PassRecord
  <2>3. \E at \in {"licenses", "apps", "prefetching", "filling"}, reply \in Reply,
           licenses \in SUBSET Apps :
          /\ pass' = [pass EXCEPT ![p] =
               [r EXCEPT !.reply = reply, !.licenses = licenses, !.pc = at]]
          /\ at = "licenses" \/ licenses # {} => "LICENSE" \in r.flags
    <3>1. r.licenses \in SUBSET Apps /\ r.reply \in Reply
      BY DEF PassRecord
    <3>2. CASE ScanMissing(p)
      <4> DEFINE missing == Missing(IdsOf(r.list))
                 at == IF missing = {} THEN AfterEnrichment(r.flags, r.list) ELSE "prefetching"
      <4>1. [id \in missing |-> {}] \in Reply
        BY <2>2, ReplyTyped DEF Missing
      <4>2. pass' = [pass EXCEPT ![p] =
              [r EXCEPT !.reply = [id \in missing |-> {}], !.licenses = r.licenses, !.pc = at]]
        BY <3>2 DEF ScanMissing, Flags, PassRecord
      <4>3. at \in {"licenses", "apps", "prefetching"} /\ (at = "licenses" => "LICENSE" \in r.flags)
        BY <1>1
      <4> HIDE DEF missing, at
      <4> QED
        BY <2>1, <3>1, <4>1, <4>2, <4>3
    <3>3. CASE PrefetchReplies(p)
      <4>1. DOMAIN r.reply \in SUBSET AppIds
        BY <3>1, ReplyTyped
      <4>2. PICK reply \in EnrichmentReplies(DOMAIN r.reply) :
              pass' = [pass EXCEPT ![p] = [@ EXCEPT !.reply = reply, !.pc = "filling"]]
        BY <3>3 DEF PrefetchReplies
      <4>3. reply \in Reply
        BY <4>1, RepliesTyped
      <4>4. pass' = [pass EXCEPT ![p] =
              [r EXCEPT !.reply = reply, !.licenses = r.licenses, !.pc = "filling"]]
        BY <4>2 DEF PassRecord
      <4> QED
        BY <2>1, <3>1, <4>3, <4>4
    <3>4. CASE FillMissing(p)
      <4>1. pass' = [pass EXCEPT ![p] =
              [r EXCEPT !.reply = NoReply, !.licenses = r.licenses,
                        !.pc = AfterEnrichment(r.flags, r.list)]]
        BY <3>4 DEF FillMissing, Flags, PassRecord
      <4> QED
        BY <1>1, <2>1, <3>1, <4>1, ReplyTyped
    <3>5. CASE PrefetchLicenses(p)
      <4>1. PICK found \in {PackagesOf(r.list) \cap Licensed, {}} :
              pass' = [pass EXCEPT ![p] = [@ EXCEPT !.licenses = found, !.pc = "apps"]]
        BY <3>5 DEF PrefetchLicenses
      <4>2. pass' = [pass EXCEPT ![p] =
              [r EXCEPT !.reply = r.reply, !.licenses = found, !.pc = "apps"]]
        BY <4>1 DEF PassRecord
      <4>3. found \in SUBSET Apps /\ "LICENSE" \in r.flags
        BY <2>1, <2>2, <3>5 DEF PrefetchLicenses, At
      <4> QED
        BY <3>1, <4>2, <4>3
    <3> QED
      BY <1>4, <3>2, <3>3, <3>4, <3>5
  <2>4. PICK at \in {"licenses", "apps", "prefetching", "filling"}, reply \in Reply,
             licenses \in SUBSET Apps :
          /\ pass' = [pass EXCEPT ![p] =
               [r EXCEPT !.reply = reply, !.licenses = licenses, !.pc = at]]
          /\ at = "licenses" \/ licenses # {} => "LICENSE" \in r.flags
    BY <2>3
  <2> DEFINE s == [r EXCEPT !.reply = reply, !.licenses = licenses, !.pc = at]
  <2>5. /\ s \in PassRecord /\ s.pc = at /\ s.flags = r.flags /\ s.list = r.list
        /\ s.i = r.i /\ s.obj = r.obj /\ s.licenses = licenses
    BY <1>2 DEF PassRecord
  <2>6. DeliveryOK(s)'
    <3> HIDE DEF s
    <3> QED
      BY <2>1, <2>4, <2>5, NothingYet DEF Before
  <2> QED
    BY <2>4, <2>5, <2>6 DEF PassDelivered
<1> QED
  BY <1>3, <1>4

\* The steps of a pass for one app up to its licence.
LEMMA AppStepDelivers ==
  ASSUME RefineTypeOK, PassesOK, IconsOK, NEW p \in Passes, NEW r \in PassRecord, r = pass[p],
         Grows, DeliveryOK(r)',
         StepApp(p) \/ RefineIcon(p) \/ SeedDescription(p) \/ RefineLicense(p)
  PROVE  PassDelivered(p)
<1> DEFINE a == r.list[r.i]
<1>1. CursorOK(r) /\ (r.pc \in PerApp => a \in Apps)
  BY DEF PassesOK, CursorOK, PassRecord
<1>2. \A label \in PerApp \cup {"ok", "cancelled"} :
        label \in PassPC /\ [r EXCEPT !.pc = label] \in PassRecord
  BY DEF PassRecord, PassPC, PerApp, Enriching
<1>3. Next1(r) \in PassRecord
  BY NextTyped
<1>4. description \in [Apps -> Source] /\ license \in [Apps -> Source]
  BY DEF RefineTypeOK
<1>5. CASE StepApp(p)
  <2>1. r.pc = "apps"
    BY <1>5 DEF StepApp, At
  <2>2. CASE KindOf[a] \in {"other", "update"} /\ NextApp(p)
    <3>1. DeliveryOK(Next1(r))'
      BY <2>1, <2>2, Advanced DEF Delivered
    <3> QED
      BY <1>3, <2>2, <3>1 DEF NextApp, PassDelivered
  <2>3. CASE Goto(p, "icon")
    <3>1. DeliveryOK([r EXCEPT !.pc = "icon"])'
      BY <2>1, Carried DEF PerApp, Enriching, Applying
    <3> QED
      BY <1>2, <2>3, <3>1 DEF Goto, PassDelivered, PerApp
  <2>4. ASSUME NEW label \in {"ok", "cancelled"}, Goto(p, label),
               label = "ok" => r.i > Len(r.list)
        PROVE  PassDelivered(p)
    <3> DEFINE s == [r EXCEPT !.pc = label]
    <3>1. /\ s \in PassRecord /\ s.list = r.list /\ s.i = r.i /\ s.flags = r.flags
          /\ s.licenses = r.licenses /\ s.obj = r.obj /\ s.pc = label
      BY <1>2 DEF PassRecord
    <3>2. \A b : Delivered(s, b)' <=> Delivered(r, b)'
      BY <3>1 DEF Delivered
    <3>3. DeliveryOK(s)'
      <4> HIDE DEF s
      <4> QED
        BY <2>1, <2>4, <3>1, <3>2 DEF DeliveryOK, Applying, Before, Enriching
    <3> QED
      BY <2>4, <3>1, <3>3 DEF Goto, PassDelivered
  <2> QED
    BY <1>5, <2>2, <2>3, <2>4 DEF StepApp, Report, App
<1>6. CASE RefineIcon(p)
  <2>1. r.pc = "icon"
    BY <1>6 DEF RefineIcon, At
  <2>2. CASE KindOf[a] = "plugin" /\ NextApp(p)
    <3>1. DeliveryOK(Next1(r))'
      BY <2>1, <2>2, Advanced DEF Delivered, PerApp
    <3> QED
      BY <1>3, <2>2, <3>1 DEF NextApp, PassDelivered
  <2>3. CASE Goto(p, "seed")
    <3>1. DeliveryOK([r EXCEPT !.pc = "seed"])'
      BY <2>1, Carried DEF PerApp, Enriching, Applying
    <3> QED
      BY <1>2, <2>3, <3>1 DEF Goto, PassDelivered, PerApp
  <2> QED
    BY <1>6, <2>2, <2>3 DEF RefineIcon, App
<1>7. CASE SeedDescription(p)
  <2>1. r.pc = "seed" /\ a \in Apps
    BY <1>1, <1>7 DEF SeedDescription, At, PerApp
  <2>2. \A old \in Source : Improved(old, "summary") # "none"
    BY DEF Improved, Quality, Source
  <2>3. Seeded(a)'
    BY <1>4, <1>7, <2>1, <2>2 DEF SeedDescription, App, Seeded
  <2>4. DeliveryOK([r EXCEPT !.pc = "license"])'
    BY <2>1, <2>3, Carried DEF PerApp, Enriching, Applying
  <2> QED
    BY <1>2, <1>7, <2>4 DEF SeedDescription, Goto, PassDelivered, PerApp
<1>8. CASE RefineLicense(p)
  <2>1. r.pc = "license" /\ a \in Apps
    BY <1>1, <1>8 DEF RefineLicense, At, PerApp
  <2>2. Seeded(a)'
    BY <2>1 DEF DeliveryOK
  <2>3. Improved(license[a], "nix") = "nix"
    BY <1>4, <2>1 DEF Improved, Quality, Source
  <2>4. LicensedBy(a, r.licenses)'
    <3> SUFFICES ASSUME a \in r.licenses PROVE license'[a] = "nix"
      BY DEF LicensedBy
    <3>1. LicenseSet(p)
      BY DEF DeliveryOK, LicenseSet, App, Flags
    <3> QED
      BY <1>4, <1>8, <2>1, <2>3, <3>1 DEF RefineLicense, App
  <2>5. CASE Goto(p, "lookup")
    <3>1. DeliveryOK([r EXCEPT !.pc = "lookup"])'
      BY <2>1, <2>2, <2>4, Carried DEF PerApp, Enriching, Applying
    <3> QED
      BY <1>2, <2>5, <3>1 DEF Goto, PassDelivered, PerApp, Enriching
  <2>6. CASE NextApp(p) /\ ~(WantEnrichment(p) /\ AppIdOf[App(p)] # NoId)
    <3>1. Prefetches(r.flags) => AppIdOf[a] = NoId
      BY <2>6 DEF WantEnrichment, Prefetches, Flags, App
    <3>2. (Prefetches(r.flags) => Enriched(a))'
      BY <3>1 DEF Enriched
    <3>3. DeliveryOK(Next1(r))'
      BY <2>1, <2>2, <2>4, <3>2, Advanced DEF Delivered, PerApp
    <3> QED
      BY <1>3, <2>6, <3>3 DEF NextApp, PassDelivered
  <2> QED
    BY <1>8, <2>5, <2>6 DEF RefineLicense
<1> QED
  BY <1>5, <1>6, <1>7, <1>8

\* What the table has of the app, and that it may have nothing.
LEMMA FetchDelivers ==
  ASSUME RefineTypeOK, PassesOK, NEW p \in Passes, NEW r \in PassRecord, r = pass[p],
         Grows, DeliveryOK(r)',
         Lookup(p) \/ FetchReplies(p) \/ InsertFetched(p)
  PROVE  PassDelivered(p)
<1> DEFINE a == r.list[r.i]
           id == AppIdOf[a]
<1>1. /\ r.pc \in {"lookup", "fetching", "inserting"}
      /\ r.pc \in PerApp \cap Enriching /\ r.pc \notin Applying
  BY DEF Lookup, FetchReplies, InsertFetched, At, PerApp, Enriching, Applying
<1>2. Seeded(a)' /\ LicensedBy(a, r.licenses)'
  BY <1>1 DEF DeliveryOK
<1>3. ASSUME id \in DOMAIN enrichment', enrichment'[id] \in SUBSET Field,
             Got(p, enrichment'[id])
      PROVE  PassDelivered(p)
  <2>1. CASE enrichment'[id] = {}
    <3>1. Enriched(a)'
      BY <1>3, <2>1 DEF Enriched, TextsShown, IconShown, ScreenshotsShown
    <3>2. DeliveryOK(Next1(r))'
      BY <1>1, <1>2, <3>1, Advanced DEF Delivered
    <3> QED
      BY <1>3, <2>1, <3>2, NextTyped DEF Got, PassDelivered
  <2>2. CASE enrichment'[id] # {}
    <3>1. PICK payload \in SUBSET Field : payload = enrichment'[id]
      BY <1>3
    <3> DEFINE s == [r EXCEPT !.obj = payload, !.reply = NoReply, !.pc = "texts"]
    <3>2. "texts" \in PassPC
      BY DEF PassPC
    <3>3. /\ s \in PassRecord /\ s.list = r.list /\ s.i = r.i /\ s.flags = r.flags
          /\ s.licenses = r.licenses /\ s.obj = payload /\ s.pc = "texts"
      BY <3>2, ReplyTyped DEF PassRecord
    <3>4. \A b : Delivered(s, b)' <=> Delivered(r, b)'
      BY <3>3 DEF Delivered
    <3>5. DeliveryOK(s)'
      <4> HIDE DEF s
      <4> QED
        BY <1>1, <1>2, <1>3, <3>1, <3>3, <3>4 DEF DeliveryOK, Before, Enriching, Applying
    <3> QED
      BY <1>3, <2>2, <3>1, <3>3, <3>5 DEF Got, PassDelivered
  <2> QED
    BY <2>1, <2>2
<1>4. EnrichmentTypeOK'
  BY FetchMoves
<1>5. CASE Lookup(p)
  <2>1. CASE id \in DOMAIN enrichment
    <3>1. UNCHANGED enrichment /\ Got(p, enrichment[id])
      BY <1>5, <2>1 DEF Lookup, App
    <3>2. enrichment'[id] \in SUBSET Field
      BY <1>4, <2>1, <3>1 DEF EnrichmentTypeOK
    <3> QED
      BY <1>3, <2>1, <3>1, <3>2
  <2>2. CASE id \notin DOMAIN enrichment
    <3>1. Goto(p, "fetching")
      BY <1>5, <2>2 DEF Lookup, App
    <3>2. [r EXCEPT !.pc = "fetching"] \in PassRecord
      BY RecordMoved DEF PassPC
    <3>3. DeliveryOK([r EXCEPT !.pc = "fetching"])'
      BY <1>1, <1>2, Carried DEF PerApp, Enriching, Applying
    <3> QED
      BY <3>1, <3>2, <3>3 DEF Goto, PassDelivered
  <2> QED
    BY <2>1, <2>2
<1>6. CASE FetchReplies(p)
  <2>1. id \in AppIds
    BY <1>1, AppTyped DEF App, PerApp, Enriching
  <2>2. PICK reply \in EnrichmentReplies({id}) :
          pass' = [pass EXCEPT ![p] = [@ EXCEPT !.reply = reply, !.pc = "inserting"]]
    BY <1>6 DEF FetchReplies, App
  <2>3. reply \in Reply
    BY <2>1, RepliesTyped
  <2> DEFINE s == [r EXCEPT !.reply = reply, !.pc = "inserting"]
  <2>4. "inserting" \in PassPC
    BY DEF PassPC
  <2>5. /\ s \in PassRecord /\ s.list = r.list /\ s.i = r.i /\ s.flags = r.flags
        /\ s.licenses = r.licenses /\ s.obj = r.obj /\ s.pc = "inserting"
    BY <2>3, <2>4 DEF PassRecord
  <2>6. \A b : Delivered(s, b)' <=> Delivered(r, b)'
    BY <2>5 DEF Delivered
  <2>7. DeliveryOK(s)'
    <3> HIDE DEF s
    <3> QED
      BY <1>1, <1>2, <2>5, <2>6 DEF DeliveryOK, Before, Enriching, Applying
  <2> QED
    BY <2>2, <2>5, <2>7 DEF PassDelivered
<1>7. CASE InsertFetched(p)
  <2>1. DOMAIN enrichment' = DOMAIN enrichment \cup DOMAIN r.reply
    BY <1>7, FillTyped DEF InsertFetched, RefineTypeOK, PassRecord
  <2>2. id \in DOMAIN enrichment'
    BY <1>7, <2>1 DEF InsertFetched, At, PassesOK, CursorOK
  <2>3. enrichment'[id] \in SUBSET Field
    BY <1>4, <2>2 DEF EnrichmentTypeOK
  <2> QED
    BY <1>3, <1>7, <2>2, <2>3 DEF InsertFetched, App
<1> QED
  BY <1>5, <1>6, <1>7

\* refine_from_enrichment().
LEMMA ApplyDelivers ==
  ASSUME RefineTypeOK, PassesOK, IconsOK, NEW p \in Passes, NEW r \in PassRecord, r = pass[p],
         Grows, DeliveryOK(r)',
         ApplyTexts(p) \/ ApplyIconUrl(p) \/ AddRemoteIcon(p) \/ CheckScreenshots(p)
           \/ AddScreenshots(p)
  PROVE  PassDelivered(p)
<1> DEFINE a == r.list[r.i]
<1>1. r.pc \in Applying /\ r.pc \in PerApp \cap Enriching
  BY DEF ApplyTexts, ApplyIconUrl, AddRemoteIcon, CheckScreenshots, AddScreenshots, At, Applying,
    PerApp, Enriching
<1>2. a \in Apps
  BY <1>1, AppTyped DEF App
<1>3. /\ Seeded(a)' /\ LicensedBy(a, r.licenses)'
      /\ r.obj = enrichment'[AppIdOf[a]] /\ AppIdOf[a] \in DOMAIN enrichment'
  BY <1>1 DEF DeliveryOK
<1>4. /\ description \in [Apps -> Source] /\ license \in [Apps -> Source]
      /\ icons \in [Apps -> SUBSET Level] /\ screenshots \in [Apps -> Nat]
  BY DEF RefineTypeOK
<1>5. ASSUME NEW label \in Applying \ {"texts"}, Goto(p, label), TextsShown(a, r.obj)',
             label \in {"screenshots", "attaching"} => IconShown(a, r.obj)'
      PROVE  PassDelivered(p)
  <2>1. label \in PassPC /\ label \in PerApp
    BY DEF PassPC, PerApp, Enriching, Applying
  <2>2. DeliveryOK([r EXCEPT !.pc = label])'
    BY <1>1, <1>3, <1>5, <2>1, Carried
  <2> QED
    BY <1>5, <2>1, <2>2, RecordMoved DEF Goto, PassDelivered
<1>6. ASSUME NextApp(p), TextsShown(a, r.obj)', IconShown(a, r.obj)', ScreenshotsShown(a, r.obj)'
      PROVE  PassDelivered(p)
  <2>1. Delivered(r, a)'
    BY <1>3, <1>6 DEF Delivered, Enriched
  <2>2. DeliveryOK(Next1(r))'
    BY <1>1, <2>1, Advanced
  <2> QED
    BY <1>6, <2>2, NextTyped DEF NextApp, PassDelivered
<1>7. CASE ApplyTexts(p)
  <2>1. /\ \A old \in Source : Improved(old, "flathub") # "none"
        /\ \A old \in Source \ {"nix"} : Improved(old, "flathub") = "flathub"
    BY DEF Improved, Quality, Source
  <2>2. "description" \in r.obj => description'[a] = "flathub"
    BY <1>2, <1>4, <1>7, <2>1 DEF ApplyTexts, App, IconsOK
  <2>3. "license" \in r.obj => license'[a] # "none"
    <3>1. CASE LicenseSet(p)
      BY <1>3, <3>1 DEF LicenseSet, App, LicensedBy
    <3>2. CASE ~LicenseSet(p)
      BY <1>2, <1>4, <1>7, <2>1, <3>2 DEF ApplyTexts, App
    <3> QED
      BY <3>1, <3>2
  <2>4. TextsShown(a, r.obj)'
    BY <2>2, <2>3 DEF TextsShown
  <2>5. CASE "icon" \in r.obj /\ Goto(p, "urls")
    BY <1>5, <2>4, <2>5 DEF Applying
  <2>6. CASE "icon" \notin r.obj /\ Goto(p, "screenshots")
    <3>1. IconShown(a, r.obj)'
      BY <2>6 DEF IconShown
    <3> QED
      BY <1>5, <2>4, <2>6, <3>1 DEF Applying
  <2> QED
    BY <1>7, <2>5, <2>6 DEF ApplyTexts
<1>8. CASE ApplyIconUrl(p)
  <2>1. TextsShown(a, r.obj)'
    BY <1>1, <1>8 DEF DeliveryOK, ApplyIconUrl, At
  <2>2. CASE a \in themed /\ Goto(p, "screenshots")
    <3>1. "theme" \in icons'[a]
      BY <1>2, <2>2 DEF IconsOK, Grows
    <3>2. IconShown(a, r.obj)'
      BY <3>1 DEF IconShown
    <3> QED
      BY <1>5, <2>1, <2>2, <3>2 DEF Applying
  <2>3. CASE Goto(p, "remote")
    BY <1>5, <2>1, <2>3 DEF Applying
  <2> QED
    BY <1>8, <2>2, <2>3 DEF ApplyIconUrl, App
<1>9. CASE AddRemoteIcon(p)
  <2>1. TextsShown(a, r.obj)'
    BY <1>1, <1>9 DEF DeliveryOK, AddRemoteIcon, At
  <2>2. "remote" \in icons'[a]
    BY <1>2, <1>4, <1>9 DEF AddRemoteIcon, App
  <2>3. IconShown(a, r.obj)'
    BY <2>2 DEF IconShown
  <2> QED
    BY <1>5, <1>9, <2>1, <2>3 DEF AddRemoteIcon, Applying
<1>10. CASE CheckScreenshots(p) \/ AddScreenshots(p)
  <2>1. TextsShown(a, r.obj)' /\ IconShown(a, r.obj)'
    BY <1>1, <1>10 DEF DeliveryOK, CheckScreenshots, AddScreenshots, At
  <2>2. CASE Goto(p, "attaching")
    BY <1>5, <2>1, <2>2 DEF Applying
  <2>3. CASE CheckScreenshots(p) /\ NextApp(p) /\ ~("screenshots" \in r.obj /\ screenshots[a] = 0)
    <3>1. ScreenshotsShown(a, r.obj)'
      BY <1>2, <1>4, <2>3 DEF CheckScreenshots, appVars, ScreenshotsShown
    <3> QED
      BY <1>6, <2>1, <2>3, <3>1
  <2>4. CASE AddScreenshots(p)
    <3>1. ScreenshotsShown(a, r.obj)'
      BY <1>2, <1>4, <2>4 DEF AddScreenshots, App, ScreenshotsShown
    <3> QED
      BY <1>6, <2>1, <2>4, <3>1 DEF AddScreenshots
  <2> QED
    BY <1>10, <2>2, <2>3, <2>4 DEF CheckScreenshots, App
<1> QED
  BY <1>7, <1>8, <1>9, <1>10

\* The icons: a listing returns a row that has one.
LEMMA StepKeepsIcons ==
  ASSUME RefineTypeOK, PassesOK, IconsOK, Grows, [Next]_vars
  PROVE  IconsOK'
<1> DEFINE Rows == \A a \in listed' : KindOf[a] \in Ours => icons'[a] # {}
           Marks == \A a \in themed' : "theme" \in icons'[a]
           Marking == \A l \in Listers :
                        lister'[l].pc = "marking" => "theme" \in icons'[lister'[l].app]
           Texts == \A a \in Apps : description'[a] # "nix"
<1>1. AppsTyped /\ ListersTyped
  BY DEF RefineTypeOK, AppsTyped, ListersTyped
<1>2. \A url \in BOOLEAN : \A found \in Resolved(url) : found # {}
  BY DEF Resolved
<1>3. \A a \in Apps : icons[a] \subseteq icons'[a]
  BY DEF Grows
<1>4. UNCHANGED listed => Rows
  BY <1>1, <1>3 DEF IconsOK, ListersTyped
<1>5. UNCHANGED themed => Marks
  BY <1>1, <1>3 DEF IconsOK, AppsTyped
<1>6. UNCHANGED lister => Marking
  BY <1>1, <1>3 DEF IconsOK, ListersTyped
<1>7. UNCHANGED description => Texts
  BY DEF IconsOK
<1>8. Texts
  <2>1. ASSUME NEW p \in Passes, SeedDescription(p) \/ ApplyTexts(p)
        PROVE  Texts
    BY <1>1, <2>1 DEF SeedDescription, ApplyTexts, Improved, IconsOK, AppsTyped
  <2> HIDE DEF Texts
  <2> QED
    BY <1>7, <2>1
    DEF Next, vars, appVars, RefineAsync, PassStep, Cancel, ListerStep, MakeApp, CheckIcons,
      AddIcons, MarkThemed, ScanMissing, PrefetchReplies, FillMissing, PrefetchLicenses, StepApp,
      RefineIcon, RefineLicense, Lookup, FetchReplies, InsertFetched, ApplyIconUrl, AddRemoteIcon,
      CheckScreenshots, AddScreenshots
<1>9. ASSUME NEW p \in Passes, RefineIcon(p)
      PROVE  Rows /\ Marks /\ Marking
  <2>1. App(p) \in Apps
    BY <1>9, AppTyped DEF RefineIcon, At, PerApp
  <2>2. Marks
    BY <1>1, <1>5, <1>9, <2>1 DEF RefineIcon, IconsOK, AppsTyped
  <2> QED
    BY <1>4, <1>6, <1>9, <2>2 DEF RefineIcon
<1>10. ASSUME NEW l \in Listers, ListerStep(l)
       PROVE  Rows /\ Marks /\ Marking
  <2>1. lister[l] \in [pc : ListerPC, app : Apps, url : BOOLEAN]
    BY <1>1 DEF ListersTyped
  <2> DEFINE b == lister[l].app
  <2>2. ASSUME ListRow(l), icons'[b] # {}
        PROVE  Rows /\ Marking
    <3>1. Rows
      BY <1>1, <1>3, <2>1, <2>2 DEF ListRow, IconsOK, ListersTyped
    <3>2. Marking
      BY <1>1, <1>3, <2>2 DEF ListRow, NoRow, IconsOK, ListersTyped
    <3> QED
      BY <3>1, <3>2
  <2>3. ASSUME NEW label \in ListerPC, GotoLister(l, label), UNCHANGED listed,
               label = "marking" => "theme" \in icons'[b]
        PROVE  Rows /\ Marking
    <3>1. Marking
      BY <1>1, <1>3, <2>1, <2>3 DEF GotoLister, IconsOK, ListersTyped
    <3> QED
      BY <1>4, <2>3, <3>1
  <2>4. ASSUME NEW a \in Apps, MakeApp(l, a)
        PROVE  Rows /\ Marks /\ Marking
    <3>1. Marking
      BY <1>1, <1>3, <2>4 DEF MakeApp, IconsOK, ListersTyped
    <3> QED
      BY <1>4, <1>5, <2>4, <3>1 DEF MakeApp, appVars
  <2>5. CASE CheckIcons(l)
    <3>1. UNCHANGED <<icons, themed>>
      BY <2>5 DEF CheckIcons, appVars
    <3>2. CASE icons[b] = {}
      BY <1>5, <2>3, <2>5, <3>1, <3>2 DEF CheckIcons, ListerPC
    <3>3. CASE icons[b] # {}
      BY <1>5, <2>2, <2>5, <3>1, <3>3 DEF CheckIcons
    <3> QED
      BY <3>2, <3>3
  <2>6. CASE AddIcons(l)
    <3>1. PICK found \in Resolved(lister[l].url) :
            /\ icons' = [icons EXCEPT ![b] = @ \cup found]
            /\ IF "theme" \in found /\ KindOf[b] # "plugin"
               THEN GotoLister(l, "marking") /\ UNCHANGED listed
               ELSE ListRow(l)
      BY <2>6 DEF AddIcons
    <3>2. found \subseteq icons'[b] /\ found # {}
      BY <1>1, <1>2, <2>1, <3>1 DEF AppsTyped
    <3>3. UNCHANGED themed
      BY <2>6 DEF AddIcons
    <3>4. CASE "theme" \in found /\ KindOf[b] # "plugin"
      BY <1>5, <2>3, <3>1, <3>2, <3>3, <3>4 DEF ListerPC
    <3>5. CASE ~("theme" \in found /\ KindOf[b] # "plugin")
      BY <1>5, <2>2, <3>1, <3>2, <3>3, <3>5
    <3> QED
      BY <3>4, <3>5
  <2>7. CASE MarkThemed(l)
    <3>1. "theme" \in icons'[b]
      BY <1>3, <2>1, <2>7 DEF MarkThemed, ListerAt, IconsOK
    <3>2. Marks
      BY <1>1, <1>3, <2>7, <3>1 DEF MarkThemed, IconsOK, AppsTyped
    <3> QED
      BY <2>2, <2>7, <3>1, <3>2 DEF MarkThemed
  <2> QED
    BY <1>10, <2>4, <2>5, <2>6, <2>7 DEF ListerStep
<1> HIDE DEF Rows, Marks, Marking, Texts
<1>11. Rows /\ Marks /\ Marking
  BY <1>4, <1>5, <1>6, <1>9, <1>10
  DEF Next, vars, appVars, RefineAsync, PassStep, Cancel, ScanMissing, PrefetchReplies,
    FillMissing, PrefetchLicenses, StepApp, SeedDescription, RefineLicense, Lookup, FetchReplies,
    InsertFetched, ApplyTexts, ApplyIconUrl, AddRemoteIcon, CheckScreenshots, AddScreenshots
<1> QED
  BY <1>8, <1>11 DEF IconsOK, Rows, Marks, Marking, Texts

LEMMA DeliveryInit == Init => DeliveriesOK /\ IconsOK
<1> SUFFICES ASSUME Init PROVE DeliveriesOK /\ IconsOK
  OBVIOUS
<1>1. DeliveryOK(NoPass)
  BY DEF NoPass, DeliveryOK, Before, Applying, Enriching
<1>2. IconsOK
  BY RefineAssumption DEF RefineAssumption, Init, IconsOK, Ours, NoRow
<1> QED
  BY <1>1, <1>2 DEF Init, DeliveriesOK

LEMMA DeliveryNext ==
  ASSUME RefineTypeOK, PassesOK, DeliveriesOK, IconsOK, [Next]_vars
  PROVE  DeliveriesOK' /\ IconsOK'
<1>1. Grows
  BY StepGrows
<1>2. IconsOK'
  BY <1>1, StepKeepsIcons
<1>3. ASSUME NEW q \in Passes
      PROVE  pass[q] \in PassRecord /\ (\A r \in PassRecord : r = pass[q] => DeliveryOK(r)')
  BY <1>1, DeliveryStays DEF RefineTypeOK, PassesOK, DeliveriesOK
<1>4. ASSUME NEW q \in Passes, pass'[q] = pass[q]
      PROVE  DeliveryOK(pass[q])'
  BY <1>3, <1>4
<1>5. ASSUME NEW p \in Passes, PassStep(p) \/ RefineAsync(p)
      PROVE  DeliveriesOK'
  <2>1. PICK r \in PassRecord : r = pass[p] /\ DeliveryOK(r)'
    BY <1>3
  <2>2. PassDelivered(p)
    BY <1>1, <1>5, <2>1, PrefetchDelivers, AppStepDelivers, FetchDelivers, ApplyDelivers DEF PassStep
  <2>3. PICK s \in PassRecord : pass' = [pass EXCEPT ![p] = s] /\ DeliveryOK(s)'
    BY <2>2 DEF PassDelivered
  <2>4. ASSUME NEW q \in Passes
        PROVE  DeliveryOK(pass[q])'
    <3>1. CASE q = p
      BY <2>3, <3>1 DEF RefineTypeOK
    <3>2. CASE q # p
      BY <1>4, <2>3, <3>2 DEF RefineTypeOK
    <3> QED
      BY <3>1, <3>2
  <2> QED
    BY <2>4 DEF DeliveriesOK
<1>6. UNCHANGED pass => DeliveriesOK'
  BY <1>4 DEF DeliveriesOK
<1> HIDE DEF DeliveriesOK
<1> QED
  BY <1>2, <1>5, <1>6
  DEF Next, vars, Cancel, ListerStep, MakeApp, CheckIcons, AddIcons, MarkThemed

LEMMA DeliveryInvariant == Spec => [](IInv /\ DeliveriesOK /\ IconsOK)
<1>1. IInv /\ DeliveriesOK /\ IconsOK /\ [Next]_vars => DeliveriesOK' /\ IconsOK'
  BY DeliveryNext DEF IInv
<1> QED
  BY <1>1, Inductive, DeliveryInit, PTL DEF Spec

\* What a pass shows of an app is what the table holds for its id, whoever
\* fetched it: two passes over the variants of one app cannot disagree.
THEOREM SameTextsShown == Spec => []PassesAgree
<1>1. IInv /\ DeliveriesOK => PassesAgree
  BY DEF DeliveriesOK, DeliveryOK, PassesAgree, App
<1> QED
  BY <1>1, DeliveryInvariant, PTL

\* A pass that reports success has given each package and module of its list
\* what was asked for and known, and neither the other passes nor the listings
\* over the same objects have taken any of it back.
THEOREM Delivers == Spec => []PassDelivers
<1>1. ASSUME RefineTypeOK, DeliveriesOK, IconsOK
      PROVE  PassDelivers
  <2> SUFFICES ASSUME NEW p \in Passes, pass[p].pc = "ok", Flags(p) # {},
                      NEW k \in DOMAIN pass[p].list,
                      KindOf[pass[p].list[k]] \in {"package", "module"}
               PROVE  LET a == pass[p].list[k]
                          id == AppIdOf[a]
                          known == IF id \in DOMAIN enrichment THEN enrichment[id] ELSE {}
                      IN  /\ a \in Summaries => description[a] # "none"
                          /\ icons[a] # {}
                          /\ a \in pass[p].licenses => license[a] = "nix"
                          /\ Prefetches(Flags(p)) /\ id # NoId =>
                               /\ id \in DOMAIN enrichment
                               /\ "description" \in known => description[a] = "flathub"
                               /\ "license" \in known => license[a] # "none"
                               /\ "screenshots" \in known => screenshots[a] > 0
                               /\ "icon" \in known => icons[a] \cap {"theme", "remote"} # {}
    BY DEF PassDelivers
  <2> DEFINE a == pass[p].list[k]
  <2>1. pass[p] \in PassRecord /\ DeliveryOK(pass[p])
    BY <1>1 DEF RefineTypeOK, DeliveriesOK
  <2>2. k < pass[p].i
    BY <2>1 DEF DeliveryOK, Flags, PassRecord
  <2>3. Delivered(pass[p], a) /\ a \in listed
    BY <2>1, <2>2 DEF DeliveryOK
  <2>4. icons[a] # {}
    BY <1>1, <2>3 DEF IconsOK, Ours
  <2> QED
    BY <2>3, <2>4
    DEF Delivered, Seeded, LicensedBy, Enriched, TextsShown, IconShown, ScreenshotsShown, Flags
<1> QED
  BY <1>1, DeliveryInvariant, PTL DEF IInv

-------------------------------------------------------------------------------
(***************************************************************************)
(* The one icon of an app.  The mark that it came from the theme is in     *)
(* time for the passes because an app is not in the result of a listing    *)
(* before it is marked, unless another listing makes the same row          *)
(* meanwhile: then it is early.                                            *)
(***************************************************************************)
Making(l, a) == lister[l].pc = "marking" /\ lister[l].app = a
Choosing(l, a) == lister[l].pc \in {"adding", "marking"} /\ lister[l].app = a

Alone ==
  /\ \A l \in Listers : lister[l].pc # "idle" => KindOf[lister[l].app] \in Ours
  /\ \A l \in Listers, a \in listed \ early : ~Choosing(l, a)
  /\ \A a \in Apps \ listed :
       /\ "remote" \notin icons[a]
       /\ icons[a] # {} => \E l \in Listers : Making(l, a)
  /\ \A a \in listed \ early : "theme" \in icons[a] => a \in themed \/ KindOf[a] = "plugin"
  /\ \A p \in Passes : pass[p].pc = "remote" /\ App(p) \notin early => "theme" \notin icons[App(p)]
  /\ ThemedIconAlone

\* Only the step that found the app unmarked goes on to the remote icon.
LEMMA RemoteFromUrls ==
  ASSUME RefineTypeOK, NEW p \in Passes, PassStep(p) \/ RefineAsync(p), pass'[p].pc = "remote"
  PROVE  ApplyIconUrl(p)
<1>1. pass[p] \in PassRecord /\ \A r : pass' = [pass EXCEPT ![p] = r] => pass'[p] = r
  BY DEF RefineTypeOK
<1>2. \A label : Goto(p, label) => pass'[p].pc = label
  BY <1>1 DEF Goto, PassRecord
<1>3. ~NextApp(p)
  BY <1>1, NextTyped DEF NextApp
<1>4. \A flags, list : AfterEnrichment(flags, list) \in {"licenses", "apps"}
  BY DEF AfterEnrichment
<1>5. CASE RefineAsync(p)
  <2>1. PICK job \in Jobs[p], at \in {Report(p), "scanning", "licenses", "apps"} :
          pass' = [pass EXCEPT ![p] =
            [NoPass EXCEPT !.flags = job.flags, !.list = job.list, !.pc = at]]
    BY <1>4, <1>5 DEF RefineAsync
  <2>2. pass'[p].pc = at
    BY <1>1, <2>1 DEF NoPass
  <2> QED
    BY <2>2 DEF Report
<1>6. CASE ScanMissing(p) \/ PrefetchReplies(p) \/ FillMissing(p) \/ PrefetchLicenses(p)
             \/ FetchReplies(p)
  <2>1. \A at, reply, licenses :
          /\ pass' = [pass EXCEPT ![p] = [pass[p] EXCEPT !.reply = reply, !.pc = at]]
               => pass'[p].pc = at
          /\ pass' = [pass EXCEPT ![p] = [pass[p] EXCEPT !.licenses = licenses, !.pc = at]]
               => pass'[p].pc = at
    BY <1>1 DEF PassRecord
  <2>2. ScanMissing(p) => pass'[p].pc \in {"licenses", "apps", "prefetching"}
    BY <1>4, <2>1 DEF ScanMissing
  <2>3. /\ PrefetchReplies(p) => pass'[p].pc = "filling"
        /\ FetchReplies(p) => pass'[p].pc = "inserting"
    BY <2>1 DEF PrefetchReplies, FetchReplies
  <2>4. FillMissing(p) => pass'[p].pc \in {"licenses", "apps"}
    BY <1>4, <2>1 DEF FillMissing
  <2>5. PrefetchLicenses(p) => pass'[p].pc = "apps"
    BY <2>1 DEF PrefetchLicenses
  <2> QED
    BY <1>6, <2>2, <2>3, <2>4, <2>5
<1>7. CASE Lookup(p) \/ InsertFetched(p)
  <2>1. ASSUME NEW payload, Got(p, payload)
        PROVE  FALSE
    <3>1. CASE payload = {}
      BY <1>1, <2>1, <3>1, NextTyped DEF Got
    <3>2. CASE payload # {}
      <4> DEFINE r == [pass[p] EXCEPT !.obj = payload, !.reply = NoReply, !.pc = "texts"]
      <4>1. pass' = [pass EXCEPT ![p] = r]
        BY <2>1, <3>2 DEF Got
      <4>2. r.pc = "texts"
        BY <1>1 DEF PassRecord
      <4>3. pass'[p] = r
        BY <4>1 DEF RefineTypeOK
      <4> QED
        BY <4>2, <4>3
    <3> QED
      BY <3>1, <3>2
  <2> QED
    BY <1>2, <1>7, <2>1 DEF Lookup, InsertFetched
<1> QED
  BY <1>2, <1>3, <1>5, <1>6, <1>7
  DEF PassStep, StepApp, Report, RefineIcon, SeedDescription, RefineLicense, ApplyTexts,
    AddRemoteIcon, CheckScreenshots, AddScreenshots

\* A pass works on apps that were listed, and these have an icon: refine_icon()
\* has nothing to add to a row one of our listings made.
LEMMA RefineIconIdle ==
  ASSUME RefineTypeOK, PassesOK, DeliveriesOK, IconsOK, NEW p \in Passes, RefineIcon(p)
  PROVE  UNCHANGED <<icons, themed>>
<1>1. pass[p] \in PassRecord /\ CursorOK(pass[p]) /\ DeliveryOK(pass[p])
  BY DEF RefineTypeOK, PassesOK, DeliveriesOK
<1>2. App(p) \in listed /\ App(p) \in Apps /\ KindOf[App(p)] \notin {"other", "update"}
  BY <1>1 DEF RefineIcon, At, CursorOK, PerApp, App, DeliveryOK, PassRecord
<1>3. KindOf[App(p)] \in Ours
  BY <1>2, RefineAssumption DEF RefineAssumption, Kind, Ours
<1> QED
  BY <1>2, <1>3 DEF RefineIcon, IconsOK

LEMMA AlonePass ==
  ASSUME RefineTypeOK, PassesOK, DeliveriesOK, IconsOK, Alone, NEW p \in Passes,
         PassStep(p) \/ RefineAsync(p), UNCHANGED early
  PROVE  Alone'
<1>1. UNCHANGED <<lister, listed>>
  BY DEF PassStep, RefineAsync, ScanMissing, PrefetchReplies, FillMissing, PrefetchLicenses,
    StepApp, RefineIcon, SeedDescription, RefineLicense, Lookup, FetchReplies, InsertFetched,
    ApplyTexts, ApplyIconUrl, AddRemoteIcon, CheckScreenshots, AddScreenshots
<1>2. icons \in [Apps -> SUBSET Level] /\ pass \in [Passes -> PassRecord]
  BY DEF RefineTypeOK
<1>3. \A q \in Passes \ {p} : pass'[q] = pass[q]
  <2>1. PICK r \in PassRecord : pass' = [pass EXCEPT ![p] = r]
    BY PassStepOK DEF PassMoved
  <2> QED
    BY <1>2, <2>1
<1>4. CASE AddRemoteIcon(p)
  <2>1. App(p) \in Apps /\ App(p) \in listed
    <3>1. App(p) \in Apps /\ pass[p].i \in DOMAIN pass[p].list
      BY <1>2, <1>4, AppTyped
      DEF AddRemoteIcon, At, PerApp, Enriching, PassesOK, CursorOK, PassRecord
    <3> QED
      BY <3>1 DEF DeliveriesOK, DeliveryOK, App
  <2>2. App(p) \notin early => "theme" \notin icons[App(p)]
    BY <1>4 DEF AddRemoteIcon, At, Alone
  <2>3. /\ icons' = [icons EXCEPT ![App(p)] = @ \cup {"remote"}]
        /\ UNCHANGED themed /\ pass'[p].pc # "remote"
    BY <1>2, <1>4 DEF AddRemoteIcon, Goto, PassRecord
  <2>4. /\ \A a \in Apps : "theme" \in icons'[a] => "theme" \in icons[a]
        /\ \A a \in Apps \ listed : icons'[a] = icons[a]
        /\ \A a \in Apps \ early : "theme" \in icons'[a] => icons'[a] = icons[a]
    BY <1>2, <2>1, <2>2, <2>3
  <2>5. \A q \in Passes : pass'[q].pc = "remote" /\ App(q)' \notin early' =>
                            "theme" \notin icons'[App(q)']
    <3> SUFFICES ASSUME NEW q \in Passes, pass'[q].pc = "remote", App(q)' \notin early
                 PROVE  "theme" \notin icons'[App(q)']
      OBVIOUS
    <3>1. App(q)' = App(q) /\ pass[q].pc = "remote"
      BY <1>3, <2>3 DEF App
    <3>2. App(q) \in Apps
      BY <3>1, AppTyped DEF PerApp, Enriching
    <3> QED
      BY <2>4, <3>1, <3>2 DEF Alone
  <2>6. \A a \in listed \ early : "theme" \in icons'[a] => a \in themed \/ KindOf[a] = "plugin"
    BY <2>4 DEF Alone, RefineTypeOK
  <2>7. ThemedIconAlone'
    BY <2>4 DEF Alone, ThemedIconAlone, IconAlone
  <2> QED
    BY <1>1, <2>3, <2>4, <2>5, <2>6, <2>7 DEF Alone, Making, Choosing
<1>5. CASE ~AddRemoteIcon(p)
  <2>1. UNCHANGED <<icons, themed>>
    BY <1>5, RefineIconIdle
    DEF PassStep, RefineAsync, appVars, ScanMissing, PrefetchReplies, FillMissing,
      PrefetchLicenses, StepApp, SeedDescription, RefineLicense, Lookup, FetchReplies,
      InsertFetched, ApplyTexts, ApplyIconUrl, CheckScreenshots, AddScreenshots
  <2>2. ASSUME NEW q \in Passes, pass'[q].pc = "remote", App(q)' \notin early
        PROVE  "theme" \notin icons'[App(q)']
    <3>1. CASE q # p
      BY <1>3, <2>1, <2>2, <3>1 DEF Alone, App
    <3>2. CASE q = p
      <4>1. ApplyIconUrl(p)
        BY <2>2, <3>2, RemoteFromUrls
      <4>2. App(p) \in Apps /\ KindOf[App(p)] # "plugin" /\ pass[p].i \in DOMAIN pass[p].list
        <5>1. pass[p] \in PassRecord /\ pass[p].pc = "urls"
          BY <1>2, <4>1 DEF ApplyIconUrl, At
        <5>2. CursorOK(pass[p])
          BY DEF PassesOK
        <5>3. App(p) \in Apps
          BY <5>1, AppTyped DEF PerApp, Enriching
        <5>4. pass[p].i \in 1 .. Len(pass[p].list) /\ KindOf[pass[p].list[pass[p].i]] # "plugin"
          BY <5>1, <5>2 DEF CursorOK, PerApp, Enriching
        <5>5. pass[p].list \in Seq(Apps)
          BY <5>1 DEF PassRecord
        <5> QED
          BY <5>3, <5>4, <5>5 DEF App
      <4>3. App(p)' = App(p) /\ App(p) \notin themed
        BY <1>2, <2>2, <3>2, <4>1 DEF ApplyIconUrl, Goto, App, PassRecord
      <4>4. App(p) \in listed
        BY <4>2 DEF DeliveriesOK, DeliveryOK, App
      <4> QED
        BY <2>1, <2>2, <3>2, <4>2, <4>3, <4>4 DEF Alone
    <3> QED
      BY <3>1, <3>2
  <2> QED
    BY <1>1, <2>1, <2>2 DEF Alone, Making, Choosing, ThemedIconAlone, IconAlone
<1> QED
  BY <1>4, <1>5

LEMMA AloneListing ==
  ASSUME RefineTypeOK, PassesOK, DeliveriesOK, IconsOK, Alone, NEW l \in Listers,
         ListerHistory(l)
  PROVE  Alone'
<1> DEFINE b == lister[l].app
<1>1. /\ lister \in [Listers -> [pc : ListerPC, app : Apps, url : BOOLEAN]]
      /\ icons \in [Apps -> SUBSET Level] /\ b \in Apps /\ NoRow.pc = "idle"
      /\ pass \in [Passes -> PassRecord]
  BY DEF RefineTypeOK, NoRow
<1>2. ListerStep(l) /\ early' = IF lister'[l].pc = "idle" /\ Contested(l)
                                THEN early \cup {b} ELSE early
  BY DEF ListerHistory
<1>3. UNCHANGED pass /\ \A m \in Listers \ {l} : lister'[m] = lister[m]
  <2>1. UNCHANGED pass
    BY <1>2 DEF ListerStep, MakeApp, CheckIcons, AddIcons, MarkThemed
  <2>2. PICK row : lister' = [lister EXCEPT ![l] = row]
    BY <1>2 DEF ListerStep, MakeApp, CheckIcons, AddIcons, MarkThemed, GotoLister, ListRow
  <2> QED
    BY <1>1, <2>1, <2>2
<1>4. /\ \A m \in Listers \ {l} : \A a : (Choosing(m, a)' <=> Choosing(m, a))
      /\ \A m \in Listers \ {l} : \A a : (Making(m, a)' <=> Making(m, a))
      /\ \A m \in Listers \ {l} : lister'[m].pc # "idle" => KindOf[lister'[m].app] \in Ours
  BY <1>3 DEF Choosing, Making, Alone
\* The passes work on apps that were listed before this step.
<1>5. \A p \in Passes : pass[p].pc = "remote" => App(p)' = App(p) /\ App(p) \in Apps \cap listed
  <2> SUFFICES ASSUME NEW p \in Passes, pass[p].pc = "remote"
               PROVE  App(p)' = App(p) /\ App(p) \in Apps \cap listed
    OBVIOUS
  <2>1. App(p) \in Apps /\ pass[p].i \in DOMAIN pass[p].list
    BY <1>1, AppTyped DEF PerApp, Enriching, PassesOK, CursorOK, PassRecord
  <2> QED
    BY <1>3, <2>1 DEF DeliveriesOK, DeliveryOK, App
<1>6. ASSUME UNCHANGED icons
      PROVE  \A p \in Passes : pass'[p].pc = "remote" /\ App(p)' \notin early' =>
               "theme" \notin icons'[App(p)']
  BY <1>2, <1>3, <1>5, <1>6 DEF Alone
<1>7. \A label : GotoLister(l, label) => lister'[l].pc = label /\ lister'[l].app = b
  BY <1>1 DEF GotoLister
<1>8. ListRow(l) => lister'[l].pc = "idle" /\ listed' = listed \cup {b}
  BY <1>1 DEF ListRow
<1>9. ASSUME ListRow(l), NEW c, c = b, c \notin early'
      PROVE  ~Contested(l) /\ \A m \in Listers : ~Choosing(m, c)'
  BY <1>2, <1>4, <1>8, <1>9 DEF Contested, Choosing
<1>10. ASSUME ListRow(l)
       PROVE  \A m \in Listers, a \in listed' \ early' : ~Choosing(m, a)'
  <2> SUFFICES ASSUME NEW m \in Listers, NEW a \in listed' \ early' PROVE ~Choosing(m, a)'
    OBVIOUS
  <2>1. CASE a = b
    BY <1>9, <1>10, <2>1
  <2>2. CASE a # b
    BY <1>2, <1>4, <1>8, <1>10, <2>2 DEF Alone, Choosing
  <2> QED
    BY <2>1, <2>2
<1>11. CASE \E a \in Apps : MakeApp(l, a)
  <2>1. PICK a \in Apps : MakeApp(l, a)
    BY <1>11
  <2>2. /\ UNCHANGED <<icons, themed, listed>> /\ lister[l].pc = "idle"
        /\ lister'[l].pc = "checking" /\ lister'[l].app = a /\ KindOf[a] \in Ours
    BY <1>1, <2>1 DEF MakeApp, ListerAt, appVars, Ours
  <2>3. UNCHANGED early
    BY <1>2, <2>2
  <2>4. \A c : ~Choosing(l, c)' /\ ~Making(l, c) /\ ~Making(l, c)'
    BY <2>2 DEF Choosing, Making
  <2> QED
    BY <1>4, <1>6, <2>2, <2>3, <2>4 DEF Alone, ThemedIconAlone, IconAlone
<1>12. CASE CheckIcons(l)
  <2>1. UNCHANGED <<icons, themed>> /\ lister[l].pc = "checking" /\ KindOf[b] \in Ours
    BY <1>12 DEF CheckIcons, ListerAt, appVars, Alone
  <2>2. CASE icons[b] = {}
    <3>1. lister'[l].pc = "adding" /\ lister'[l].app = b /\ UNCHANGED <<listed, early>>
      BY <1>2, <1>7, <1>12, <2>2 DEF CheckIcons
    <3>2. b \notin listed
      BY <2>1, <2>2 DEF IconsOK
    <3>3. /\ \A c : ~Making(l, c) /\ ~Making(l, c)'
          /\ \A c \in listed : ~Choosing(l, c)'
      BY <2>1, <3>1, <3>2 DEF Making, Choosing
    <3> QED
      BY <1>4, <1>6, <2>1, <3>1, <3>3 DEF Alone, ThemedIconAlone, IconAlone
  <2>3. CASE icons[b] # {}
    <3>1. ListRow(l)
      BY <1>12, <2>3 DEF CheckIcons
    <3>2. b \in listed \/ b \in early'
      <4>1. ASSUME b \notin listed PROVE Contested(l)
        <5>1. PICK m \in Listers : Making(m, b)
          BY <1>1, <2>3, <4>1 DEF Alone
        <5> QED
          BY <2>1, <5>1 DEF Making, Contested
      <4> QED
        BY <1>2, <1>8, <3>1, <4>1
    <3>3. \A a \in Apps \ listed' : icons[a] # {} => \E m \in Listers : Making(m, a)'
      BY <1>4, <1>8, <2>1, <3>1 DEF Alone, Making
    <3> QED
      BY <1>2, <1>4, <1>6, <1>8, <1>10, <2>1, <3>1, <3>2, <3>3
      DEF Alone, ThemedIconAlone, IconAlone
  <2> QED
    BY <2>2, <2>3
<1>13. CASE AddIcons(l)
  <2>1. PICK found \in Resolved(lister[l].url) :
          /\ icons' = [icons EXCEPT ![b] = @ \cup found]
          /\ IF "theme" \in found /\ KindOf[b] # "plugin"
             THEN GotoLister(l, "marking") /\ UNCHANGED listed
             ELSE ListRow(l)
    BY <1>13 DEF AddIcons
  <2>2. ~("theme" \in found /\ "remote" \in found)
    BY DEF Resolved
  <2>3. lister[l].pc = "adding" /\ UNCHANGED themed /\ Choosing(l, b)
    BY <1>13 DEF AddIcons, ListerAt, Choosing
  <2>4. KindOf[b] \in Ours /\ (b \in listed => b \in early)
    BY <2>3 DEF Alone
  <2>5. icons'[b] = icons[b] \cup found /\ \A a \in Apps \ {b} : icons'[a] = icons[a]
    BY <1>1, <2>1
  <2>6. \A p \in Passes : pass'[p].pc = "remote" /\ App(p)' \notin early' =>
                            "theme" \notin icons'[App(p)']
    BY <1>2, <1>3, <1>5, <2>4, <2>5 DEF Alone
  <2>7. CASE "theme" \in found /\ KindOf[b] # "plugin"
    <3>1. /\ lister'[l].pc = "marking" /\ lister'[l].app = b /\ UNCHANGED <<listed, early>>
          /\ \A c : c = b => Making(l, c)' /\ ~Making(l, c)
      BY <1>2, <1>7, <2>1, <2>3, <2>7 DEF Making
    <3>2. \A m \in Listers, a \in listed \ early : ~Choosing(m, a)'
      BY <1>4, <2>4, <3>1 DEF Alone, Choosing
    <3>3. \A a \in Apps \ listed :
            "remote" \notin icons'[a] /\ (icons'[a] # {} => \E m \in Listers : Making(m, a)')
      <4> TAKE a \in Apps \ listed
      <4>1. CASE a = b
        BY <2>2, <2>5, <2>7, <3>1, <4>1 DEF Alone
      <4>2. CASE a # b
        <5>1. icons'[a] = icons[a] /\ ~Making(l, a)
          BY <2>3, <2>5, <4>2 DEF Making
        <5>2. ASSUME icons[a] # {} PROVE \E m \in Listers : Making(m, a)'
          <6>1. PICK m \in Listers : Making(m, a)
            BY <5>2 DEF Alone
          <6> QED
            BY <1>4, <5>1, <6>1
        <5> QED
          BY <5>1, <5>2 DEF Alone
      <4> QED
        BY <4>1, <4>2
    <3>4. \A a \in listed \ early : "theme" \in icons'[a] => a \in themed \/ KindOf[a] = "plugin"
      BY <2>4, <2>5 DEF Alone, RefineTypeOK
    <3>5. \A a \in Apps \ early : "theme" \in icons'[a] => "remote" \notin icons'[a]
      BY <2>4, <2>5, <3>3 DEF Alone, ThemedIconAlone, IconAlone
    <3> QED
      BY <1>4, <2>3, <2>4, <2>6, <3>1, <3>2, <3>3, <3>4, <3>5 DEF Alone, ThemedIconAlone, IconAlone
  <2>8. CASE ~("theme" \in found /\ KindOf[b] # "plugin")
    <3>1. ListRow(l)
      BY <2>1, <2>8
    <3>2. b \notin early' => icons'[b] = found /\ b \notin listed
      <4>1. ASSUME b \notin early' PROVE icons[b] = {} /\ b \notin listed
        <5>1. b \notin listed /\ ~Contested(l)
          BY <1>2, <1>8, <2>4, <3>1, <4>1
        <5>2. \A m \in Listers : ~Making(m, b)
          BY <2>3, <5>1 DEF Making, Contested
        <5> QED
          BY <1>1, <5>1, <5>2 DEF Alone
      <4> QED
        BY <2>5, <4>1
    <3>3. \A a \in Apps \ listed' :
            "remote" \notin icons'[a] /\ (icons'[a] # {} => \E m \in Listers : Making(m, a)')
      <4> TAKE a \in Apps \ listed'
      <4>1. a \notin listed /\ a # b
        BY <1>8, <3>1
      <4>2. icons'[a] = icons[a] /\ ~Making(l, a)
        BY <2>5, <4>1 DEF Making
      <4>3. ASSUME icons[a] # {} PROVE \E m \in Listers : Making(m, a)'
        <5>1. PICK m \in Listers : Making(m, a)
          BY <4>1, <4>3 DEF Alone
        <5> QED
          BY <1>4, <4>2, <5>1
      <4> QED
        BY <4>1, <4>2, <4>3 DEF Alone
    <3>4. \A a \in listed' \ early' : "theme" \in icons'[a] => a \in themed \/ KindOf[a] = "plugin"
      <4> TAKE a \in listed' \ early'
      <4>1. CASE a = b
        BY <2>8, <3>2, <4>1
      <4>2. CASE a # b
        BY <1>2, <1>8, <2>5, <3>1, <4>2 DEF Alone, RefineTypeOK
      <4> QED
        BY <4>1, <4>2
    <3>5. \A a \in Apps \ early' : "theme" \in icons'[a] => "remote" \notin icons'[a]
      <4> TAKE a \in Apps \ early'
      <4>1. CASE a = b
        BY <2>2, <3>2, <4>1
      <4>2. CASE a # b
        BY <1>2, <2>5, <4>2 DEF Alone, ThemedIconAlone, IconAlone
      <4> QED
        BY <4>1, <4>2
    <3> QED
      BY <1>4, <1>8, <1>10, <2>3, <2>6, <3>1, <3>3, <3>4, <3>5 DEF Alone, ThemedIconAlone, IconAlone
  <2> QED
    BY <2>7, <2>8
<1>14. CASE MarkThemed(l)
  <2>1. UNCHANGED icons /\ themed' = themed \cup {b} /\ ListRow(l)
    BY <1>14 DEF MarkThemed
  <2>2. \A a \in Apps \ listed' : icons[a] # {} => \E m \in Listers : Making(m, a)'
    BY <1>4, <1>8, <2>1 DEF Alone, Making
  <2>3. \A a \in listed' \ early' : "theme" \in icons[a] => a \in themed' \/ KindOf[a] = "plugin"
    BY <1>2, <1>8, <2>1 DEF Alone
  <2> QED
    BY <1>2, <1>4, <1>6, <1>8, <1>10, <2>1, <2>2, <2>3 DEF Alone, ThemedIconAlone, IconAlone
<1> QED
  BY <1>2, <1>11, <1>12, <1>13, <1>14 DEF ListerStep

\* For any number of listings and passes: an app whose icon came from the theme
\* is not given the remote one as well, unless a listing returned it while
\* another one was still choosing its icon.
THEOREM ThemedStaysAlone == HistorySpec => []ThemedIconAlone
<1>1. HistoryInit => Init /\ Alone
  BY DEF HistoryInit, Init, Alone, ThemedIconAlone, IconAlone, NoPass, NoRow, Choosing
<1>2. [HistoryNext]_allVars => [Next]_vars
  BY DEF HistoryNext, PassHistory, ListerHistory, Next, allVars
<1>3. ASSUME IInv, DeliveriesOK, IconsOK, Alone, [HistoryNext]_allVars
      PROVE  Alone'
  <2>1. UNCHANGED <<icons, themed, lister, listed, pass, early>> => Alone'
    BY <1>3 DEF Alone, Making, Choosing, App, ThemedIconAlone, IconAlone
  <2>2. ASSUME NEW p \in Passes, PassHistory(p) PROVE Alone'
    BY <1>3, <2>1, <2>2, AlonePass DEF PassHistory, Cancel, appVars, IInv
  <2> QED
    BY <1>3, <2>1, <2>2, AloneListing DEF HistoryNext, IInv, allVars, vars, appVars
<1>4. IInv /\ DeliveriesOK /\ IconsOK /\ [Next]_vars => DeliveriesOK' /\ IconsOK'
  BY DeliveryNext DEF IInv
<1>5. Alone => ThemedIconAlone
  BY DEF Alone
<1> QED
  BY <1>1, <1>2, <1>3, <1>4, <1>5, InitOK, NextOK, DeliveryInit, PTL DEF HistorySpec
===============================================================================
