--------------------------- MODULE PluginShellProofs ---------------------------
(***************************************************************************)
(* Theorems about PluginShell, for any number of worker threads, objects,  *)
(* scan threads and themes.                                                *)
(*                                                                         *)
(* The inductive invariant has four parts.  Each is preserved because of   *)
(* the ones before it: where the object is says whether the connection is  *)
(* open, that says what a job finds, and a job is what takes a lock while  *)
(* the object is alive.                                                    *)
(***************************************************************************)
EXTENDS PluginShell, SequenceTheorems, TLAPS

Order == INSTANCE WellFoundedInduction

\* The objects of the process, the connection and the URL table.
ObjectOK ==
  /\ gen \in 0 .. Gens
  /\ object \in ObjectPC
  /\ bus \in BOOLEAN /\ urls \in BOOLEAN
  /\ (object = "none" <=> gen = 0)
  /\ (object = "ready" => bus)
  /\ (object \in {"bus", "icon_urls", "enrichment", "plugins", "gone"} => ~bus)
  /\ (object \in {"icon_urls", "enrichment", "plugins", "gone"} => ~urls)

JobRecord == [pc : JobPC, todo : Seq(Method \cup Lock), ok : BOOLEAN]

\* The jobs: one under way keeps the object, and with it the connection; there
\* is a call only while a job waits for it.
JobsOK ==
  /\ job \in [Callers -> JobRecord]
  /\ \A c \in Callers :
       /\ InFlight(c) => object \in {"ready", "dropped"} /\ bus
       /\ call[c].answer # "none" => job[c].pc = "calling"

\* The calls: what the daemon did and what the caller is told fit.
CallsOK ==
  /\ call \in [Callers -> CallRecord]
  /\ \A c \in Callers :
       /\ call[c].answer # "not_connected"
       /\ call[c].answer = "reply" => call[c].progress = "served"
       /\ call[c].method \in WriteMethod /\ Answered(c) => call[c].progress # "working"

\* The locks: the object there is clears one only after its last job, and takes
\* it no more.
LocksOK ==
  /\ dead \in [Lock -> 0 .. Gens]
  /\ \A lock \in Lock : dead[lock] <= gen
  /\ dead["icon_urls"] = 0 /\ dead["icons"] = 0
  /\ gen > 0 /\ dead["enrichment"] = gen => object \in {"enrichment", "plugins", "gone"}
  /\ gen > 0 /\ dead["plugins"] = gen => object \in {"plugins", "gone"}
  /\ misused \subseteq Lock \X (1 .. Gens) \X (1 .. Gens)
  /\ LocksLive

\* The theme: connected once, from the set-up to the end, and indexed.
ThemeOK ==
  /\ display \in BOOLEAN /\ path \in Nat /\ handlers \in Nat
  /\ instance <=> display /\ object \notin {"none", "constructed", "gone"}
  /\ handlers = IF instance THEN 1 ELSE 0
  /\ instance => path > 0
  /\ instance /\ ~changed => names = NamesOf[theme] \cup AddedNames
  /\ ~instance => names = Null

ShellInv == ObjectOK /\ JobsOK /\ CallsOK /\ LocksOK /\ ThemeOK

-------------------------------------------------------------------------------
(* The initial states.                                                     *)

LEMMA InitShell == Init => ShellInv
<1> SUFFICES ASSUME Init PROVE ShellInv
  OBVIOUS
<1> USE ShellAssumption, ResolverAssumption
    DEF ShellAssumption, ResolverAssumption, Init, BusClosed, ResolverInit
<1>1. ObjectOK
  <2>1. gen \in 0 .. Gens
    OBVIOUS
  <2>2. bus \in BOOLEAN /\ urls \in BOOLEAN
    OBVIOUS
  <2>3. object \in ObjectPC
    BY DEF ObjectPC
  <2> QED
    BY <2>1, <2>2, <2>3 DEF ObjectOK
<1>2. JobsOK
  BY DEF JobsOK, JobRecord, NoJob, NoCall, JobPC, InFlight
<1>3. CallsOK
  BY DEF CallsOK, CallRecord, NoCall, Method, ListMethod, Progress, Answer, Answered
<1>4. LocksOK
  BY DEF LocksOK, LocksLive, Lock
<1>5. ThemeOK
  BY DEF ThemeOK
<1> QED
  BY <1>1, <1>2, <1>3, <1>4, <1>5 DEF ShellInv
-------------------------------------------------------------------------------
(* Steps.  What the actions of each part of the process leave alone.       *)

ObjectStep == Construct \/ SetupAsync \/ SetupFinish \/ Drop \/ Teardown
JobStarts(c) == StartJob(c) \/ SkipStep(c) \/ Return(c) \/ Report(c)
LockTaken(c) == UseCache(c) \/ ResolveIcon(c)
CallMoves(c) == Daemon(c) \/ Wire(c) \/ Crash(c)

\* The step is one of these: the cases of every proof below.
LEMMA NextCases ==
  ASSUME Next
  PROVE  \/ ObjectStep \/ Desktop
         \/ \E c \in Callers : JobStarts(c) \/ LockTaken(c) \/ CallDaemon(c) \/ TakeAnswer(c) \/ CallMoves(c)
         \/ \E s \in Scans : ScanStep(s)
BY DEF Next, ObjectStep, JobStarts, LockTaken, CallMoves, JobStep

LEMMA ObjectKept == ASSUME ShellInv, [Next]_vars PROVE ObjectOK'
<1> USE DEF ShellInv, ObjectOK
<1>1. CASE UNCHANGED vars
  BY <1>1 DEF vars, busVars, shellVars
<1>2. CASE Construct
  BY <1>2, ShellAssumption DEF ShellAssumption, Construct, ObjectPC, busVars
<1>3. CASE SetupAsync
  BY <1>3 DEF SetupAsync, BusInit, ObjectPC
<1>4. CASE SetupFinish \/ Drop
  BY <1>4 DEF SetupFinish, Drop, ObjectPC, busVars
<1>5. CASE Teardown
  <2>1. CASE Finalize
    BY <2>1 DEF Finalize, BusShutdown, LastReference, ObjectPC
  <2>2. CASE ClearIconCache
    BY <2>2 DEF ClearIconCache, ObjectPC, busVars
  <2>3. CASE ClearEnrichmentCache \/ ClearPluginsCache \/ ShutdownResolver
    BY <2>3 DEF ClearEnrichmentCache, ClearPluginsCache, ShutdownResolver, ObjectPC, busVars
  <2> QED
    BY <1>5, <2>1, <2>2, <2>3 DEF Teardown
<1>6. CASE Desktop
  BY <1>6 DEF Desktop, busVars, shellVars
<1>7. ASSUME NEW c \in Callers, JobStarts(c) PROVE ObjectOK'
  <2>1. UNCHANGED <<bus, gen, object, urls>>
    BY <1>7 DEF JobStarts, StartJob, SkipStep, Return, Report, busVars
  <2> QED
    BY <2>1
<1>8. ASSUME NEW c \in Callers, LockTaken(c) PROVE ObjectOK'
  <2>1. InFlight(c) /\ UNCHANGED <<bus, gen, object>>
    BY <1>8 DEF LockTaken, UseCache, ResolveIcon, At, InFlight, busVars
  <2>2. urls' \in BOOLEAN
    BY <1>8 DEF LockTaken, UseCache, ResolveIcon
  <2> QED
    BY <2>1, <2>2 DEF JobsOK
<1>9. ASSUME NEW c \in Callers, CallDaemon(c) \/ TakeAnswer(c) \/ CallMoves(c) PROVE ObjectOK'
  BY <1>9 DEF CallDaemon, TakeAnswer, CallMoves, TakeReply, TakeStatus, Daemon, Wire, Crash,
     DaemonEnds, ReplyArrives, TimesOut, DaemonDies, shellVars
<1>10. ASSUME NEW s \in Scans, ScanStep(s) PROVE ObjectOK'
  BY <1>10 DEF ScanStep, Publish, busVars, shellVars
<1> QED
  BY <1>1, <1>2, <1>3, <1>4, <1>5, <1>6, <1>7, <1>8, <1>9, <1>10, NextCases DEF ObjectStep

LEMMA StepsTyped ==
  ASSUME NEW vfunc \in Vfunc, NEW steps \in Steps(vfunc)
  PROVE  steps \in Seq(Method \cup Lock)
<1> DEFINE Step == Method \cup Lock
<1>1. /\ "SearchPackages" \in Step /\ "SearchModules" \in Step
      /\ "ListInstalledPackages" \in Step /\ "ListInstalledModules" \in Step
      /\ "ListModulePlugins" \in Step /\ "ListInstalledPlugins" \in Step /\ "PackagesForAppId" \in Step
      /\ "GetAppEnrichment" \in Step /\ "GetPackageLicenses" \in Step
      /\ "ListOutdatedInputs" \in Step /\ "CheckUpdate" \in Step /\ "RebootRequired" \in Step
      /\ "NamesCall" \in Step /\ "PluginCall" \in Step /\ "UpdateSystem" \in Step
      /\ "icon_urls" \in Step /\ "enrichment" \in Step /\ "plugins" \in Step /\ "icons" \in Step
  BY DEF Method, ListMethod, PluginMethod, RefineMethod, UpdateMethod, WriteMethod, Lock
<1> HIDE DEF Step
<1>2. /\ <<"SearchModules", "icon_urls", "icons", "SearchPackages", "icon_urls", "icons">> \in Seq(Step)
      /\ <<"ListInstalledModules", "icon_urls", "icons", "ListInstalledPackages", "icon_urls", "icons",
            "ListInstalledPlugins", "icons">> \in Seq(Step)
      /\ <<"PackagesForAppId", "icon_urls", "icons">> \in Seq(Step)
      /\ <<"ListOutdatedInputs">> \in Seq(Step)
  BY <1>1
<1>3. <<"CheckUpdate", "ListOutdatedInputs">> \in Seq(Step) /\ <<"UpdateSystem", "RebootRequired">> \in Seq(Step)
  BY <1>1
<1>4. <<"enrichment", "GetAppEnrichment", "enrichment", "GetPackageLicenses",
        "ListInstalledPlugins", "icons", "enrichment", "icon_urls",
        "plugins", "ListModulePlugins", "plugins", "icons">> \in Seq(Step)
  BY <1>1
<1>5. <<"NamesCall", "NamesCall", "PluginCall", "plugins">> \in Seq(Step)
  BY <1>1
<1>6. /\ ListApps \subseteq Seq(Step) /\ RefreshMetadata \subseteq Seq(Step)
      /\ RefineApps \subseteq Seq(Step) /\ UpdateApps \subseteq Seq(Step)
      /\ InstallApps \subseteq Seq(Step) /\ UninstallApps \subseteq Seq(Step)
  BY <1>2, <1>3, <1>4, <1>5
     DEF ListApps, RefreshMetadata, RefineApps, UpdateApps, InstallApps, UninstallApps
<1>7. steps \in Seq(Step)
  BY <1>6 DEF Steps, Vfunc
<1> QED
  BY <1>7 DEF Step

LEMMA JobsKept == ASSUME ShellInv, [Next]_vars PROVE JobsOK'
<1> USE DEF ShellInv, JobsOK
<1>1. CASE UNCHANGED vars
  BY <1>1 DEF vars, busVars, shellVars, InFlight
<1>2. CASE ObjectStep
  <2>1. UNCHANGED <<job, call>>
    BY <1>2 DEF ObjectStep, Construct, SetupAsync, SetupFinish, Drop, Teardown, Finalize, ClearIconCache,
       ClearEnrichmentCache, ClearPluginsCache, ShutdownResolver, busVars
  <2>2. ASSUME NEW c \in Callers, InFlight(c) PROVE object' \in {"ready", "dropped"} /\ UNCHANGED bus
    BY <1>2, <2>2 DEF ObjectStep, Construct, SetupAsync, SetupFinish, Drop, Teardown, Finalize, LastReference,
       ClearIconCache, ClearEnrichmentCache, ClearPluginsCache, ShutdownResolver, busVars
  <2> QED
    BY <2>1, <2>2 DEF InFlight
<1>3. CASE Desktop
  BY <1>3 DEF Desktop, busVars, shellVars, InFlight
<1>4. ASSUME NEW c \in Callers, StartJob(c) PROVE JobsOK'
  <2>0. PICK vfunc \in Vfunc : \E steps \in Steps(vfunc) :
          job' = [job EXCEPT ![c] = [NoJob EXCEPT !.pc = "running", !.todo = steps]]
    <3>1. VfuncsOf[c] \subseteq Vfunc
      BY ShellAssumption DEF ShellAssumption
    <3> QED
      BY <1>4, <3>1 DEF StartJob
  <2>1. PICK steps \in Steps(vfunc) :
          job' = [job EXCEPT ![c] = [NoJob EXCEPT !.pc = "running", !.todo = steps]]
    BY <2>0
  <2>2. [NoJob EXCEPT !.pc = "running", !.todo = steps] \in JobRecord
    BY StepsTyped DEF NoJob, JobRecord, JobPC
  <2>3. job' \in [Callers -> JobRecord]
    BY <2>1, <2>2 DEF JobRecord
  <2> QED
    BY <1>4, <2>1, <2>3 DEF StartJob, ObjectOK, InFlight, JobRecord, JobPC, busVars
<1>5. ASSUME NEW c \in Callers, SkipStep(c) \/ LockTaken(c) PROVE JobsOK'
  <2>1. /\ job' = [job EXCEPT ![c].todo = Tail(@)]
        /\ UNCHANGED <<bus, call, object>>
        /\ job[c].todo # <<>> /\ job[c].pc = "running"
    BY <1>5 DEF SkipStep, LockTaken, UseCache, ResolveIcon, At, busVars
  <2>2. Tail(job[c].todo) \in Seq(Method \cup Lock)
    BY <2>1 DEF JobRecord
  <2>3. job' \in [Callers -> JobRecord]
    BY <2>1, <2>2 DEF JobRecord
  <2> QED
    BY <2>1, <2>3 DEF InFlight, JobRecord
<1>6. ASSUME NEW c \in Callers, Return(c) \/ Report(c) PROVE JobsOK'
  <2>1. UNCHANGED <<bus, call, object>> /\ job[c].pc \in {"running", "returned"}
    BY <1>6 DEF Return, Report, busVars
  <2>2. PICK new \in JobRecord : job' = [job EXCEPT ![c] = new]
    <3>1. CASE Return(c)
      <4>1. job' = [job EXCEPT ![c] = [job[c] EXCEPT !.pc = "returned"]]
        BY <3>1 DEF Return
      <4>2. [job[c] EXCEPT !.pc = "returned"] \in JobRecord
        BY DEF JobRecord, JobPC
      <4> QED
        BY <4>1, <4>2
    <3>2. CASE Report(c)
      <4>1. NoJob \in JobRecord
        BY DEF NoJob, JobRecord, JobPC
      <4> QED
        BY <3>2, <4>1 DEF Report
    <3> QED
      BY <1>6, <3>1, <3>2
  <2>3. job' \in [Callers -> JobRecord]
    BY <2>2 DEF JobRecord
  <2> QED
    BY <2>1, <2>2, <2>3 DEF InFlight, JobRecord
<1>7. ASSUME NEW c \in Callers, CallDaemon(c) PROVE JobsOK'
  <2>1. /\ job' = [job EXCEPT ![c].pc = "calling", ![c].todo = Tail(@)]
        /\ job[c].todo # <<>> /\ job[c].pc = "running" /\ UNCHANGED <<bus, object>>
    BY <1>7 DEF CallDaemon, At
  <2>2. \A d \in Callers \ {c} : call'[d] = call[d]
    BY <1>7 DEF CallDaemon, BusCall, CallsOK
  <2>3. Tail(job[c].todo) \in Seq(Method \cup Lock)
    BY <2>1 DEF JobRecord
  <2>4. job' \in [Callers -> JobRecord]
    BY <2>1, <2>3 DEF JobRecord, JobPC
  <2> QED
    BY <2>1, <2>2, <2>4 DEF InFlight, JobRecord
<1>8. ASSUME NEW c \in Callers, TakeAnswer(c) PROVE JobsOK'
  <2>1. /\ Answered(c) /\ call' = [call EXCEPT ![c] = NoCall]
        /\ UNCHANGED <<bus, object>>
    BY <1>8 DEF TakeAnswer, TakeReply, TakeStatus
  <2>2. job[c].pc = "calling"
    BY <2>1 DEF Answered
  <2>3. PICK new \in JobRecord : job' = [job EXCEPT ![c] = new]
    <3>1. CASE job' = [job EXCEPT ![c].pc = "running"]
      <4>1. [job[c] EXCEPT !.pc = "running"] \in JobRecord
        BY DEF JobRecord, JobPC
      <4> QED
        BY <3>1, <4>1
    <3>2. CASE job' = [job EXCEPT ![c].pc = "running", ![c].ok = Status(c),
                                  ![c].todo = IF Status(c) THEN @ ELSE <<>>]
      <4> DEFINE new == [job[c] EXCEPT !.pc = "running", !.ok = Status(c),
                                      !.todo = IF Status(c) THEN @ ELSE <<>>]
      <4>1. new \in JobRecord
        <5>1. Status(c) \in BOOLEAN
          BY DEF Status
        <5>2. (IF Status(c) THEN job[c].todo ELSE <<>>) \in Seq(Method \cup Lock)
          BY DEF JobRecord
        <5> QED
          BY <5>1, <5>2 DEF JobRecord, JobPC
      <4>2. job' = [job EXCEPT ![c] = new]
        BY <3>2
      <4> QED
        BY <4>1, <4>2
    <3> QED
      BY <1>8, <3>1, <3>2 DEF TakeAnswer
  <2>4. job' \in [Callers -> JobRecord]
    BY <2>3
  <2> QED
    BY <2>1, <2>2, <2>3, <2>4 DEF InFlight, NoCall, CallsOK
<1>9. ASSUME NEW c \in Callers, CallMoves(c) PROVE JobsOK'
  <2>1. UNCHANGED <<bus, job, object>>
    BY <1>9 DEF CallMoves, Daemon, Wire, Crash, DaemonEnds, ReplyArrives, TimesOut, DaemonDies, shellVars
  <2>2. \A d \in Callers : call'[d].answer # "none" => call[d].answer # "none"
    <3>1. CASE DaemonEnds(c)
      BY <3>1 DEF DaemonEnds, CallsOK, CallRecord
    <3>2. CASE ReplyArrives(c)
      BY <3>2 DEF ReplyArrives, CallsOK, CallRecord
    <3>3. CASE TimesOut(c)
      BY <3>3 DEF TimesOut, CallsOK, CallRecord
    <3>4. CASE DaemonDies(c)
      BY <3>4 DEF DaemonDies, CallsOK, CallRecord
    <3> QED
      BY <1>9, <3>1, <3>2, <3>3, <3>4 DEF CallMoves, Daemon, Wire, Crash
  <2> QED
    BY <2>1, <2>2 DEF InFlight
<1>10. ASSUME NEW s \in Scans, ScanStep(s) PROVE JobsOK'
  BY <1>10 DEF ScanStep, Publish, busVars, shellVars, InFlight
<1> QED
  BY <1>1, <1>2, <1>3, <1>4, <1>5, <1>6, <1>7, <1>8, <1>9, <1>10, NextCases DEF JobStarts

LEMMA CallsKept == ASSUME ShellInv, [Next]_vars PROVE CallsOK'
<1> USE DEF ShellInv, CallsOK
<1>1. CASE UNCHANGED call
  BY <1>1 DEF Answered
<1>2. ASSUME NEW c \in Callers, CallDaemon(c) PROVE CallsOK'
  <2> DEFINE m == Head(job[c].todo)
  <2>1. /\ m \in Method /\ bus
        /\ call' = [call EXCEPT ![c] = [method |-> m, progress |-> "working", answer |-> "pending"]]
    BY <1>2 DEF CallDaemon, BusCall, At, JobsOK, InFlight
  <2>2. [method |-> m, progress |-> "working", answer |-> "pending"] \in CallRecord
    BY <2>1 DEF CallRecord, Progress, Answer
  <2> HIDE DEF m
  <2> QED
    BY <2>1, <2>2 DEF Answered
<1>3. ASSUME NEW c \in Callers, TakeAnswer(c) PROVE CallsOK'
  <2>1. call' = [call EXCEPT ![c] = NoCall]
    BY <1>3 DEF TakeAnswer, TakeReply, TakeStatus
  <2>2. NoCall \in CallRecord
    BY DEF NoCall, CallRecord, Method, ListMethod, Progress, Answer
  <2> QED
    BY <2>1, <2>2 DEF NoCall, Answered
<1>4. ASSUME NEW c \in Callers, CallMoves(c) PROVE CallsOK'
  <2>1. CASE DaemonEnds(c)
    <3>1. PICK end \in {"served", "refused"} : call' = [call EXCEPT ![c].progress = end]
      BY <2>1 DEF DaemonEnds
    <3>2. call' \in [Callers -> CallRecord] /\ call[c].progress = "working"
      BY <2>1, <3>1 DEF DaemonEnds, CallRecord, Progress
    <3> QED
      BY <3>1, <3>2 DEF Answered, CallRecord
  <2>2. CASE ReplyArrives(c)
    <3>1. PICK new \in {"reply", "error"} :
            /\ call' = [call EXCEPT ![c].answer = new]
            /\ new = "reply" => call[c].progress = "served"
            /\ call[c].progress \in {"served", "refused"}
      BY <2>2 DEF ReplyArrives
    <3>2. call' \in [Callers -> CallRecord]
      BY <3>1 DEF CallRecord, Answer
    <3> QED
      BY <3>1, <3>2 DEF Answered, CallRecord
  <2>3. CASE DaemonDies(c)
    <3>1. PICK end \in Progress \ {"working"} :
            call' = [call EXCEPT ![c].progress = end, ![c].answer = "error"]
      <4>1. call[c].progress \in Progress
        BY DEF CallRecord
      <4> QED
        BY <2>3, <4>1 DEF DaemonDies, Progress
    <3>2. call' \in [Callers -> CallRecord]
      BY <3>1 DEF CallRecord, Answer
    <3> QED
      BY <3>1, <3>2 DEF Answered, CallRecord
  <2>4. CASE TimesOut(c)
    <3>1. /\ call' = [call EXCEPT ![c].answer = "timeout"]
          /\ call[c].method \notin WriteMethod
      BY <2>4 DEF TimesOut, TimeoutOf
    <3>2. call' \in [Callers -> CallRecord]
      <4>1. [call[c] EXCEPT !.answer = "timeout"] \in CallRecord
        BY SMTT(30) DEF CallRecord, Answer
      <4> QED
        BY <3>1, <4>1
    <3> QED
      BY <3>1, <3>2 DEF Answered, CallRecord
  <2> QED
    BY <1>4, <2>1, <2>2, <2>3, <2>4 DEF CallMoves, Daemon, Wire, Crash
<1>5. ASSUME NEW c \in Callers, JobStarts(c) \/ LockTaken(c) PROVE UNCHANGED call
  BY <1>5 DEF JobStarts, StartJob, SkipStep, Return, Report, LockTaken, UseCache, ResolveIcon, busVars
<1>6. CASE ObjectStep
  BY <1>1, <1>6 DEF ObjectStep, Construct, SetupAsync, SetupFinish, Drop, Teardown, Finalize,
     ClearIconCache, ClearEnrichmentCache, ClearPluginsCache, ShutdownResolver, busVars
<1>7. CASE Desktop
  BY <1>1, <1>7 DEF Desktop, busVars
<1>8. ASSUME NEW s \in Scans, ScanStep(s) PROVE UNCHANGED call
  BY <1>8 DEF ScanStep, busVars
<1>9. CASE UNCHANGED vars
  BY <1>1, <1>9 DEF vars, busVars
<1> QED
  BY <1>1, <1>2, <1>3, <1>4, <1>5, <1>6, <1>7, <1>8, <1>9, NextCases

\* A lock that the object has not cleared may be taken.
LEMMA LockUsed ==
  ASSUME ShellInv, NEW lock \in Lock, Use(lock), gen' = gen, dead[lock] # 0 => dead[lock] < gen
  PROVE  misused' \subseteq Lock \X (1 .. Gens) \X (1 .. Gens) /\ LocksLive'
<1>1. CASE dead[lock] = 0
  <2>1. misused' = misused
    BY <1>1 DEF Use
  <2> QED
    BY <2>1 DEF ShellInv, LocksOK, LocksLive
<1>2. CASE dead[lock] # 0
  <2>1. misused' = misused \cup {<<lock, gen, dead[lock]>>}
    BY <1>2 DEF Use
  <2>2. gen \in 0 .. Gens /\ dead[lock] \in 0 .. Gens /\ dead[lock] < gen /\ Gens \in Nat
    BY <1>2, ShellAssumption DEF ShellAssumption, ShellInv, ObjectOK, LocksOK
  <2>3. gen \in 1 .. Gens /\ dead[lock] \in 1 .. Gens
    BY <1>2, <2>2
  <2>4. lock \in {"enrichment", "plugins"}
    BY <1>2 DEF ShellInv, LocksOK, Lock
  <2> QED
    BY <2>1, <2>2, <2>3, <2>4 DEF ShellInv, LocksOK, LocksLive
<1> QED
  BY <1>1, <1>2

LEMMA LocksKept == ASSUME ShellInv, [Next]_vars PROVE LocksOK'
<1>0. /\ LocksOK /\ ObjectOK /\ JobsOK /\ gen \in 0 .. Gens /\ Gens \in Nat
      /\ \A lock \in Lock : dead[lock] \in Nat
  BY ShellAssumption DEF ShellAssumption, ShellInv, ObjectOK, LocksOK
<1>1. CASE UNCHANGED <<gen, object, dead, misused>>
  BY <1>0, <1>1 DEF LocksOK, LocksLive
<1>2. CASE Construct
  <2>1. gen' = gen + 1 /\ gen < Gens /\ UNCHANGED <<dead, misused>>
    BY <1>2 DEF Construct
  <2>2. \A lock \in Lock : dead'[lock] < gen'
    BY <1>0, <2>1 DEF LocksOK
  <2>3. dead'["enrichment"] # gen' /\ dead'["plugins"] # gen' /\ \A lock \in Lock : dead'[lock] <= gen'
    BY <1>0, <2>1, <2>2 DEF Lock
  <2> QED
    BY <1>0, <2>1, <2>3 DEF LocksOK, LocksLive
<1>3. CASE SetupAsync \/ SetupFinish \/ Drop \/ Finalize \/ ClearIconCache \/ ShutdownResolver
  <2>1. UNCHANGED <<gen, dead, misused>>
    BY <1>3 DEF SetupAsync, SetupFinish, Drop, Finalize, ClearIconCache, ShutdownResolver
  <2>2. /\ object \in {"enrichment", "plugins", "gone"} => object' \in {"enrichment", "plugins", "gone"}
        /\ object \in {"plugins", "gone"} => object' \in {"plugins", "gone"}
    BY <1>3 DEF SetupAsync, SetupFinish, Drop, Finalize, LastReference, ClearIconCache, ShutdownResolver
  <2> QED
    BY <1>0, <2>1, <2>2 DEF LocksOK, LocksLive
<1>4. CASE ClearEnrichmentCache
  <2>1. /\ object = "icon_urls" /\ object' = "enrichment" /\ gen' = gen /\ Use("enrichment")
        /\ dead' = [dead EXCEPT !["enrichment"] = gen] /\ gen > 0
    BY <1>0, <1>4 DEF ClearEnrichmentCache, Clear, ObjectOK
  <2>2. dead["enrichment"] # 0 => dead["enrichment"] < gen
    BY <1>0, <2>1 DEF LocksOK, Lock
  <2>3. misused' \subseteq Lock \X (1 .. Gens) \X (1 .. Gens) /\ LocksLive'
    BY <2>1, <2>2, LockUsed DEF Lock
  <2> QED
    BY <1>0, <2>1, <2>3 DEF LocksOK, Lock
<1>5. CASE ClearPluginsCache
  <2>1. /\ object = "enrichment" /\ object' = "plugins" /\ gen' = gen /\ Use("plugins")
        /\ dead' = [dead EXCEPT !["plugins"] = gen] /\ gen > 0
    BY <1>0, <1>5 DEF ClearPluginsCache, Clear, ObjectOK
  <2>2. dead["plugins"] # 0 => dead["plugins"] < gen
    BY <1>0, <2>1 DEF LocksOK, Lock
  <2>3. misused' \subseteq Lock \X (1 .. Gens) \X (1 .. Gens) /\ LocksLive'
    BY <2>1, <2>2, LockUsed DEF Lock
  <2> QED
    BY <1>0, <2>1, <2>3 DEF LocksOK, Lock
<1>6. ASSUME NEW c \in Callers, LockTaken(c) PROVE LocksOK'
  <2>1. /\ InFlight(c) /\ UNCHANGED <<gen, object, dead>>
        /\ \E lock \in Lock : Use(lock)
    BY <1>6 DEF LockTaken, UseCache, ResolveIcon, At, InFlight, Lock
  <2>2. object \in {"ready", "dropped"} /\ gen > 0
    BY <1>0, <2>1 DEF JobsOK, ObjectOK
  <2>3. \A lock \in Lock : dead[lock] # 0 => dead[lock] < gen
    BY <1>0, <2>2 DEF LocksOK, Lock
  <2>4. misused' \subseteq Lock \X (1 .. Gens) \X (1 .. Gens) /\ LocksLive'
    BY <2>1, <2>3, LockUsed
  <2> QED
    BY <1>0, <2>1, <2>4 DEF LocksOK
<1>7. ASSUME NEW s \in Scans, ScanStep(s) PROVE LocksOK'
  <2>1. CASE UNCHANGED shellVars
    BY <1>1, <2>1 DEF shellVars
  <2>2. CASE Publish(s)
    <3>1. Use("icons") /\ UNCHANGED <<gen, object, dead>>
      BY <2>2 DEF Publish
    <3>2. dead["icons"] = 0
      BY <1>0 DEF LocksOK
    <3>3. misused' \subseteq Lock \X (1 .. Gens) \X (1 .. Gens) /\ LocksLive'
      BY <3>1, <3>2, LockUsed, SMTT(30) DEF Lock
    <3> QED
      BY <1>0, <3>1, <3>3 DEF LocksOK
  <2> QED
    BY <1>7, <2>1, <2>2 DEF ScanStep
<1>8. ASSUME NEW c \in Callers, JobStarts(c) \/ CallDaemon(c) \/ TakeAnswer(c) \/ CallMoves(c)
      PROVE  UNCHANGED <<gen, object, dead, misused>>
  BY <1>8 DEF JobStarts, StartJob, SkipStep, Return, Report, CallDaemon, TakeAnswer, CallMoves,
     Daemon, Wire, Crash, shellVars
<1>9. CASE Desktop \/ UNCHANGED vars
  BY <1>1, <1>9 DEF Desktop, vars, shellVars
<1> QED
  BY <1>1, <1>2, <1>3, <1>4, <1>5, <1>6, <1>7, <1>8, <1>9, NextCases DEF ObjectStep, Teardown

LEMMA ThemeKept == ASSUME ShellInv, [Next]_vars PROVE ThemeOK'
<1> USE DEF ShellInv, ThemeOK
<1>1. CASE UNCHANGED <<display, theme, path, changed, handlers, instance, names, object>>
  BY <1>1
<1>2. CASE Construct
  BY <1>2 DEF Construct, resolverVars, ObjectOK
<1>3. CASE SetupAsync
  <2>1. CASE display
    BY <1>3, <2>1 DEF SetupAsync, ThemeSetup, ResolverSetup, RebuildThemeIndex
  <2>2. CASE ~display
    BY <1>3, <2>2 DEF SetupAsync, ThemeSetup, ResolverSetup
  <2> QED
    BY <2>1, <2>2
<1>4. CASE SetupFinish \/ Drop
  BY <1>4 DEF SetupFinish, Drop, resolverVars
<1>5. CASE Finalize \/ ClearIconCache \/ ClearEnrichmentCache \/ ClearPluginsCache
  BY <1>5 DEF Finalize, LastReference, ClearIconCache, ClearEnrichmentCache, ClearPluginsCache, resolverVars
<1>6. CASE ShutdownResolver
  BY <1>6 DEF ShutdownResolver, ResolverShutdown
<1>7. CASE Desktop
  <2>1. ASSUME NEW t \in Themes, ThemeChanges(t) PROVE ThemeOK'
    BY <1>7, <2>1 DEF Desktop, ThemeChanges, shellVars
  <2>2. CASE OnThemeChanged
    BY <1>7, <2>2 DEF Desktop, OnThemeChanged, RebuildThemeIndex, shellVars
  <2> QED
    BY <1>7, <2>1, <2>2 DEF Desktop
<1>8. ASSUME NEW c \in Callers,
             JobStarts(c) \/ LockTaken(c) \/ CallDaemon(c) \/ TakeAnswer(c) \/ CallMoves(c)
      PROVE  UNCHANGED <<display, theme, path, changed, handlers, instance, names, object>>
  BY <1>8 DEF JobStarts, StartJob, SkipStep, Return, Report, LockTaken, UseCache, ResolveIcon, CallDaemon,
     TakeAnswer, CallMoves, Daemon, Wire, Crash, resolverVars, shellVars
<1>9. ASSUME NEW s \in Scans, ScanStep(s)
      PROVE  UNCHANGED <<display, theme, path, changed, handlers, instance, names, object>>
  BY <1>9 DEF ScanStep, ScanFileCaches, Publish, PublishScan, themeVars, shellVars
<1>10. CASE UNCHANGED vars
  BY <1>1, <1>10 DEF vars, resolverVars, shellVars
<1> QED
  BY <1>1, <1>2, <1>3, <1>4, <1>5, <1>6, <1>7, <1>8, <1>9, <1>10, NextCases DEF ObjectStep, Teardown

-------------------------------------------------------------------------------
THEOREM ShellInvariant == Spec => []ShellInv
<1>1. ShellInv /\ [Next]_vars => ShellInv'
  BY ObjectKept, JobsKept, CallsKept, LocksKept, ThemeKept DEF ShellInv
<1> QED
  BY <1>1, InitShell, PTL DEF Spec

\* In every life of the plugin, no step takes a lock that the object of that life
\* has destroyed: its last job is over before it destroys one, and the scan thread
\* it leaves behind takes one that nobody destroys (gs_plugin_modulix_finalize()).
\* A lock that is taken destroyed is one of the two, destroyed in an earlier life.
THEOREM LocksAlwaysLive == Spec => []LocksLive
<1>1. ShellInv => LocksLive
  BY DEF ShellInv, LocksOK
<1> QED
  BY <1>1, ShellInvariant, PTL

\* No worker finds the connection missing (gs-modulix-bus.h): a job starts only
\* after a set-up that connected, and its reference on the plugin puts the
\* shutdown off.
THEOREM JobsAlwaysFindTheBus == Spec => []JobsFindTheBus
<1>1. ShellInv => JobsFindTheBus
  BY DEF ShellInv, JobsOK, CallsOK, JobsFindTheBus
<1> QED
  BY <1>1, ShellInvariant, PTL

\* The report of a write tells the truth, and is never ahead of the daemon
\* (MODULIX_DAEMON1_NO_TIMEOUT).
THEOREM NoRebuildEverAbandoned == Spec => []NoRebuildAbandoned
<1>1. ShellInv => NoRebuildAbandoned
  BY DEF ShellInv, CallsOK, NoRebuildAbandoned, Status
<1> QED
  BY <1>1, ShellInvariant, PTL

\* While the plugin is set up and no change is on its way, the index has the
\* names of the theme (on_theme_changed(), rebuild_theme_index()).
THEOREM NamesAlwaysFollowTheme == Spec => []NamesFollowTheme
<1>1. ShellInv => NamesFollowTheme
  BY DEF ShellInv, ThemeOK, NamesFollowTheme
<1> QED
  BY <1>1, ShellInvariant, PTL

-------------------------------------------------------------------------------
(* The icon files: the indexes are what a scan of the disk gives, whichever *)
(* thread published them.                                                  *)

\* The least element that replaces an induction.
LEMMA LeastNatural ==
  ASSUME NEW S \in SUBSET Nat, S # {}
  PROVE  \E n \in S : \A m \in S : n <= m
<1>1. PICK n \in S : \A m \in S : <<m, n>> \notin Order!OpToRel(<, Nat)
  <2> DEFINE R == Order!OpToRel(<, Nat)
  <2>1. Order!IsWellFoundedOn(R, Nat)
    BY Order!NatLessThanWellFounded
  <2> HIDE DEF R
  <2>2. \E n \in S : \A m \in S : <<m, n>> \notin R
    BY <2>1, Order!WFMin
  <2> QED
    BY <2>2 DEF R
<1>2. \A m \in S : ~ (m < n)
  BY <1>1 DEF Order!OpToRel
<1> QED
  BY <1>2

AnyStem == Stems \cup {NoStem}
AnyEntry == [stem : AnyStem, at : Nat, width : Nat]

\* FirstOfEach() is a function on the stems there are, and gives the entry no
\* other of its stem comes before.
LEMMA FirstIndexed ==
  ASSUME NEW entries \in Seq(AnyEntry)
  PROVE  LET index == FirstOfEach(entries)
         IN  /\ DOMAIN index = {entries[i].stem : i \in DOMAIN entries} \ {NoStem}
             /\ \A id \in DOMAIN index :
                  /\ index[id] \in Entry /\ index[id].stem = id
                  /\ \E i \in DOMAIN entries :
                       /\ index[id] = entries[i]
                       /\ \A h \in 1 .. i - 1 : entries[h].stem # id
<1> DEFINE index == FirstOfEach(entries)
           stems == {entries[i].stem : i \in DOMAIN entries} \ {NoStem}
           IsFirst(i, id) == entries[i].stem = id /\ \A h \in 1 .. i - 1 : entries[h].stem # id
           first(id) == CHOOSE i \in DOMAIN entries : IsFirst(i, id)
<1>0. DOMAIN entries = 1 .. Len(entries) /\ Len(entries) \in Nat
      /\ \A i \in DOMAIN entries : entries[i] \in AnyEntry
  OBVIOUS
<1>1. index = [id \in stems |-> entries[first(id)]]
  BY DEF FirstOfEach
<1>2. ASSUME NEW id \in stems
      PROVE  first(id) \in DOMAIN entries /\ IsFirst(first(id), id)
  <2> DEFINE held == {i \in DOMAIN entries : entries[i].stem = id}
  <2>1. held \in SUBSET Nat /\ held # {}
    BY <1>0
  <2>2. PICK i \in held : \A h \in held : i <= h
    <3> HIDE DEF held
    <3> QED
      BY <2>1, LeastNatural
  <2>3. i \in DOMAIN entries /\ IsFirst(i, id)
    <3>1. ASSUME NEW h \in 1 .. i - 1 PROVE entries[h].stem # id
      <4>1. h \in DOMAIN entries /\ h \in Nat /\ i \in Nat /\ h < i
        BY <1>0
      <4>2. h \notin held
        BY <2>2, <4>1
      <4> QED
        BY <4>1, <4>2
    <3> QED
      BY <3>1
  <2> HIDE DEF IsFirst, held
  <2> QED
    BY <2>3
<1> HIDE DEF index, first
<1>3. ASSUME NEW id \in stems PROVE index[id] \in Entry /\ index[id].stem = id
  <2>1. entries[first(id)] \in AnyEntry /\ entries[first(id)].stem = id /\ id # NoStem
    BY <1>0, <1>2
  <2> QED
    BY <1>1, <2>1 DEF AnyEntry, AnyStem, Entry
<1> QED
  BY <1>1, <1>2, <1>3 DEF index

-------------------------------------------------------------------------------
\* What a scan of the trees finds, and in what order.
WidthOf(size) == IF size = 1 THEN 128 ELSE 64
Found(stem, n, size) == [stem |-> stem, at |-> n, width |-> WidthOf(size)]
Before(a, b) == a.at < b.at \/ (a.at = b.at /\ a.width >= b.width)

\* All entries of the trees between two, and no other, in their order.
Lists(s, trees, first, last) ==
  /\ s \in Seq(AnyEntry)
  /\ \A i \in DOMAIN s : \E n \in first .. last, size \in {1, 2} : \E k \in DOMAIN trees[n][size] :
       s[i] = Found(trees[n][size][k], n, size)
  /\ \A i, h \in DOMAIN s : i < h => Before(s[i], s[h])
  /\ \A n \in first .. last, size \in {1, 2} : \A k \in DOMAIN trees[n][size] :
       \E i \in DOMAIN s : s[i] = Found(trees[n][size][k], n, size)

LEMMA EntriesOfDir ==
  ASSUME NEW dir \in Seq(AnyStem), NEW n \in Nat, NEW width \in Nat
  PROVE  LET s == Entries(dir, n, width)
         IN  /\ s \in Seq(AnyEntry) /\ Len(s) = Len(dir) /\ DOMAIN s = DOMAIN dir
             /\ \A i \in DOMAIN dir : s[i] = [stem |-> dir[i], at |-> n, width |-> width]
<1> DEFINE s == Entries(dir, n, width)
<1>1. Len(dir) \in Nat /\ DOMAIN dir = 1 .. Len(dir)
  OBVIOUS
<1>2. s = [i \in 1 .. Len(dir) |-> [stem |-> dir[i], at |-> n, width |-> width]]
  BY <1>1 DEF Entries
<1>3. \A i \in 1 .. Len(dir) : [stem |-> dir[i], at |-> n, width |-> width] \in AnyEntry
  BY DEF AnyEntry
<1>4. s \in [1 .. Len(dir) -> AnyEntry]
  BY <1>2, <1>3
<1>5. s \in Seq(AnyEntry)
  BY <1>1, <1>4, SeqDef
<1> HIDE DEF s
<1> QED
  BY <1>1, <1>2, <1>5 DEF s

LEMMA OneTree ==
  ASSUME NEW trees \in Seq(Tree), NEW n \in DOMAIN trees
  PROVE  Lists(FlatpakEntries(trees[n], n), trees, n, n)
<1> DEFINE large == Entries(trees[n][1], n, 128)
           small == Entries(trees[n][2], n, 64)
           s == large \o small
<1>1. /\ n \in Nat /\ trees[n] \in Tree
      /\ trees[n][1] \in Seq(AnyStem) /\ trees[n][2] \in Seq(AnyStem)
  BY DEF Tree, AnyStem
<1>2. /\ large \in Seq(AnyEntry) /\ DOMAIN large = DOMAIN trees[n][1]
      /\ \A i \in DOMAIN large : large[i] = Found(trees[n][1][i], n, 1)
  BY <1>1, EntriesOfDir DEF Found, WidthOf
<1>3. /\ small \in Seq(AnyEntry) /\ DOMAIN small = DOMAIN trees[n][2]
      /\ \A i \in DOMAIN small : small[i] = Found(trees[n][2][i], n, 2)
  BY <1>1, EntriesOfDir DEF Found, WidthOf
<1>4. FlatpakEntries(trees[n], n) = s
  BY DEF FlatpakEntries
<1> HIDE DEF large, small
<1>5. /\ s \in Seq(AnyEntry) /\ Len(large) \in Nat /\ Len(small) \in Nat
      /\ DOMAIN s = 1 .. Len(large) + Len(small)
      /\ DOMAIN large = 1 .. Len(large) /\ DOMAIN small = 1 .. Len(small)
      /\ \A i \in DOMAIN s : s[i] = IF i <= Len(large) THEN large[i] ELSE small[i - Len(large)]
  BY <1>2, <1>3
<1> HIDE DEF s
<1>6. \A i \in DOMAIN s :
        \/ i <= Len(large) /\ i \in DOMAIN large /\ s[i] = Found(trees[n][1][i], n, 1)
        \/ /\ i > Len(large) /\ i - Len(large) \in DOMAIN small
           /\ s[i] = Found(trees[n][2][i - Len(large)], n, 2)
  BY <1>2, <1>3, <1>5
<1>7. \A i \in DOMAIN s : \E size \in {1, 2} : \E k \in DOMAIN trees[n][size] :
        s[i] = Found(trees[n][size][k], n, size)
  BY <1>2, <1>3, <1>6
<1>8. ASSUME NEW i \in DOMAIN s, NEW h \in DOMAIN s, i < h PROVE Before(s[i], s[h])
  <2>1. s[i].at = n /\ s[h].at = n
    BY <1>6 DEF Found
  <2>2. s[i].width = (IF i <= Len(large) THEN 128 ELSE 64)
    BY <1>5, <1>6 DEF Found, WidthOf
  <2>3. s[h].width = (IF h <= Len(large) THEN 128 ELSE 64)
    BY <1>5, <1>6 DEF Found, WidthOf
  <2> QED
    BY <1>1, <1>5, <1>8, <2>1, <2>2, <2>3 DEF Before
<1>9. ASSUME NEW size \in {1, 2}, NEW k \in DOMAIN trees[n][size]
      PROVE  \E i \in DOMAIN s : s[i] = Found(trees[n][size][k], n, size)
  <2>1. CASE size = 1
    <3>1. k \in DOMAIN large
      BY <1>2, <1>9, <2>1
    <3>2. k \in DOMAIN s /\ s[k] = large[k]
      BY <1>5, <3>1
    <3> QED
      BY <1>2, <2>1, <3>1, <3>2
  <2>2. CASE size = 2
    <3>1. k \in DOMAIN small
      BY <1>3, <1>9, <2>2
    <3>2. k + Len(large) \in DOMAIN s /\ s[k + Len(large)] = small[k]
      BY <1>5, <3>1
    <3> QED
      BY <1>3, <2>2, <3>1, <3>2
  <2> QED
    BY <2>1, <2>2
<1>10. n .. n = {n}
  BY <1>1
<1> QED
  BY <1>4, <1>5, <1>7, <1>8, <1>9, <1>10 DEF Lists

\* One tree more: what it has comes after what the others have.
LEMMA OneTreeMore ==
  ASSUME NEW trees, NEW n \in Nat, NEW s, NEW e, Lists(s, trees, 1, n), Lists(e, trees, n + 1, n + 1)
  PROVE  Lists(s \o e, trees, 1, n + 1)
<1> DEFINE t == s \o e
<1>1. s \in Seq(AnyEntry) /\ e \in Seq(AnyEntry)
  BY DEF Lists
<1>2. /\ t \in Seq(AnyEntry) /\ Len(s) \in Nat /\ Len(e) \in Nat
      /\ DOMAIN t = 1 .. Len(s) + Len(e) /\ DOMAIN s = 1 .. Len(s) /\ DOMAIN e = 1 .. Len(e)
      /\ \A i \in DOMAIN t : t[i] = IF i <= Len(s) THEN s[i] ELSE e[i - Len(s)]
  BY <1>1
<1> HIDE DEF t
<1>3. \A i \in DOMAIN t :
        \/ i <= Len(s) /\ i \in DOMAIN s /\ t[i] = s[i]
        \/ i > Len(s) /\ i - Len(s) \in DOMAIN e /\ t[i] = e[i - Len(s)]
  BY <1>2
<1>4. /\ \A i \in DOMAIN s : s[i].at \in 1 .. n
      /\ \A i \in DOMAIN e : e[i].at = n + 1
  BY DEF Lists, Found
<1>5. ASSUME NEW i \in DOMAIN t
      PROVE  \E m \in 1 .. n + 1, size \in {1, 2} : \E k \in DOMAIN trees[m][size] :
               t[i] = Found(trees[m][size][k], m, size)
  <2>1. CASE i \in DOMAIN s /\ t[i] = s[i]
    <3>1. 1 .. n \subseteq 1 .. n + 1
      OBVIOUS
    <3> QED
      BY <2>1, <3>1 DEF Lists
  <2>2. CASE i - Len(s) \in DOMAIN e /\ t[i] = e[i - Len(s)]
    <3>1. n + 1 .. n + 1 \subseteq 1 .. n + 1
      OBVIOUS
    <3> QED
      BY <2>2, <3>1 DEF Lists
  <2> QED
    BY <1>3, <2>1, <2>2
<1>6. ASSUME NEW i \in DOMAIN t, NEW h \in DOMAIN t, i < h PROVE Before(t[i], t[h])
  <2>1. CASE i \in DOMAIN s /\ t[i] = s[i] /\ h \in DOMAIN s /\ t[h] = s[h]
    BY <1>6, <2>1 DEF Lists
  <2>2. CASE /\ i - Len(s) \in DOMAIN e /\ t[i] = e[i - Len(s)]
             /\ h - Len(s) \in DOMAIN e /\ t[h] = e[h - Len(s)]
    <3>1. i - Len(s) < h - Len(s)
      BY <1>2, <1>6
    <3> QED
      BY <2>2, <3>1 DEF Lists
  <2>3. CASE i \in DOMAIN s /\ t[i] = s[i] /\ h - Len(s) \in DOMAIN e /\ t[h] = e[h - Len(s)]
    BY <1>4, <2>3 DEF Before
  <2>4. CASE h <= Len(s) /\ i > Len(s)
    BY <1>2, <1>6, <2>4
  <2> QED
    BY <1>3, <2>1, <2>2, <2>3, <2>4
<1>7. ASSUME NEW m \in 1 .. n + 1, NEW size \in {1, 2}, NEW k \in DOMAIN trees[m][size]
      PROVE  \E i \in DOMAIN t : t[i] = Found(trees[m][size][k], m, size)
  <2>1. CASE m \in 1 .. n
    <3>1. PICK i \in DOMAIN s : s[i] = Found(trees[m][size][k], m, size)
      BY <2>1 DEF Lists
    <3>2. i \in DOMAIN t /\ t[i] = s[i]
      BY <1>2
    <3> QED
      BY <3>1, <3>2
  <2>2. CASE m = n + 1
    <3>1. PICK i \in DOMAIN e : e[i] = Found(trees[m][size][k], m, size)
      BY <2>2 DEF Lists
    <3>2. i + Len(s) \in DOMAIN t /\ t[i + Len(s)] = e[i]
      BY <1>2
    <3> QED
      BY <3>1, <3>2
  <2> QED
    BY <2>1, <2>2
<1> QED
  BY <1>2, <1>5, <1>6, <1>7 DEF Lists, t

LEMMA NoTree ==
  ASSUME NEW trees
  PROVE  Lists(<<>>, trees, 1, 0)
BY DEF Lists

\* f[i] is what the first i trees have.
UpTo(f, trees, n) ==
  f = [i \in 0 .. n |-> IF i = 0 THEN <<>> ELSE f[i - 1] \o FlatpakEntries(trees[i], i)]

LEMMA UpToExists ==
  ASSUME NEW trees, NEW n \in Nat
  PROVE  \E f : UpTo(f, trees, n)
<1> DEFINE none == {i \in Nat : ~ \E f : UpTo(f, trees, i)}
<1> SUFFICES ASSUME none # {} PROVE FALSE
  OBVIOUS
<1>1. PICK m \in none : \A i \in none : m <= i
  <2>1. none \in SUBSET Nat
    OBVIOUS
  <2> HIDE DEF none
  <2> QED
    BY <2>1, LeastNatural
<1>2. m \in Nat /\ ~ \E f : UpTo(f, trees, m)
  OBVIOUS
<1>3. CASE m = 0
  <2> DEFINE f == [i \in 0 .. 0 |-> <<>>]
  <2>1. UpTo(f, trees, 0)
    BY DEF UpTo
  <2> QED
    BY <1>2, <1>3, <2>1
<1>4. CASE m # 0
  <2>1. m - 1 \in Nat /\ m - 1 \notin none
    BY <1>1, <1>2, <1>4
  <2>2. PICK g : UpTo(g, trees, m - 1)
    BY <2>1
  <2> DEFINE last == g[m - 1] \o FlatpakEntries(trees[m], m)
             f == [i \in 0 .. m |-> IF i = m THEN last ELSE g[i]]
  <2>3. ASSUME NEW i \in 0 .. m, i # 0
        PROVE  f[i] = f[i - 1] \o FlatpakEntries(trees[i], i)
    <3>1. i - 1 \in 0 .. m - 1 /\ f[i - 1] = g[i - 1]
      BY <1>2, <2>3
    <3>2. CASE i = m
      BY <3>1, <3>2
    <3>3. CASE i # m
      <4>1. i \in 0 .. m - 1 /\ f[i] = g[i]
        BY <1>2, <3>3
      <4>2. g[i] = g[i - 1] \o FlatpakEntries(trees[i], i)
        BY <2>2, <2>3, <4>1 DEF UpTo
      <4> QED
        BY <3>1, <4>1, <4>2
    <3> QED
      BY <3>2, <3>3
  <2>4. f[0] = <<>>
    <3>1. 0 \in 0 .. m - 1 /\ f[0] = g[0]
      BY <1>2, <1>4
    <3> QED
      BY <2>2, <3>1 DEF UpTo
  <2> HIDE DEF last
  <2>5. f = [i \in 0 .. m |-> IF i = 0 THEN <<>> ELSE f[i - 1] \o FlatpakEntries(trees[i], i)]
    <3>1. \A i \in 0 .. m : f[i] = IF i = 0 THEN <<>> ELSE f[i - 1] \o FlatpakEntries(trees[i], i)
      BY <2>3, <2>4
    <3>2. f = [i \in 0 .. m |-> f[i]]
      OBVIOUS
    <3> HIDE DEF f
    <3> QED
      BY <3>1, <3>2
  <2>6. UpTo(f, trees, m)
    BY <2>5 DEF UpTo
  <2> QED
    BY <1>2, <2>6
<1> QED
  BY <1>3, <1>4

LEMMA TreesListed ==
  ASSUME NEW trees \in Seq(Tree), NEW f, UpTo(f, trees, Len(trees))
  PROVE  Lists(f[Len(trees)], trees, 1, Len(trees))
<1> DEFINE n == Len(trees)
           wrong == {i \in 0 .. n : ~ Lists(f[i], trees, 1, i)}
<1>0. n \in Nat /\ DOMAIN trees = 1 .. n
  OBVIOUS
<1> HIDE DEF n
<1> SUFFICES ASSUME wrong # {} PROVE FALSE
  BY <1>0 DEF n
<1>1. PICK m \in wrong : \A i \in wrong : m <= i
  <2>1. wrong \in SUBSET Nat
    BY <1>0
  <2> HIDE DEF wrong
  <2> QED
    BY <2>1, LeastNatural
<1>2. m \in 0 .. n /\ m \in Nat /\ ~ Lists(f[m], trees, 1, m)
  BY <1>0
<1>3. f[0] = <<>> /\ \A i \in 1 .. n : f[i] = f[i - 1] \o FlatpakEntries(trees[i], i)
  BY <1>0 DEF UpTo, n
<1>4. CASE m = 0
  BY <1>2, <1>3, <1>4, NoTree
<1>5. CASE m # 0
  <2>1. m - 1 \in Nat /\ m \in 1 .. n /\ m - 1 \notin wrong /\ m - 1 \in 0 .. n /\ (m - 1) + 1 = m
    BY <1>0, <1>1, <1>2, <1>5
  <2>2. Lists(f[m - 1], trees, 1, m - 1)
    BY <2>1
  <2>3. Lists(FlatpakEntries(trees[m], m), trees, m, m)
    BY <1>0, <2>1, OneTree
  <2>4. Lists(f[m - 1] \o FlatpakEntries(trees[m], m), trees, 1, m)
    BY <2>1, <2>2, <2>3, OneTreeMore
  <2> QED
    BY <1>2, <1>3, <2>1, <2>4
<1> QED
  BY <1>4, <1>5

LEMMA FlatpakScanned ==
  ASSUME NEW trees \in Seq(Tree)
  PROVE  \E s : Lists(s, trees, 1, Len(trees)) /\ ScanFlatpak(trees) = FirstOfEach(s)
<1> DEFINE f == CHOOSE f : UpTo(f, trees, Len(trees))
<1>1. UpTo(f, trees, Len(trees))
  <2>1. Len(trees) \in Nat
    OBVIOUS
  <2> QED
    BY <2>1, UpToExists
<1>2. ScanFlatpak(trees) = FirstOfEach(f[Len(trees)])
  BY DEF ScanFlatpak, UpTo
<1> HIDE DEF f
<1> QED
  BY <1>1, <1>2, TreesListed

\* Some size of tree n has an icon of the app.
Holds(trees, n, size, id) == \E i \in DOMAIN trees[n][size] : trees[n][size][i] = id

\* What an app id is indexed to: the first remote that has an icon of it, and
\* of that remote's two sizes the large one.
LEMMA LargeIconIndexed ==
  ASSUME NEW trees \in Seq(Tree), NEW id \in Stems, NoStem \notin Stems
  PROVE  LET index == ScanFlatpak(trees)
         IN  /\ id \in DOMAIN index <=> \E n \in DOMAIN trees, size \in {1, 2} : Holds(trees, n, size, id)
             /\ id \in DOMAIN index =>
                  /\ \A n \in 1 .. index[id].at - 1, size \in {1, 2} : ~ Holds(trees, n, size, id)
                  /\ index[id].width = IF Holds(trees, index[id].at, 1, id) THEN 128 ELSE 64
<1> DEFINE index == ScanFlatpak(trees)
           last == Len(trees)
<1>0. DOMAIN trees = 1 .. last /\ last \in Nat
  OBVIOUS
<1>1. PICK s : Lists(s, trees, 1, last) /\ index = FirstOfEach(s)
  BY FlatpakScanned
<1>2. s \in Seq(AnyEntry) /\ DOMAIN s \subseteq Nat
  BY <1>1 DEF Lists
<1> HIDE DEF index, last
<1>3. /\ DOMAIN index = {s[i].stem : i \in DOMAIN s} \ {NoStem}
      /\ \A k \in DOMAIN index :
           \E i \in DOMAIN s : index[k] = s[i] /\ index[k].stem = k /\ \A h \in 1 .. i - 1 : s[h].stem # k
  <2>1. /\ DOMAIN FirstOfEach(s) = {s[i].stem : i \in DOMAIN s} \ {NoStem}
        /\ \A k \in DOMAIN FirstOfEach(s) :
             /\ FirstOfEach(s)[k].stem = k
             /\ \E i \in DOMAIN s : FirstOfEach(s)[k] = s[i] /\ \A h \in 1 .. i - 1 : s[h].stem # k
    BY <1>2, FirstIndexed
  <2> QED
    BY <1>1, <2>1
<1>4. ASSUME NEW i \in DOMAIN s, s[i].stem = id
      PROVE  /\ s[i].at \in 1 .. last
             /\ \E size \in {1, 2} : Holds(trees, s[i].at, size, id) /\ s[i].width = WidthOf(size)
  <2>1. PICK n \in 1 .. last, size \in {1, 2} : \E k \in DOMAIN trees[n][size] :
          s[i] = Found(trees[n][size][k], n, size)
    BY <1>1 DEF Lists
  <2>2. s[i].at = n /\ s[i].width = WidthOf(size) /\ Holds(trees, n, size, id)
    BY <1>4, <2>1 DEF Found, Holds
  <2> QED
    BY <2>2
<1>5. ASSUME NEW n \in 1 .. last, NEW size \in {1, 2}, Holds(trees, n, size, id)
      PROVE  \E i \in DOMAIN s : s[i].stem = id /\ s[i].at = n /\ s[i].width = WidthOf(size)
  <2>1. PICK k \in DOMAIN trees[n][size] : trees[n][size][k] = id
    BY <1>5 DEF Holds
  <2>2. PICK i \in DOMAIN s : s[i] = Found(trees[n][size][k], n, size)
    BY <1>1, <2>1 DEF Lists
  <2> QED
    BY <2>1, <2>2 DEF Found
<1>6. id \in DOMAIN index <=> \E n \in DOMAIN trees, size \in {1, 2} : Holds(trees, n, size, id)
  <2>1. id \in DOMAIN index <=> \E i \in DOMAIN s : s[i].stem = id
    BY <1>3
  <2> QED
    BY <1>0, <1>4, <1>5, <2>1
<1>7. ASSUME id \in DOMAIN index
      PROVE  /\ \A n \in 1 .. index[id].at - 1, size \in {1, 2} : ~ Holds(trees, n, size, id)
             /\ index[id].width = IF Holds(trees, index[id].at, 1, id) THEN 128 ELSE 64
  <2>1. PICK i \in DOMAIN s : index[id] = s[i] /\ s[i].stem = id /\ \A h \in 1 .. i - 1 : s[h].stem # id
    BY <1>3, <1>7
  <2>2. \A h \in DOMAIN s : s[h].stem = id => h = i \/ i < h
    <3>1. \A h \in DOMAIN s : h \in Nat /\ h >= 1
      BY <1>2
    <3> QED
      BY <2>1, <3>1
  <2>3. \A h \in DOMAIN s : s[h].stem = id => h = i \/ Before(s[i], s[h])
    BY <1>1, <2>2 DEF Lists
  <2>4. s[i].at \in 1 .. last /\ s[i].at \in Nat /\ s[i].width \in {64, 128}
    BY <1>0, <1>4, <2>1 DEF WidthOf
  <2>5. ASSUME NEW n \in 1 .. index[id].at - 1, NEW size \in {1, 2}, Holds(trees, n, size, id)
        PROVE  FALSE
    <3>1. n \in 1 .. last /\ n < s[i].at
      BY <1>0, <2>1, <2>4
    <3>2. PICK h \in DOMAIN s : s[h].stem = id /\ s[h].at = n
      BY <1>5, <2>5, <3>1
    <3> QED
      BY <2>3, <2>4, <3>1, <3>2 DEF Before
  <2>6. CASE Holds(trees, s[i].at, 1, id)
    <3>1. PICK h \in DOMAIN s : s[h].stem = id /\ s[h].at = s[i].at /\ s[h].width = 128
      BY <1>5, <2>4, <2>6 DEF WidthOf
    <3> QED
      BY <2>1, <2>3, <2>4, <2>5, <2>6, <3>1 DEF Before
  <2>7. CASE ~ Holds(trees, s[i].at, 1, id)
    <3>1. s[i].width = 64
      BY <1>4, <2>1, <2>7 DEF WidthOf
    <3> QED
      BY <2>1, <2>5, <2>7, <3>1
  <2> QED
    BY <2>6, <2>7
<1> QED
  BY <1>6, <1>7 DEF index

LEMMA ScansAreIndexes ==
  ASSUME NEW d \in Disks
  PROVE  IsIndex(ScanFlatpak(d.trees)) /\ IsIndex(ScanGsCache(d.gsCache))
<1>1. d.trees \in Seq(Tree) /\ d.gsCache \in Seq(CachedFile)
  BY ResolverAssumption DEF ResolverAssumption, Disk
<1>2. ASSUME NEW s \in Seq(AnyEntry) PROVE IsIndex(FirstOfEach(s))
  <2>1. \A i \in DOMAIN s : s[i].stem \in AnyStem
    <3>1. \A i \in DOMAIN s : s[i] \in AnyEntry
      BY <1>2
    <3> QED
      BY <3>1 DEF AnyEntry
  <2>2. /\ DOMAIN FirstOfEach(s) = {s[i].stem : i \in DOMAIN s} \ {NoStem}
        /\ \A k \in DOMAIN FirstOfEach(s) : FirstOfEach(s)[k] \in Entry
    BY <1>2, FirstIndexed
  <2> QED
    BY <2>1, <2>2 DEF IsIndex, AnyStem
<1>3. IsIndex(ScanFlatpak(d.trees))
  BY <1>1, <1>2, FlatpakScanned DEF Lists
<1>4. IsIndex(ScanGsCache(d.gsCache))
  <2> DEFINE c == d.gsCache
             e(i) == [stem  |-> IF c[i].prefixed THEN c[i].stem ELSE NoStem, at |-> i,
                      width |-> IF c[i].width > 0 THEN c[i].width ELSE 128]
             s == [i \in DOMAIN c |-> e(i)]
  <2>1. Len(c) \in Nat /\ DOMAIN c = 1 .. Len(c) /\ \A i \in DOMAIN c : c[i] \in CachedFile
    BY <1>1
  <2>2. \A i \in DOMAIN c : e(i) \in AnyEntry
    BY <2>1 DEF CachedFile, AnyEntry, AnyStem
  <2>3. ScanGsCache(c) = FirstOfEach(s)
    BY DEF ScanGsCache
  <2> HIDE DEF c, e
  <2>4. s \in [1 .. Len(c) -> AnyEntry]
    BY <2>1, <2>2
  <2>5. s \in Seq(AnyEntry)
    BY <2>1, <2>4, SeqDef
  <2> HIDE DEF s
  <2>6. IsIndex(FirstOfEach(s))
    BY <1>2, <2>5
  <2> QED
    BY <2>3, <2>6 DEF c
<1> QED
  BY <1>3, <1>4

-------------------------------------------------------------------------------
\* What a scan thread may hold, and what the tables of the resolver may be.
FlatpakIndexes == {Null, ScanFlatpak(disk.trees)}
GsCacheIndexes == {Null, ScanGsCache(disk.gsCache)}
ScanRecord == [pc : ScanPC, flatpak : FlatpakIndexes, gsCache : GsCacheIndexes]
Tables == [flatpak : [by : Scans \cup {Null}, index : FlatpakIndexes],
           gsCache : [by : Scans \cup {Null}, index : GsCacheIndexes]]

NamesTyped == names = Null \/ names \subseteq AddedNames \cup UNION {NamesOf[t] : t \in Themes}

FilesOK ==
  /\ theme \in Themes /\ changed \in BOOLEAN /\ instance \in BOOLEAN /\ NamesTyped
  /\ disk \in Disks
  /\ files \in Tables
  /\ scan \in [Scans -> ScanRecord]

LEMMA InitFiles == Init => FilesOK
<1> SUFFICES ASSUME Init PROVE FilesOK
  OBVIOUS
<1> USE DEF Init, ResolverInit
<1>1. NoTable \in [by : Scans \cup {Null}, index : FlatpakIndexes]
  BY DEF NoTable, FlatpakIndexes
<1>2. NoTable \in [by : Scans \cup {Null}, index : GsCacheIndexes]
  BY DEF NoTable, GsCacheIndexes
<1>3. files \in Tables
  BY <1>1, <1>2 DEF Tables
<1>4. NoScan \in ScanRecord
  BY DEF NoScan, ScanRecord, ScanPC, FlatpakIndexes, GsCacheIndexes
<1> QED
  BY <1>3, <1>4 DEF FilesOK, NamesTyped

LEMMA Rebuilt ==
  ASSUME theme \in Themes, NEW p, RebuildThemeIndex(p)
  PROVE  names' \subseteq AddedNames \cup UNION {NamesOf[t] : t \in Themes}
<1>1. NamesOf[theme] \subseteq UNION {NamesOf[t] : t \in Themes}
  OBVIOUS
<1> QED
  BY <1>1 DEF RebuildThemeIndex

LEMMA FilesKept == ASSUME ShellInv, FilesOK, [Next]_vars PROVE FilesOK'
<1>0. /\ theme \in Themes /\ changed \in BOOLEAN /\ instance \in BOOLEAN /\ NamesTyped /\ disk \in Disks
      /\ files \in Tables /\ scan \in [Scans -> ScanRecord]
  BY DEF FilesOK
<1>1. ASSUME UNCHANGED <<theme, changed, instance, names, disk, files, scan>> PROVE FilesOK'
  BY <1>0, <1>1 DEF FilesOK, NamesTyped, Tables, ScanRecord, FlatpakIndexes, GsCacheIndexes
<1>3. ASSUME UNCHANGED disk, theme' \in Themes, changed' \in BOOLEAN, instance' \in BOOLEAN,
             NamesTyped', files' \in Tables,
             scan' \in [Scans -> ScanRecord]
      PROVE  FilesOK'
  BY <1>0, <1>3 DEF FilesOK, Tables, ScanRecord, FlatpakIndexes, GsCacheIndexes
<1>4. CASE SetupAsync
  <2>1. UNCHANGED <<theme, files, disk>>
    BY <1>4 DEF SetupAsync
  <2>2. changed' \in BOOLEAN /\ instance' \in BOOLEAN
    BY <1>0, <1>4 DEF SetupAsync, ThemeSetup, ResolverSetup
  <2>3. NamesTyped'
    <3>1. CASE display
      BY <1>0, <1>4, <2>1, <3>1, Rebuilt DEF SetupAsync, ResolverSetup, NamesTyped
    <3>2. CASE ~ display
      BY <1>0, <1>4, <3>2 DEF SetupAsync, ResolverSetup, NamesTyped
    <3> QED
      BY <3>1, <3>2
  <2>4. scan' \in [Scans -> ScanRecord]
    <3>1. scan' = [scan EXCEPT ![ScanOf[gen]].pc = "scanning"]
      BY <1>4 DEF SetupAsync, ResolverSetup
    <3>2. "scanning" \in ScanPC
      BY DEF ScanPC
    <3> QED
      BY <1>0, <3>1, <3>2 DEF ScanRecord
  <2> QED
    BY <1>0, <1>3, <2>1, <2>2, <2>3, <2>4
<1>5. CASE \/ Construct \/ SetupFinish \/ Drop \/ Finalize \/ ClearIconCache
          \/ ClearEnrichmentCache \/ ClearPluginsCache
  BY <1>1, <1>5 DEF Construct, SetupFinish, Drop, Finalize, ClearIconCache,
     ClearEnrichmentCache, ClearPluginsCache, resolverVars
<1>7. CASE ShutdownResolver
  <2>1. UNCHANGED <<theme, changed, disk, scan>> /\ instance' = FALSE /\ names' = Null
        /\ files' = [flatpak |-> NoTable, gsCache |-> NoTable]
    BY <1>7 DEF ShutdownResolver, ResolverShutdown
  <2>2. files' \in Tables
    BY <2>1 DEF Tables, NoTable, FlatpakIndexes, GsCacheIndexes
  <2> QED
    BY <1>0, <1>3, <2>1, <2>2 DEF NamesTyped
<1>8. CASE Desktop
  <2>1. ASSUME NEW t \in Themes, ThemeChanges(t) PROVE FilesOK'
    <3>1. theme' = t /\ changed' = TRUE /\ UNCHANGED <<instance, names, files, disk, scan>>
      BY <1>8, <2>1 DEF Desktop, ThemeChanges, fileVars, shellVars
    <3> QED
      BY <1>0, <1>3, <2>1, <3>1 DEF NamesTyped
  <2>2. CASE OnThemeChanged
    <3>1. changed' = FALSE /\ UNCHANGED <<theme, instance, files, disk, scan>>
      BY <1>8, <2>2 DEF Desktop, OnThemeChanged, fileVars, shellVars
    <3>2. NamesTyped'
      BY <1>0, <2>2, <3>1, Rebuilt DEF OnThemeChanged, NamesTyped
    <3> QED
      BY <1>0, <1>3, <3>1, <3>2
  <2> QED
    BY <1>8, <2>1, <2>2 DEF Desktop
<1>9. ASSUME NEW c \in Callers, JobStarts(c) \/ CallDaemon(c) \/ TakeAnswer(c) \/ CallMoves(c)
      PROVE  FilesOK'
  <2>1. UNCHANGED <<theme, changed, instance, names, disk, files, scan>>
    BY <1>9 DEF JobStarts, StartJob, SkipStep, Return, Report, CallDaemon, TakeAnswer, CallMoves,
       Daemon, Wire, Crash, resolverVars, shellVars
  <2> QED
    BY <1>1, <2>1, SMTT(30)
<1>10. ASSUME NEW c \in Callers, LockTaken(c) PROVE FilesOK'
  <2>1. UNCHANGED <<theme, changed, instance, names, disk, files, scan>>
    BY <1>10 DEF LockTaken, UseCache, ResolveIcon, resolverVars
  <2> QED
    BY <1>1, <2>1
<1>11. ASSUME NEW s \in Scans, ScanStep(s) PROVE FilesOK'
  <2>1. CASE ScanFileCaches(s) /\ UNCHANGED shellVars
    <3> DEFINE new == [pc |-> "publishing", flatpak |-> ScanFlatpak(disk.trees),
                       gsCache |-> ScanGsCache(disk.gsCache)]
    <3>1. /\ UNCHANGED <<theme, changed, instance, names, disk, files>>
          /\ scan' = [scan EXCEPT ![s] = new]
      BY <2>1 DEF ScanFileCaches, themeVars, shellVars
    <3>2. new \in ScanRecord
      BY DEF ScanRecord, ScanPC, FlatpakIndexes, GsCacheIndexes
    <3> HIDE DEF new
    <3>3. scan' \in [Scans -> ScanRecord]
      BY <1>0, <3>1, <3>2
    <3> QED
      BY <1>0, <1>3, <3>1, <3>3 DEF NamesTyped
  <2>2. CASE Publish(s)
    <3>1. /\ UNCHANGED <<theme, changed, instance, names, disk>>
          /\ files' = [flatpak |-> [by |-> s, index |-> scan[s].flatpak],
                       gsCache |-> [by |-> s, index |-> scan[s].gsCache]]
          /\ scan' = [scan EXCEPT ![s] = [NoScan EXCEPT !.pc = "ended"]]
      BY <2>2 DEF Publish, PublishScan, themeVars
    <3>2. scan[s].flatpak \in FlatpakIndexes /\ scan[s].gsCache \in GsCacheIndexes
      BY <1>0 DEF ScanRecord
    <3>3. files' \in Tables
      BY <3>1, <3>2 DEF Tables
    <3>4. [NoScan EXCEPT !.pc = "ended"] \in ScanRecord
      BY DEF NoScan, ScanRecord, ScanPC, FlatpakIndexes, GsCacheIndexes
    <3>5. scan' \in [Scans -> ScanRecord]
      BY <1>0, <3>1, <3>4
    <3> QED
      BY <1>0, <1>3, <3>1, <3>3, <3>5 DEF NamesTyped
  <2> QED
    BY <1>11, <2>1, <2>2 DEF ScanStep
<1>12. CASE UNCHANGED vars
  BY <1>1, <1>12 DEF vars, resolverVars, shellVars
<1> QED
  BY <1>4, <1>5, <1>7, <1>8, <1>9, <1>10, <1>11, <1>12, NextCases DEF ObjectStep, Teardown

-------------------------------------------------------------------------------
\* What is left after the shutdown: a scan that was under way then, and a table
\* that such a scan has published since.
LeftOK ==
  /\ late \subseteq Scans
  /\ object = "gone" =>
       /\ \A s \in Scans : UnderWay(s) => s \in late
       /\ \A table \in {files.flatpak, files.gsCache} : table = NoTable \/ table.by \in late

LEMMA LeftKept == ASSUME ShellInv, FilesOK, LeftOK, [Next]_vars PROVE LeftOK'
<1>1. CASE UNCHANGED <<late, files, scan>> /\ (object' = "gone" => object = "gone")
  BY <1>1 DEF LeftOK, UnderWay
<1>2. CASE ObjectStep
  <2>1. CASE SetupAsync
    BY <2>1 DEF SetupAsync, LeftOK
  <2>2. CASE ShutdownResolver
    <3>1. /\ late' = {s \in Scans : UnderWay(s)} /\ scan' = scan
          /\ files' = [flatpak |-> NoTable, gsCache |-> NoTable]
      BY <2>2 DEF ShutdownResolver, ResolverShutdown
    <3> QED
      BY <3>1 DEF LeftOK, UnderWay
  <2>3. CASE ObjectStep /\ ~ SetupAsync /\ ~ ShutdownResolver
    BY <1>1, <2>3 DEF ObjectStep, Construct, SetupFinish, Drop, Teardown, Finalize, ClearIconCache,
       ClearEnrichmentCache, ClearPluginsCache, resolverVars
  <2> QED
    BY <1>2, <2>1, <2>2, <2>3
<1>3. CASE Desktop
  BY <1>1, <1>3 DEF Desktop, ThemeChanges, OnThemeChanged, fileVars, shellVars
<1>4. ASSUME NEW c \in Callers,
             JobStarts(c) \/ LockTaken(c) \/ CallDaemon(c) \/ TakeAnswer(c) \/ CallMoves(c)
      PROVE  LeftOK'
  <2>1. UNCHANGED <<late, files, scan, object>>
    BY <1>4 DEF JobStarts, StartJob, SkipStep, Return, Report, LockTaken, UseCache, ResolveIcon, CallDaemon,
       TakeAnswer, CallMoves, Daemon, Wire, Crash, resolverVars, shellVars
  <2> QED
    BY <1>1, <2>1
<1>5. ASSUME NEW s \in Scans, ScanStep(s) PROVE LeftOK'
  <2>1. UNCHANGED <<late, object>> /\ UnderWay(s)
    BY <1>5 DEF ScanStep, ScanFileCaches, Publish, PublishScan, shellVars, UnderWay
  <2>2. \A r \in Scans \ {s} : scan'[r] = scan[r]
    BY <1>5 DEF ScanStep, ScanFileCaches, Publish, PublishScan, FilesOK
  <2>3. \/ files' = files
        \/ files'.flatpak.by = s /\ files'.gsCache.by = s
    BY <1>5 DEF ScanStep, ScanFileCaches, Publish, PublishScan
  <2>4. object = "gone" => s \in late
    BY <2>1 DEF LeftOK
  <2>5. object' = "gone" => \A r \in Scans : UnderWay(r)' => r \in late'
    BY <2>1, <2>2, <2>4 DEF LeftOK, UnderWay
  <2>6. object' = "gone" => \A table \in {files'.flatpak, files'.gsCache} : table = NoTable \/ table.by \in late'
    BY <2>1, <2>3, <2>4 DEF LeftOK
  <2> QED
    BY <2>1, <2>5, <2>6 DEF LeftOK, NoTable
<1>6. CASE UNCHANGED vars
  BY <1>1, <1>6 DEF vars, resolverVars, shellVars
<1> QED
  BY <1>2, <1>3, <1>4, <1>5, <1>6, NextCases

LEMMA FilesInvariant == Spec => [](ShellInv /\ FilesOK /\ LeftOK)
<1>1. Init => LeftOK
  BY DEF Init, LeftOK
<1> QED
  BY <1>1, InitFiles, FilesKept, LeftKept, ShellInvariant, PTL DEF Spec

\* A finalized plugin leaves no connection, URL, handler or theme name behind, the
\* second time as the first; and no thread and no index of files but a scan that
\* was under way when it was finalized, and what that scan publishes
\* (gs_plugin_modulix_finalize(), gs_modulix_icon_resolver_shutdown()).
THEOREM AlwaysTornDown == Spec => []TornDown
<1>1. ASSUME ShellInv, LeftOK PROVE TornDown
  <2> SUFFICES ASSUME object = "gone" PROVE TornDown
    BY DEF TornDown
  <2>1. ~bus /\ ~urls
    BY <1>1 DEF ShellInv, ObjectOK
  <2>2. handlers = 0 /\ names = Null
    BY <1>1 DEF ShellInv, ThemeOK
  <2>3. ASSUME NEW id \in Stems PROVE WinningLevel({id}, id) # "theme"
    BY <2>2 DEF WinningLevel, ThemeHas
  <2> QED
    BY <1>1, <2>1, <2>2, <2>3 DEF TornDown, LeftOK
<1> QED
  BY <1>1, FilesInvariant, PTL

\* What an app id is indexed to, whichever scan published the table: the first
\* remote that has an icon of it, and of that remote's two sizes the large one
\* (scan_flatpak_appstream_icons()).
THEOREM LargeIconAlwaysWins == Spec => []LargeIconWins
<1>1. ASSUME FilesOK PROVE LargeIconWins
  <2> SUFFICES ASSUME files.flatpak.index # Null PROVE LargeIconWins
    BY DEF LargeIconWins
  <2> DEFINE trees == disk.trees
             index == files.flatpak.index
  <2>1. index = ScanFlatpak(trees)
    BY <1>1 DEF FilesOK, Tables, FlatpakIndexes
  <2>2. trees \in Seq(Tree) /\ NoStem \notin Stems
    BY <1>1, ResolverAssumption DEF ResolverAssumption, FilesOK, Disk
  <2> HIDE DEF trees, index
  <2>3. ASSUME NEW id \in Stems
        PROVE  /\ id \in DOMAIN index <=> \E n \in DOMAIN trees, size \in {1, 2} : Holds(trees, n, size, id)
               /\ id \in DOMAIN index =>
                    /\ \A n \in 1 .. index[id].at - 1, size \in {1, 2} : ~ Holds(trees, n, size, id)
                    /\ index[id].width = IF Holds(trees, index[id].at, 1, id) THEN 128 ELSE 64
    BY <2>1, <2>2, LargeIconIndexed
  <2> QED
    BY <2>3 DEF LargeIconWins, Holds, trees, index
<1> QED
  BY <1>1, FilesInvariant, PTL

\* Every variable of the plugin, its connection and its icon resolver has its
\* type, in every life of the object.
THEOREM ShellTypeCorrect == Spec => []ShellTypeOK
<1>1. ASSUME ShellInv, FilesOK, LeftOK PROVE ShellTypeOK
  <2>1. BusTypeOK
    BY <1>1 DEF ShellInv, ObjectOK, CallsOK, BusTypeOK
  <2>2. IsIndex(Null)
    BY DEF IsIndex
  <2>3. /\ \A x \in FlatpakIndexes : IsIndex(x)
        /\ \A x \in GsCacheIndexes : IsIndex(x)
    <3>1. disk \in Disks
      BY <1>1 DEF FilesOK
    <3> QED
      BY <2>2, <3>1, ScansAreIndexes DEF FlatpakIndexes, GsCacheIndexes
  <2>4. /\ files.flatpak.by \in Scans \cup {Null} /\ files.flatpak.index \in FlatpakIndexes
        /\ files.gsCache.by \in Scans \cup {Null} /\ files.gsCache.index \in GsCacheIndexes
    BY <1>1 DEF FilesOK, Tables
  <2>5. \A s \in Scans : scan[s].pc \in ScanPC /\ scan[s].flatpak \in FlatpakIndexes
                         /\ scan[s].gsCache \in GsCacheIndexes
    BY <1>1 DEF FilesOK, ScanRecord
  <2>6. ResolverTypeOK
    <3>1. display \in BOOLEAN /\ path \in Nat /\ handlers \in Nat
      BY <1>1 DEF ShellInv, ThemeOK
    <3>2. theme \in Themes /\ changed \in BOOLEAN /\ instance \in BOOLEAN /\ disk \in Disks /\ NamesTyped
      BY <1>1 DEF FilesOK
    <3> QED
      BY <2>3, <2>4, <2>5, <3>1, <3>2 DEF ResolverTypeOK, NamesTyped
  <2>7. /\ gen \in 0 .. Gens /\ object \in ObjectPC /\ urls \in BOOLEAN
        /\ job \in [Callers -> [pc : JobPC, todo : Seq(Method \cup Lock), ok : BOOLEAN]]
        /\ dead \in [Lock -> 0 .. Gens] /\ misused \subseteq Lock \X (1 .. Gens) \X (1 .. Gens)
        /\ late \subseteq Scans
    BY <1>1 DEF ShellInv, ObjectOK, JobsOK, JobRecord, LocksOK, LeftOK
  <2> QED
    BY <2>1, <2>6, <2>7 DEF ShellTypeOK
<1> QED
  BY <1>1, FilesInvariant, PTL
===============================================================================
