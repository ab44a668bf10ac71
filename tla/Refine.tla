-------------------------------- MODULE Refine --------------------------------
(***************************************************************************)
(* gs-modulix-refine.c: refine passes, each a GTask worker that fills in   *)
(* the metadata of a list of apps, and the listing workers that make those *)
(* apps (the icon part of gs_modulix_make_app_from_variant()).  The plugin *)
(* cache hands every query the same GsApp, so passes and listings write    *)
(* the same objects with no lock.                                          *)
(*                                                                         *)
(* A step is one access to what is shared: a critical section of a cache,  *)
(* a daemon call, a read or a write of one property of an app.  Texts are  *)
(* told apart by where they come from, icons by the level of the resolver  *)
(* that chose them.  refine_addons() and the states refine_plugin() writes *)
(* are in Lifecycle.                                                       *)
(***************************************************************************)
EXTENDS EnrichmentCache, Integers, Sequences, FiniteSets

CONSTANTS
  Apps,       \* GsApp objects
  KindOf,     \* each one's modulix::kind; "other" if not ours
  AppIdOf,    \* each one's AppStream id
  NoId,       \* ... when it has none
  Summaries,  \* the apps that have a summary
  Licensed,   \* the packages `nix eval` finds a licence for
  Passes,     \* refine vfunc calls
  Jobs,       \* Jobs[p]: the requests pass p may be given
  Cancellable, \* the passes given a cancellable
  Listers     \* list_apps workers

Kind == {"package", "module", "plugin", "update", "other"}
Flag == {"DESCRIPTION", "SCREENSHOTS", "ADDONS", "LICENSE", "ICON"}  \* those handled
Request == [flags : SUBSET Flag, list : Seq(Apps)]

ASSUME RefineAssumption ==
  /\ Apps # {}
  /\ KindOf \in [Apps -> Kind]
  /\ NoId \notin AppIds
  /\ AppIdOf \in [Apps -> AppIds \cup {NoId}]
  /\ \A a \in Apps : KindOf[a] \in {"plugin", "update"} => AppIdOf[a] = NoId
  /\ Jobs \in [Passes -> SUBSET Request]
  /\ Cancellable \subseteq Passes

VARIABLES
  description,  \* where each app's description comes from
  license,      \* ... and its licence
  icons,        \* the levels of the icons attached to it
  themed,       \* whether it carries modulix::icon-themed
  screenshots,  \* how many times its screenshots were attached
  listed,       \* the apps some listing has returned
  iconUrls,     \* gs-modulix-icon-cache.c: app-id -> where its URL came from
  lister,       \* lister[l]: what listing worker l is doing
  pass,         \* pass[p]: the RefineData, and where the pass is
  cancelled     \* the passes whose cancellable is cancelled

appVars == <<description, license, icons, themed, screenshots>>
vars == <<appVars, listed, iconUrls, lister, pass, cancelled, enrichment>>

Source == {"none", "summary", "flathub", "nix"}
Level == {"theme", "file", "remote", "generic"}
ListerPC == {"idle", "checking", "adding", "marking"}
PassPC == {"idle", "scanning", "prefetching", "filling", "licenses", "apps", "icon", "seed",
           "license", "lookup", "fetching", "inserting", "texts", "urls", "remote",
           "screenshots", "attaching", "ok", "cancelled"}
Reply == UNION {[ids -> SUBSET Field] : ids \in SUBSET AppIds}
PassRecord == [pc : PassPC, flags : SUBSET Flag, list : Seq(Apps), i : Nat \ {0}, reply : Reply,
               licenses : SUBSET Apps, obj : SUBSET Field]

RefineTypeOK ==
  /\ EnrichmentTypeOK
  /\ description \in [Apps -> Source] /\ license \in [Apps -> Source]
  /\ icons \in [Apps -> SUBSET Level]
  /\ themed \in SUBSET Apps /\ listed \in SUBSET Apps
  /\ screenshots \in [Apps -> Nat]
  /\ DOMAIN iconUrls \subseteq AppIds
  /\ \A id \in DOMAIN iconUrls : iconUrls[id] \in {"listing", "flathub"}
  /\ lister \in [Listers -> [pc : ListerPC, app : Apps, url : BOOLEAN]]
  /\ pass \in [Passes -> PassRecord]
  /\ cancelled \in SUBSET Passes

\* A listing worker between two rows (the app named is then without meaning).
NoRow == [pc |-> "idle", app |-> CHOOSE a \in Apps : TRUE, url |-> FALSE]

NoReply == [id \in {} |-> {}]
NoPass == [pc |-> "idle", flags |-> {}, list |-> <<>>, i |-> 1, reply |-> NoReply,
           licenses |-> {}, obj |-> {}]

Init ==
  /\ EnrichmentInit
  /\ description = [a \in Apps |-> "none"] /\ license = [a \in Apps |-> "none"]
  /\ icons = [a \in Apps |-> {}] /\ themed = {}
  /\ screenshots = [a \in Apps |-> 0]
  /\ listed = {a \in Apps : KindOf[a] \in {"update", "other"}}
  /\ iconUrls = [id \in {} |-> "listing"]
  /\ lister = [l \in Listers |-> NoRow]
  /\ pass = [p \in Passes |-> NoPass]
  /\ cancelled = {}

-------------------------------------------------------------------------------
(* The properties of a GsApp, and the caches of icons.                     *)

\* Mutant: the nixpkgs licence is written at the quality of a seed.
QualityNixLowest == [none |-> 0, summary |-> 1, flathub |-> 2, nix |-> 1]

\* GsAppQuality each source writes with: LOWEST, NORMAL, HIGHEST.
Quality == [none |-> 0, summary |-> 1, flathub |-> 2, nix |-> 3]

\* gs_app_set_description(), gs_app_set_license(): a write of lower quality
\* than what is there is ignored.
Improved(current, source) == IF Quality[source] < Quality[current] THEN current ELSE source

\* gs_modulix_icon_resolve(): what the tables hold of a name at that moment is
\* any of these; the URL is the last resort before the generic icon.
Resolved(url) == {{"theme", "generic"}, {"file"}, {IF url THEN "remote" ELSE "generic"}}

\* gs_modulix_icon_cache_put(): the first URL wins.
IconCachePut(id, source) ==
  iconUrls' = [k \in DOMAIN iconUrls \cup {id} |->
                 IF k \in DOMAIN iconUrls THEN iconUrls[k] ELSE source]

-------------------------------------------------------------------------------
(* A listing worker makes the row of an app, new or from the plugin cache. *)

ListerAt(l, label) == lister[l].pc = label
GotoLister(l, label) == lister' = [lister EXCEPT ![l].pc = label]

\* The row goes into the list.
ListRow(l) ==
  /\ listed' = listed \cup {lister[l].app}
  /\ lister' = [lister EXCEPT ![l] = NoRow]

\* The lookup in the plugin cache, the texts, and the URL of the icon.
MakeApp(l, a) ==
  /\ ListerAt(l, "idle") /\ KindOf[a] \in {"package", "module", "plugin"}
  /\ \E inRow \in BOOLEAN :
       /\ KindOf[a] = "plugin" => ~inRow
       /\ IF inRow /\ AppIdOf[a] # NoId
          THEN IconCachePut(AppIdOf[a], "listing")
          ELSE UNCHANGED iconUrls
       /\ lister' = [lister EXCEPT ![l] =
            [pc |-> "checking", app |-> a, url |-> inRow \/ AppIdOf[a] \in DOMAIN iconUrls]]
  /\ UNCHANGED <<appVars, listed, pass, cancelled, enrichment>>

\* gs_app_has_icons().
CheckIcons(l) ==
  /\ ListerAt(l, "checking")
  /\ IF icons[lister[l].app] = {}
     THEN GotoLister(l, "adding") /\ UNCHANGED listed
     ELSE ListRow(l)
  /\ UNCHANGED <<appVars, iconUrls, pass, cancelled, enrichment>>

\* gs_modulix_icon_resolve() attaches what it found.
AddIcons(l) ==
  LET a == lister[l].app
  IN  /\ ListerAt(l, "adding")
      /\ \E found \in Resolved(lister[l].url) :
           /\ icons' = [icons EXCEPT ![a] = @ \cup found]
           /\ IF "theme" \in found /\ KindOf[a] # "plugin"
              THEN GotoLister(l, "marking") /\ UNCHANGED listed
              ELSE ListRow(l)
      /\ UNCHANGED <<description, license, themed, screenshots, iconUrls, pass, cancelled,
                     enrichment>>

\* Mutant: the row does not remember that a themed icon won.
MarkNothing(l) ==
  /\ ListerAt(l, "marking")
  /\ ListRow(l)
  /\ UNCHANGED <<appVars, iconUrls, pass, cancelled, enrichment>>

\* modulix::icon-themed; the row is complete.
MarkThemed(l) ==
  /\ ListerAt(l, "marking")
  /\ themed' = themed \cup {lister[l].app}
  /\ ListRow(l)
  /\ UNCHANGED <<description, license, icons, screenshots, iconUrls, pass, cancelled, enrichment>>

-------------------------------------------------------------------------------
(* Refine passes.                                                          *)

At(p, label) == pass[p].pc = label
Goto(p, label) == pass' = [pass EXCEPT ![p].pc = label]
App(p) == pass[p].list[pass[p].i]
Flags(p) == pass[p].flags

\* On to the next app of the list.
Next1(rec) == [rec EXCEPT !.pc = "apps", !.i = @ + 1, !.obj = {}]
NextApp(p) == pass' = [pass EXCEPT ![p] = Next1(@)]

\* GTask reports cancellation over any result.
Report(p) == IF p \in cancelled THEN "cancelled" ELSE "ok"

\* Both in one refine is the mark of the details page.
DetailsPage(flags) == {"LICENSE", "ADDONS"} \subseteq flags
Prefetches(flags) == flags \cap {"DESCRIPTION", "SCREENSHOTS"} # {}

\* collect_distinct(list, plugin, NULL, app_id_of).
IdsOf(list) ==
  {AppIdOf[list[k]] : k \in {n \in DOMAIN list : KindOf[list[n]] \notin {"plugin", "other"}}}
    \ {NoId}

\* collect_distinct(list, plugin, "package", gs_modulix_app_name).
PackagesOf(list) == {list[k] : k \in {n \in DOMAIN list : KindOf[list[n]] = "package"}}

AfterEnrichment(flags, list) ==
  IF DetailsPage(flags) /\ PackagesOf(list) # {} THEN "licenses" ELSE "apps"

\* gs_modulix_refine_async(): a request for nothing handled here is answered
\* at once.
RefineAsync(p) ==
  /\ At(p, "idle")
  /\ \E job \in Jobs[p] :
       /\ \A k \in DOMAIN job.list : job.list[k] \in listed
       /\ pass' = [pass EXCEPT ![p] =
            [NoPass EXCEPT !.flags = job.flags, !.list = job.list,
               !.pc = IF job.flags = {} THEN Report(p)
                      ELSE IF Prefetches(job.flags) THEN "scanning"
                      ELSE AfterEnrichment(job.flags, job.list)]]
  /\ UNCHANGED <<appVars, listed, iconUrls, lister, cancelled, enrichment>>

\* prefetch_many(): which ids have no entry yet.
ScanMissing(p) ==
  LET missing == Missing(IdsOf(pass[p].list))
  IN  /\ At(p, "scanning")
      /\ pass' = [pass EXCEPT ![p] =
           [@ EXCEPT !.reply = [id \in missing |-> {}],
                     !.pc = IF missing = {} THEN AfterEnrichment(Flags(p), pass[p].list)
                            ELSE "prefetching"]]
      /\ UNCHANGED <<appVars, listed, iconUrls, lister, cancelled, enrichment>>

\* The one GetAppEnrichment of the batch, with no lock held.
PrefetchReplies(p) ==
  /\ At(p, "prefetching")
  /\ \E reply \in EnrichmentReplies(DOMAIN pass[p].reply) :
       pass' = [pass EXCEPT ![p] = [@ EXCEPT !.reply = reply, !.pc = "filling"]]
  /\ UNCHANGED <<appVars, listed, iconUrls, lister, cancelled, enrichment>>

\* Mutant: a batched call that brought nothing is not remembered.
FillMissingIfAny(p) ==
  /\ At(p, "filling")
  /\ IF \A id \in DOMAIN pass[p].reply : pass[p].reply[id] = {}
     THEN UNCHANGED enrichment
     ELSE Fill(pass[p].reply)
  /\ pass' = [pass EXCEPT ![p] =
       [@ EXCEPT !.reply = NoReply, !.pc = AfterEnrichment(Flags(p), pass[p].list)]]
  /\ UNCHANGED <<appVars, listed, iconUrls, lister, cancelled>>

\* ... all of it put in at once, the ids with nothing too.
FillMissing(p) ==
  /\ At(p, "filling")
  /\ Fill(pass[p].reply)
  /\ pass' = [pass EXCEPT ![p] =
       [@ EXCEPT !.reply = NoReply, !.pc = AfterEnrichment(Flags(p), pass[p].list)]]
  /\ UNCHANGED <<appVars, listed, iconUrls, lister, cancelled>>

\* GetPackageLicenses: those the daemon could evaluate, none when it fails.
PrefetchLicenses(p) ==
  /\ At(p, "licenses")
  /\ \E found \in {PackagesOf(pass[p].list) \cap Licensed, {}} :
       pass' = [pass EXCEPT ![p] = [@ EXCEPT !.licenses = found, !.pc = "apps"]]
  /\ UNCHANGED <<appVars, listed, iconUrls, lister, cancelled, enrichment>>

\* Mutant: the row of the system update is returned from without moving on.
StepAppForgetsUpdate(p) ==
  /\ At(p, "apps")
  /\ IF pass[p].i > Len(pass[p].list) THEN Goto(p, Report(p))
     ELSE IF p \in cancelled THEN Goto(p, "cancelled")
     ELSE IF KindOf[App(p)] = "other" THEN NextApp(p)
     ELSE IF KindOf[App(p)] = "update" THEN Goto(p, "apps")
     ELSE Goto(p, "icon")
  /\ UNCHANGED <<appVars, listed, iconUrls, lister, cancelled, enrichment>>

\* The head of the loop: cancellation, ownership, kind.
StepApp(p) ==
  /\ At(p, "apps")
  /\ IF pass[p].i > Len(pass[p].list) THEN Goto(p, Report(p))
     ELSE IF p \in cancelled THEN Goto(p, "cancelled")
     ELSE IF KindOf[App(p)] \in {"other", "update"} THEN NextApp(p)
     ELSE Goto(p, "icon")
  /\ UNCHANGED <<appVars, listed, iconUrls, lister, cancelled, enrichment>>

\* refine_icon(); for a plugin nothing else is filled in.
RefineIcon(p) ==
  LET a == App(p)
  IN  /\ At(p, "icon")
      /\ \E url \in BOOLEAN : \E found \in Resolved(url) :
           IF "ICON" \in Flags(p) /\ icons[a] = {}
           THEN /\ icons' = [icons EXCEPT ![a] = found]
                /\ themed' = IF "theme" \in found THEN themed \cup {a} ELSE themed
           ELSE UNCHANGED <<icons, themed>>
      /\ IF KindOf[a] = "plugin" THEN NextApp(p) ELSE Goto(p, "seed")
      /\ UNCHANGED <<description, license, screenshots, listed, iconUrls, lister, cancelled,
                     enrichment>>

\* seed_description_from_summary().
SeedDescription(p) ==
  LET a == App(p)
  IN  /\ At(p, "seed")
      /\ description' =
           IF a \in Summaries /\ ("DESCRIPTION" \in Flags(p) \/ description[a] = "none")
           THEN [description EXCEPT ![a] = Improved(@, "summary")]
           ELSE description
      /\ Goto(p, "license")
      /\ UNCHANGED <<license, icons, themed, screenshots, listed, iconUrls, lister, cancelled,
                     enrichment>>

LicenseSet(p) == "LICENSE" \in Flags(p) /\ App(p) \in pass[p].licenses

\* Mutant: an app whose licence is settled is not enriched at all.
WantEnrichmentUnlessLicensed(p) ==
  /\ Flags(p) \cap {"DESCRIPTION", "SCREENSHOTS", "LICENSE"} # {}
  /\ ~LicenseSet(p)

WantEnrichment(p) ==
  \/ Flags(p) \cap {"DESCRIPTION", "SCREENSHOTS"} # {}
  \/ "LICENSE" \in Flags(p) /\ ~LicenseSet(p)

\* refine_license_from_nix(), and whether there is anything else to do.
RefineLicense(p) ==
  LET a == App(p)
  IN  /\ At(p, "license")
      /\ license' = IF LicenseSet(p) THEN [license EXCEPT ![a] = Improved(@, "nix")] ELSE license
      /\ IF WantEnrichment(p) /\ AppIdOf[a] # NoId THEN Goto(p, "lookup") ELSE NextApp(p)
      /\ UNCHANGED <<description, icons, themed, screenshots, listed, iconUrls, lister, cancelled,
                     enrichment>>

\* get_or_fetch(): a NULL leaves the app as it is.
Got(p, payload) ==
  pass' = [pass EXCEPT ![p] =
    IF payload = {} THEN Next1(@)
    ELSE [@ EXCEPT !.obj = payload, !.reply = NoReply, !.pc = "texts"]]

\* ... its reader section.
Lookup(p) ==
  LET id == AppIdOf[App(p)]
  IN  /\ At(p, "lookup")
      /\ IF id \in DOMAIN enrichment THEN Got(p, enrichment[id]) ELSE Goto(p, "fetching")
      /\ UNCHANGED <<appVars, listed, iconUrls, lister, cancelled, enrichment>>

\* ... the call for this one id, with no lock held.
FetchReplies(p) ==
  /\ At(p, "fetching")
  /\ \E reply \in EnrichmentReplies({AppIdOf[App(p)]}) :
       pass' = [pass EXCEPT ![p] = [@ EXCEPT !.reply = reply, !.pc = "inserting"]]
  /\ UNCHANGED <<appVars, listed, iconUrls, lister, cancelled, enrichment>>

\* Mutant: the loser of the race uses what it fetched itself.
InsertKeepsOwn(p) ==
  /\ At(p, "inserting")
  /\ Fill(pass[p].reply)
  /\ Got(p, pass[p].reply[AppIdOf[App(p)]])
  /\ UNCHANGED <<appVars, listed, iconUrls, lister, cancelled>>

\* ... its writer section; the loser of a race takes the winner's entry.
InsertFetched(p) ==
  /\ At(p, "inserting")
  /\ Fill(pass[p].reply)
  /\ Got(p, enrichment'[AppIdOf[App(p)]])
  /\ UNCHANGED <<appVars, listed, iconUrls, lister, cancelled>>

\* refine_from_enrichment(): licence and description.
ApplyTexts(p) ==
  LET a == App(p)
  IN  /\ At(p, "texts")
      /\ license' = IF "license" \in pass[p].obj /\ ~LicenseSet(p)
                    THEN [license EXCEPT ![a] = Improved(@, "flathub")] ELSE license
      /\ description' = IF "description" \in pass[p].obj
                        THEN [description EXCEPT ![a] = Improved(@, "flathub")] ELSE description
      /\ Goto(p, IF "icon" \in pass[p].obj THEN "urls" ELSE "screenshots")
      /\ UNCHANGED <<icons, themed, screenshots, listed, iconUrls, lister, cancelled, enrichment>>

\* ... the icon's URL, and whether a themed icon has won.
ApplyIconUrl(p) ==
  /\ At(p, "urls")
  /\ IconCachePut(AppIdOf[App(p)], "flathub")
  /\ Goto(p, IF App(p) \in themed THEN "screenshots" ELSE "remote")
  /\ UNCHANGED <<appVars, listed, lister, cancelled, enrichment>>

AddRemoteIcon(p) ==
  /\ At(p, "remote")
  /\ icons' = [icons EXCEPT ![App(p)] = @ \cup {"remote"}]
  /\ Goto(p, "screenshots")
  /\ UNCHANGED <<description, license, themed, screenshots, listed, iconUrls, lister, cancelled,
                 enrichment>>

\* gs_modulix_add_app_screenshots(): has the app some already?
CheckScreenshots(p) ==
  /\ At(p, "screenshots")
  /\ IF "screenshots" \in pass[p].obj /\ screenshots[App(p)] = 0
     THEN Goto(p, "attaching") ELSE NextApp(p)
  /\ UNCHANGED <<appVars, listed, iconUrls, lister, cancelled, enrichment>>

AddScreenshots(p) ==
  /\ At(p, "attaching")
  /\ screenshots' = [screenshots EXCEPT ![App(p)] = @ + 1]
  /\ NextApp(p)
  /\ UNCHANGED <<description, license, icons, themed, listed, iconUrls, lister, cancelled,
                 enrichment>>

\* The user leaves the page.
Cancel(p) ==
  /\ p \in Cancellable \ cancelled
  /\ cancelled' = cancelled \cup {p}
  /\ UNCHANGED <<appVars, listed, iconUrls, lister, pass, enrichment>>

-------------------------------------------------------------------------------
PassStep(p) ==
  \/ ScanMissing(p) \/ PrefetchReplies(p) \/ FillMissing(p) \/ PrefetchLicenses(p)
  \/ StepApp(p) \/ RefineIcon(p) \/ SeedDescription(p) \/ RefineLicense(p)
  \/ Lookup(p) \/ FetchReplies(p) \/ InsertFetched(p)
  \/ ApplyTexts(p) \/ ApplyIconUrl(p) \/ AddRemoteIcon(p)
  \/ CheckScreenshots(p) \/ AddScreenshots(p)

ListerStep(l) ==
  \/ \E a \in Apps : MakeApp(l, a)
  \/ CheckIcons(l) \/ AddIcons(l) \/ MarkThemed(l)

Next ==
  \/ \E p \in Passes : RefineAsync(p) \/ PassStep(p) \/ Cancel(p)
  \/ \E l \in Listers : ListerStep(l)

\* Every read of the daemon has a timeout, and threads are scheduled.
Fairness == \A p \in Passes : WF_vars(PassStep(p))

Spec == Init /\ [][Next]_vars /\ Fairness

-------------------------------------------------------------------------------
\* A key of a cache keeps its value: the first enrichment and the first icon
\* URL of an app-id win, however many passes and listings raced to insert one
\* (the second look under the writer lock).
FirstEntryWins ==
  [][ /\ \A id \in DOMAIN enrichment : id \in DOMAIN enrichment' /\ enrichment'[id] = enrichment[id]
      /\ \A id \in DOMAIN iconUrls : id \in DOMAIN iconUrls' /\ iconUrls'[id] = iconUrls[id] ]_vars

\* What a pass fills in for an app is what the table holds for its id, so two
\* passes over rows of one id (the variants of an app) never show different
\* texts for it, whoever fetched them.
PassesAgree ==
  \A p \in Passes : pass[p].obj # {} =>
    /\ AppIdOf[App(p)] \in DOMAIN enrichment
    /\ pass[p].obj = enrichment[AppIdOf[App(p)]]

\* A pass that prefetched never calls the daemon for a single app, whatever
\* the batched call returned and whoever else was filling the table ("the
\* per-app work is pure cache reads"): an id with no data is remembered too.
PrefetchSuffices ==
  \A p \in Passes : Prefetches(Flags(p)) => pass[p].pc \notin {"fetching", "inserting"}

\* A text is never replaced by one from a worse source: not the licence of the
\* build the user gets by Flathub's, not Flathub's description by the summary,
\* in whatever order the search page and the details page refine the app.
BetterSourceKept ==
  [][\A a \in Apps :
       /\ license[a] = "nix" => license'[a] = "nix"
       /\ description[a] = "flathub" => description'[a] = "flathub"]_vars

\* An app whose icon came from the theme is not given the remote one as well,
\* which would replace it on screen once downloaded.  Two listings that make one
\* row at once break it.
IconAlone(a) == "theme" \in icons[a] => "remote" \notin icons[a]
EveryIconAlone == \A a \in Apps : IconAlone(a)

\* What a pass that reports success has done for each app of its list that is
\* a package or a module: a description as soon as there is a summary (the
\* Installed page drops an app without), an icon, and of what was asked for
\* all that the daemon had.
PassDelivers ==
  \A p \in Passes : pass[p].pc = "ok" /\ Flags(p) # {} =>
    \A k \in DOMAIN pass[p].list :
      LET a == pass[p].list[k]
          id == AppIdOf[a]
          known == IF id \in DOMAIN enrichment THEN enrichment[id] ELSE {}
      IN  KindOf[a] \in {"package", "module"} =>
            /\ a \in Summaries => description[a] # "none"
            /\ icons[a] # {}
            /\ a \in pass[p].licenses => license[a] = "nix"
            /\ Prefetches(Flags(p)) /\ id # NoId =>
                 /\ id \in DOMAIN enrichment
                 /\ "description" \in known => description[a] = "flathub"
                 /\ "license" \in known => license[a] # "none"
                 /\ "screenshots" \in known => screenshots[a] > 0
                 /\ "icon" \in known => icons[a] \cap {"theme", "remote"} # {}

\* Every pass that was started reports, whatever fails or is cancelled.
EveryPassReports ==
  \A p \in Passes : (pass[p].pc # "idle") ~> (pass[p].pc \in {"ok", "cancelled"})

\* "Appending would show each of them twice": the screenshots of an app are
\* attached once (gs-modulix-app.c:203-207).
ScreenshotsOnce == \A a \in Apps : screenshots[a] <= 1
===============================================================================
