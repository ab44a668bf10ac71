----------------------------- MODULE IconResolver -----------------------------
(***************************************************************************)
(* gs-modulix-icon-theme.c and gs-modulix-icon-resolver.c: the search path *)
(* of the icon theme, the index of the names the theme has, and the two    *)
(* indexes of the icon files on disk that a thread of its own builds.      *)
(*                                                                         *)
(* The main thread sets up, shuts down and follows the theme; the scan     *)
(* threads publish under the writer lock; any worker looks icons up under  *)
(* the reader lock.  This module has the operations; PluginShell says when *)
(* they run.                                                               *)
(***************************************************************************)
EXTENDS Integers, Sequences, FiniteSets

CONSTANTS
  Displays,    \* whether there may be a GdkDisplay, and whether there may be none
  Themes,      \* the icon themes of the desktop
  NamesOf,     \* NamesOf[t]: the names theme t has in the directories it searches
  AddedNames,  \* those it has in the directories and resources the plugin adds
  Disks,       \* what the two trees of icon files may hold
  Stems,       \* app ids: what is left of a file name without its extension
  NoStem,      \* ... of a name without a known extension, or with nothing else
  Scans,       \* scan threads: one per initialisation
  Null         \* a table or a set of names that is NULL

\* <<128x128, 64x64>> directories of one architecture of one Flatpak remote, and
\* the cache of GNOME Software: a name is 40 digits, a dash and the rest, or not;
\* width 0 is a file gdk-pixbuf cannot tell the size of.
Tree == Seq(Stems \cup {NoStem}) \X Seq(Stems \cup {NoStem})
CachedFile == [prefixed : BOOLEAN, stem : Stems \cup {NoStem}, width : Nat]
Disk == [trees : Seq(Tree), gsCache : Seq(CachedFile)]

ASSUME ResolverAssumption ==
  /\ Displays \subseteq BOOLEAN
  /\ Themes # {} /\ NoStem \notin Stems
  /\ Disks # {} /\ Disks \subseteq Disk

VARIABLES
  display,   \* gdk_display_get_default() # NULL
  theme,     \* the theme the desktop uses
  path,      \* how many times the plugin's directories are in its search path
  changed,   \* the theme has a "changed" signal to deliver
  handlers,  \* the times on_theme_changed is connected to it
  instance,  \* theme_instance # NULL
  names,     \* theme_names: a set, or Null
  files,     \* flatpak_icons and gs_cache_icons, and the scan each comes from
  disk,      \* the icon files there are, on a run of the program
  scan       \* scan[s]: where scan thread s is, and what it has found

resolverVars == <<display, theme, path, changed, handlers, instance, names, files, disk, scan>>
themeVars == <<display, theme, path, changed, handlers, instance, names>>
fileVars == <<files, disk, scan>>

NoTable == [by |-> Null, index |-> Null]
ScanPC == {"none", "scanning", "publishing", "ended"}
NoScan == [pc |-> "none", flatpak |-> Null, gsCache |-> Null]

\* An entry of an index: the place of its file, and its width.
Entry == [stem : Stems, at : Nat, width : Nat]
IsIndex(x) == x = Null \/ (DOMAIN x \subseteq Stems /\ \A k \in DOMAIN x : x[k] \in Entry)

ResolverTypeOK ==
  /\ display \in BOOLEAN /\ theme \in Themes /\ path \in Nat /\ changed \in BOOLEAN
  /\ handlers \in Nat /\ instance \in BOOLEAN
  /\ names = Null \/ names \subseteq AddedNames \cup UNION {NamesOf[t] : t \in Themes}
  /\ \A table \in {files.flatpak, files.gsCache} :
       table.by \in Scans \cup {Null} /\ IsIndex(table.index)
  /\ disk \in Disks
  /\ \A s \in Scans : scan[s].pc \in ScanPC /\ IsIndex(scan[s].flatpak) /\ IsIndex(scan[s].gsCache)

ResolverInit ==
  /\ display \in Displays
  /\ theme \in Themes
  /\ path = 0 /\ changed = FALSE /\ handlers = 0 /\ instance = FALSE
  /\ names = Null
  /\ files = [flatpak |-> NoTable, gsCache |-> NoTable]
  /\ disk \in Disks
  /\ scan = [s \in Scans |-> NoScan]

-------------------------------------------------------------------------------
(* The theme: main thread.                                                 *)

\* candidate_icon_dirs(), gs_modulix_icon_theme_setup(): what is searched stays,
\* the directories that exist are appended, in one call, so that the theme
\* changes once.
ThemeSetup ==
  IF display
  THEN path' = path + 1 /\ changed' = TRUE
  ELSE UNCHANGED <<path, changed>>

\* rebuild_theme_index(), with the search path p.
RebuildThemeIndex(p) == names' = NamesOf[theme] \cup (IF p > 0 THEN AddedNames ELSE {})

\* gs_modulix_icon_resolver_init(): the scan thread starts; the index is built
\* and, the first time, the signal connected.
ResolverSetup(s) ==
  /\ scan' = [scan EXCEPT ![s].pc = "scanning"]
  /\ IF display
     THEN /\ RebuildThemeIndex(path')
          /\ instance' = TRUE
          /\ handlers' = IF instance THEN handlers ELSE handlers + 1
     ELSE UNCHANGED <<names, instance, handlers>>

\* The user picks another theme, or installs icons in this one.
ThemeChanges(t) ==
  /\ display /\ t # theme
  /\ theme' = t /\ changed' = TRUE
  /\ UNCHANGED <<display, path, handlers, instance, names, fileVars>>

\* Mutant: the handler does not rebuild the index.
OnThemeChangedIgnored ==
  /\ changed /\ changed' = FALSE
  /\ UNCHANGED <<display, theme, path, handlers, instance, names, fileVars>>

\* The main loop delivers the signal; on_theme_changed(), if connected, rebuilds
\* the index.
OnThemeChanged ==
  /\ changed /\ changed' = FALSE
  /\ IF handlers > 0 THEN RebuildThemeIndex(path) ELSE UNCHANGED names
  /\ UNCHANGED <<display, theme, path, handlers, instance, fileVars>>

-------------------------------------------------------------------------------
(* The files: a scan thread.                                               *)

\* The index of a list of entries: the first one of each stem.
FirstOfEach(entries) ==
  LET stems == {entries[i].stem : i \in DOMAIN entries} \ {NoStem}
      first(stem) == CHOOSE i \in DOMAIN entries :
                       /\ entries[i].stem = stem
                       /\ \A h \in 1 .. i - 1 : entries[h].stem # stem
  IN  [stem \in stems |-> entries[first(stem)]]

\* The files of a directory, with the place and the width of each.
Entries(dir, tree, width) == [i \in DOMAIN dir |-> [stem |-> dir[i], at |-> tree, width |-> width]]

\* Mutant: the small size is looked at first.
FlatpakEntriesSmallFirst(tree, n) == Entries(tree[2], n, 64) \o Entries(tree[1], n, 128)

\* One architecture of one remote: 128x128, then 64x64.
FlatpakEntries(tree, n) == Entries(tree[1], n, 128) \o Entries(tree[2], n, 64)

\* scan_flatpak_appstream_icons(): the system's remotes, then the user's, in the
\* order of their directories.
ScanFlatpak(trees) ==
  LET upTo[n \in 0 .. Len(trees)] ==
        IF n = 0 THEN <<>> ELSE upTo[n - 1] \o FlatpakEntries(trees[n], n)
  IN  FirstOfEach(upTo[Len(trees)])

\* scan_gs_cache_icons()
ScanGsCache(cached) ==
  FirstOfEach([i \in DOMAIN cached |->
    [stem  |-> IF cached[i].prefixed THEN cached[i].stem ELSE NoStem,
     at    |-> i,
     width |-> IF cached[i].width > 0 THEN cached[i].width ELSE 128]])

\* scan_file_caches_thread(), before it takes the lock.
ScanFileCaches(s) ==
  /\ scan[s].pc = "scanning"
  /\ scan' = [scan EXCEPT ![s] = [pc |-> "publishing", flatpak |-> ScanFlatpak(disk.trees),
                                 gsCache |-> ScanGsCache(disk.gsCache)]]
  /\ UNCHANGED <<themeVars, files, disk>>

\* Both tables, in one writer section.
PublishScan(s) ==
  /\ scan[s].pc = "publishing"
  /\ files' = [flatpak |-> [by |-> s, index |-> scan[s].flatpak],
               gsCache |-> [by |-> s, index |-> scan[s].gsCache]]
  /\ scan' = [scan EXCEPT ![s] = [NoScan EXCEPT !.pc = "ended"]]
  /\ UNCHANGED <<themeVars, disk>>

-------------------------------------------------------------------------------
\* Mutant: the signal stays connected.
ResolverShutdownConnected ==
  /\ instance' = FALSE /\ handlers' = handlers
  /\ names' = Null /\ files' = [flatpak |-> NoTable, gsCache |-> NoTable]
  /\ UNCHANGED <<display, theme, path, changed, disk, scan>>

\* Mutant: the signal is disconnected though it was never connected.
ResolverShutdownUnguarded ==
  /\ instance' = FALSE /\ handlers' = handlers - 1
  /\ names' = Null /\ files' = [flatpak |-> NoTable, gsCache |-> NoTable]
  /\ UNCHANGED <<display, theme, path, changed, disk, scan>>

\* Mutant: the indexes of the files are kept.
ResolverShutdownKeepsFiles ==
  /\ instance' = FALSE
  /\ handlers' = IF instance THEN handlers - 1 ELSE handlers
  /\ names' = Null /\ files' = files
  /\ UNCHANGED <<display, theme, path, changed, disk, scan>>

\* gs_modulix_icon_resolver_shutdown(): a scan thread under way is not waited for.
ResolverShutdown ==
  /\ instance' = FALSE
  /\ handlers' = IF instance THEN handlers - 1 ELSE handlers
  /\ names' = Null /\ files' = [flatpak |-> NoTable, gsCache |-> NoTable]
  /\ UNCHANGED <<display, theme, path, changed, disk, scan>>

-------------------------------------------------------------------------------
(* A worker: gs_modulix_icon_resolve(), the part under the reader lock.    *)

ThemeHas(name) == names # Null /\ name \in names
Indexed(table, id) == table.index # Null /\ id \in DOMAIN table.index

\* The level that wins for the candidate names, and the app id if it has one.
WinningLevel(candidates, id) ==
  CASE \E c \in candidates : ThemeHas(c) -> "theme"
    [] OTHER -> IF Indexed(files.flatpak, id) THEN "flatpak"
                ELSE IF Indexed(files.gsCache, id) THEN "gs_cache" ELSE "later"
===============================================================================
