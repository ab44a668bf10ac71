------------------------------ MODULE MCListing ------------------------------
(***************************************************************************)
(* Two list_apps jobs of any two kinds, over a module, a package of the    *)
(* same application, another package, a plugin and the update row.         *)
(***************************************************************************)
EXTENDS Listing

CONSTANTS mod, pkg, pkg2, plg, upd,   \* keys
          app, other, plgId, updId,   \* ids
          none, j1, j2

MCKeys == {mod, pkg, pkg2, plg, upd}
MCIds == {app, other, plgId, updId}
MCKindOfKey == [k \in Keys |-> CASE k = mod -> "module" [] k = plg -> "plugin"
                                 [] k = upd -> "update" [] OTHER -> "package"]

MCVariantRank == [k \in Keys |-> IF k = pkg2 THEN 1 ELSE 0]

Plain(k, i) == [key |-> k, id |-> i, score |-> NoScore]
Scored(k, i, s) == [key |-> k, id |-> i, score |-> s]
Nameless == Plain(none, other)

\* A row's id is a group's, the application's or the name: a package is of the
\* module's id or of its own.  Scores are none, the perfect one, and one that
\* no score() gives.
MCReplies == [read \in Read |->
  CASE read = "alternates"         -> {<<Plain(pkg, app), Nameless, Plain(pkg2, app)>>,
                                       <<Plain(mod, app), Plain(pkg, app)>>}
    [] read = "installed_modules"  -> {<<Plain(mod, app)>>}
    [] read = "installed_packages" -> {<<Plain(pkg, app), Plain(pkg2, other)>>,
                                       <<Plain(pkg, other), Plain(pkg2, other)>>}
    [] read = "installed_plugins"  -> {<<Nameless, Plain(plg, plgId)>>}
    [] read = "search_modules"     -> {<<Scored(mod, app, 0)>>}
    [] read = "search_packages"    -> {<<Scored(pkg2, other, 1700), Scored(pkg, app, 3000)>>,
                                       <<Scored(pkg, other, 0)>>}
    [] read = "updates"            -> {<<Plain(upd, updId)>>}]

\* One query of each kind answered; the ones answered with nothing or refused.
MCQueries == {{"alternate"}, {"installed"}, {"keywords"}, {"for_update"},
              {"alternate_no_id"}, {"empty_keyword"},
              {"not_installed"}, {"no_keywords"}, {"other"}, {"keywords", "installed"}}
===============================================================================
