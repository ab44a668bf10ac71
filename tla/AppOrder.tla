------------------------------- MODULE AppOrder -------------------------------
(***************************************************************************)
(* gs-modulix-app.c: the numbers GNOME Software sorts Modulix's apps by.   *)
(* A search page puts the greatest match value first, and the "Sources"    *)
(* popover of an app the smallest SortKey first.                           *)
(***************************************************************************)
EXTENDS Integers

MODULIX_MATCH_SCALE_MAX == 127
MODULIX_MATCH_EXACT_SCORE == 1700
MODULIX_MATCH_MODULE_BONUS == 128
MODULIX_MODULE_SORT_KEY == 50
MODULIX_PACKAGE_SORT_BASE == 2000

AtMost(a, b) == IF a < b THEN a ELSE b
AtLeast(a, b) == IF a < b THEN b ELSE a

\* Mutant: a score above that of a perfect match is not clamped.
MatchValueUnclamped(score, isModule) ==
  AtLeast(1, (score * MODULIX_MATCH_SCALE_MAX) \div MODULIX_MATCH_EXACT_SCORE)
  + (IF isModule THEN MODULIX_MATCH_MODULE_BONUS ELSE 0)

\* modulix_match_value(): the daemon's relevance, on the scale of AppStream.
MatchValue(score, isModule) ==
  AtLeast(1, (AtMost(score, MODULIX_MATCH_EXACT_SCORE) * MODULIX_MATCH_SCALE_MAX)
             \div MODULIX_MATCH_EXACT_SCORE)
  + (IF isModule THEN MODULIX_MATCH_MODULE_BONUS ELSE 0)

\* The SortKey of a row: a module's own, or the package's rank among the
\* variants of its app.
SortKey(isModule, variantRank) ==
  IF isModule THEN MODULIX_MODULE_SORT_KEY ELSE MODULIX_PACKAGE_SORT_BASE + variantRank
===============================================================================
