------------------------------- MODULE MCRefine -------------------------------
(* Instances of Refine for TLC.                                            *)
EXTENDS Refine

CONSTANTS pkg, mod, upd, other, id1, p1, p2

MCKindOf == [a \in {pkg, mod, upd, other} |->
               CASE a = pkg -> "package" [] a = mod -> "module"
                 [] a = upd -> "update" [] a = other -> "other"]
MCAppIdOf == [a \in {pkg, mod, upd, other} |-> IF a = pkg THEN id1 ELSE NoId]
MCPayload == [id \in {id1} |-> Field]

Details == [flags |-> {"DESCRIPTION", "SCREENSHOTS", "ADDONS", "LICENSE", "ICON"}, list |-> <<pkg>>]
OnlyLicense == [flags |-> {"LICENSE"}, list |-> <<upd, pkg>>]
Search == [flags |-> {"DESCRIPTION", "LICENSE", "ICON"}, list |-> <<other, mod, pkg>>]
Overview == [flags |-> {}, list |-> <<pkg>>]

OverlapJobs == [p \in {p1, p2} |->
                  IF p = p1 THEN {Details, OnlyLicense} ELSE {Search, Overview}]
ScreenshotJobs == [p \in {p1, p2} |-> {Details}]
===============================================================================
