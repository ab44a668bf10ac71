---------------------------- MODULE MCPluginShell ----------------------------
(***************************************************************************)
(* A plugin loaded twice, with any job, on a desktop with two themes and   *)
(* on one without a display.                                               *)
(***************************************************************************)
EXTENDS PluginShell

CONSTANTS c1, light, dark, s1, s2,
          inTheme, added, onDisk,   \* app ids and icon names
          noStem

MCStems == {inTheme, added, onDisk}
MCNamesOf == [t \in Themes |-> IF t = light THEN {inTheme} ELSE {}]

\* Two remotes that disagree on the size of an icon, and files that are no icons.
MCDisks ==
  {[trees |-> << << <<onDisk>>, <<noStem, onDisk, inTheme>> >>, << <<inTheme>>, <<>> >> >>,
    gsCache |-> <<[prefixed |-> FALSE, stem |-> inTheme, width |-> 64],
                  [prefixed |-> TRUE, stem |-> added, width |-> 0]>>]}

MCScanOf == [g \in 1 .. Gens |-> IF g = 1 THEN s1 ELSE s2]
MCVfuncsOf == [c \in Callers |-> Vfunc]
===============================================================================
