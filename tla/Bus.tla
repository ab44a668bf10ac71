---------------------------------- MODULE Bus ----------------------------------
(***************************************************************************)
(* plugin/src/dbus/: the one connection to the system bus, and the         *)
(* synchronous calls worker threads make on it to mx-daemon.  A caller has *)
(* one call at a time.  The daemon works on a call until it has carried it *)
(* out or refused it, or until it dies; the caller waits for the reply, or *)
(* for the time-out its wrapper gave it.                                   *)
(***************************************************************************)
EXTENDS Integers

CONSTANT Callers   \* worker threads

VARIABLES
  bus,    \* modulix_bus # NULL
  call    \* call[c]: the call c is in or made last

busVars == <<bus, call>>

\* org.modulix.Store1, gs-modulix-store1.c.
ListMethod == {"SearchPackages", "SearchModules", "ListInstalledPackages", "ListInstalledModules"}
PluginMethod == {"ListModulePlugins", "ListInstalledPlugins", "PackagesForAppId"}
RefineMethod == {"GetAppEnrichment", "GetPackageLicenses"}
UpdateMethod == {"ListOutdatedInputs", "CheckUpdate", "RebootRequired"}

\* org.modulix.Daemon, gs-modulix-daemon1.c: for a list of names, a plugin of a
\* module, the system.
WriteMethod == {"NamesCall", "PluginCall", "UpdateSystem"}
Method == ListMethod \cup PluginMethod \cup RefineMethod \cup UpdateMethod \cup WriteMethod

MODULIX_STORE1_TIMEOUT_MS == 30000
NO_TIMEOUT == 2147483647   \* MODULIX_DAEMON1_NO_TIMEOUT, MODULIX_STORE1_CHECK_TIMEOUT_MS: G_MAXINT

\* Mutant: the 120 s the old shim gave a write.
TimeoutOfOldShim(m) ==
  IF m \in WriteMethod THEN 120000
  ELSE IF m = "CheckUpdate" THEN NO_TIMEOUT ELSE MODULIX_STORE1_TIMEOUT_MS

\* Mutant: a read is given the time-out of a write.
TimeoutOfNone(m) == NO_TIMEOUT

\* The time-out each wrapper passes.  (ListOutdatedInputs has a longer one for a
\* forced refresh, which nothing asks for.)
TimeoutOf(m) ==
  IF m \in WriteMethod \cup {"CheckUpdate"} THEN NO_TIMEOUT ELSE MODULIX_STORE1_TIMEOUT_MS

\* What the daemon does with a call, and what the caller is told.
Progress == {"none", "working", "served", "refused"}
Answer == {"none", "pending", "reply", "error", "timeout", "not_connected"}
CallRecord == [method : Method, progress : Progress, answer : Answer]
NoCall == [method |-> "SearchModules", progress |-> "none", answer |-> "none"]

BusTypeOK == bus \in BOOLEAN /\ call \in [Callers -> CallRecord]

BusClosed == bus = FALSE /\ call = [c \in Callers |-> NoCall]

-------------------------------------------------------------------------------
\* gs_modulix_bus_init(): idempotent; the bus may be out of reach.
BusInit(reachable) == bus' = (bus \/ reachable)

\* gs_modulix_bus_shutdown()
BusShutdown == bus' = FALSE

\* gs_modulix_bus_call(), up to the point it blocks.
BusCall(c, m) ==
  /\ call[c].answer = "none"
  /\ call' = [call EXCEPT ![c] =
       IF bus THEN [method |-> m, progress |-> "working", answer |-> "pending"]
              ELSE [method |-> m, progress |-> "none", answer |-> "not_connected"]]

\* mx-daemon carries a call out, or refuses it.
DaemonEnds(c) ==
  /\ call[c].progress = "working"
  /\ \E end \in {"served", "refused"} : call' = [call EXCEPT ![c].progress = end]
  /\ UNCHANGED bus

\* The reply comes back, and is of the type the wrapper expects.
ReplyArrives(c) ==
  /\ call[c].answer = "pending" /\ call[c].progress \in {"served", "refused"}
  /\ call' = [call EXCEPT ![c].answer = IF call[c].progress = "served" THEN "reply" ELSE "error"]
  /\ UNCHANGED bus

\* The daemon dies, in the middle of the call or with the reply under way.
DaemonDies(c) ==
  /\ call[c].answer = "pending"
  /\ \E end \in IF call[c].progress = "working" THEN {"served", "refused"}
                                               ELSE {call[c].progress} :
       call' = [call EXCEPT ![c].progress = end, ![c].answer = "error"]
  /\ UNCHANGED bus

\* The time-out of the call; the daemon goes on with what it is doing.
TimesOut(c) ==
  /\ call[c].answer = "pending" /\ TimeoutOf(call[c].method) # NO_TIMEOUT
  /\ call' = [call EXCEPT ![c].answer = "timeout"]
  /\ UNCHANGED bus

Answered(c) == call[c].answer \notin {"none", "pending"}

\* store1_call(), the boolean wrappers: a read that failed is an empty reply, or
\* FALSE, and its caller cannot tell.
TakeReply(c) ==
  /\ Answered(c) /\ call[c].method \notin WriteMethod
  /\ call' = [call EXCEPT ![c] = NoCall]
  /\ UNCHANGED bus

\* take_status(): a write succeeded if there is a reply to take it from.
Status(c) == call[c].answer = "reply"

TakeStatus(c) ==
  /\ Answered(c) /\ call[c].method \in WriteMethod
  /\ call' = [call EXCEPT ![c] = NoCall]
  /\ UNCHANGED bus

===============================================================================
