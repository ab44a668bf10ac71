---------------------------- MODULE EnrichmentCache ----------------------------
(***************************************************************************)
(* gs-modulix-enrichment-cache.c: the table of GetAppEnrichment replies.   *)
(* An entry is the set of fields the daemon sent for an app-id; the empty  *)
(* singleton ("the daemon has nothing, or did not answer") is the empty    *)
(* set, which a caller gets as NULL.  Entries are only ever added.         *)
(*                                                                         *)
(* These are the critical sections; the caller's progress between them,    *)
(* when no lock is held, is in Refine.                                     *)
(***************************************************************************)
CONSTANTS AppIds,    \* AppStream component ids
          Payload    \* what the daemon knows of each

Field == {"description", "icon", "license", "screenshots"}

ASSUME EnrichmentAssumption == Payload \in [AppIds -> SUBSET Field]

VARIABLE enrichment  \* the hash table: a function of the cached ids

EnrichmentTypeOK ==
  /\ DOMAIN enrichment \subseteq AppIds
  /\ \A id \in DOMAIN enrichment : enrichment[id] \in SUBSET Field

EnrichmentInit == enrichment = [id \in {} |-> {}]

\* GetAppEnrichment(ids): the daemon's answer, or nothing for any id when the
\* call fails.
EnrichmentReplies(ids) == {[id \in ids |-> Payload[id]], [id \in ids |-> {}]}

\* Reader section of prefetch_many().
Missing(ids) == ids \ DOMAIN enrichment

\* Mutant: no second look at the table under the writer lock.
FillOverwrites(reply) ==
  enrichment' = [id \in DOMAIN enrichment \cup DOMAIN reply |->
                   IF id \in DOMAIN reply THEN reply[id] ELSE enrichment[id]]

\* Writer section: what another thread inserted in the meantime is kept.
Fill(reply) ==
  enrichment' = [id \in DOMAIN enrichment \cup DOMAIN reply |->
                   IF id \in DOMAIN enrichment THEN enrichment[id] ELSE reply[id]]
===============================================================================
