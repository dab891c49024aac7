-------------------------- MODULE ReliableDelivery --------------------------
(***************************************************************************)
(* What a steward promises of the usage records in its database: every     *)
(* record of a registered org is delivered to that org's Butler at least   *)
(* once, and is marked as synced only after it has been delivered.         *)
(***************************************************************************)
CONSTANTS
    Requests,
    Reported    \* the requests whose org has workers

VARIABLES
    stored,     \* persisted records
    delivered,  \* records that Butler has ingested under their own org
    synced      \* records the steward will not send again

dvars == <<stored, delivered, synced>>

Init == stored = {} /\ delivered = {} /\ synced = {}

Store(r) ==
    /\ r \in Requests \ stored
    /\ stored' = stored \cup {r}
    /\ UNCHANGED <<delivered, synced>>

\* Butler ingests some records, for the first time or again.
Deliver ==
    /\ \E S \in SUBSET (stored \cap Reported) : delivered' = delivered \cup S
    /\ UNCHANGED <<stored, synced>>

MarkSynced ==
    /\ \E S \in SUBSET delivered : synced' = synced \cup S
    /\ UNCHANGED <<stored, delivered>>

Next == (\E r \in Requests : Store(r)) \/ Deliver \/ MarkSynced

Spec == Init /\ [][Next]_dvars
=============================================================================
