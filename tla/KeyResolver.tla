------------------------------ MODULE KeyResolver ------------------------------
(***************************************************************************)
(* One Majordomo API key: its row in api_keys, changed by administrators   *)
(* and by the key sync, and the resolver's cached verdict in front of it.  *)
(* Nothing invalidates the cache when the row changes, so what matters is  *)
(* how old an answer can get.  Times are ages, so no clock needs a bound.  *)
(***************************************************************************)
EXTENDS Integers

CONSTANTS
    Lookups,       \* concurrent requests
    TTL,           \* cacheTTL
    MaxLookup      \* the longest a query takes

KeyResolverAssumption == TTL \in Nat /\ MaxLookup \in Nat

VARIABLES
    row,      \* api_keys: "none", "active" or "inactive"
    since,    \* history: the time since the row last changed sides
    cache,    \* the cached verdict and the time it has left, if there is one
    look      \* per request: its lookup

vars == <<row, since, cache, look>>

Cap    == TTL + MaxLookup + 1      \* ages are told apart up to here
NoEntry == [ok |-> FALSE, left |-> -1]
Idle   == [pc |-> "idle", ok |-> FALSE, spent |-> 0, age |-> 0]

TypeOK ==
    /\ row \in {"none", "active", "inactive"}
    /\ since \in 0..Cap
    /\ cache \in [ok : BOOLEAN, left : -1..TTL]
    /\ look \in [Lookups -> [pc : {"idle", "read", "fill", "answered", "failed"}, ok : BOOLEAN,
                             spent : 0..MaxLookup, age : 0..Cap]]

Init ==
    /\ row \in {"none", "active"}
    /\ since = Cap
    /\ cache = NoEntry
    /\ look = [l \in Lookups |-> Idle]

\* CreateAPIKey, RevokeAPIKey, and UpsertAPIKeys, which can do either.
Change ==
    /\ row' \in {"active", "inactive"} \ {row}
    /\ since' = IF (row' = "active") = (row = "active") THEN since ELSE 0
    /\ UNCHANGED <<cache, look>>

Asking(l) == look[l].pc \in {"read", "fill"}

Tick ==
    /\ \A l \in Lookups : Asking(l) => look[l].spent < MaxLookup
    /\ since' = IF since < Cap THEN since + 1 ELSE Cap
    /\ cache' = [cache EXCEPT !.left = IF @ > -1 THEN @ - 1 ELSE @]
    /\ look' = [l \in Lookups |-> IF Asking(l) THEN [look[l] EXCEPT !.spent = @ + 1] ELSE look[l]]
    /\ UNCHANGED row

\* An answer is as old as the last moment at which the row gave it.
Answer(l, ok) ==
    look' = [look EXCEPT ![l] = [Idle EXCEPT !.pc = "answered", !.ok = ok,
                                             !.age = IF ok = (row = "active") THEN 0 ELSE since]]

Hit == cache.left >= 0

ResolveAPIKey(l) ==
    /\ ~Asking(l)
    /\ IF Hit THEN Answer(l, cache.ok) /\ UNCHANGED cache
       ELSE /\ look' = [look EXCEPT ![l] = [Idle EXCEPT !.pc = "read"]]
            /\ cache' = NoEntry       \* getFromCache removes what has expired
    /\ UNCHANGED <<row, since>>

GetAPIKeyByHash(l) ==
    /\ look[l].pc = "read"
    /\ \/ look' = [look EXCEPT ![l].pc = "fill", ![l].ok = row = "active"]
       \/ look' = [look EXCEPT ![l] = [Idle EXCEPT !.pc = "failed"]]
    /\ UNCHANGED <<row, since, cache>>

EntryTooLong(ok) == [ok |-> ok, left |-> TTL + 1]   \* mutant: kept for longer than the TTL
Entry(ok) == [ok |-> ok, left |-> TTL]

\* cacheValid or cacheInvalid.
Fill(l) ==
    /\ look[l].pc = "fill"
    /\ cache' = Entry(look[l].ok)
    /\ Answer(l, look[l].ok)
    /\ UNCHANGED <<row, since>>

\* Other keys push the entry out of the LRU cache.
Evict == cache # NoEntry /\ cache' = NoEntry /\ UNCHANGED <<row, since, look>>

Next ==
    \/ Change \/ Tick \/ Evict
    \/ \E l \in Lookups : ResolveAPIKey(l) \/ GetAPIKeyByHash(l) \/ Fill(l)

Spec == Init /\ [][Next]_vars
-----------------------------------------------------------------------------
\* A key is granted only if its row was active at most a TTL and a query ago, and
\* refused only if it was not: revoking a key takes effect within that time, and
\* so does creating one that was asked for too early.  A verdict read before a
\* change and stored after it is the worst case.
AnswersAreFresh ==
    \A l \in Lookups : look[l].pc = "answered" => look[l].age <= TTL + MaxLookup
=============================================================================
