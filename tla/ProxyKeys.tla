------------------------------- MODULE ProxyKeys -------------------------------
(***************************************************************************)
(* A proxy key and its provider mappings: the tables, the API that changes *)
(* them, and the ProxyResolver's two caches.  provCache has no expiry of   *)
(* its own: an entry counts while the proxy key's entry in keyCache does.  *)
(*                                                                         *)
(* A row or a copy of one is modelled by its staleness: 0 while it is what *)
(* the table says, n + 1 when that ended n time units ago.                 *)
(***************************************************************************)
EXTENDS Integers

CONSTANTS
    Providers,
    Majordomos, Owner,   \* Majordomo API keys, and the one that owns the proxy key
    Lookups,             \* concurrent requests
    TTL, MaxLookup       \* cacheTTL, and the longest a lookup takes

ProxyKeysAssumption ==
    /\ TTL \in Nat /\ MaxLookup \in Nat
    /\ Owner \in Majordomos

VARIABLES
    revoked,    \* staleness of the proxy key's is_active
    mapped,     \* providers with a mapping
    keyCache,   \* time left to the proxy key's entry, 0 if there is none
    provCache,  \* per provider: staleness of the decrypted mapping, None if there is none
    look,       \* per request: its lookup
    revived     \* history: providers whose entry outlived its time through lookups of others

vars == <<revoked, mapped, keyCache, provCache, look, revived>>

Cap   == TTL + MaxLookup + 2        \* staleness is told apart up to here
Stale == 0..Cap
None  == -1

Idle == [pc |-> "idle", prov |-> CHOOSE p \in Providers : TRUE, by |-> Owner, spent |-> 0,
         map |-> 0, cached |-> FALSE, late |-> {}]

TypeOK ==
    /\ revoked \in Stale
    /\ mapped \subseteq Providers /\ revived \subseteq Providers
    /\ keyCache \in 0..TTL
    /\ provCache \in [Providers -> Stale \cup {None}]
    /\ look \in [Lookups -> [pc : {"idle", "row", "mapping", "fill", "granted", "refused"},
                             prov : Providers, by : Majordomos, spent : 0..MaxLookup,
                             map : Stale, cached : BOOLEAN, late : SUBSET {"key", "map", "revived"}]]

Init ==
    /\ revoked = 0
    /\ mapped = Providers
    /\ keyCache = 0
    /\ provCache = [p \in Providers |-> None]
    /\ look = [l \in Lookups |-> Idle]
    /\ revived = {}

Older(s) == IF s \in 1..Cap - 1 THEN s + 1 ELSE s
Ended(s) == IF s = 0 THEN 1 ELSE s

(***************************************************************************)
(* The API.  Each operation checks the owner first, and none of them       *)
(* touches the resolver's caches.                                          *)
(***************************************************************************)
RevokeProxyKey(m) ==
    /\ m = Owner /\ revoked = 0
    /\ revoked' = 1
    /\ UNCHANGED <<mapped, keyCache, provCache, look, revived>>

\* Every copy of p's mapping is out of date now.
Supersede(p) ==
    /\ provCache' = [provCache EXCEPT ![p] = Ended(@)]
    /\ look' = [l \in Lookups |-> IF look[l].pc = "fill" /\ look[l].prov = p
                                  THEN [look[l] EXCEPT !.map = Ended(@)] ELSE look[l]]

SetProviderMapping(m, p) ==
    /\ m = Owner
    /\ mapped' = mapped \cup {p}
    /\ Supersede(p)
    /\ UNCHANGED <<revoked, keyCache, revived>>

DeleteProviderMapping(m, p) ==
    /\ m = Owner /\ p \in mapped
    /\ mapped' = mapped \ {p}
    /\ Supersede(p)
    /\ UNCHANGED <<revoked, keyCache, revived>>

(***************************************************************************)
(* ResolveProxyKey.                                                        *)
(***************************************************************************)
Asking(l) == look[l].pc \in {"row", "mapping", "fill"}

Tick ==
    /\ \A l \in Lookups : Asking(l) => look[l].spent < MaxLookup
    /\ revoked' = Older(revoked)
    /\ keyCache' = IF keyCache > 0 THEN keyCache - 1 ELSE 0
    /\ provCache' = [p \in Providers |-> Older(provCache[p])]
    /\ look' = [l \in Lookups |->
                   IF Asking(l) THEN [look[l] EXCEPT !.spent = @ + 1, !.map = Older(@)] ELSE look[l]]
    /\ UNCHANGED <<mapped, revived>>

\* What is out of date for longer than an entry's time and a lookup.
Late(p, map, cached) ==
    LET Long(s) == s > TTL + MaxLookup + 1 IN
    (IF Long(revoked) THEN {"key"} ELSE {}) \cup
    (IF Long(map) THEN IF cached /\ p \in revived THEN {"revived"} ELSE {"map"} ELSE {})

Grant(l, p, m, map, cached) ==
    look' = [look EXCEPT ![l] = [Idle EXCEPT !.pc = "granted", !.by = m, !.cached = cached,
                                 !.late = Late(p, map, cached)]]
Refuse(l) == look' = [look EXCEPT ![l] = [Idle EXCEPT !.pc = "refused"]]

HitAnyhow(p) == provCache[p] # None   \* mutant: the proxy key's entry is not looked at
Hit(p) == provCache[p] # None /\ keyCache > 0

ResolveProxyKey(l, p, m) ==
    /\ ~Asking(l)
    /\ IF Hit(p) THEN Grant(l, p, m, provCache[p], TRUE)
       ELSE look' = [look EXCEPT ![l] = [Idle EXCEPT !.pc = "row", !.prov = p, !.by = m]]
    /\ UNCHANGED <<revoked, mapped, keyCache, provCache, revived>>

GetProxyKeyByHash(l) ==
    /\ look[l].pc = "row"
    /\ \/ revoked = 0 /\ look[l].by = Owner /\ look' = [look EXCEPT ![l].pc = "mapping"]
       \/ Refuse(l)      \* revoked, another's, or the query failed
    /\ UNCHANGED <<revoked, mapped, keyCache, provCache, revived>>

GetProviderMapping(l) ==
    /\ look[l].pc = "mapping"
    /\ \/ look[l].prov \in mapped /\ look' = [look EXCEPT ![l].pc = "fill"]
       \/ Refuse(l)      \* no mapping, or the query or the decryption failed
    /\ UNCHANGED <<revoked, mapped, keyCache, provCache, revived>>

\* Both entries are stored: the key's new time holds for every provider's entry.
Fill(l) ==
    LET p == look[l].prov IN
    /\ look[l].pc = "fill"
    /\ keyCache' = TTL
    /\ provCache' = [provCache EXCEPT ![p] = look[l].map]
    /\ revived' = {q \in Providers \ {p} : provCache[q] # None}
    /\ Grant(l, p, look[l].by, look[l].map, FALSE)
    /\ UNCHANGED <<revoked, mapped>>

\* Other keys push an entry out of an LRU cache.
Evict ==
    /\ \/ keyCache' = 0 /\ keyCache # 0 /\ UNCHANGED provCache
       \/ \E p \in Providers : provCache[p] # None /\ provCache' = [provCache EXCEPT ![p] = None] /\ UNCHANGED keyCache
    /\ UNCHANGED <<revoked, mapped, look, revived>>

Next ==
    \/ \E m \in Majordomos : RevokeProxyKey(m) \/ \E p \in Providers :
          SetProviderMapping(m, p) \/ DeleteProviderMapping(m, p) \/ \E l \in Lookups : ResolveProxyKey(l, p, m)
    \/ \E l \in Lookups : GetProxyKeyByHash(l) \/ GetProviderMapping(l) \/ Fill(l)
    \/ Tick \/ Evict

Spec == Init /\ [][Next]_vars
-----------------------------------------------------------------------------
\* A revoked proxy key is refused after a TTL and a lookup.  A mapping that was
\* changed or deleted is used for as long, and longer only where lookups for other
\* providers renewed the key's entry meanwhile.  Only a cached grant goes to a
\* Majordomo key that does not own the proxy key.
GrantsAreFresh ==
    \A l \in Lookups : look[l].pc = "granted" =>
        /\ look[l].late \subseteq {"revived"}
        /\ look[l].by = Owner \/ look[l].cached
=============================================================================
