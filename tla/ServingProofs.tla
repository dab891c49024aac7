----------------------------- MODULE ServingProofs -----------------------------
(***************************************************************************)
(* Proofs about the parts of serving a request, for any times an entry, a  *)
(* lookup and an upload last and for any number of concurrent requests.    *)
(*                                                                         *)
(* For each part an invariant that its own steps keep; at the end those of *)
(* a behaviour of MCServing, which is one of one part.  The invariants of  *)
(* the caches have one shape: what a cache entry says wrongly has been     *)
(* wrong for no longer than the entry's age and a lookup, and what a       *)
(* request found for no longer than it has been on its way since.  The     *)
(* properties speak only of answers; these say why they hold.              *)
(***************************************************************************)
EXTENDS MCServing, FiniteSetTheorems, TLAPS

-----------------------------------------------------------------------------
(***************************************************************************)
(* KeyResolver.                                                            *)
(***************************************************************************)
\* A verdict that is not the row's.
KeyWrong(ok) == ok # (row = "active")

KeyLooks == [pc : {"idle", "read", "fill", "answered", "failed"}, ok : BOOLEAN, spent : 0..MaxLookup, age : 0..K!Cap]

\* A wrong verdict is younger than its entry and a lookup, and one about to be cached
\* younger than the lookup that read it.
KeyInv ==
    /\ K!TypeOK
    /\ verdict.left >= 0 /\ KeyWrong(verdict.ok) => rowSince <= TTL - verdict.left + MaxLookup
    /\ \A l \in Actors : keyLook[l].pc = "fill" /\ KeyWrong(keyLook[l].ok) => rowSince <= keyLook[l].spent
    /\ K!AnswersAreFresh

LEMMA KeyInit == K!KeyResolverAssumption /\ K!Init => KeyInv
<1> SUFFICES ASSUME K!KeyResolverAssumption, K!Init PROVE KeyInv
  OBVIOUS
<1> USE DEF K!KeyResolverAssumption, K!Init, K!NoEntry, K!Idle, K!Cap
<1> QED
  BY DEF KeyInv, K!TypeOK, K!AnswersAreFresh

LEMMA KeyIdle == K!KeyResolverAssumption => K!Idle \in KeyLooks
  BY DEF K!KeyResolverAssumption, K!Idle, KeyLooks, K!Cap

\* An answer from a verdict that is right or has not been wrong for too long.
LEMMA KeyAnswer ==
    ASSUME K!KeyResolverAssumption, KeyInv, NEW l \in Actors, NEW ok \in BOOLEAN, K!Answer(l, ok),
           row' = row, rowSince' = rowSince, KeyWrong(ok) => rowSince <= TTL + MaxLookup,
           verdict' \in [ok : BOOLEAN, left : -1..TTL],
           verdict'.left >= 0 /\ (verdict'.ok # (row = "active")) => rowSince <= TTL - verdict'.left + MaxLookup
    PROVE  KeyInv'
<1> USE DEF K!KeyResolverAssumption
<1> DEFINE age == IF ok = (row = "active") THEN 0 ELSE rowSince
           new == [K!Idle EXCEPT !.pc = "answered", !.ok = ok, !.age = age]
<1>0. age \in 0..K!Cap /\ age <= TTL + MaxLookup
  <2>1. CASE ok = (row = "active")
    BY <2>1 DEF K!Cap
  <2>2. CASE ok # (row = "active")
    <3>1. age = rowSince
      BY <2>2
    <3> QED
      BY <2>2, <3>1 DEF KeyWrong, KeyInv, K!TypeOK
  <2> QED
    BY <2>1, <2>2
<1> HIDE DEF age
<1>1. new \in KeyLooks /\ new.pc = "answered" /\ new.age <= TTL + MaxLookup
  BY <1>0, KeyIdle DEF KeyLooks
<1>2. keyLook' = [keyLook EXCEPT ![l] = new]
  BY DEF K!Answer, age
<1> HIDE DEF new
<1>3. K!TypeOK'
  BY <1>1, <1>2 DEF KeyInv, K!TypeOK, KeyLooks
<1>4. ASSUME NEW k \in Actors
      PROVE  /\ keyLook'[k].pc = "fill" /\ KeyWrong(keyLook[k].ok) => rowSince' <= keyLook'[k].spent
             /\ keyLook'[k].pc = "fill" => keyLook'[k] = keyLook[k]
             /\ keyLook'[k].pc = "answered" => keyLook'[k].age <= TTL + MaxLookup
  BY <1>1, <1>2 DEF KeyInv, K!TypeOK, KeyLooks, K!AnswersAreFresh
<1> QED
  BY <1>3, <1>4 DEF KeyInv, KeyWrong, K!AnswersAreFresh

LEMMA KeyStep == K!KeyResolverAssumption /\ KeyInv /\ [K!Next]_(K!vars) => KeyInv'
<1> SUFFICES ASSUME K!KeyResolverAssumption, KeyInv, [K!Next]_(K!vars) PROVE KeyInv'
  OBVIOUS
<1> USE DEF K!KeyResolverAssumption
<1>1. ASSUME K!Change PROVE KeyInv'
  <2>1. /\ row' \in {"active", "inactive"} /\ row' # row
        /\ rowSince' = IF (row' = "active") = (row = "active") THEN rowSince ELSE 0
        /\ verdict' = verdict /\ keyLook' = keyLook
    BY <1>1 DEF K!Change
  <2>2. CASE (row' = "active") = (row = "active")
    BY <2>1, <2>2 DEF KeyInv, KeyWrong, K!TypeOK, K!AnswersAreFresh
  <2>3. CASE (row' = "active") # (row = "active")
    <3>1. rowSince' = 0
      BY <2>1, <2>3
    <3> QED
      BY <2>1, <3>1 DEF KeyInv, KeyWrong, K!TypeOK, K!AnswersAreFresh, K!Cap
  <2> QED
    BY <2>2, <2>3
<1>2. ASSUME K!Tick PROVE KeyInv'
  <2>1. rowSince' \in 0..K!Cap /\ rowSince' <= rowSince + 1
    BY <1>2 DEF K!Tick, K!Cap, KeyInv, K!TypeOK
  <2>2. /\ verdict' \in [ok : BOOLEAN, left : -1..TTL]
        /\ verdict'.left >= 0 => verdict.left >= 0 /\ verdict'.left = verdict.left - 1
        /\ verdict'.ok = verdict.ok
    BY <1>2 DEF K!Tick, KeyInv, K!TypeOK
  <2>3. keyLook' \in [Actors -> KeyLooks]
    BY <1>2 DEF K!Tick, K!Asking, KeyInv, K!TypeOK, KeyLooks
  <2>4. \A l \in Actors : /\ keyLook'[l].pc = keyLook[l].pc /\ keyLook'[l].ok = keyLook[l].ok
                          /\ keyLook'[l].age = keyLook[l].age
                          /\ keyLook[l].pc = "fill" => keyLook'[l].spent = keyLook[l].spent + 1
    BY <1>2 DEF K!Tick, K!Asking, KeyInv, K!TypeOK
  <2>5. row' = row
    BY <1>2 DEF K!Tick
  <2>6. K!TypeOK'
    BY <2>1, <2>2, <2>3, <2>5 DEF KeyInv, K!TypeOK, KeyLooks
  <2>7. verdict'.left >= 0 /\ KeyWrong(verdict.ok) => rowSince' <= TTL - verdict'.left + MaxLookup
    BY <2>1, <2>2 DEF KeyInv, K!TypeOK, K!Cap
  <2>8. ASSUME NEW l \in Actors, keyLook[l].pc = "fill", KeyWrong(keyLook[l].ok)
        PROVE  rowSince' <= keyLook'[l].spent
    BY <2>1, <2>3, <2>4, <2>8 DEF KeyInv, K!TypeOK, K!Cap
  <2> QED
    BY <2>2, <2>4, <2>5, <2>6, <2>7, <2>8 DEF KeyInv, KeyWrong, K!AnswersAreFresh
<1>3. ASSUME K!Evict PROVE KeyInv'
  BY <1>3 DEF K!Evict, K!NoEntry, KeyInv, KeyWrong, K!TypeOK, K!AnswersAreFresh
<1>4. ASSUME NEW l \in Actors, K!ResolveAPIKey(l) PROVE KeyInv'
  <2>1. CASE K!Hit
    <3>1. /\ K!Answer(l, verdict.ok) /\ verdict' = verdict /\ row' = row /\ rowSince' = rowSince
          /\ verdict \in [ok : BOOLEAN, left : -1..TTL]
      BY <1>4, <2>1 DEF K!ResolveAPIKey, KeyInv, K!TypeOK
    <3>2. verdict.ok \in BOOLEAN
      BY <3>1
    <3>3. KeyWrong(verdict.ok) => rowSince <= TTL + MaxLookup
      BY <2>1, <3>1 DEF K!Hit, KeyInv, K!TypeOK, K!Cap
    <3>4. verdict'.left >= 0 /\ (verdict'.ok # (row = "active")) => rowSince <= TTL - verdict'.left + MaxLookup
      BY <3>1 DEF KeyInv, KeyWrong
    <3> QED
      BY <3>1, <3>2, <3>3, <3>4, KeyAnswer
  <2>2. CASE ~K!Hit
    <3> DEFINE new == [K!Idle EXCEPT !.pc = "read"]
    <3>1. /\ keyLook' = [keyLook EXCEPT ![l] = new] /\ verdict' = K!NoEntry /\ row' = row /\ rowSince' = rowSince
      BY <1>4, <2>2 DEF K!ResolveAPIKey
    <3>2. new \in KeyLooks /\ new.pc = "read"
      BY KeyIdle DEF KeyLooks
    <3> HIDE DEF new
    <3> QED
      BY <3>1, <3>2 DEF KeyInv, KeyLooks, K!TypeOK, K!AnswersAreFresh, KeyWrong, K!NoEntry
  <2> QED
    BY <2>1, <2>2
<1>5. ASSUME NEW l \in Actors, K!GetAPIKeyByHash(l) PROVE KeyInv'
  <2>0. row' = row /\ rowSince' = rowSince /\ verdict' = verdict /\ keyLook[l] \in KeyLooks
    BY <1>5 DEF K!GetAPIKeyByHash, KeyInv, K!TypeOK, KeyLooks
  <2>1. ASSUME NEW new \in KeyLooks, keyLook' = [keyLook EXCEPT ![l] = new], new.pc \in {"fill", "failed"},
               new.pc = "fill" => ~KeyWrong(new.ok)
        PROVE  KeyInv'
    BY <2>0, <2>1 DEF KeyInv, KeyLooks, K!TypeOK, K!AnswersAreFresh, KeyWrong
  <2>2. CASE keyLook' = [keyLook EXCEPT ![l].pc = "fill", ![l].ok = row = "active"]
    <3> DEFINE ok == row = "active"
               new == [keyLook[l] EXCEPT !.pc = "fill", !.ok = ok]
    <3>1. ok \in BOOLEAN /\ keyLook' = [keyLook EXCEPT ![l] = new] /\ ~KeyWrong(ok)
      BY <2>2 DEF KeyWrong, KeyInv, K!TypeOK
    <3> HIDE DEF ok
    <3>2. new \in KeyLooks /\ new.pc = "fill" /\ new.ok = ok
      BY <2>0, <3>1 DEF KeyLooks
    <3> HIDE DEF new
    <3>3. ~KeyWrong(new.ok)
      BY <3>1, <3>2, Zenon
    <3> QED
      BY <2>1, <3>1, <3>2, <3>3
  <2>3. CASE keyLook' = [keyLook EXCEPT ![l] = [K!Idle EXCEPT !.pc = "failed"]]
    <3> DEFINE new == [K!Idle EXCEPT !.pc = "failed"]
    <3>1. new \in KeyLooks /\ new.pc = "failed"
      BY KeyIdle DEF KeyLooks
    <3> QED
      BY <2>1, <2>3, <3>1
  <2> QED
    BY <1>5, <2>2, <2>3 DEF K!GetAPIKeyByHash
<1>6. ASSUME NEW l \in Actors, K!Fill(l) PROVE KeyInv'
  <2> DEFINE ok == keyLook[l].ok
  <2>1. ok \in BOOLEAN /\ keyLook[l].pc = "fill" /\ keyLook[l].spent \in 0..MaxLookup /\ rowSince \in Nat
    BY <1>6 DEF K!Fill, KeyInv, K!TypeOK
  <2>2. /\ K!Answer(l, ok) /\ row' = row /\ rowSince' = rowSince /\ verdict' = [ok |-> ok, left |-> TTL]
    BY <1>6 DEF K!Fill, K!Entry
  <2>3. KeyWrong(ok) => rowSince <= MaxLookup
    BY <2>1 DEF KeyInv
  <2> HIDE DEF ok
  <2>4. verdict' \in [ok : BOOLEAN, left : -1..TTL]
    BY <2>1, <2>2
  <2>5. verdict'.ok = ok /\ verdict'.left = TTL
    BY <2>2
  <2>6. KeyWrong(ok) => rowSince <= TTL + MaxLookup /\ rowSince <= TTL - TTL + MaxLookup
    BY <2>1, <2>3
  <2>7. verdict'.left >= 0 /\ (verdict'.ok # (row = "active")) => rowSince <= TTL - verdict'.left + MaxLookup
    BY <2>5, <2>6, Zenon DEF KeyWrong
  <2> QED
    BY <2>1, <2>2, <2>4, <2>6, <2>7, KeyAnswer
<1>7. ASSUME UNCHANGED K!vars PROVE KeyInv'
  BY <1>7 DEF K!vars, KeyInv, KeyWrong, K!TypeOK, K!AnswersAreFresh, K!Cap
<1> QED
  BY <1>1, <1>2, <1>3, <1>4, <1>5, <1>6, <1>7 DEF K!Next
-----------------------------------------------------------------------------
(***************************************************************************)
(* ProxyKeys.                                                              *)
(***************************************************************************)
Providers == {"openai", "anthropic"}

ProxyLooks == [pc : {"idle", "row", "mapping", "fill", "granted", "refused"}, prov : Providers,
               by : {"owner", "other"}, spent : 0..MaxLookup, map : P!Stale, cached : BOOLEAN,
               late : SUBSET {"key", "map", "revived"}]

\* A lookup that goes on has the owner's key, and has seen it and the mapping since it
\* began; what is granted is late only through a revived mapping.
LookOK(k) ==
    /\ k.pc \in {"row", "mapping"} => k.map = 0
    /\ k.pc \in {"mapping", "fill"} => k.by = "owner" /\ revoked <= k.spent + 1
    /\ k.pc = "fill" => k.map <= k.spent + 1
    /\ k.pc = "granted" => k.late \subseteq {"revived"} /\ (k.by = "owner" \/ k.cached)

\* A mapping that is cached and is not a revived one has been the table's lately.
EntryOK(p) ==
    keyCache > 0 /\ provCache[p] # P!None /\ p \notin revived => provCache[p] <= 1 + TTL - keyCache + MaxLookup

ProxyTyped ==
    /\ revoked \in P!Stale /\ mapped \subseteq Providers /\ revived \subseteq Providers
    /\ keyCache \in 0..TTL /\ provCache \in [Providers -> P!Stale \cup {P!None}]
    /\ proxyLook \in [Actors -> ProxyLooks]

ProxyInv ==
    /\ ProxyTyped
    /\ keyCache > 0 => revoked <= 1 + TTL - keyCache + MaxLookup
    /\ \A l \in Actors : LookOK(proxyLook[l])
    /\ \A p \in Providers : EntryOK(p)

LEMMA ProxyIdle == P!ProxyKeysAssumption => P!Idle \in ProxyLooks /\ P!Idle.pc = "idle" /\ P!Idle.map = 0
  BY DEF P!ProxyKeysAssumption, P!Idle, ProxyLooks, P!Cap, P!Stale, Providers

LEMMA ProxyImplies == ProxyInv => P!TypeOK /\ P!GrantsAreFresh
  BY DEF ProxyInv, ProxyTyped, P!TypeOK, P!GrantsAreFresh, LookOK, Providers, ProxyLooks

LEMMA ProxyInit == P!ProxyKeysAssumption /\ P!Init => ProxyInv
<1> SUFFICES ASSUME P!ProxyKeysAssumption, P!Init PROVE ProxyInv
  OBVIOUS
<1> USE DEF P!ProxyKeysAssumption
<1>1. ProxyTyped
  BY ProxyIdle DEF P!Init, ProxyTyped, P!Stale, P!Cap, Providers, P!None
<1>2. \A l \in Actors : LookOK(proxyLook[l])
  BY ProxyIdle, Zenon DEF P!Init, LookOK
<1> QED
  BY <1>1, <1>2 DEF P!Init, ProxyInv, EntryOK, P!None, Providers

\* How ages grow and start.
LEMMA ProxyAges ==
    ASSUME P!ProxyKeysAssumption, NEW s \in P!Stale
    PROVE  /\ P!Older(s) \in P!Stale /\ P!Older(s) <= s + 1 /\ (s = 0 => P!Older(s) = 0)
           /\ P!Ended(s) \in P!Stale /\ (P!Ended(s) = s \/ P!Ended(s) = 1)
  BY DEF P!ProxyKeysAssumption, P!Older, P!Ended, P!Stale, P!Cap

\* A step of one lookup.
LEMMA ProxyLookStep ==
    ASSUME P!ProxyKeysAssumption, ProxyInv, NEW l \in Actors, NEW new \in ProxyLooks, LookOK(new),
           proxyLook' = [proxyLook EXCEPT ![l] = new], UNCHANGED <<revoked, mapped, keyCache, provCache, revived>>
    PROVE  ProxyInv'
<1>1. ProxyTyped'
  BY DEF ProxyInv, ProxyTyped
<1>2. \A k \in Actors : LookOK(proxyLook[k])'
  BY DEF ProxyInv, ProxyTyped, LookOK
<1>3. \A p \in Providers : EntryOK(p)'
  BY DEF ProxyInv, EntryOK
<1> QED
  BY <1>1, <1>2, <1>3 DEF ProxyInv

\* Late, of what is no older than an entry's time and a lookup.
LEMMA ProxyGrant ==
    ASSUME P!ProxyKeysAssumption, ProxyInv, NEW l \in Actors, NEW p \in Providers, NEW m \in {"owner", "other"},
           NEW map \in P!Stale, NEW cached \in BOOLEAN, P!Grant(l, p, m, map, cached),
           revoked <= TTL + MaxLookup + 1, map <= TTL + MaxLookup + 1 \/ (cached /\ p \in revived),
           m = "owner" \/ cached
    PROVE  \E new \in ProxyLooks : proxyLook' = [proxyLook EXCEPT ![l] = new] /\ new.pc = "granted" /\ LookOK(new)
<1> DEFINE late == P!Late(p, map, cached)
           new == [P!Idle EXCEPT !.pc = "granted", !.by = m, !.cached = cached, !.late = late]
<1>1. revoked \in Int /\ map \in Int
  BY DEF P!ProxyKeysAssumption, ProxyInv, ProxyTyped, P!Stale, P!Cap
<1>2. late \in SUBSET {"revived"}
  <2>1. ~(revoked > TTL + MaxLookup + 1)
    BY <1>1 DEF P!ProxyKeysAssumption
  <2>2. ~(map > TTL + MaxLookup + 1) \/ (cached /\ p \in revived)
    BY <1>1 DEF P!ProxyKeysAssumption
  <2> QED
    BY <2>1, <2>2, Zenon DEF P!Late
<1> HIDE DEF late
<1>3. new \in ProxyLooks /\ new.pc = "granted" /\ new.by = m /\ new.cached = cached /\ new.late = late
  BY <1>2, ProxyIdle DEF ProxyLooks
<1>4. proxyLook' = [proxyLook EXCEPT ![l] = new]
  BY DEF P!Grant, late
<1> HIDE DEF new
<1>5. LookOK(new)
  BY <1>2, <1>3 DEF LookOK
<1> QED
  BY <1>3, <1>4, <1>5

\* A provider mapping that is superseded: its age starts, and only a cached one lives on.
LEMMA ProxySupersede ==
    ASSUME P!ProxyKeysAssumption, ProxyInv, NEW p \in Providers, P!Supersede(p),
           mapped' \subseteq Providers, UNCHANGED <<revoked, keyCache, revived>>
    PROVE  ProxyInv'
<1> USE DEF P!ProxyKeysAssumption
<1>1. /\ provCache' \in [Providers -> P!Stale \cup {P!None}]
      /\ \A q \in Providers : provCache'[q] = provCache[q] \/ (provCache'[q] = 1 /\ provCache[q] # P!None)
  <2>1. P!Ended(P!None) = P!None
    BY DEF P!Ended, P!None
  <2>2. provCache[p] \in P!Stale \cup {P!None}
    BY DEF ProxyInv, ProxyTyped
  <2>3. /\ P!Ended(provCache[p]) \in P!Stale \cup {P!None}
        /\ P!Ended(provCache[p]) = provCache[p] \/ (P!Ended(provCache[p]) = 1 /\ provCache[p] # P!None)
    BY <2>1, <2>2, ProxyAges DEF P!None
  <2> QED
    BY <2>3 DEF P!Supersede, ProxyInv, ProxyTyped
<1>2. ASSUME NEW k \in Actors PROVE proxyLook'[k] \in ProxyLooks /\ LookOK(proxyLook[k])'
  <2>1. proxyLook[k] \in ProxyLooks /\ LookOK(proxyLook[k])
    BY DEF ProxyInv, ProxyTyped
  <2>2. CASE proxyLook[k].pc = "fill" /\ proxyLook[k].prov = p
    <3> DEFINE map == P!Ended(proxyLook[k].map)
    <3>1. map \in P!Stale /\ (map = proxyLook[k].map \/ map = 1)
      BY <2>1, ProxyAges DEF ProxyLooks
    <3>2. proxyLook'[k] = [proxyLook[k] EXCEPT !.map = map]
      BY <2>2 DEF P!Supersede
    <3> HIDE DEF map
    <3>3. /\ proxyLook'[k] \in ProxyLooks /\ proxyLook'[k].map = map /\ proxyLook'[k].pc = "fill"
          /\ proxyLook'[k].by = proxyLook[k].by /\ proxyLook'[k].spent = proxyLook[k].spent
      BY <2>1, <2>2, <3>1, <3>2 DEF ProxyLooks
    <3>4. proxyLook[k].spent \in Nat
      BY <2>1 DEF ProxyLooks
    <3> QED
      BY <2>1, <2>2, <3>1, <3>3, <3>4 DEF LookOK
  <2>3. CASE ~(proxyLook[k].pc = "fill" /\ proxyLook[k].prov = p)
    <3>1. proxyLook'[k] = proxyLook[k]
      BY <2>3 DEF P!Supersede
    <3> QED
      BY <2>1, <3>1 DEF LookOK
  <2> QED
    BY <2>2, <2>3
<1>3. ProxyTyped'
  <2>1. proxyLook' \in [Actors -> ProxyLooks]
    <3>1. proxyLook' = [k \in Actors |-> proxyLook'[k]]
      BY DEF P!Supersede
    <3> QED
      BY <1>2, <3>1
  <2> QED
    BY <1>1, <2>1 DEF ProxyInv, ProxyTyped
<1>4. \A q \in Providers : EntryOK(q)'
  BY <1>1 DEF ProxyInv, ProxyTyped, EntryOK, P!None
<1> QED
  BY <1>2, <1>3, <1>4 DEF ProxyInv

LEMMA ProxyTick == P!ProxyKeysAssumption /\ ProxyInv /\ P!Tick => ProxyInv'
<1> SUFFICES ASSUME P!ProxyKeysAssumption, ProxyInv, P!Tick PROVE ProxyInv'
  OBVIOUS
<1> USE DEF P!ProxyKeysAssumption
<1>1. /\ revoked \in P!Stale /\ revoked' \in P!Stale /\ revoked' <= revoked + 1
      /\ revived' = revived /\ mapped' = mapped
  BY ProxyAges, Zenon DEF P!Tick, ProxyInv, ProxyTyped
<1>2. keyCache' \in 0..TTL /\ (keyCache' > 0 => keyCache > 0 /\ keyCache' = keyCache - 1)
  <2>1. keyCache \in 0..TTL /\ keyCache' = IF keyCache > 0 THEN keyCache - 1 ELSE 0
    BY Zenon DEF P!Tick, ProxyInv, ProxyTyped
  <2> QED
    BY <2>1
<1>3. ASSUME NEW q \in Providers
      PROVE  /\ provCache'[q] \in P!Stale \cup {P!None}
             /\ provCache'[q] # P!None => provCache[q] # P!None /\ provCache[q] \in P!Stale /\ provCache'[q] <= provCache[q] + 1
  <2>1. provCache[q] \in P!Stale \cup {P!None} /\ provCache'[q] = P!Older(provCache[q])
    BY Zenon DEF ProxyInv, ProxyTyped, P!Tick, Providers
  <2>2. P!Older(P!None) = P!None
    BY DEF P!Older, P!None
  <2> QED
    BY <2>1, <2>2, ProxyAges
<1>4. ASSUME NEW k \in Actors PROVE proxyLook'[k] \in ProxyLooks /\ LookOK(proxyLook[k])'
  <2>1. proxyLook[k] \in ProxyLooks /\ LookOK(proxyLook[k])
    BY DEF ProxyInv, ProxyTyped
  <2>2. CASE P!Asking(k)
    <3> DEFINE map == P!Older(proxyLook[k].map)
               spent == proxyLook[k].spent + 1
    <3>1. map \in P!Stale /\ map <= proxyLook[k].map + 1 /\ (proxyLook[k].map = 0 => map = 0) /\ proxyLook[k].map \in Int
      BY <2>1, ProxyAges DEF ProxyLooks, P!Stale
    <3>2. spent \in 0..MaxLookup /\ proxyLook[k].spent \in Int
      <4>1. proxyLook[k].spent \in 0..MaxLookup /\ proxyLook[k].spent < MaxLookup
        BY <2>1, <2>2, Zenon DEF P!Tick, ProxyLooks
      <4> QED
        BY <4>1
    <3>3. proxyLook'[k] = [proxyLook[k] EXCEPT !.spent = spent, !.map = map]
      BY <2>2, Zenon DEF P!Tick
    <3>4. spent = proxyLook[k].spent + 1
      OBVIOUS
    <3> HIDE DEF map, spent
    <3>5. /\ proxyLook'[k] \in ProxyLooks /\ proxyLook'[k].map = map /\ proxyLook'[k].spent = spent
          /\ proxyLook'[k].by = proxyLook[k].by /\ proxyLook'[k].pc = proxyLook[k].pc
          /\ proxyLook'[k].late = proxyLook[k].late /\ proxyLook'[k].cached = proxyLook[k].cached
      BY <2>1, <3>1, <3>2, <3>3 DEF ProxyLooks
    <3>6. proxyLook[k].pc # "granted"
      BY <2>2 DEF P!Asking
    <3>7. revoked \in Int /\ revoked' \in Int
      BY <1>1 DEF P!Stale
    <3>8. map \in Int
      BY <3>1 DEF P!Stale
    <3> QED
      BY <1>1, <2>1, <3>1, <3>2, <3>4, <3>5, <3>6, <3>7, <3>8 DEF LookOK
  <2>3. CASE ~P!Asking(k)
    <3>1. proxyLook'[k] = proxyLook[k]
      BY <2>3, Zenon DEF P!Tick
    <3> QED
      BY <2>1, <2>3, <3>1 DEF LookOK, P!Asking
  <2> QED
    BY <2>2, <2>3
<1>5. ProxyTyped'
  <2>1. proxyLook' = [k \in Actors |-> proxyLook'[k]] /\ provCache' = [q \in Providers |-> provCache'[q]]
    BY Zenon DEF P!Tick, Providers
  <2> QED
    BY <1>1, <1>2, <1>3, <1>4, <2>1 DEF ProxyInv, ProxyTyped
<1>6. \A q \in Providers : EntryOK(q)'
  BY <1>1, <1>2, <1>3 DEF ProxyInv, ProxyTyped, EntryOK, P!Stale, P!None
<1>7. keyCache' > 0 => revoked' <= 1 + TTL - keyCache' + MaxLookup
  BY <1>1, <1>2 DEF ProxyInv, ProxyTyped, P!Stale
<1> QED
  BY <1>4, <1>5, <1>6, <1>7 DEF ProxyInv

LEMMA ProxyStep == P!ProxyKeysAssumption /\ ProxyInv /\ [P!Next]_(P!vars) => ProxyInv'
<1> SUFFICES ASSUME P!ProxyKeysAssumption, ProxyInv, [P!Next]_(P!vars) PROVE ProxyInv'
  OBVIOUS
<1>0. TTL \in Nat /\ MaxLookup \in Nat
  BY DEF P!ProxyKeysAssumption
<1>1. ASSUME NEW m \in {"owner", "other"}, P!RevokeProxyKey(m) PROVE ProxyInv'
  <2>1. revoked' = 1 /\ revoked = 0 /\ UNCHANGED <<mapped, keyCache, provCache, proxyLook, revived>>
    BY <1>1 DEF P!RevokeProxyKey
  <2>2. ProxyTyped'
    BY <1>0, <2>1 DEF ProxyInv, ProxyTyped, P!Stale, P!Cap
  <2>3. ASSUME NEW k \in Actors PROVE LookOK(proxyLook[k])'
    <3>1. proxyLook[k].spent \in Nat /\ LookOK(proxyLook[k]) /\ proxyLook'[k] = proxyLook[k]
      BY <2>1 DEF ProxyInv, ProxyTyped, ProxyLooks
    <3> QED
      BY <2>1, <3>1 DEF LookOK
  <2>4. \A q \in Providers : EntryOK(q)'
    BY <2>1 DEF ProxyInv, EntryOK
  <2>5. keyCache' > 0 => revoked' <= 1 + TTL - keyCache' + MaxLookup
    BY <1>0, <2>1 DEF ProxyInv, ProxyTyped
  <2> QED
    BY <2>2, <2>3, <2>4, <2>5 DEF ProxyInv
<1>2. ASSUME NEW m \in {"owner", "other"}, NEW p \in Providers,
             P!SetProviderMapping(m, p) \/ P!DeleteProviderMapping(m, p)
      PROVE  ProxyInv'
  <2>1. P!Supersede(p) /\ mapped' \subseteq Providers /\ UNCHANGED <<revoked, keyCache, revived>>
    BY <1>2 DEF P!SetProviderMapping, P!DeleteProviderMapping, ProxyInv, ProxyTyped
  <2> QED
    BY <2>1, ProxySupersede
<1>3. ASSUME NEW l \in Actors, NEW p \in Providers, NEW m \in {"owner", "other"}, P!ResolveProxyKey(l, p, m)
      PROVE  ProxyInv'
  <2>0. UNCHANGED <<revoked, mapped, keyCache, provCache, revived>>
    BY <1>3 DEF P!ResolveProxyKey
  <2>1. CASE P!Hit(p)
    <3>1. P!Grant(l, p, m, provCache[p], TRUE)
      BY <1>3, <2>1 DEF P!ResolveProxyKey
    <3>2. provCache[p] \in P!Stale /\ keyCache > 0 /\ provCache[p] # P!None
      BY <2>1 DEF P!Hit, ProxyInv, ProxyTyped
    <3>3. revoked <= TTL + MaxLookup + 1 /\ (provCache[p] <= TTL + MaxLookup + 1 \/ p \in revived)
      BY <1>0, <3>2 DEF ProxyInv, ProxyTyped, EntryOK, P!Stale, P!Cap
    <3>4. PICK new \in ProxyLooks : proxyLook' = [proxyLook EXCEPT ![l] = new] /\ new.pc = "granted" /\ LookOK(new)
      BY <3>1, <3>2, <3>3, ProxyGrant
    <3> QED
      BY <2>0, <3>4, ProxyLookStep
  <2>2. CASE ~P!Hit(p)
    <3> DEFINE new == [P!Idle EXCEPT !.pc = "row", !.prov = p, !.by = m]
    <3>1. new \in ProxyLooks /\ new.pc = "row" /\ new.map = 0
      BY ProxyIdle DEF ProxyLooks
    <3>2. proxyLook' = [proxyLook EXCEPT ![l] = new]
      BY <1>3, <2>2 DEF P!ResolveProxyKey
    <3> HIDE DEF new
    <3>3. LookOK(new)
      BY <3>1 DEF LookOK
    <3> QED
      BY <2>0, <3>1, <3>2, <3>3, ProxyLookStep
  <2> QED
    BY <2>1, <2>2
<1>4. ASSUME NEW l \in Actors, P!Refuse(l), UNCHANGED <<revoked, mapped, keyCache, provCache, revived>> PROVE ProxyInv'
  <2> DEFINE new == [P!Idle EXCEPT !.pc = "refused"]
  <2>1. new \in ProxyLooks /\ new.pc = "refused"
    BY ProxyIdle DEF ProxyLooks
  <2>2. proxyLook' = [proxyLook EXCEPT ![l] = new]
    BY <1>4 DEF P!Refuse
  <2> HIDE DEF new
  <2>3. LookOK(new)
    BY <2>1 DEF LookOK
  <2> QED
    BY <1>4, <2>1, <2>2, <2>3, ProxyLookStep
<1>5. ASSUME NEW l \in Actors, P!GetProxyKeyByHash(l) \/ P!GetProviderMapping(l) PROVE ProxyInv'
  <2>0. UNCHANGED <<revoked, mapped, keyCache, provCache, revived>> /\ proxyLook[l] \in ProxyLooks /\ LookOK(proxyLook[l])
    BY <1>5 DEF P!GetProxyKeyByHash, P!GetProviderMapping, ProxyInv, ProxyTyped
  <2>1. CASE P!Refuse(l)
    BY <1>4, <2>0, <2>1
  <2>2. CASE proxyLook[l].pc = "row" /\ revoked = 0 /\ proxyLook[l].by = "owner" /\ proxyLook' = [proxyLook EXCEPT ![l].pc = "mapping"]
    <3> DEFINE new == [proxyLook[l] EXCEPT !.pc = "mapping"]
    <3>1. /\ new \in ProxyLooks /\ new.pc = "mapping" /\ new.map = proxyLook[l].map /\ new.by = "owner"
          /\ new.spent \in Nat
      BY <2>0, <2>2 DEF ProxyLooks
    <3>2. proxyLook' = [proxyLook EXCEPT ![l] = new]
      BY <2>2 DEF ProxyInv, ProxyTyped
    <3> HIDE DEF new
    <3>3. LookOK(new)
      BY <2>0, <2>2, <3>1 DEF LookOK
    <3> QED
      BY <2>0, <3>1, <3>2, <3>3, ProxyLookStep
  <2>3. CASE proxyLook[l].pc = "mapping" /\ proxyLook' = [proxyLook EXCEPT ![l].pc = "fill"]
    <3> DEFINE new == [proxyLook[l] EXCEPT !.pc = "fill"]
    <3>1. /\ new \in ProxyLooks /\ new.pc = "fill" /\ new.map = proxyLook[l].map /\ new.by = proxyLook[l].by
          /\ new.spent = proxyLook[l].spent /\ new.spent \in Nat
      BY <2>0, <2>3 DEF ProxyLooks
    <3>2. proxyLook' = [proxyLook EXCEPT ![l] = new]
      BY <2>3 DEF ProxyInv, ProxyTyped
    <3> HIDE DEF new
    <3>3. LookOK(new)
      BY <2>0, <2>3, <3>1 DEF LookOK
    <3> QED
      BY <2>0, <3>1, <3>2, <3>3, ProxyLookStep
  <2> QED
    BY <1>5, <2>1, <2>2, <2>3 DEF P!GetProxyKeyByHash, P!GetProviderMapping
<1>6. ASSUME NEW l \in Actors, P!Fill(l) PROVE ProxyInv'
  <2> DEFINE p == proxyLook[l].prov
             map == proxyLook[l].map
  <2>1. /\ proxyLook[l] \in ProxyLooks /\ LookOK(proxyLook[l]) /\ proxyLook[l].pc = "fill"
        /\ p \in Providers /\ map \in P!Stale /\ map \in Int /\ revoked \in Int
        /\ proxyLook[l].by = "owner" /\ revoked <= MaxLookup + 1 /\ map <= MaxLookup + 1
    BY <1>0, <1>6 DEF P!Fill, ProxyInv, ProxyTyped, ProxyLooks, LookOK, P!Stale
  <2>2. /\ keyCache' = TTL /\ provCache' = [provCache EXCEPT ![p] = map] /\ mapped' = mapped /\ revoked' = revoked
        /\ revived' = {q \in Providers \ {p} : provCache[q] # P!None}
        /\ P!Grant(l, p, "owner", map, FALSE)
    BY <1>6, <2>1 DEF P!Fill, Providers
  <2> HIDE DEF p, map
  <2>3. revoked <= TTL + MaxLookup + 1 /\ map <= TTL + MaxLookup + 1
    BY <1>0, <2>1
  <2>4. PICK new \in ProxyLooks : proxyLook' = [proxyLook EXCEPT ![l] = new] /\ new.pc = "granted" /\ LookOK(new)
    BY <2>1, <2>2, <2>3, ProxyGrant
  <2>5. ProxyTyped'
    BY <1>0, <2>1, <2>2, <2>4 DEF ProxyInv, ProxyTyped
  <2>6. \A k \in Actors : LookOK(proxyLook[k])'
    BY <2>2, <2>4 DEF ProxyInv, ProxyTyped, LookOK
  <2>7. \A q \in Providers : EntryOK(q)'
    BY <1>0, <2>1, <2>2 DEF ProxyInv, ProxyTyped, EntryOK
  <2>8. revoked' <= 1 + TTL - keyCache' + MaxLookup
    BY <1>0, <2>1, <2>2
  <2> QED
    BY <2>5, <2>6, <2>7, <2>8 DEF ProxyInv
<1>7. ASSUME P!Evict PROVE ProxyInv'
  <2>1. /\ UNCHANGED <<revoked, mapped, proxyLook, revived>>
        /\ \/ keyCache' = 0 /\ provCache' = provCache
           \/ keyCache' = keyCache /\ \E p \in Providers : provCache' = [provCache EXCEPT ![p] = P!None]
    BY <1>7 DEF P!Evict, Providers
  <2>2. ProxyTyped'
    BY <1>0, <2>1 DEF ProxyInv, ProxyTyped
  <2>3. \A k \in Actors : LookOK(proxyLook[k])'
    BY <2>1 DEF ProxyInv, LookOK
  <2>4. \A q \in Providers : EntryOK(q)'
    BY <2>1 DEF ProxyInv, ProxyTyped, EntryOK
  <2> QED
    BY <2>1, <2>2, <2>3, <2>4 DEF ProxyInv
<1>8. ASSUME UNCHANGED P!vars PROVE ProxyInv'
  BY <1>8 DEF P!vars, ProxyInv, ProxyTyped, EntryOK, LookOK
<1>9. ASSUME P!Tick PROVE ProxyInv'
  BY <1>9, ProxyTick
<1> QED
  BY <1>1, <1>2, <1>3, <1>5, <1>6, <1>7, <1>8, <1>9 DEF P!Next, Providers
-----------------------------------------------------------------------------
(***************************************************************************)
(* ActiveKeys.                                                             *)
(***************************************************************************)
Gets == [pc : {"idle", "fetch", "store", "answered"}, spent : 0..MaxLookup, ans : A!Answers,
         wrong : BOOLEAN, amid : BOOLEAN, age : 0..A!Cap]

ActiveEntries == [active : BOOLEAN, crossed : BOOLEAN, failed : BOOLEAN, left : 0..TTL]

ActiveTyped ==
    /\ active \in BOOLEAN /\ changing \in BOOLEAN /\ activeSince \in 0..A!Cap
    /\ activeCache \in ActiveEntries /\ get \in [Actors -> Gets]

\* An answer that is wrong and was not a failure's has been overtaken by a change.
ActiveEntryOK ==
    activeCache.left > 0 /\ ~activeCache.failed /\ activeCache.active # active =>
        (changing \/ activeCache.crossed) /\ activeSince <= TTL - activeCache.left + MaxLookup

\* The same of a set that is about to be cached, and of an answer.
GetOK(g) ==
    /\ g.pc = "store" /\ ~g.ans.failed /\ g.ans.active # active =>
           (changing \/ g.ans.crossed) /\ activeSince <= g.spent
    /\ g.wrong => g.ans.failed \/ ((g.amid \/ g.ans.crossed) /\ g.age <= TTL + MaxLookup)
    /\ g.pc = "fetch" => ~g.ans.failed
    /\ g.pc # "answered" => ~g.wrong

ActiveInv ==
    /\ ActiveTyped
    /\ ActiveEntryOK
    /\ \A w \in Actors : GetOK(get[w])

LEMMA ActiveIdle ==
    A!ActiveKeysAssumption => A!Idle \in Gets /\ A!Idle.pc = "idle" /\ A!Idle.wrong = FALSE /\ A!Idle.ans.failed = FALSE
  BY DEF A!ActiveKeysAssumption, A!Idle, Gets, A!Cap, A!Answers

LEMMA ActiveImplies == ActiveInv => A!TypeOK /\ A!WrongOnlyByRaceOrFailure
  BY DEF ActiveInv, ActiveTyped, ActiveEntries, Gets, A!TypeOK, A!WrongOnlyByRaceOrFailure, GetOK

LEMMA ActiveNoEntry == A!ActiveKeysAssumption => A!NoEntry \in ActiveEntries /\ A!NoEntry.left = 0
  BY DEF A!ActiveKeysAssumption, A!NoEntry, ActiveEntries

LEMMA ActiveInit == A!ActiveKeysAssumption /\ A!Init => ActiveInv
<1> SUFFICES ASSUME A!ActiveKeysAssumption, A!Init PROVE ActiveInv
  OBVIOUS
<1>0. active \in BOOLEAN /\ changing = FALSE /\ activeSince = A!Cap /\ activeCache = A!NoEntry /\ get = [w \in Actors |-> A!Idle]
  BY DEF A!Init
<1>t. activeSince \in 0..A!Cap
  BY <1>0 DEF A!Cap, A!ActiveKeysAssumption
<1>1. ActiveTyped
  BY <1>0, <1>t, ActiveIdle, ActiveNoEntry, Zenon DEF ActiveTyped
<1>2. \A w \in Actors : GetOK(get[w])
  BY ActiveIdle, Zenon DEF A!Init, GetOK
<1> QED
  BY <1>1, <1>2 DEF A!Init, ActiveInv, ActiveEntryOK, A!NoEntry

\* A step of one reader, with the cache as it was or filled with an explained entry.
LEMMA ActiveGetStep ==
    ASSUME A!ActiveKeysAssumption, ActiveInv, NEW w \in Actors, NEW new \in Gets, GetOK(new),
           get' = [get EXCEPT ![w] = new], UNCHANGED <<active, activeSince, changing>>,
           activeCache' \in ActiveEntries,
           activeCache' = activeCache \/
              (~activeCache'.failed /\ activeCache'.active # active =>
                  (changing \/ activeCache'.crossed) /\ activeSince <= TTL - activeCache'.left + MaxLookup)
    PROVE  ActiveInv'
<1>1. ActiveTyped'
  BY DEF ActiveInv, ActiveTyped
<1>2. \A k \in Actors : GetOK(get[k])'
  BY DEF ActiveInv, ActiveTyped, GetOK
<1>3. ActiveEntryOK'
  BY DEF ActiveInv, ActiveEntryOK
<1> QED
  BY <1>1, <1>2, <1>3 DEF ActiveInv

\* What Return makes of an answer whose faults are explained.
LEMMA ActiveReturn ==
    ASSUME A!ActiveKeysAssumption, ActiveInv, NEW w \in Actors, NEW ans \in A!Answers, A!Return(w, ans),
           ~ans.failed /\ ans.active # active => (changing \/ ans.crossed) /\ activeSince <= TTL + MaxLookup
    PROVE  \E new \in Gets : get' = [get EXCEPT ![w] = new] /\ GetOK(new)
<1>0. activeSince \in 0..A!Cap /\ changing \in BOOLEAN
  BY DEF ActiveInv, ActiveTyped
<1>1. CASE ans.active = active
  <2> DEFINE new == [A!Idle EXCEPT !.pc = "answered"]
  <2>1. new \in Gets /\ new.pc = "answered" /\ new.wrong = FALSE
    BY ActiveIdle DEF Gets
  <2>2. get' = [get EXCEPT ![w] = new]
    BY <1>1 DEF A!Return
  <2> HIDE DEF new
  <2>3. GetOK(new)
    BY <2>1 DEF GetOK
  <2> QED
    BY <2>1, <2>2, <2>3
<1>2. CASE ans.active # active
  <2> DEFINE new == [A!Idle EXCEPT !.pc = "answered", !.ans = ans, !.wrong = TRUE, !.amid = changing, !.age = activeSince]
  <2>1. new \in Gets /\ new.pc = "answered" /\ new.ans = ans /\ new.amid = changing /\ new.age = activeSince
    BY <1>0, ActiveIdle DEF Gets
  <2>2. get' = [get EXCEPT ![w] = new]
    BY <1>2 DEF A!Return
  <2> HIDE DEF new
  <2>3. GetOK(new)
    BY <1>2, <2>1 DEF GetOK
  <2> QED
    BY <2>1, <2>2, <2>3
<1> QED
  BY <1>1, <1>2

LEMMA ActiveTick == A!ActiveKeysAssumption /\ ActiveInv /\ A!Tick => ActiveInv'
<1> SUFFICES ASSUME A!ActiveKeysAssumption, ActiveInv, A!Tick PROVE ActiveInv'
  OBVIOUS
<1>0. TTL \in Nat /\ MaxLookup \in Nat
  BY DEF A!ActiveKeysAssumption
<1>1. activeSince \in 0..A!Cap /\ activeSince' \in 0..A!Cap /\ activeSince' <= activeSince + 1 /\ A!Cap \in Nat
  BY <1>0 DEF A!Tick, ActiveInv, ActiveTyped, A!Cap
<1>2. active' = active /\ changing' = changing
  BY DEF A!Tick
<1>3. /\ activeCache \in ActiveEntries /\ activeCache' \in ActiveEntries
      /\ activeCache'.left > 0 => /\ activeCache.left > 0 /\ activeCache'.left = activeCache.left - 1
                                  /\ activeCache'.failed = activeCache.failed /\ activeCache'.active = activeCache.active
                                  /\ activeCache'.crossed = activeCache.crossed
  <2>1. activeCache \in ActiveEntries
    BY DEF ActiveInv, ActiveTyped
  <2>2. CASE activeCache.left > 1
    <3> DEFINE left == activeCache.left - 1
    <3>1. activeCache' = [activeCache EXCEPT !.left = left]
      BY <2>2 DEF A!Tick
    <3>2. left \in 0..TTL /\ left = activeCache.left - 1 /\ activeCache.left > 0
      BY <1>0, <2>1, <2>2 DEF ActiveEntries
    <3> HIDE DEF left
    <3> QED
      BY <2>1, <3>1, <3>2 DEF ActiveEntries
  <2>3. CASE ~(activeCache.left > 1)
    BY <1>0, <2>1, <2>3 DEF A!Tick, A!NoEntry, ActiveEntries
  <2> QED
    BY <2>2, <2>3
<1>4. ASSUME NEW k \in Actors PROVE get'[k] \in Gets /\ GetOK(get[k])'
  <2>1. get[k] \in Gets /\ GetOK(get[k])
    BY DEF ActiveInv, ActiveTyped
  <2>2. CASE A!Fetching(k)
    <3> DEFINE spent == get[k].spent + 1
    <3>1. get[k].spent \in 0..MaxLookup /\ get[k].spent < MaxLookup
      BY <2>1, <2>2 DEF A!Tick, Gets
    <3>2. spent \in 0..MaxLookup /\ spent = get[k].spent + 1
      BY <1>0, <3>1
    <3>3. get'[k] = [get[k] EXCEPT !.spent = spent]
      BY <2>2 DEF A!Tick
    <3> HIDE DEF spent
    <3>4. /\ get'[k] \in Gets /\ get'[k].pc = get[k].pc /\ get'[k].ans = get[k].ans /\ get'[k].wrong = get[k].wrong
          /\ get'[k].amid = get[k].amid /\ get'[k].age = get[k].age /\ get'[k].spent = spent
      BY <2>1, <3>2, <3>3 DEF Gets
    <3>5. activeSince <= get[k].spent => activeSince' <= spent
      BY <1>0, <1>1, <3>1, <3>2
    <3> QED
      BY <1>2, <2>1, <3>4, <3>5 DEF GetOK
  <2>3. CASE ~A!Fetching(k)
    <3>1. get'[k] = get[k]
      BY <2>3 DEF A!Tick
    <3> QED
      BY <2>1, <2>3, <3>1 DEF GetOK, A!Fetching
  <2> QED
    BY <2>2, <2>3
<1>5. ActiveTyped'
  <2>1. get' = [k \in Actors |-> get'[k]]
    BY DEF A!Tick
  <2> QED
    BY <1>1, <1>2, <1>3, <1>4, <2>1 DEF ActiveInv, ActiveTyped
<1>6. ActiveEntryOK'
  <2>1. activeCache'.left > 0 /\ activeSince <= TTL - activeCache.left + MaxLookup =>
           activeSince' <= TTL - activeCache'.left + MaxLookup
    BY <1>0, <1>1, <1>3 DEF ActiveEntries
  <2> QED
    BY <1>2, <1>3, <2>1 DEF ActiveInv, ActiveEntryOK
<1> QED
  BY <1>4, <1>5, <1>6 DEF ActiveInv

LEMMA ActiveStep == A!ActiveKeysAssumption /\ ActiveInv /\ [A!Next]_(A!vars) => ActiveInv'
<1> SUFFICES ASSUME A!ActiveKeysAssumption, ActiveInv, [A!Next]_(A!vars) PROVE ActiveInv'
  OBVIOUS
<1>0. TTL \in Nat /\ MaxLookup \in Nat
  BY DEF A!ActiveKeysAssumption
<1>1. ASSUME NEW now \in BOOLEAN, A!SetActive(now) PROVE ActiveInv'
  <2>1. active' = now /\ activeSince' = 0 /\ changing' = TRUE /\ activeCache' = activeCache /\ get' = get
    BY <1>1 DEF A!SetActive
  <2>2. ActiveTyped'
    BY <1>0, <2>1 DEF ActiveInv, ActiveTyped, A!Cap
  <2>3. ASSUME NEW k \in Actors PROVE GetOK(get[k])'
    <3>1. get[k].spent \in Nat /\ GetOK(get[k]) /\ get'[k] = get[k]
      BY <2>1 DEF ActiveInv, ActiveTyped, Gets
    <3> QED
      BY <2>1, <3>1 DEF GetOK
  <2>4. activeSince' <= TTL - activeCache'.left + MaxLookup
    BY <1>0, <2>1 DEF ActiveInv, ActiveTyped, ActiveEntries
  <2>5. ActiveEntryOK'
    BY <2>1, <2>4, Zenon DEF ActiveEntryOK
  <2> QED
    BY <2>2, <2>3, <2>5 DEF ActiveInv
<1>2. ASSUME A!InvalidateAPIKey PROVE ActiveInv'
  <2>1. /\ activeCache' = A!NoEntry /\ changing' = FALSE /\ active' = active /\ activeSince' = activeSince
        /\ get' = [w \in Actors |-> get'[w]]
    BY <1>2 DEF A!InvalidateAPIKey
  <2>2. ASSUME NEW k \in Actors PROVE get'[k] \in Gets /\ GetOK(get[k])'
    <3>1. get[k] \in Gets /\ GetOK(get[k])
      BY DEF ActiveInv, ActiveTyped
    <3>2. CASE get[k].pc = "store"
      <4> DEFINE ans == [get[k].ans EXCEPT !.crossed = TRUE]
      <4>1. get'[k] = [get[k] EXCEPT !.ans = ans]
        BY <1>2, <3>2 DEF A!InvalidateAPIKey
      <4>2. get[k].ans \in A!Answers
        BY <3>1 DEF Gets
      <4>3. /\ ans \in A!Answers /\ ans.crossed = TRUE /\ ans.failed = get[k].ans.failed
            /\ ans.active = get[k].ans.active
        BY <4>2 DEF A!Answers
      <4> HIDE DEF ans
      <4>4. /\ get'[k] \in Gets /\ get'[k].pc = "store" /\ get'[k].ans = ans /\ get'[k].wrong = get[k].wrong
            /\ get'[k].amid = get[k].amid /\ get'[k].age = get[k].age /\ get'[k].spent = get[k].spent
        BY <3>1, <3>2, <4>1, <4>3 DEF Gets
      <4> QED
        BY <2>1, <3>1, <3>2, <4>3, <4>4 DEF GetOK
    <3>3. CASE get[k].pc # "store"
      <4>1. get'[k] = get[k]
        BY <1>2, <3>3 DEF A!InvalidateAPIKey
      <4> QED
        BY <3>1, <3>3, <4>1 DEF GetOK
    <3> QED
      BY <3>2, <3>3
  <2>3. ActiveTyped'
    <3>1. activeSince' \in 0..A!Cap /\ active' \in BOOLEAN
      BY <2>1 DEF ActiveInv, ActiveTyped
    <3>2. get' \in [Actors -> Gets]
      BY <2>1, <2>2
    <3> QED
      BY <2>1, <3>1, <3>2, ActiveNoEntry, Zenon DEF ActiveTyped
  <2>4. ActiveEntryOK'
    BY <2>1 DEF ActiveEntryOK, A!NoEntry
  <2> QED
    BY <2>2, <2>3, <2>4 DEF ActiveInv
<1>3. ASSUME NEW w \in Actors, A!GetActiveKeys(w) PROVE ActiveInv'
  <2>0. UNCHANGED <<active, activeSince, changing, activeCache>> /\ activeCache \in ActiveEntries
    BY <1>3 DEF A!GetActiveKeys, ActiveInv, ActiveTyped
  <2>1. CASE activeCache.left > 0
    <3> DEFINE ans == A!Cached
    <3>1. /\ ans \in A!Answers /\ ans.active = activeCache.active /\ ans.failed = activeCache.failed
          /\ ans.crossed = activeCache.crossed
      BY <2>0 DEF A!Cached, A!Answers, ActiveEntries
    <3>2. A!Return(w, ans)
      BY <1>3, <2>1 DEF A!GetActiveKeys
    <3> HIDE DEF ans
    <3>3. activeSince <= TTL - activeCache.left + MaxLookup => activeSince <= TTL + MaxLookup
      BY <1>0, <2>0, <2>1 DEF ActiveInv, ActiveTyped, ActiveEntries
    <3>4. ~ans.failed /\ ans.active # active => (changing \/ ans.crossed) /\ activeSince <= TTL + MaxLookup
      BY <2>1, <3>1, <3>3 DEF ActiveInv, ActiveEntryOK
    <3>5. PICK new \in Gets : get' = [get EXCEPT ![w] = new] /\ GetOK(new)
      BY <3>1, <3>2, <3>4, ActiveReturn
    <3> QED
      BY <2>0, <3>5, ActiveGetStep
  <2>2. CASE ~(activeCache.left > 0)
    <3> DEFINE new == [A!Idle EXCEPT !.pc = "fetch"]
    <3>1. new \in Gets /\ new.pc = "fetch" /\ new.wrong = FALSE /\ new.ans.failed = FALSE
      BY ActiveIdle DEF Gets
    <3>2. get' = [get EXCEPT ![w] = new]
      BY <1>3, <2>2 DEF A!GetActiveKeys
    <3> HIDE DEF new
    <3>3. GetOK(new)
      BY <3>1 DEF GetOK
    <3> QED
      BY <2>0, <3>1, <3>2, <3>3, ActiveGetStep
  <2> QED
    BY <2>1, <2>2
<1>4. ASSUME NEW w \in Actors, A!FetchActiveKeys(w) PROVE ActiveInv'
  <2>0. /\ UNCHANGED <<active, activeSince, changing, activeCache>> /\ activeCache \in ActiveEntries /\ active \in BOOLEAN
        /\ get[w] \in Gets /\ GetOK(get[w]) /\ get[w].pc = "fetch" /\ get \in [Actors -> Gets] /\ get[w].ans \in A!Answers
    BY <1>4 DEF A!FetchActiveKeys, ActiveInv, ActiveTyped, Gets
  <2>1. ASSUME NEW ans \in A!Answers, get' = [get EXCEPT ![w].pc = "store", ![w].ans = ans],
               ans.failed \/ ans.active = active
        PROVE  ActiveInv'
    <3> DEFINE new == [get[w] EXCEPT !.pc = "store", !.ans = ans]
    <3>1. /\ new \in Gets /\ new.pc = "store" /\ new.ans = ans /\ new.wrong = get[w].wrong
          /\ new.amid = get[w].amid /\ new.age = get[w].age
      BY <2>0 DEF Gets
    <3>2. get' = [get EXCEPT ![w] = new]
      BY <2>0, <2>1
    <3> HIDE DEF new
    <3>w. ~new.wrong
      BY <2>0, <3>1 DEF GetOK
    <3>3. GetOK(new)
      BY <2>0, <2>1, <3>1, <3>w DEF GetOK
    <3> QED
      BY <2>0, <3>1, <3>2, <3>3, ActiveGetStep
  <2>2. CASE get' = [get EXCEPT ![w].pc = "store", ![w].ans.active = active]
    <3> DEFINE ans == [get[w].ans EXCEPT !.active = active]
    <3>1. ans \in A!Answers /\ ans.active = active
      BY <2>0 DEF A!Answers
    <3>2. get' = [get EXCEPT ![w].pc = "store", ![w].ans = ans]
      BY <2>0, <2>2
    <3> HIDE DEF ans
    <3> QED
      BY <2>1, <3>1, <3>2
  <2>3. CASE get' = [get EXCEPT ![w].pc = "store", ![w].ans.failed = TRUE]
    <3> DEFINE ans == [get[w].ans EXCEPT !.failed = TRUE]
    <3>1. ans \in A!Answers /\ ans.failed
      BY <2>0 DEF A!Answers
    <3>2. get' = [get EXCEPT ![w].pc = "store", ![w].ans = ans]
      BY <2>0, <2>3
    <3> HIDE DEF ans
    <3> QED
      BY <2>1, <3>1, <3>2
  <2>4. CASE get' = [get EXCEPT ![w] = A!Idle]
    <3>1. GetOK(A!Idle)
      BY ActiveIdle DEF GetOK
    <3> QED
      BY <2>0, <2>4, <3>1, ActiveIdle, ActiveGetStep
  <2> QED
    BY <1>4, <2>2, <2>3, <2>4 DEF A!FetchActiveKeys
<1>5. ASSUME NEW w \in Actors, A!Store(w) PROVE ActiveInv'
  <2> DEFINE ans == get[w].ans
             new == [active |-> ans.active, crossed |-> ans.crossed, failed |-> ans.failed, left |-> TTL]
  <2>1. /\ get[w] \in Gets /\ GetOK(get[w]) /\ get[w].pc = "store" /\ ans \in A!Answers
        /\ activeCache' = new /\ A!Return(w, ans) /\ UNCHANGED <<active, activeSince, changing>>
        /\ activeSince \in Nat
    BY <1>5 DEF A!Store, ActiveInv, ActiveTyped, Gets
  <2>2. /\ new \in ActiveEntries /\ new.left = TTL /\ new.active = ans.active /\ new.crossed = ans.crossed
        /\ new.failed = ans.failed
    BY <1>0, <2>1 DEF ActiveEntries, A!Answers
  <2>3. get[w].spent \in 0..MaxLookup
    BY <2>1 DEF Gets
  <2>4. activeSince <= get[w].spent => activeSince <= TTL - TTL + MaxLookup /\ activeSince <= TTL + MaxLookup
    BY <1>0, <2>1, <2>3
  <2>5. ~ans.failed /\ ans.active # active =>
           (changing \/ ans.crossed) /\ activeSince <= TTL - TTL + MaxLookup /\ activeSince <= TTL + MaxLookup
    BY <2>1, <2>4, Zenon DEF GetOK
  <2> HIDE DEF ans, new
  <2>6. PICK g \in Gets : get' = [get EXCEPT ![w] = g] /\ GetOK(g)
    BY <2>1, <2>5, ActiveReturn
  <2>7. /\ activeCache' \in ActiveEntries
        /\ ~activeCache'.failed /\ activeCache'.active # active =>
                  (changing \/ activeCache'.crossed) /\ activeSince <= TTL - activeCache'.left + MaxLookup
    BY <2>1, <2>2, <2>5, Zenon
  <2> QED
    BY <2>1, <2>6, <2>7, ActiveGetStep
<1>6. ASSUME UNCHANGED A!vars PROVE ActiveInv'
  BY <1>6 DEF A!vars, ActiveInv, ActiveTyped, ActiveEntryOK, GetOK
<1>7. ASSUME A!Tick PROVE ActiveInv'
  BY <1>7, ActiveTick
<1> QED
  BY <1>1, <1>2, <1>3, <1>4, <1>5, <1>6, <1>7 DEF A!Next, A!ActivateMetadataKey, A!DeactivateMetadataKey
-----------------------------------------------------------------------------
(***************************************************************************)
(* Pricing: the invariant and its proof are PricingProofs'.                *)
(***************************************************************************)
MP == INSTANCE PricingProofs WITH Models <- {"m1", "m2", "m3", "m4"}, InFile <- {"m1", "m2"},
         Alias <- "m1" :> "m2" @@ "m3" :> "m2", HasRemote <- TRUE, pc <- pricePc, reply <- priceList

LEMMA PriceInit == M!Init => MP!IInv
<1>1. M!Init => MP!Init
  BY DEF M!Init, MP!Init
<1> QED
  BY <1>1, MP!InitIsBuilt

LEMMA PriceStep == MP!IInv /\ [M!Next]_(M!vars) => MP!IInv'
<1>1. [M!Next]_(M!vars) => [MP!Next]_(MP!vars)
  BY DEF M!Next, MP!Next, M!vars, MP!vars, M!loadPricing, MP!loadPricing, M!loadFallback, MP!loadFallback,
         M!mergeFallback, MP!mergeFallback, M!refresh, MP!refresh, M!fetchRemote, MP!fetchRemote, M!Close, MP!Close,
         M!Remote, MP!Remote, M!File, MP!File, M!Merged, MP!Merged
<1> QED
  BY <1>1, MP!StepKeepsBuilt

LEMMA PriceImplies == M!PricingAssumption /\ MP!IInv => M!TypeOK /\ M!PricesFollowTheLists
<1>1. M!PricingAssumption => MP!PricingAssumption
  BY DEF M!PricingAssumption, MP!PricingAssumption
<1>2. MP!IInv => M!TypeOK
  BY DEF MP!IInv, MP!TypeOK, M!TypeOK
<1>3. MP!PricesFollowTheLists => M!PricesFollowTheLists
  BY DEF MP!PricesFollowTheLists, M!PricesFollowTheLists, M!Calculate, MP!Calculate
<1> QED
  BY <1>1, <1>2, <1>3, MP!BuiltTableIsRight
-----------------------------------------------------------------------------
(***************************************************************************)
(* ProxyHandler.                                                           *)
(***************************************************************************)
HandlerModels == {"old", "new", "arm"}

Asked == [path : H!Paths, named : H!Named, body : {"object", "null", "other"}, model : HandlerModels,
          behavior : {"passthrough", "redirect", "warn"}, org : BOOLEAN]

Sent == [model : HandlerModels, body : {"client", "overridden", "translated"}, warned : BOOLEAN,
         path : {"as asked", "/v1/messages"}]

RowTags == [redirected : BOOLEAN, arm : {"arm", "old", "none"}, original : HandlerModels \cup {"none", "unknown"}]

Untouched == {"authenticate", "read", "detect", "region", "policy", "proxyKey", "deprecated"}

\* The model is in the body and the body is not translated.
ModelInBody == ~H!InPath /\ H!Detect \notin {"bedrock", "anthropic-openai"}

\* Until the deprecation policy nothing is changed or tagged; from the experiment on
\* the tags tell what is on its way upstream, where the model is in the body.
HandlerInv ==
    /\ reqPc \in H!Steps /\ reply \in {0, 200, 400, 401, 403, 502}
    /\ request \in Asked /\ upstream \in Sent /\ tags \in RowTags
    /\ reqPc \in Untouched => upstream.model = request.model /\ tags = H!NoTags
    /\ reqPc = "experiment" => tags.arm = "none"
    /\ reqPc \in {"experiment", "translate", "forward", "log"} /\ ModelInBody =>
          /\ upstream.model = H!Told
          /\ tags.original = IF tags = H!NoTags THEN "none" ELSE request.model

LEMMA HandlerImplies == HandlerInv => H!TypeOK /\ H!TagsTellWhatWasSent
  BY Zenon DEF HandlerInv, H!TypeOK, H!TagsTellWhatWasSent, Sent, RowTags, ModelInBody, HandlerModels, H!None

LEMMA HandlerInit == H!Init => HandlerInv
<1> SUFFICES ASSUME H!Init PROVE HandlerInv
  OBVIOUS
<1>1. request \in Asked /\ request.model \in HandlerModels
  BY Zenon DEF H!Init, Asked, HandlerModels
<1>2. upstream \in Sent /\ upstream.model = request.model
  BY <1>1, Zenon DEF H!Init, Sent
<1>3. H!NoTags \in RowTags /\ H!NoTags.redirected = FALSE
  BY DEF H!NoTags, RowTags, H!None
<1> QED
  BY <1>1, <1>2, <1>3, Zenon DEF H!Init, HandlerInv, H!Steps

\* A step that leaves the request and what goes upstream alone.
LEMMA HandlerGoes ==
    ASSUME HandlerInv, NEW step \in H!Steps, H!Go(step),
           step \in Untouched => reqPc \in Untouched,
           step = "experiment" => reqPc = "deprecated",
           step \in {"translate", "forward", "log"} => reqPc \in {"experiment", "translate", "forward", "log"}
    PROVE  HandlerInv'
<1>1. reqPc' = step /\ UNCHANGED <<request, upstream, tags, reply>>
  BY DEF H!Go
<1>2. ModelInBody' = ModelInBody /\ H!Told' = H!Told
  BY <1>1 DEF ModelInBody, H!InPath, H!Detect, H!detectFromPath, H!Told
<1>3. reqPc = "deprecated" => tags.arm = "none" /\ upstream.model = H!Told
  BY DEF HandlerInv, Untouched, H!NoTags, H!Told, H!None
<1>4. step = "experiment" => tags = H!NoTags /\ upstream.model = H!Told /\ tags.arm = "none" /\ tags.original = "none"
  BY <1>3 DEF HandlerInv, Untouched, H!NoTags, H!None
<1> QED
  BY <1>1, <1>2, <1>4 DEF HandlerInv

\* A step that ends the request, or the upstream's answer.
LEMMA HandlerEnds ==
    ASSUME HandlerInv, reqPc' \in {"done", "panic", "log"}, reqPc' = "log" => reqPc = "forward",
           reply' \in {0, 200, 400, 401, 403, 502}, UNCHANGED <<request, upstream, tags>>
    PROVE  HandlerInv'
<1>2. ModelInBody' = ModelInBody /\ H!Told' = H!Told
  BY DEF ModelInBody, H!InPath, H!Detect, H!detectFromPath, H!Told
<1> QED
  BY <1>2 DEF HandlerInv, Untouched, H!Steps

\* The model asked for is the one in the body, where there is one.
LEMMA RequestedInBody ==
    ASSUME HandlerInv, ModelInBody
    PROVE  /\ request.body = "object" => H!RequestedModel = request.model /\ H!LoggedModel = request.model
           /\ \A m : H!Overridden(m) = [upstream EXCEPT !.body = "overridden", !.model = m]
  BY DEF ModelInBody, H!RequestedModel, H!LoggedModel, H!Overridden

\* What the handler takes for the requested model, and what it overrides with it.
LEMMA RequestedModels ==
    ASSUME HandlerInv
    PROVE  /\ H!RequestedModel \in HandlerModels \cup {"none", "unknown"}
           /\ H!LoggedModel \in HandlerModels \cup {"none", "unknown"}
           /\ \A m \in HandlerModels : /\ H!Overridden(m) \in Sent
                                       /\ H!Overridden(m).model = IF H!InPath THEN upstream.model ELSE m
  BY ZenonT(30) DEF HandlerInv, Asked, Sent, H!RequestedModel, H!LoggedModel, H!Overridden, H!None, HandlerModels

LEMMA HandlerStep == H!ProxyHandlerAssumption /\ HandlerInv /\ [H!Next]_(H!vars) => HandlerInv'
<1> SUFFICES ASSUME H!ProxyHandlerAssumption, HandlerInv, [H!Next]_(H!vars) PROVE HandlerInv'
  OBVIOUS
<1>1. ASSUME NEW status \in {400, 401, 403, 502}, H!Refuse(status) PROVE HandlerInv'
  BY <1>1, HandlerEnds DEF H!Refuse
<1>2. ASSUME H!Authenticate \/ H!ReadBody \/ H!Region \/ H!Policy \/ H!ProxyKey PROVE HandlerInv'
  <2>1. CASE \E status \in {400, 401, 403, 502} : H!Refuse(status)
    BY <1>1, <2>1
  <2>2. CASE \E step \in {"read", "detect", "policy", "proxyKey", "deprecated"} : H!Go(step)
    <3>1. reqPc \in Untouched
      BY <1>2 DEF H!Authenticate, H!ReadBody, H!Region, H!Policy, H!ProxyKey, Untouched
    <3> QED
      BY <2>2, <3>1, HandlerGoes DEF H!Steps
  <2> QED
    BY <1>2, <2>1, <2>2 DEF H!Authenticate, H!ReadBody, H!Region, H!Policy, H!ProxyKey
<1>3. ASSUME H!DetectProvider PROVE HandlerInv'
  <2>1. CASE H!Refuse(400)
    BY <1>1, <2>1
  <2>2. CASE \E step \in {"region", "policy"} : H!Go(step)
    <3>1. reqPc \in Untouched
      BY <1>3 DEF H!DetectProvider, Untouched
    <3> QED
      BY <2>2, <3>1, HandlerGoes DEF H!Steps
  <2> QED
    BY <1>3, <2>1, <2>2 DEF H!DetectProvider
<1>4. ASSUME H!Panic PROVE HandlerInv'
  BY <1>4, HandlerEnds DEF H!Panic, HandlerInv
<1>5. ASSUME H!Deprecated PROVE HandlerInv'
  <2>0. reqPc = "deprecated"
    BY <1>5 DEF H!Deprecated
  <2>1. CASE H!Go("experiment")
    BY <2>0, <2>1, HandlerGoes DEF H!Steps, Untouched
  <2>2. CASE H!Panic
    BY <1>4, <2>2
  <2>3. ASSUME H!Lookup(H!RequestedModel), request.body = "object", reqPc' = "experiment",
               upstream' = [H!Overridden(("old" :> "new")[H!RequestedModel]) EXCEPT !.warned = request.behavior = "warn"],
               tags' = [tags EXCEPT !.redirected = TRUE, !.original = H!RequestedModel],
               UNCHANGED <<request, reply>>
        PROVE  HandlerInv'
    <3> DEFINE m == ("old" :> "new")[H!RequestedModel]
               up == H!Overridden(m)
               warned == request.behavior = "warn"
    <3>1. m \in HandlerModels /\ H!RequestedModel \in HandlerModels
      BY <2>3 DEF H!ProxyHandlerAssumption, H!Lookup, HandlerModels
    <3>2. up \in Sent /\ (ModelInBody => up.model = m)
      BY <3>1, RequestedModels DEF ModelInBody
    <3>3. warned \in BOOLEAN /\ upstream' = [up EXCEPT !.warned = warned]
      BY <2>3
    <3>4. tags \in RowTags /\ tags.arm = "none"
      BY <2>0 DEF HandlerInv, Untouched, H!NoTags, H!None
    <3>5. /\ tags' \in RowTags /\ tags'.redirected = TRUE /\ tags'.original = H!RequestedModel
          /\ tags'.arm = "none"
      BY <2>3, <3>1, <3>4 DEF RowTags
    <3>6. ModelInBody => H!RequestedModel = request.model
      BY <2>3, RequestedInBody, Zenon
    <3>7. ModelInBody' = ModelInBody
      BY <2>3 DEF ModelInBody, H!InPath, H!Detect, H!detectFromPath
    <3>8. H!Told' = m
      BY <3>5 DEF H!Told, H!None
    <3> HIDE DEF up, m, warned
    <3>9. upstream' \in Sent /\ upstream'.model = up.model
      BY <3>2, <3>3, Zenon DEF Sent
    <3>10. tags' # H!NoTags
      BY <3>5 DEF H!NoTags
    <3>11. ModelInBody' => upstream'.model = H!Told' /\ tags'.original = request'.model
      BY <2>3, <3>2, <3>5, <3>6, <3>7, <3>8, <3>9
    <3>12. reqPc' \notin Untouched /\ reqPc' \in H!Steps
      BY <2>3 DEF Untouched, H!Steps
    <3> QED
      BY <2>3, <3>1, <3>5, <3>9, <3>10, <3>11, <3>12 DEF HandlerInv
  <2> QED
    BY <1>5, <2>1, <2>2, <2>3 DEF H!Deprecated, HandlerInv, Asked
<1>6. ASSUME H!Experiment PROVE HandlerInv'
  <2>0. reqPc = "experiment"
    BY <1>6 DEF H!Experiment
  <2>1. CASE H!Go("translate")
    BY <2>0, <2>1, HandlerGoes DEF H!Steps, Untouched
  <2>2. CASE H!Panic
    BY <1>4, <2>2
  <2>3. ASSUME request.body = "other", reqPc' = "translate", upstream' = upstream, tags' = tags, UNCHANGED <<request, reply>>
        PROVE  HandlerInv'
    <3>1. ModelInBody' = ModelInBody /\ H!Told' = H!Told
      BY <2>3 DEF ModelInBody, H!InPath, H!Detect, H!detectFromPath, H!Told
    <3> QED
      BY <2>0, <2>3, <3>1 DEF HandlerInv, Untouched, H!Steps
  <2>4. ASSUME NEW arm \in {"arm", "old"}, request.body = "object", reqPc' = "translate",
               upstream' = H!Overridden(arm), tags' = [tags EXCEPT !.arm = arm, !.original = H!LoggedModel],
               UNCHANGED <<request, reply>>
        PROVE  HandlerInv'
    <3>1. upstream' \in Sent /\ (ModelInBody => upstream'.model = arm)
      BY <2>4, RequestedModels DEF ModelInBody, HandlerModels
    <3>2. /\ tags' \in RowTags /\ tags'.arm = arm /\ tags'.original = H!LoggedModel
      BY <2>4, RequestedModels DEF HandlerInv, RowTags
    <3>3. ModelInBody => H!LoggedModel = request.model
      BY <2>4, RequestedInBody, Zenon
    <3>4. ModelInBody' = ModelInBody
      BY <2>4 DEF ModelInBody, H!InPath, H!Detect, H!detectFromPath
    <3>5. H!Told' = arm /\ tags' # H!NoTags /\ tags'.arm # "none"
      BY <3>2 DEF H!Told, H!None, H!NoTags
    <3>6. reqPc' \notin Untouched /\ reqPc' \in H!Steps
      BY <2>4 DEF Untouched, H!Steps
    <3> QED
      BY <2>4, <3>1, <3>2, <3>3, <3>4, <3>5, <3>6 DEF HandlerInv
  <2> QED
    BY <1>6, <2>1, <2>2, <2>3, <2>4 DEF H!Experiment, H!ClearIfFailed, H!KeepAssignment, HandlerInv, Asked
<1>7. ASSUME H!Translate PROVE HandlerInv'
  <2>0. reqPc = "translate"
    BY <1>7 DEF H!Translate
  <2>1. CASE H!Go("forward")
    BY <2>0, <2>1, HandlerGoes DEF H!Steps, Untouched
  <2>2. ASSUME H!Detect = "anthropic-openai", reqPc' = "forward", UNCHANGED <<request, tags, reply>>,
               upstream' = [upstream EXCEPT !.body = "translated", !.model = request.model, !.path = "/v1/messages"]
        PROVE  HandlerInv'
    <3>1. upstream' \in Sent
      BY <2>2, Zenon DEF HandlerInv, Sent, Asked
    <3>2. ~ModelInBody'
      BY <2>2 DEF ModelInBody, H!Detect, H!detectFromPath
    <3>3. reqPc' \notin Untouched /\ reqPc' \in H!Steps
      BY <2>2 DEF Untouched, H!Steps
    <3> QED
      BY <2>2, <3>1, <3>2, <3>3 DEF HandlerInv
  <2> QED
    BY <1>7, <2>1, <2>2 DEF H!Translate
<1>8. ASSUME H!ForwardStream \/ H!Forward PROVE HandlerInv'
  <2>1. CASE H!Refuse(502)
    BY <1>1, <2>1
  <2>2. CASE reqPc' = "log" /\ reply' \in {200, 400} /\ UNCHANGED <<request, upstream, tags>>
    BY <1>8, <2>2, HandlerEnds DEF H!ForwardStream, H!Forward
  <2> QED
    BY <1>8, <2>1, <2>2 DEF H!ForwardStream, H!Forward, H!Answer
<1>9. ASSUME H!LogAndFinish PROVE HandlerInv'
  BY <1>9, HandlerGoes DEF H!LogAndFinish, H!Steps, Untouched
<1>10. ASSUME UNCHANGED H!vars PROVE HandlerInv'
  BY <1>10 DEF H!vars, HandlerInv, ModelInBody, H!InPath, H!Detect, H!detectFromPath, H!Told
<1> QED
  BY <1>2, <1>3, <1>5, <1>6, <1>7, <1>8, <1>9, <1>10 DEF H!Next
-----------------------------------------------------------------------------
(***************************************************************************)
(* A nonempty set of numbers has a least one, and a bounded one a greatest *)
(* one: strict inclusion of the initial segments is well-founded.          *)
(***************************************************************************)
LEMMA Minimum ==
    ASSUME NEW T \in SUBSET Nat, T # {}
    PROVE  \E m \in T : \A t \in T : m <= t
<1> DEFINE Below(t) == 0..(t - 1)
           Heads    == {Below(t) : t \in T}
           R        == StrictSubsetOrdering(Nat)
           F        == FiniteSubsetsOf(Nat)
<1>1. ASSUME NEW t \in T PROVE Below(t) \in F
  <2>1. Below(t) \in SUBSET Nat
    OBVIOUS
  <2>2. IsFiniteSet(Below(t))
    BY FS_Interval
  <2>3. QED
    BY <2>1, <2>2 DEF FiniteSubsetsOf
<1>2. Heads \subseteq F /\ Heads # {}
  BY <1>1
<1>3. IsWellFoundedOn(R, F)
  BY FS_StrictSubsetOrderingWellFounded
<1>4. PICK S0 \in Heads : \A U \in Heads : ~(<<U, S0>> \in R)
  <2> HIDE DEF Heads, R, F
  <2>1. QED
    BY <1>2, <1>3, WFMin
<1>5. PICK m \in T : S0 = Below(m)
  OBVIOUS
<1>6. ASSUME NEW t \in T, ~(m <= t) PROVE FALSE
  <2>1. t \in Nat /\ m \in Nat /\ t < m
    BY <1>6
  <2>2. Below(t) \subseteq Below(m) /\ t \in Below(m) /\ t \notin Below(t)
    BY <2>1
  <2>3. Below(t) \in SUBSET Nat /\ Below(m) \in SUBSET Nat
    BY <2>1
  <2>4. <<Below(t), Below(m)>> \in R
    BY <2>2, <2>3 DEF StrictSubsetOrdering
  <2>5. QED
    BY <1>4, <1>5, <2>4
<1>7. QED
  BY <1>6

LEMMA Maximum ==
    ASSUME NEW n \in Nat, NEW T \in SUBSET (0..n), T # {}
    PROVE  \E m \in T : \A t \in T : m >= t
<1> DEFINE U == {n - t : t \in T}
<1>1. U \in SUBSET Nat /\ U # {}
  <2>1. ASSUME NEW t \in T PROVE n - t \in Nat
    <3>1. t \in 0..n
      OBVIOUS
    <3> QED
      BY <3>1
  <2>2. PICK t \in T : TRUE
    OBVIOUS
  <2>3. n - t \in U
    OBVIOUS
  <2> QED
    BY <2>1, <2>3
<1>2. PICK u \in U : \A v \in U : u <= v
  <2> HIDE DEF U
  <2> QED
    BY <1>1, Minimum
<1>3. PICK m \in T : u = n - m
  OBVIOUS
<1>4. ASSUME NEW t \in T PROVE m >= t
  <2>1. n - t \in U /\ t \in 0..n /\ m \in 0..n
    OBVIOUS
  <2>2. n - m <= n - t
    BY <1>2, <1>3, <2>1
  <2> QED
    BY <2>1, <2>2
<1> QED
  BY <1>4

(***************************************************************************)
(* StreamedUsage.                                                          *)
(***************************************************************************)
Fields == {"in", "out"}

Cuts == {"no", "short", "within"}

\* How many events came whole: the last one may be torn.
WholeLen == IF torn = "no" THEN Len(buf) ELSE Len(buf) - 1

\* The output that Anthropic counts before the first message_delta is not taken.
Untaken(f) == format = "anthropic" /\ f = "out"

\* The events that came whole count up to the total.
CountsUp ==
    \A f \in Fields :
        /\ (\A i \in 1..WholeLen : f \notin S!Taken(buf, i)) => total[f] = 0 \/ Untaken(f)
        /\ \A i \in 1..WholeLen :
              /\ buf[i].tokens[f] <= total[f]
              /\ f \in S!Taken(buf, i) /\ (\A j \in i + 1..WholeLen : f \notin S!Taken(buf, j))
                    => buf[i].tokens[f] = total[f]

\* The total is what the whole events count up to, also while the relay goes on.
UsageInv ==
    /\ S!TypeOK
    /\ relay \in {"relay", "ended"} => torn = "no"
    /\ torn # "no" => Len(buf) > 0
    /\ format = "gemini" => relay # "left"
    /\ CountsUp
    /\ S!UsageLostOnlyByCut

\* Counts as records and as functions of the field.
LEMMA CountFields ==
    /\ S!Zero \in S!Counts /\ S!Zero.in = 0 /\ S!Zero.out = 0 /\ S!Zero["in"] = 0 /\ S!Zero["out"] = 0
    /\ \A t \in S!Counts : /\ t.in = t["in"] /\ t.out = t["out"] /\ t.in \in 0..2 /\ t.out \in 0..2
    /\ \A t \in S!Counts, u \in S!Counts : t.in = u.in /\ t.out = u.out => t = u
  BY DEF S!Zero, S!Counts

LEMMA UsageInit == S!Init => UsageInv
<1> SUFFICES ASSUME S!Init PROVE UsageInv
  OBVIOUS
<1>1. S!TypeOK
  <2>1. torn \in Cuts /\ relay = "relay" /\ format \in S!Formats /\ total \in S!Counts /\ usage \in S!Counts
    BY CountFields, Zenon DEF S!Init, Cuts
  <2>2. buf \in Seq(S!Events) /\ Len(buf) <= 3
    BY DEF S!Init
  <2> QED
    BY <2>1, <2>2 DEF S!TypeOK, Cuts
<1>2. CountsUp
  BY CountFields DEF S!Init, CountsUp, Fields, WholeLen
<1> QED
  BY <1>1, <1>2 DEF S!Init, UsageInv, S!UsageLostOnlyByCut

\* LastCount: the count of the last event that has one.
LEMMA LastCountIs ==
    ASSUME NEW e \in Seq(S!Events), NEW f \in Fields
    PROVE  \/ (\A i \in 1..Len(e) : f \notin S!Taken(e, i)) /\ S!LastCount(e, f) = 0
           \/ \E i \in 1..Len(e) : /\ f \in S!Taken(e, i) /\ \A j \in i + 1..Len(e) : f \notin S!Taken(e, j)
                                   /\ S!LastCount(e, f) = e[i].tokens[f]
<1> DEFINE n == Len(e)
           at == {i \in DOMAIN e : f \in S!Taken(e, i)}
           Last(i) == i \in at /\ \A j \in at : i >= j
<1>1. n \in Nat /\ DOMAIN e = 1..n
  OBVIOUS
<1>2. CASE at = {}
  BY <1>1, <1>2 DEF S!LastCount
<1>3. CASE at # {}
  <2>1. at \in SUBSET (0..n)
    BY <1>1
  <2>2. \E i \in at : \A j \in at : i >= j
    <3> HIDE DEF at, n
    <3> QED
      BY <1>1, <1>3, <2>1, Maximum
  <2>3. S!LastCount(e, f) = e[CHOOSE i \in at : \A j \in at : i >= j].tokens[f]
    BY <1>3 DEF S!LastCount
  <2> DEFINE m == CHOOSE i \in at : \A j \in at : i >= j
  <2>4. m \in at /\ \A j \in at : m >= j
    <3> HIDE DEF at
    <3> QED
      BY <2>2
  <2>5. S!LastCount(e, f) = e[m].tokens[f]
    BY <2>3
  <2> HIDE DEF m
  <2>6. m \in 1..n /\ f \in S!Taken(e, m)
    BY <1>1, <2>4
  <2>7. ASSUME NEW j \in m + 1..n PROVE f \notin S!Taken(e, j)
    <3>1. j \in 1..n /\ ~(m >= j)
      BY <1>1, <2>6
    <3> QED
      BY <1>1, <2>4, <3>1
  <2> QED
    BY <2>5, <2>6, <2>7
<1> QED
  BY <1>2, <1>3

\* What the first k of the events that came whole count.
LEMMA CountOfWhole ==
    ASSUME UsageInv, NEW k \in 0..WholeLen, NEW e \in Seq(S!Events), Len(e) = k, \A i \in 1..k : e[i] = buf[i]
    PROVE  /\ S!Count(e) \in S!Counts /\ S!Count(e).in <= total.in /\ S!Count(e).out <= total.out
           /\ k = WholeLen => \/ S!Count(e) = total
                              \/ /\ format = "anthropic" /\ S!Count(e).in = total.in
                                 /\ \A i \in 1..WholeLen : "out" \notin S!Taken(buf, i)
<1>0. buf \in Seq(S!Events) /\ total \in S!Counts /\ WholeLen \in Int /\ WholeLen <= Len(buf)
  <2>1. buf \in Seq(S!Events) /\ total \in S!Counts /\ torn \in Cuts
    BY DEF UsageInv, S!TypeOK, Cuts
  <2>2. Len(buf) \in Nat
    BY <2>1
  <2> QED
    BY <2>1, <2>2 DEF WholeLen
<1>1. ASSUME NEW f \in Fields
      PROVE  /\ S!LastCount(e, f) \in 0..2 /\ S!LastCount(e, f) <= total[f]
             /\ k = WholeLen => \/ S!LastCount(e, f) = total[f]
                                \/ Untaken(f) /\ \A i \in 1..WholeLen : f \notin S!Taken(buf, i)
  <2>0. \A i \in 1..k : S!Taken(e, i) = S!Taken(buf, i)
    BY DEF S!Taken
  <2>1. total[f] \in 0..2
    BY <1>0, CountFields DEF Fields
  <2>2. CASE (\A i \in 1..Len(e) : f \notin S!Taken(e, i)) /\ S!LastCount(e, f) = 0
    BY <2>0, <2>1, <2>2 DEF UsageInv, CountsUp
  <2>3. ASSUME NEW i \in 1..Len(e), f \in S!Taken(e, i), \A j \in i + 1..Len(e) : f \notin S!Taken(e, j),
               S!LastCount(e, f) = e[i].tokens[f]
        PROVE  /\ S!LastCount(e, f) \in 0..2 /\ S!LastCount(e, f) <= total[f]
               /\ k = WholeLen => S!LastCount(e, f) = total[f]
    <3>1. i \in 1..k /\ i \in 1..WholeLen /\ i \in DOMAIN buf /\ e[i] = buf[i]
      BY <1>0
    <3>2. buf[i] \in S!Events
      BY <1>0, <3>1
    <3>3. buf[i].tokens \in S!Counts
      BY <3>2 DEF S!Events
    <3>4. buf[i].tokens[f] \in 0..2
      BY <3>3, CountFields DEF Fields
    <3>5. buf[i].tokens[f] <= total[f]
      BY <3>1 DEF UsageInv, CountsUp
    <3>6. ASSUME k = WholeLen PROVE buf[i].tokens[f] = total[f]
      <4>1. \A j \in i + 1..WholeLen : f \notin S!Taken(buf, j)
        <5> TAKE j \in i + 1..WholeLen
        <5>1. j \in i + 1..Len(e) /\ j \in 1..k
          BY <3>1, <3>6
        <5> QED
          BY <2>0, <2>3, <5>1
      <4> QED
        BY <2>0, <2>3, <3>1, <4>1 DEF UsageInv, CountsUp
    <3> QED
      BY <2>3, <3>1, <3>4, <3>5, <3>6
  <2> QED
    BY <2>2, <2>3, LastCountIs
<1>2. S!Count(e) \in S!Counts /\ S!Count(e).in = S!LastCount(e, "in") /\ S!Count(e).out = S!LastCount(e, "out")
  BY <1>1 DEF S!Count, S!Counts, Fields
<1>3. total.in = total["in"] /\ total.out = total["out"]
  BY <1>0, CountFields
<1>4. ASSUME k = WholeLen
      PROVE  \/ S!Count(e) = total
             \/ /\ format = "anthropic" /\ S!Count(e).in = total.in
                /\ \A i \in 1..WholeLen : "out" \notin S!Taken(buf, i)
  <2>1. S!Count(e).in = total.in
    BY <1>1, <1>2, <1>3, <1>4 DEF Fields, Untaken
  <2>2. CASE S!LastCount(e, "out") = total["out"]
    BY <1>0, <1>2, <1>3, <2>1, <2>2, CountFields
  <2>3. CASE S!LastCount(e, "out") # total["out"]
    BY <1>1, <1>4, <2>1, <2>3 DEF Fields, Untaken
  <2> QED
    BY <2>2, <2>3
<1> QED
  BY <1>1, <1>2, <1>3, <1>4 DEF Fields

\* Whole: the events but for a torn one.
LEMMA WholeIs ==
    ASSUME UsageInv
    PROVE  /\ WholeLen \in Nat /\ WholeLen <= Len(buf)
           /\ S!Whole \in Seq(S!Events) /\ Len(S!Whole) = WholeLen /\ \A i \in 1..WholeLen : S!Whole[i] = buf[i]
<1>0. buf \in Seq(S!Events) /\ Len(buf) \in Nat /\ (torn # "no" => Len(buf) > 0)
  BY DEF UsageInv, S!TypeOK
<1>1. CASE torn # "no"
  <2> DEFINE k == Len(buf) - 1
  <2>1. WholeLen = k /\ S!Whole = SubSeq(buf, 1, k)
    BY <1>1 DEF WholeLen, S!Whole, S!Front
  <2>2. k \in Nat /\ k <= Len(buf)
    BY <1>0, <1>1
  <2> HIDE DEF k
  <2>3. SubSeq(buf, 1, k) \in Seq(S!Events) /\ Len(SubSeq(buf, 1, k)) = k /\ \A i \in 1..k : SubSeq(buf, 1, k)[i] = buf[i]
    BY <1>0, <2>2
  <2> QED
    BY <2>1, <2>2, <2>3
<1>2. CASE torn = "no"
  BY <1>0, <1>2 DEF WholeLen, S!Whole
<1> QED
  BY <1>1, <1>2

\* Scanned: the whole events up to the first long line.
LEMMA ScannedIsWhole ==
    ASSUME UsageInv
    PROVE  \E k \in 0..WholeLen : /\ S!Scanned \in Seq(S!Events) /\ Len(S!Scanned) = k
                                  /\ \A i \in 1..k : S!Scanned[i] = buf[i]
                                  /\ k = WholeLen \/ \E i \in DOMAIN buf : buf[i].long
<1> DEFINE whole == S!Whole
           long  == {i \in DOMAIN whole : whole[i].long}
<1>0. buf \in Seq(S!Events) /\ Len(buf) \in Nat
  BY DEF UsageInv, S!TypeOK
<1>1. /\ WholeLen \in Nat /\ WholeLen <= Len(buf)
      /\ whole \in Seq(S!Events) /\ Len(whole) = WholeLen /\ \A i \in 1..WholeLen : whole[i] = buf[i]
  BY WholeIs
<1>2. S!Scanned = IF long = {} THEN whole ELSE SubSeq(whole, 1, (CHOOSE i \in long : \A j \in long : i <= j) - 1)
  BY DEF S!Scanned
<1> HIDE DEF whole
<1>3. CASE long = {}
  <2>1. S!Scanned = whole
    BY <1>2, <1>3
  <2>2. WholeLen \in 0..WholeLen
    BY <1>1
  <2> QED
    BY <1>1, <2>1, <2>2
<1>4. CASE long # {}
  <2> DEFINE m == CHOOSE i \in long : \A j \in long : i <= j
  <2>1. long \in SUBSET Nat
    BY <1>1
  <2>2. m \in long
    <3> HIDE DEF long
    <3> QED
      BY <1>4, <2>1, Minimum
  <2>3. S!Scanned = SubSeq(whole, 1, m - 1)
    BY <1>2, <1>4
  <2> HIDE DEF m
  <2>4. m \in 1..WholeLen /\ m - 1 \in 0..WholeLen /\ whole[m].long
    BY <1>1, <2>2
  <2>5. /\ S!Scanned \in Seq(S!Events) /\ Len(S!Scanned) = m - 1
        /\ \A i \in 1..(m - 1) : S!Scanned[i] = whole[i]
    BY <1>1, <2>3, <2>4
  <2>6. m \in DOMAIN buf /\ buf[m].long
    BY <1>0, <1>1, <2>4
  <2>7. \A i \in 1..(m - 1) : S!Scanned[i] = buf[i]
    BY <1>1, <2>4, <2>5
  <2> QED
    BY <2>4, <2>5, <2>6, <2>7
<1> QED
  BY <1>3, <1>4

\* Another event keeps the counts: it carries none, or the totals so far.
LEMMA UsageEmit ==
    ASSUME UsageInv, NEW cut \in Cuts, S!Emit(cut), format' = format, usage' = usage,
           relay' \in {"relay", "left", "broke"}, relay' = "relay" => cut = "no", format = "gemini" => relay' # "left"
    PROVE  UsageInv'
<1>a. Len(buf) \in Nat
  BY DEF UsageInv, S!TypeOK
<1>n. PICK n \in Nat : n = Len(buf)
  BY <1>a
<1>0. buf \in Seq(S!Events) /\ total \in S!Counts /\ relay = "relay" /\ torn = "no" /\ n = Len(buf) /\ n \in Nat /\ n < 3
  BY <1>n DEF UsageInv, S!TypeOK, S!Emit
<1>1. PICK t \in S!Counts, has \in {{}, S!Carries}, long \in BOOLEAN :
          /\ \A f \in Fields : t[f] >= total[f] /\ (f \notin has => t[f] = total[f])
          /\ buf' = Append(buf, [tokens |-> t, has |-> has, long |-> long])
          /\ total' = IF cut = "no" THEN t ELSE total
  BY DEF S!Emit, Fields
<1> DEFINE e == [tokens |-> t, has |-> has, long |-> long]
<1>2. torn' = cut
  BY DEF S!Emit
<1>3. e \in S!Events /\ e.tokens = t /\ e.has = has
  BY DEF S!Events, S!Carries
<1> HIDE DEF e
<1>4. /\ buf' \in Seq(S!Events) /\ Len(buf') = n + 1 /\ buf'[n + 1] = e
      /\ \A i \in 1..n : buf'[i] = buf[i]
  <2>1. buf' = Append(buf, e)
    BY <1>1 DEF e
  <2> QED
    BY <1>0, <1>3, <2>1
<1>5. WholeLen = n /\ WholeLen' = IF cut = "no" THEN n + 1 ELSE n
  <2>1. WholeLen = n
    BY <1>0 DEF WholeLen
  <2>2. CASE cut = "no"
    BY <1>0, <1>2, <1>4, <2>1, <2>2 DEF WholeLen
  <2>3. CASE cut # "no"
    <3>1. WholeLen' = Len(buf') - 1
      BY <1>2, <2>3 DEF WholeLen
    <3> QED
      BY <1>0, <1>4, <2>1, <2>3, <3>1
  <2> QED
    BY <2>2, <2>3
<1>6. S!TypeOK'
  <2>1. torn' \in {"no", "short", "within"}
    BY <1>2 DEF Cuts
  <2>2. total' \in S!Counts
    BY <1>0, <1>1
  <2>3. relay' \in {"relay", "ended", "left", "broke", "logged", "failed"}
    OBVIOUS
  <2>4. Len(buf') <= 3
    BY <1>0, <1>4
  <2> QED
    BY <1>4, <2>1, <2>2, <2>3, <2>4 DEF UsageInv, S!TypeOK
<1>7. CountsUp'
  <2> SUFFICES ASSUME NEW f \in Fields
               PROVE  /\ (\A i \in 1..WholeLen' : f \notin S!Taken(buf, i)') => total'[f] = 0 \/ Untaken(f)'
                      /\ \A i \in 1..WholeLen' :
                            /\ buf'[i].tokens[f] <= total'[f]
                            /\ f \in S!Taken(buf, i)' /\ (\A j \in i + 1..WholeLen' : f \notin S!Taken(buf, j)')
                                  => buf'[i].tokens[f] = total'[f]
    BY DEF CountsUp
  <2>0. /\ \A i \in 1..n : S!Taken(buf, i)' = S!Taken(buf, i)
        /\ f \in S!Taken(buf, n + 1)' <=> f \in has /\ ~(n = 0 /\ Untaken(f))
        /\ Untaken(f)' = Untaken(f)
    <3>1. ASSUME NEW i \in 1..n PROVE S!Taken(buf, i)' = S!Taken(buf, i)
      BY <1>4, <3>1 DEF S!Taken
    <3>2. buf'[n + 1].has = has
      BY <1>3, <1>4
    <3>3. CASE n = 0
      <4>1. n + 1 = 1
        BY <3>3
      <4>2. S!Taken(buf, n + 1)' = IF format = "anthropic" THEN has \ {"out"} ELSE has
        BY <1>0, <3>2, <4>1 DEF S!Taken
      <4> QED
        BY <3>1, <3>3, <4>2 DEF Untaken
    <3>4. CASE n # 0
      <4>1. n + 1 # 1
        BY <1>0, <3>4
      <4>2. S!Taken(buf, n + 1)' = has
        BY <1>0, <3>2, <4>1 DEF S!Taken
      <4> QED
        BY <3>1, <3>4, <4>2 DEF Untaken
    <3> QED
      BY <3>3, <3>4
  <2>1. /\ (\A i \in 1..n : f \notin S!Taken(buf, i)) => total[f] = 0 \/ Untaken(f)
        /\ \A i \in 1..n :
              /\ buf[i].tokens[f] <= total[f]
              /\ f \in S!Taken(buf, i) /\ (\A j \in i + 1..n : f \notin S!Taken(buf, j)) => buf[i].tokens[f] = total[f]
    BY <1>5 DEF UsageInv, CountsUp
  <2>2. CASE cut # "no"
    <3>1. WholeLen' = n /\ total' = total
      BY <1>1, <1>5, <2>2
    <3>2. \A i \in 1..n : \A j \in i + 1..n : S!Taken(buf, j)' = S!Taken(buf, j)
      BY <1>0, <2>0
    <3> QED
      BY <1>0, <1>4, <2>0, <2>1, <3>1, <3>2
  <2>3. CASE cut = "no"
    <3>1. WholeLen' = n + 1 /\ total' = t
      BY <1>1, <1>5, <2>3
    <3>2. t[f] \in 0..2 /\ total[f] \in 0..2 /\ t[f] >= total[f] /\ (f \notin has => t[f] = total[f])
      BY <1>0, <1>1, CountFields DEF Fields
    <3>3. ASSUME \A i \in 1..n + 1 : f \notin S!Taken(buf, i)' PROVE t[f] = 0 \/ Untaken(f)
      <4>1. f \notin has \/ Untaken(f)
        <5>1. n + 1 \in 1..n + 1
          BY <1>0
        <5> QED
          BY <2>0, <3>3, <5>1
      <4>2. \A i \in 1..n : f \notin S!Taken(buf, i)
        BY <1>0, <2>0, <3>3
      <4> QED
        BY <2>1, <3>2, <4>1, <4>2
    <3>4. ASSUME NEW i \in 1..n + 1
          PROVE  /\ buf'[i].tokens[f] <= t[f]
                 /\ f \in S!Taken(buf, i)' /\ (\A j \in i + 1..n + 1 : f \notin S!Taken(buf, j)') => buf'[i].tokens[f] = t[f]
      <4>1. CASE i = n + 1
        BY <1>3, <1>4, <3>2, <4>1
      <4>2. CASE i # n + 1
        <5>1. i \in 1..n /\ i \in DOMAIN buf /\ buf'[i] = buf[i] /\ buf[i].tokens[f] <= total[f]
          BY <1>0, <1>4, <2>1, <4>2
        <5>2. buf[i] \in S!Events
          BY <1>0, <5>1
        <5>3. buf[i].tokens \in S!Counts
          BY <5>2 DEF S!Events
        <5>4. buf[i].tokens[f] \in 0..2
          BY <5>3, CountFields DEF Fields
        <5>5. ASSUME f \in S!Taken(buf, i)', \A j \in i + 1..n + 1 : f \notin S!Taken(buf, j)'
              PROVE  buf[i].tokens[f] = t[f]
          <6>1. n + 1 \in i + 1..n + 1
            BY <1>0, <5>1
          <6>2. f \notin S!Taken(buf, n + 1)' /\ n # 0
            BY <1>0, <5>1, <5>5, <6>1
          <6>3. \A j \in i + 1..n : f \notin S!Taken(buf, j)
            <7> TAKE j \in i + 1..n
            <7>1. j \in i + 1..n + 1 /\ j \in 1..n
              BY <1>0, <5>1
            <7> QED
              BY <2>0, <5>5, <7>1
          <6> QED
            BY <2>0, <2>1, <3>2, <4>2, <5>1, <5>5, <6>2, <6>3
        <5> QED
          BY <3>2, <5>1, <5>4, <5>5
      <4> QED
        BY <4>1, <4>2
    <3> QED
      BY <2>0, <3>1, <3>3, <3>4
  <2> QED
    BY <2>2, <2>3
<1>8. relay' \in {"relay", "ended"} => torn' = "no"
  BY <1>2
<1>9. torn' # "no" => Len(buf') > 0
  BY <1>0, <1>4
<1> QED
  BY <1>6, <1>7, <1>8, <1>9 DEF UsageInv, S!UsageLostOnlyByCut

\* The last event of an array counts up to the total, if it carries the counts.
LEMMA LastElement ==
    ASSUME UsageInv, format = "gemini", WholeLen = Len(buf), buf # <<>>,
           NEW e \in S!Events, e = buf[Len(buf)]
    PROVE  /\ S!Count(<<e>>) \in S!Counts /\ S!Count(<<e>>).in <= total.in /\ S!Count(<<e>>).out <= total.out
           /\ e.has = {"in", "out"} => S!Count(<<e>>) = total
<1>0. buf \in Seq(S!Events) /\ total \in S!Counts /\ Len(buf) \in Nat \ {0} /\ Len(buf) \in 1..WholeLen
  <2>1. buf \in Seq(S!Events) /\ total \in S!Counts
    BY DEF UsageInv, S!TypeOK
  <2>2. Len(buf) \in Nat \ {0}
    BY <2>1
  <2> QED
    BY <2>1, <2>2
<1>1. ASSUME NEW f \in Fields
      PROVE  /\ S!LastCount(<<e>>, f) \in 0..2 /\ S!LastCount(<<e>>, f) <= total[f]
             /\ f \in e.has => S!LastCount(<<e>>, f) = total[f]
  <2>1. total[f] \in 0..2 /\ e.tokens[f] \in 0..2 /\ e.tokens[f] <= total[f]
    <3>1. e.tokens \in S!Counts
      BY DEF S!Events
    <3> QED
      BY <1>0, <3>1, CountFields DEF Fields, UsageInv, CountsUp
  <2>2. S!Taken(<<e>>, 1) = e.has /\ S!Taken(buf, Len(buf)) = e.has
    BY DEF S!Taken
  <2>3. f \in e.has => e.tokens[f] = total[f]
    <3>1. \A j \in Len(buf) + 1..WholeLen : f \notin S!Taken(buf, j)
      BY <1>0
    <3> QED
      BY <1>0, <2>2, <3>1 DEF UsageInv, CountsUp
  <2>4. <<e>> \in Seq(S!Events) /\ Len(<<e>>) = 1 /\ <<e>>[1] = e
    OBVIOUS
  <2>5. \/ f \notin e.has /\ S!LastCount(<<e>>, f) = 0
        \/ f \in e.has /\ S!LastCount(<<e>>, f) = e.tokens[f]
    <3>1. CASE (\A i \in 1..1 : f \notin S!Taken(<<e>>, i)) /\ S!LastCount(<<e>>, f) = 0
      BY <2>2, <3>1
    <3>2. ASSUME NEW i \in 1..1, f \in S!Taken(<<e>>, i), S!LastCount(<<e>>, f) = <<e>>[i].tokens[f]
          PROVE  f \in e.has /\ S!LastCount(<<e>>, f) = e.tokens[f]
      <4>1. i = 1
        OBVIOUS
      <4> QED
        BY <2>2, <2>4, <3>2, <4>1
    <3> HIDE DEF Fields
    <3> QED
      BY <2>4, <3>1, <3>2, LastCountIs
  <2> QED
    BY <2>1, <2>3, <2>5
<1>2. S!Count(<<e>>) \in S!Counts /\ S!Count(<<e>>).in = S!LastCount(<<e>>, "in") /\ S!Count(<<e>>).out = S!LastCount(<<e>>, "out")
  BY <1>1 DEF S!Count, S!Counts, Fields
<1>3. total.in = total["in"] /\ total.out = total["out"]
  BY <1>0, CountFields
<1>4. e.has = {"in", "out"} => S!Count(<<e>>) = total
  BY <1>0, <1>1, <1>2, <1>3, CountFields DEF Fields
<1> QED
  BY <1>1, <1>2, <1>3, <1>4 DEF Fields

\* LogRequest charges what it can find in the buffer.
LEMMA UsageLog == UsageInv /\ S!LogRequest => UsageInv'
<1> SUFFICES ASSUME UsageInv, S!LogRequest PROVE UsageInv'
  OBVIOUS
<1> DEFINE Uncounted == /\ format = "anthropic" /\ usage'.in = total.in
                        /\ \A i \in 2..Len(S!Whole) : "out" \notin S!Whole[i].has
           Excused == \/ usage' = total
                      \/ \E i \in DOMAIN buf : buf[i].long
                      \/ Uncounted
                      \/ format = "bedrock" /\ torn = "within"
                      \/ format = "gemini" /\ buf # <<>> /\ S!Last(buf).has # {"in", "out"}
                      \/ format = "gemini-sse"
<1>0. /\ buf \in Seq(S!Events) /\ total \in S!Counts /\ Len(buf) \in Nat /\ format \in S!Formats
      /\ relay \in {"ended", "left", "broke"} /\ ~(format = "gemini" /\ relay = "broke")
      /\ relay' = "logged" /\ usage' = S!ParseResponse /\ UNCHANGED <<format, buf, total, torn>>
  BY DEF UsageInv, S!TypeOK, S!LogRequest
<1>1. total.in \in 0..2 /\ total.out \in 0..2 /\ S!Zero \in S!Counts /\ S!Zero.in <= total.in /\ S!Zero.out <= total.out
  BY <1>0, CountFields
<1>2. ASSUME format = "anthropic", \A i \in 1..WholeLen : "out" \notin S!Taken(buf, i)
      PROVE  \A i \in 2..Len(S!Whole) : "out" \notin S!Whole[i].has
  BY <1>2, WholeIs DEF S!Taken
<1>3. usage' \in S!Counts /\ usage'.in <= total.in /\ usage'.out <= total.out /\ Excused
  <2>1. CASE format \in {"openai", "anthropic"}
    <3>1. usage' = S!Count(S!Scanned)
      BY <1>0, <2>1 DEF S!ParseResponse
    <3>2. PICK k \in 0..WholeLen : /\ S!Scanned \in Seq(S!Events) /\ Len(S!Scanned) = k
                                   /\ \A i \in 1..k : S!Scanned[i] = buf[i]
                                   /\ k = WholeLen \/ \E i \in DOMAIN buf : buf[i].long
      BY ScannedIsWhole
    <3>3. /\ S!Count(S!Scanned) \in S!Counts /\ S!Count(S!Scanned).in <= total.in /\ S!Count(S!Scanned).out <= total.out
          /\ k = WholeLen => \/ S!Count(S!Scanned) = total
                             \/ /\ format = "anthropic" /\ S!Count(S!Scanned).in = total.in
                                /\ \A i \in 1..WholeLen : "out" \notin S!Taken(buf, i)
      BY <3>2, CountOfWhole
    <3> QED
      BY <1>2, <3>1, <3>2, <3>3
  <2>2. CASE format = "bedrock"
    <3>1. usage' = IF torn = "within" THEN S!Zero ELSE S!Count(S!Whole)
      BY <1>0, <2>2 DEF S!ParseResponse, S!BedrockParser
    <3>2. S!Count(S!Whole) \in S!Counts /\ S!Count(S!Whole) = total
      <4>1. WholeLen \in 0..WholeLen
        BY WholeIs
      <4> QED
        BY <2>2, <4>1, WholeIs, CountOfWhole
    <3> QED
      BY <1>1, <2>2, <3>1, <3>2
  <2>3. CASE format = "gemini"
    <3>1. usage' = IF buf # <<>> THEN S!Count(<<S!Last(buf)>>) ELSE S!Zero
      BY <1>0, <2>3 DEF S!ParseResponse, S!GeminiParser
    <3>2. WholeLen = Len(buf)
      BY <1>0, <2>3 DEF UsageInv, WholeLen
    <3>3. CASE buf = <<>>
      <4>1. total["in"] = 0 /\ total["out"] = 0
        BY <2>3, <3>2, <3>3 DEF UsageInv, CountsUp, Fields, Untaken
      <4> QED
        BY <1>0, <1>1, <3>1, <3>3, <4>1, CountFields
    <3>4. CASE buf # <<>>
      <4> DEFINE e == S!Last(buf)
      <4>1. usage' = S!Count(<<e>>)
        BY <3>1, <3>4
      <4>2. e = buf[Len(buf)] /\ Len(buf) \in 1..Len(buf) /\ e \in S!Events
        BY <1>0, <3>4 DEF S!Last
      <4>3. Excused /\ usage' \in S!Counts /\ usage'.in <= total.in /\ usage'.out <= total.out
        BY <1>0, <2>3, <3>2, <3>4, <4>1, <4>2, LastElement
      <4> QED
        BY <4>3
    <3> QED
      BY <3>3, <3>4
  <2>4. CASE format = "gemini-sse"
    <3>1. usage' = S!Zero
      BY <1>0, <2>4 DEF S!ParseResponse, S!GeminiParser
    <3> QED
      BY <1>1, <2>4, <3>1
  <2> QED
    BY <1>0, <2>1, <2>2, <2>3, <2>4 DEF S!Formats
<1>4. S!TypeOK'
  BY <1>0, <1>3 DEF UsageInv, S!TypeOK
<1>5. CountsUp'
  <2>1. WholeLen' = WholeLen
    BY <1>0 DEF WholeLen
  <2> QED
    BY <1>0, <2>1 DEF UsageInv, CountsUp, S!Taken, Untaken
<1>6. S!UsageLostOnlyByCut'
  <2>1. S!Whole' = S!Whole
    BY <1>0 DEF S!Whole
  <2> QED
    BY <1>0, <1>3, <2>1 DEF S!UsageLostOnlyByCut
<1> QED
  BY <1>0, <1>4, <1>5, <1>6 DEF UsageInv

LEMMA UsageStep == UsageInv /\ [S!Next]_(S!vars) => UsageInv'
<1> SUFFICES ASSUME UsageInv, [S!Next]_(S!vars) PROVE UsageInv'
  OBVIOUS
<1>1. ASSUME UNCHANGED <<format, buf, total, torn, usage>>,
             \/ relay = "relay" /\ relay' \in {"ended", "left", "broke"} /\ (format = "gemini" => relay' # "left")
             \/ relay' = "failed" \/ relay' = relay
      PROVE  UsageInv'
  <2>1. WholeLen' = WholeLen
    BY <1>1 DEF WholeLen
  <2>2. CountsUp'
    BY <1>1, <2>1 DEF UsageInv, CountsUp, S!Taken, Untaken
  <2>3. S!TypeOK'
    BY <1>1 DEF UsageInv, S!TypeOK
  <2>4. S!UsageLostOnlyByCut'
    <3>1. S!Whole' = S!Whole
      BY <1>1 DEF S!Whole
    <3> QED
      BY <1>1, <3>1 DEF UsageInv, S!UsageLostOnlyByCut
  <2> QED
    BY <1>1, <2>2, <2>3, <2>4 DEF UsageInv
<1>2. ASSUME S!Relayed PROVE UsageInv'
  <2>1. S!Emit("no") /\ format' = format /\ usage' = usage /\ relay' = relay /\ relay = "relay" /\ "no" \in Cuts
    BY <1>2 DEF S!Relayed, S!Emit, Cuts
  <2> QED
    BY <2>1, UsageEmit
<1>3. ASSUME NEW how \in {"left", "broke"}, S!Over(how), format = "gemini" => how # "left" PROVE UsageInv'
  <2>1. format' = format /\ usage' = usage /\ relay' = how
    BY <1>3 DEF S!Over
  <2>2. CASE \E cut \in {"short", "within"} : S!Emit(cut)
    <3>1. PICK cut \in Cuts : S!Emit(cut)
      BY <2>2 DEF Cuts
    <3> QED
      BY <1>3, <2>1, <3>1, UsageEmit
  <2>3. CASE ~\E cut \in {"short", "within"} : S!Emit(cut)
    BY <1>1, <1>3, <2>3, Zenon DEF S!Over
  <2> QED
    BY <2>2, <2>3, Zenon
<1>4. ASSUME S!Ended \/ S!Fail \/ UNCHANGED S!vars PROVE UsageInv'
  BY <1>1, <1>4 DEF S!Ended, S!Fail, S!vars
<1> QED
  BY <1>2, <1>3, <1>4, UsageLog DEF S!Next, S!ClientLeaves, S!UpstreamBreaks
-----------------------------------------------------------------------------
\* The sums of the first k weights, k = 0..m.
Sums(w, m, s) == s \in [0..m -> Nat] /\ s[0] = 0 /\ \A k \in 1..m : s[k] = s[k - 1] + w[k]

\* There are such sums: else there were a least m without, and its predecessor's extend.
LEMMA SumsExist ==
    ASSUME NEW w \in Seq(Nat)
    PROVE  \E s : Sums(w, Len(w), s)
<1> DEFINE n == Len(w)
           Bad == {m \in 0..n : ~\E s : Sums(w, m, s)}
<1>0. n \in Nat
  OBVIOUS
<1>1. SUFFICES ASSUME Bad # {} PROVE FALSE
  <2>1. Bad = {} => \E s : Sums(w, n, s)
    BY <1>0
  <2> QED
    BY <2>1
<1>2. PICK m \in Bad : \A t \in Bad : m <= t
  <2>1. Bad \in SUBSET Nat
    BY <1>0
  <2> HIDE DEF Bad
  <2> QED
    BY <1>1, <2>1, Minimum
<1>3. m \in 0..n /\ ~\E s : Sums(w, m, s)
  OBVIOUS
<1>4. m # 0
  <2> DEFINE s == [k \in 0..0 |-> 0]
  <2>1. Sums(w, 0, s)
    BY DEF Sums
  <2> HIDE DEF s
  <2> QED
    BY <1>3, <2>1
<1>5. m - 1 \in 0..n /\ m - 1 \notin Bad
  BY <1>0, <1>2, <1>3, <1>4
<1>6. PICK s : Sums(w, m - 1, s)
  BY <1>5
<1> DEFINE next == s[m - 1] + w[m]
           g == [k \in 0..m |-> IF k = m THEN next ELSE s[k]]
<1>7. m \in Nat /\ m > 0 /\ m \in DOMAIN w
  BY <1>0, <1>3, <1>4
<1>8. next \in Nat /\ s \in [0..m - 1 -> Nat]
  <2>1. s[m - 1] \in Nat /\ s \in [0..m - 1 -> Nat]
    BY <1>6, <1>7 DEF Sums
  <2>2. w[m] \in Nat
    BY <1>7
  <2> QED
    BY <2>1, <2>2
<1>9. next = s[m - 1] + w[m]
  OBVIOUS
<1> HIDE DEF next
<1>10. g \in [0..m -> Nat] /\ g[m] = next /\ \A k \in 0..m - 1 : g[k] = s[k]
  <2>1. \A k \in 0..m : k # m => k \in 0..m - 1
    BY <1>7
  <2>2. m \in 0..m /\ \A k \in 0..m - 1 : k \in 0..m /\ k # m
    BY <1>7
  <2> QED
    BY <1>8, <2>1, <2>2
<1> HIDE DEF g
<1>11. Sums(w, m, g)
  <2>1. g[0] = 0
    BY <1>6, <1>7, <1>10 DEF Sums
  <2>2. ASSUME NEW k \in 1..m PROVE g[k] = g[k - 1] + w[k]
    <3>1. CASE k = m
      <4>1. g[k - 1] = s[m - 1]
        BY <1>7, <1>10, <3>1
      <4> QED
        BY <1>9, <1>10, <3>1, <4>1
    <3>2. CASE k # m
      <4>1. k \in 1..m - 1 /\ k \in 0..m - 1 /\ k - 1 \in 0..m - 1
        BY <1>7, <3>2
      <4>2. s[k] = s[k - 1] + w[k]
        BY <1>6, <4>1 DEF Sums
      <4> QED
        BY <1>10, <4>1, <4>2
    <3> QED
      BY <3>1, <3>2
  <2> QED
    BY <1>10, <2>1, <2>2 DEF Sums
<1> QED
  BY <1>3, <1>11

\* SumTo is what its recursion says.
LEMMA SumToIs ==
    ASSUME NEW w \in Seq(Nat)
    PROVE  /\ E!SumTo(w, 0) = 0
           /\ \A i \in 0..Len(w) : E!SumTo(w, i) \in Nat
           /\ \A i \in 1..Len(w) : E!SumTo(w, i) = E!SumTo(w, i - 1) + w[i]
<1> DEFINE n == Len(w)
           Rec(s) == s = [k \in 0..n |-> IF k = 0 THEN 0 ELSE s[k - 1] + w[k]]
           sum == CHOOSE s : Rec(s)
<1>0. n \in Nat
  OBVIOUS
<1>1. \E s : Rec(s)
  <2>1. PICK s : Sums(w, n, s)
    BY SumsExist
  <2>2. s = [k \in 0..n |-> s[k]]
    BY <2>1 DEF Sums
  <2>3. ASSUME NEW k \in 0..n PROVE s[k] = IF k = 0 THEN 0 ELSE s[k - 1] + w[k]
    <3>1. k = 0 \/ k \in 1..n
      BY <1>0
    <3> QED
      BY <2>1, <3>1 DEF Sums
  <2>4. Rec(s)
    BY <2>2, <2>3
  <2> QED
    BY <2>4
<1>2. Rec(sum)
  <2> HIDE DEF Rec
  <2> QED
    BY <1>1
<1>3. \A i : E!SumTo(w, i) = sum[i]
  BY DEF E!SumTo
<1> HIDE DEF sum
<1>4. sum[0] = 0 /\ \A k \in 1..n : sum[k] = sum[k - 1] + w[k]
  <2>1. \A k \in 0..n : sum[k] = IF k = 0 THEN 0 ELSE sum[k - 1] + w[k]
    BY <1>2
  <2>2. 0 \in 0..n /\ \A k \in 1..n : k \in 0..n /\ k # 0
    BY <1>0
  <2> QED
    BY <2>1, <2>2
<1>5. \A i \in 0..n : sum[i] \in Nat
  <2> DEFINE Bad == {i \in 0..n : sum[i] \notin Nat}
  <2> SUFFICES ASSUME Bad # {} PROVE FALSE
    OBVIOUS
  <2>1. PICK m \in Bad : \A t \in Bad : m <= t
    <3>1. Bad \in SUBSET Nat
      BY <1>0
    <3> HIDE DEF Bad
    <3> QED
      BY <3>1, Minimum
  <2>2. m \in 1..n /\ m - 1 \in 0..n /\ m \in DOMAIN w
    BY <1>0, <1>4
  <2>3. m - 1 \notin Bad
    BY <1>0, <2>1, <2>2
  <2>4. sum[m - 1] \in Nat /\ w[m] \in Nat
    BY <2>2, <2>3
  <2>5. sum[m] \in Nat
    BY <1>4, <2>2, <2>4
  <2> QED
    BY <2>5
<1> QED
  BY <1>3, <1>4, <1>5

\* The sums grow with the number of weights.
LEMMA SumsGrow ==
    ASSUME NEW w \in Seq(Nat), NEW i \in 0..Len(w), NEW j \in i..Len(w)
    PROVE  E!SumTo(w, i) <= E!SumTo(w, j)
<1> DEFINE n == Len(w)
           Bad == {k \in i..n : ~(E!SumTo(w, i) <= E!SumTo(w, k))}
<1>0. n \in Nat /\ i \in Nat
  OBVIOUS
<1> SUFFICES ASSUME Bad # {} PROVE FALSE
  OBVIOUS
<1>1. PICK m \in Bad : \A t \in Bad : m <= t
  <2>1. Bad \in SUBSET Nat
    BY <1>0
  <2> HIDE DEF Bad
  <2> QED
    BY <2>1, Minimum
<1>2. E!SumTo(w, i) \in Nat
  BY SumToIs
<1>3. m # i
  BY <1>2
<1>4. m \in 1..n /\ m - 1 \in i..n /\ m - 1 \in 0..n /\ m \in DOMAIN w
  BY <1>0, <1>3
<1>5. m - 1 \notin Bad
  BY <1>0, <1>1, <1>4
<1>6. E!SumTo(w, i) <= E!SumTo(w, m - 1)
  BY <1>4, <1>5
<1>7. E!SumTo(w, m) = E!SumTo(w, m - 1) + w[m] /\ w[m] \in Nat /\ E!SumTo(w, m - 1) \in Nat
  BY <1>4, SumToIs
<1>8. E!SumTo(w, i) <= E!SumTo(w, m)
  BY <1>2, <1>6, <1>7
<1> QED
  BY <1>8

\* selectArm: the arm drawn for a number is the one whose share the number falls in.
LEMMA SelectedArm ==
    ASSUME NEW w \in Seq(Nat), NEW n \in 0..E!SumTo(w, Len(w)) - 1
    PROVE  /\ E!SelectArm(w, n) \in E!ToChoose(w)
           /\ E!SumTo(w, E!SelectArm(w, n) - 1) <= n /\ n < E!SumTo(w, E!SelectArm(w, n))
<1> DEFINE T == {i \in DOMAIN w : E!SumTo(w, i) > n}
           Drawn(i) == i \in DOMAIN w /\ E!Reaches(w, i, n) /\ \A j \in 1..i - 1 : ~E!Reaches(w, j, n)
           a == E!SelectArm(w, n)
<1>0. Len(w) \in Nat /\ DOMAIN w = 1..Len(w) /\ n \in Nat /\ E!SumTo(w, Len(w)) \in Nat
  <2>1. Len(w) \in 0..Len(w)
    OBVIOUS
  <2> QED
    BY <2>1, SumToIs
<1>1. Len(w) \in T
  <2>1. E!SumTo(w, Len(w)) > n
    BY <1>0
  <2>2. Len(w) # 0
    BY <2>1, <1>0, SumToIs
  <2> QED
    BY <1>0, <2>1, <2>2
<1>2. PICK m \in T : \A t \in T : m <= t
  <2>1. T \in SUBSET Nat /\ T # {}
    BY <1>0, <1>1
  <2> HIDE DEF T
  <2> QED
    BY <2>1, Minimum
<1>3. Drawn(m)
  <2>1. ASSUME NEW j \in 1..m - 1 PROVE ~E!Reaches(w, j, n)
    <3>1. j \in DOMAIN w /\ ~(m <= j)
      BY <1>0
    <3>2. j \notin T
      BY <1>2, <3>1
    <3> QED
      BY <3>1, <3>2 DEF E!Reaches
  <2> QED
    BY <2>1 DEF E!Reaches
<1>4. a = CHOOSE i \in DOMAIN w : E!Reaches(w, i, n) /\ \A j \in 1..i - 1 : ~E!Reaches(w, j, n)
  BY DEF E!SelectArm
<1>5. Drawn(a)
  <2> HIDE DEF a
  <2> QED
    BY <1>3, <1>4
<1> HIDE DEF a
<1>6. a \in 1..Len(w) /\ a - 1 \in 0..Len(w) /\ a \in 0..Len(w)
  BY <1>0, <1>5
<1>7. E!SumTo(w, a) \in Nat /\ E!SumTo(w, a - 1) \in Nat /\ E!SumTo(w, a) = E!SumTo(w, a - 1) + w[a] /\ w[a] \in Nat
  <2>1. w[a] \in Nat
    BY <1>6
  <2>2. E!SumTo(w, a) \in Nat /\ E!SumTo(w, a - 1) \in Nat
    BY <1>6, SumToIs
  <2>3. E!SumTo(w, a) = E!SumTo(w, a - 1) + w[a]
    BY <1>6, SumToIs
  <2> QED
    BY <2>1, <2>2, <2>3
<1>8. n < E!SumTo(w, a)
  BY <1>0, <1>5, <1>7 DEF E!Reaches
<1>9. E!SumTo(w, a - 1) <= n
  <2>1. CASE a = 1
    <3>1. a - 1 = 0
      BY <2>1
    <3> QED
      BY <1>0, <3>1, SumToIs
  <2>2. CASE a # 1
    <3>1. a - 1 \in 1..a - 1
      BY <1>6, <2>2
    <3>2. ~E!Reaches(w, a - 1, n)
      BY <1>5, <3>1
    <3> QED
      BY <1>0, <1>7, <3>2 DEF E!Reaches
  <2> QED
    BY <2>1, <2>2
<1>10. w[a] > 0
  BY <1>0, <1>7, <1>8, <1>9
<1> QED
  BY <1>5, <1>8, <1>9, <1>10 DEF a, E!ToChoose

\* selectArm: of the numbers it may draw, each arm gets as many as its weight says,
\* whatever the weights are.
THEOREM TrafficFollowsWeights ==
    ASSUME NEW w \in Seq(Nat), NEW i \in 1..Len(w)
    PROVE  {n \in 0..E!SumTo(w, Len(w)) - 1 : E!SelectArm(w, n) = i} = E!SumTo(w, i - 1)..E!SumTo(w, i) - 1
<1>0. /\ Len(w) \in Nat /\ i - 1 \in 0..Len(w) /\ i \in 0..Len(w) /\ Len(w) \in 0..Len(w) /\ Len(w) \in i..Len(w)
      /\ i \in i - 1..Len(w) /\ 0 \in 0..Len(w) /\ i - 1 \in 0..Len(w)
  OBVIOUS
<1>1. /\ E!SumTo(w, i) \in Nat /\ E!SumTo(w, i - 1) \in Nat /\ E!SumTo(w, Len(w)) \in Nat
      /\ E!SumTo(w, i) <= E!SumTo(w, Len(w))
  BY <1>0, SumToIs, SumsGrow
<1>2. ASSUME NEW n \in 0..E!SumTo(w, Len(w)) - 1, E!SelectArm(w, n) = i
      PROVE  n \in E!SumTo(w, i - 1)..E!SumTo(w, i) - 1
  <2>1. E!SumTo(w, i - 1) <= n /\ n < E!SumTo(w, i)
    BY <1>2, SelectedArm
  <2> QED
    BY <1>1, <2>1
<1>3. ASSUME NEW n \in E!SumTo(w, i - 1)..E!SumTo(w, i) - 1
      PROVE  n \in 0..E!SumTo(w, Len(w)) - 1 /\ E!SelectArm(w, n) = i
  <2>1. n \in 0..E!SumTo(w, Len(w)) - 1
    BY <1>1
  <2> DEFINE a == E!SelectArm(w, n)
  <2>2. a \in E!ToChoose(w) /\ E!SumTo(w, a - 1) <= n /\ n < E!SumTo(w, a)
    BY <2>1, SelectedArm
  <2>3. a \in 1..Len(w)
    BY <2>2 DEF E!ToChoose
  <2> HIDE DEF a
  <2>4. E!SumTo(w, a) \in Nat /\ E!SumTo(w, a - 1) \in Nat
    <3>1. a \in 0..Len(w) /\ a - 1 \in 0..Len(w)
      BY <2>3
    <3> QED
      BY <3>1, SumToIs
  <2>5. ~(a < i)
    <3> SUFFICES ASSUME a < i PROVE FALSE
      OBVIOUS
    <3>1. a \in 0..Len(w) /\ i - 1 \in a..Len(w)
      BY <2>3
    <3>2. E!SumTo(w, a) <= E!SumTo(w, i - 1)
      BY <3>1, SumsGrow
    <3> QED
      BY <1>1, <2>2, <2>4, <3>2
  <2>6. ~(a > i)
    <3> SUFFICES ASSUME a > i PROVE FALSE
      OBVIOUS
    <3>1. i \in 0..Len(w) /\ a - 1 \in i..Len(w)
      BY <2>3
    <3>2. E!SumTo(w, i) <= E!SumTo(w, a - 1)
      BY <3>1, SumsGrow
    <3> QED
      BY <1>1, <2>2, <2>4, <3>2
  <2>7. a = i
    BY <2>3, <2>5, <2>6
  <2> QED
    BY <2>1, <2>7 DEF a
<1> QED
  BY <1>2, <1>3
-----------------------------------------------------------------------------
(***************************************************************************)
(* ExperimentRouter.                                                       *)
(***************************************************************************)
Routes == [pc : {"idle", "list", "arms", "store", "routed", "passed"}, spent : 0..MaxLookup, list : E!Listed,
           arm : Nat, failed : BOOLEAN, offFor : E!Ages, goneFor : E!Ages]

RouterTyped ==
    /\ on \in BOOLEAN /\ weights \in {<<1, 1>>, <<2, 1>>, <<0, 1>>}
    /\ onSince \in E!Ages /\ armsSince \in E!Ages
    /\ listed \in [list : E!Listed, left : -1..TTL]
    /\ route \in [Actors -> Routes]

\* What a list shows has ended at most "age" ago, if it has.
NoOlder(list, age) ==
    list.on => /\ on \/ onSince <= age
               /\ \A a \in E!ToChoose(list.weights) \ E!ToChoose(weights) : armsSince <= age

\* What a request has read so far has ended no longer ago than it has been reading, and
\* what it was routed by no longer ago than an entry and a read last, or it was in need.
RouteOK(k) ==
    /\ k.pc = "arms" => on \/ onSince <= k.spent
    /\ k.pc = "store" => NoOlder(k.list, k.spent)
    /\ k.pc = "routed" => k.failed \/ (k.offFor <= TTL + MaxLookup /\ k.goneFor <= TTL + MaxLookup)

RouterInv ==
    /\ RouterTyped
    /\ listed.left > 0 => NoOlder(listed.list, TTL - listed.left + MaxLookup)
    /\ \A r \in Actors : RouteOK(route[r])

LEMMA RouterIdle ==
    E!ExperimentRouterAssumption => /\ E!Idle \in Routes /\ E!Idle.pc = "idle" /\ E!Nothing \in E!Listed
                                    /\ E!NoCache \in [list : E!Listed, left : -1..TTL] /\ E!NoCache.left = -1
  BY DEF E!ExperimentRouterAssumption, E!Idle, E!Nothing, E!NoCache, E!Listed, Routes, E!Ages, E!Cap

LEMMA RouterImplies == RouterInv => E!TypeOK /\ E!RoutedAsPublished
  BY DEF RouterInv, RouterTyped, RouteOK, Routes, E!TypeOK, E!RoutedAsPublished

LEMMA RouterInit == E!ExperimentRouterAssumption /\ E!Init => RouterInv
<1> SUFFICES ASSUME E!ExperimentRouterAssumption, E!Init PROVE RouterInv
  OBVIOUS
<1>1. E!Cap \in E!Ages
  BY DEF E!ExperimentRouterAssumption, E!Cap, E!Ages
<1>2. RouterTyped
  <2>1. on \in BOOLEAN /\ onSince = E!Cap /\ armsSince = E!Cap /\ listed = E!NoCache /\ route = [r \in Actors |-> E!Idle]
    BY DEF E!Init
  <2>2. weights \in {<<1, 1>>, <<2, 1>>, <<0, 1>>}
    BY DEF E!Init
  <2>3. route \in [Actors -> Routes]
    BY <2>1, RouterIdle
  <2> QED
    BY <1>1, <2>1, <2>2, <2>3, RouterIdle, Zenon DEF RouterTyped
<1>3. \A r \in Actors : RouteOK(route[r])
  BY RouterIdle, Zenon DEF E!Init, RouteOK
<1> QED
  BY <1>2, <1>3, RouterIdle DEF E!Init, RouterInv

\* The outcome of RouteTo for a list that is not too old, or used in need.
LEMMA RouterRoutes ==
    ASSUME E!ExperimentRouterAssumption, RouterInv, NEW r \in Actors, NEW list \in E!Listed, NEW failed \in BOOLEAN,
           E!RouteTo(r, list, failed), failed \/ NoOlder(list, TTL + MaxLookup)
    PROVE  \E new \in Routes : route' = [route EXCEPT ![r] = new] /\ RouteOK(new)
<1> DEFINE sum == E!SumTo(list.weights, Len(list.weights))
<1>0. list.weights \in Seq(Nat) /\ on \in BOOLEAN /\ onSince \in E!Ages /\ armsSince \in E!Ages /\ list.on \in BOOLEAN
  <2>1. list.weights \in {<<1, 1>>, <<2, 1>>, <<0, 1>>} \cup {<<>>} /\ list.on \in BOOLEAN
    BY DEF E!Listed
  <2>2. list.weights \in Seq(Nat)
    <3>1. <<>> \in Seq(Nat) /\ \A w \in {<<1, 1>>, <<2, 1>>, <<0, 1>>} : w \in Seq(Nat)
      BY DEF E!ExperimentRouterAssumption
    <3> DEFINE W == {<<1, 1>>, <<2, 1>>, <<0, 1>>}
               w == list.weights
    <3>2. w \in W \cup {<<>>}
      BY <2>1
    <3> HIDE DEF W, w
    <3>3. w \in Seq(Nat)
      BY <3>1, <3>2 DEF W
    <3> QED
      BY <3>3 DEF w
  <2> QED
    BY <2>1, <2>2 DEF RouterInv, RouterTyped
<1>1. CASE route' = [route EXCEPT ![r] = [E!Idle EXCEPT !.pc = "passed"]]
  <2> DEFINE new == [E!Idle EXCEPT !.pc = "passed"]
  <2>1. new \in Routes /\ new.pc = "passed"
    BY RouterIdle DEF Routes
  <2> HIDE DEF new
  <2>2. RouteOK(new)
    BY <2>1 DEF RouteOK
  <2> QED
    BY <1>1, <2>1, <2>2 DEF new
<1>2. ASSUME list.on, NEW n \in 0..sum - 1, NEW a, a = E!SelectArm(list.weights, n),
             route' = [route EXCEPT ![r] = [E!Idle EXCEPT !.pc = "routed", !.arm = a, !.failed = failed,
                                                   !.offFor = IF on THEN 0 ELSE onSince,
                                                   !.goneFor = IF a \in E!ToChoose(weights) THEN 0 ELSE armsSince]]
      PROVE  \E new \in Routes : route' = [route EXCEPT ![r] = new] /\ RouteOK(new)
  <2> DEFINE off == IF on THEN 0 ELSE onSince
             gone == IF a \in E!ToChoose(weights) THEN 0 ELSE armsSince
             new == [E!Idle EXCEPT !.pc = "routed", !.arm = a, !.failed = failed, !.offFor = off, !.goneFor = gone]
  <2>1. a \in E!ToChoose(list.weights) /\ a \in Nat
    <3>1. a \in E!ToChoose(list.weights)
      BY <1>0, <1>2, SelectedArm
    <3> QED
      BY <1>0, <3>1 DEF E!ToChoose
  <2>2. off \in E!Ages /\ gone \in E!Ages
    BY <1>0 DEF E!Ages, E!Cap, E!ExperimentRouterAssumption
  <2>3. failed \/ (off <= TTL + MaxLookup /\ gone <= TTL + MaxLookup)
    BY <1>0, <1>2, <2>1 DEF NoOlder, E!ExperimentRouterAssumption
  <2>4. route' = [route EXCEPT ![r] = new]
    BY <1>2
  <2> HIDE DEF off, gone
  <2>5. /\ new \in Routes /\ new.pc = "routed" /\ new.failed = failed /\ new.offFor = off /\ new.goneFor = gone
    BY <2>1, <2>2, RouterIdle DEF Routes
  <2> HIDE DEF new
  <2>6. RouteOK(new)
    BY <2>3, <2>5 DEF RouteOK
  <2> QED
    BY <2>4, <2>5, <2>6
<1> QED
  BY <1>0, <1>1, <1>2, Zenon DEF E!RouteTo

\* A step of one request, with the cache as it was or filled with what is not too old.
LEMMA RouterStepOf ==
    ASSUME E!ExperimentRouterAssumption, RouterInv, NEW r \in Actors, NEW new \in Routes, RouteOK(new),
           route' = [route EXCEPT ![r] = new], UNCHANGED <<on, weights, onSince, armsSince>>,
           listed' \in [list : E!Listed, left : -1..TTL],
           listed' = listed \/ NoOlder(listed'.list, TTL - listed'.left + MaxLookup)
    PROVE  RouterInv'
<1>1. RouterTyped'
  BY DEF RouterInv, RouterTyped
<1>2. \A k \in Actors : RouteOK(route[k])'
  BY DEF RouterInv, RouterTyped, RouteOK, NoOlder, E!ToChoose
<1>3. (listed.left > 0 => NoOlder(listed.list, TTL - listed.left + MaxLookup))'
  BY DEF RouterInv, NoOlder, E!ToChoose
<1> QED
  BY <1>1, <1>2, <1>3 DEF RouterInv

LEMMA RouterTick == E!ExperimentRouterAssumption /\ RouterInv /\ E!Tick => RouterInv'
<1> SUFFICES ASSUME E!ExperimentRouterAssumption, RouterInv, E!Tick PROVE RouterInv'
  OBVIOUS
<1>0. TTL \in Nat /\ MaxLookup \in Nat /\ on' = on /\ weights' = weights
  BY DEF E!ExperimentRouterAssumption, E!Tick
<1>1. /\ onSince \in E!Ages /\ onSince' \in E!Ages /\ onSince' <= onSince + 1
      /\ armsSince \in E!Ages /\ armsSince' \in E!Ages /\ armsSince' <= armsSince + 1
  BY <1>0 DEF E!Tick, E!Older, RouterInv, RouterTyped, E!Ages, E!Cap
<1>t. E!ToChoose(weights)' = E!ToChoose(weights)
  BY <1>0 DEF E!ToChoose
<1>2. /\ listed' \in [list : E!Listed, left : -1..TTL] /\ listed \in [list : E!Listed, left : -1..TTL]
      /\ listed'.list = listed.list
      /\ listed'.left > 0 => listed.left > 0 /\ listed'.left = listed.left - 1
  <2>1. listed \in [list : E!Listed, left : -1..TTL]
    BY DEF RouterInv, RouterTyped
  <2> DEFINE left == IF listed.left > 0 THEN listed.left - 1 ELSE listed.left
  <2>2. listed' = [listed EXCEPT !.left = left]
    BY DEF E!Tick
  <2>3. left \in -1..TTL /\ (left > 0 => listed.left > 0 /\ left = listed.left - 1)
    BY <1>0, <2>1
  <2> HIDE DEF left
  <2> QED
    BY <2>1, <2>2, <2>3
<1>3. ASSUME NEW list, NEW age \in Int, NoOlder(list, age)
      PROVE  list.on => /\ on' \/ onSince' <= age + 1
                        /\ \A a \in E!ToChoose(list.weights) \ E!ToChoose(weights)' : armsSince' <= age + 1
  BY <1>0, <1>1, <1>3, <1>t DEF NoOlder, E!Ages
<1>4. ASSUME NEW k \in Actors PROVE route'[k] \in Routes /\ RouteOK(route[k])'
  <2>1. route[k] \in Routes /\ RouteOK(route[k])
    BY DEF RouterInv, RouterTyped
  <2>2. CASE E!Asking(k)
    <3> DEFINE spent == route[k].spent + 1
    <3>1. route[k].spent \in 0..MaxLookup /\ route[k].spent < MaxLookup
      BY <2>1, <2>2 DEF E!Tick, Routes
    <3>2. spent \in 0..MaxLookup /\ spent = route[k].spent + 1 /\ route[k].spent \in Int
      BY <1>0, <3>1
    <3>3. route'[k] = [route[k] EXCEPT !.spent = spent]
      BY <2>2 DEF E!Tick
    <3> HIDE DEF spent
    <3>4. /\ route'[k] \in Routes /\ route'[k].pc = route[k].pc /\ route'[k].list = route[k].list
          /\ route'[k].spent = spent /\ route'[k].pc # "routed"
      BY <2>1, <2>2, <3>2, <3>3 DEF Routes, E!Asking
    <3>5. route[k].pc = "arms" => on' \/ onSince' <= spent
      BY <1>0, <1>1, <2>1, <3>2 DEF RouteOK, E!Ages
    <3>6. route[k].pc = "store" /\ route[k].list.on =>
             /\ on' \/ onSince' <= spent
             /\ \A a \in E!ToChoose(route[k].list.weights) \ E!ToChoose(weights)' : armsSince' <= spent
      BY <1>3, <2>1, <3>2 DEF RouteOK
    <3>8. E!ToChoose(route[k].list.weights)' = E!ToChoose(route'[k].list.weights)
      BY DEF E!ToChoose
    <3>9. RouteOK(route[k])' <=> /\ route'[k].pc = "arms" => on' \/ onSince' <= route'[k].spent
                                 /\ route'[k].pc = "store" /\ route'[k].list.on =>
                                       /\ on' \/ onSince' <= route'[k].spent
                                       /\ \A a \in E!ToChoose(route'[k].list.weights) \ E!ToChoose(weights)' : armsSince' <= route'[k].spent
                                 /\ route'[k].pc = "routed" => route'[k].failed \/ (route'[k].offFor <= TTL + MaxLookup /\ route'[k].goneFor <= TTL + MaxLookup)
      BY <3>8 DEF RouteOK, NoOlder
    <3> QED
      BY <3>4, <3>5, <3>6, <3>9
  <2>3. CASE ~E!Asking(k)
    <3>1. route'[k] = route[k]
      BY <2>3 DEF E!Tick
    <3> QED
      BY <2>1, <2>3, <3>1 DEF RouteOK, E!Asking
  <2> QED
    BY <2>2, <2>3
<1>5. RouterTyped'
  <2>1. route' = [k \in Actors |-> route'[k]]
    BY DEF E!Tick
  <2>2. route' \in [Actors -> Routes]
    BY <1>4, <2>1
  <2> QED
    BY <1>0, <1>1, <1>2, <2>2, Zenon DEF RouterInv, RouterTyped
<1>6. ASSUME listed'.left > 0 PROVE NoOlder(listed.list, TTL - listed.left + MaxLookup)'
  <2>1. NoOlder(listed.list, TTL - listed.left + MaxLookup) /\ listed.left \in Int
    BY <1>2, <1>6 DEF RouterInv
  <2> DEFINE age == TTL - listed.left + MaxLookup
  <2>2. age \in Int /\ TTL - listed'.left + MaxLookup = age + 1
    BY <1>0, <1>2, <1>6, <2>1
  <2>3. NoOlder(listed.list, age)
    BY <2>1
  <2> HIDE DEF age
  <2>4. listed.list.on => /\ on' \/ onSince' <= age + 1
                          /\ \A a \in E!ToChoose(listed.list.weights) \ E!ToChoose(weights)' : armsSince' <= age + 1
    BY <1>3, <2>2, <2>3
  <2> QED
    BY <1>2, <2>2, <2>4 DEF NoOlder, E!ToChoose
<1> QED
  BY <1>4, <1>5, <1>6 DEF RouterInv

\* A change of the tables starts the ages of what ends with it.
LEMMA RouterTables ==
    ASSUME E!ExperimentRouterAssumption, RouterInv, on' \in BOOLEAN, weights' \in {<<1, 1>>, <<2, 1>>, <<0, 1>>},
           (onSince' = onSince /\ on' = on) \/ onSince' = 0,
           (armsSince' = armsSince /\ E!ToChoose(weights') = E!ToChoose(weights)) \/ armsSince' = 0,
           UNCHANGED <<listed, route>>
    PROVE  RouterInv'
<1>0. TTL \in Nat /\ MaxLookup \in Nat
  BY DEF E!ExperimentRouterAssumption
<1>1. RouterTyped'
  <2>1. onSince' \in E!Ages /\ armsSince' \in E!Ages
    BY <1>0 DEF RouterInv, RouterTyped, E!Ages, E!Cap
  <2> QED
    BY <2>1, Zenon DEF RouterInv, RouterTyped
<1>2. ASSUME NEW list, NEW age \in Nat, NoOlder(list, age)
      PROVE  list.on => /\ on' \/ onSince' <= age
                        /\ \A a \in E!ToChoose(list.weights) \ E!ToChoose(weights') : armsSince' <= age
  BY <1>0, <1>2 DEF NoOlder
<1>w. E!ToChoose(weights)' = E!ToChoose(weights')
  BY DEF E!ToChoose
<1>3. ASSUME NEW k \in Actors PROVE RouteOK(route[k])'
  <2>1. route[k].spent \in Nat /\ RouteOK(route[k]) /\ route'[k] = route[k]
    BY DEF RouterInv, RouterTyped, Routes
  <2>2. E!ToChoose(route[k].list.weights)' = E!ToChoose(route[k].list.weights)
    BY DEF E!ToChoose
  <2>3. route[k].pc = "store" => NoOlder(route[k].list, route[k].spent)'
    <3> SUFFICES ASSUME route[k].pc = "store" PROVE NoOlder(route[k].list, route[k].spent)'
      OBVIOUS
    <3>1. NoOlder(route[k].list, route[k].spent)
      BY <2>1 DEF RouteOK
    <3>2. route[k].list.on => /\ on' \/ onSince' <= route[k].spent
                              /\ \A a \in E!ToChoose(route[k].list.weights) \ E!ToChoose(weights') : armsSince' <= route[k].spent
      BY <1>2, <2>1, <3>1
    <3> QED
      BY <1>w, <2>1, <2>2, <3>2 DEF NoOlder
  <2>4. route[k].pc = "arms" => on' \/ onSince' <= route[k].spent
    BY <2>1 DEF RouteOK
  <2> QED
    BY <2>1, <2>3, <2>4 DEF RouteOK
<1>4. (listed.left > 0 => NoOlder(listed.list, TTL - listed.left + MaxLookup))'
  <2> SUFFICES ASSUME listed.left > 0 PROVE NoOlder(listed.list, TTL - listed.left + MaxLookup)'
    OBVIOUS
  <2> DEFINE age == TTL - listed.left + MaxLookup
  <2>1. age \in Nat
    BY <1>0 DEF RouterInv, RouterTyped
  <2>2. NoOlder(listed.list, age)
    BY DEF RouterInv
  <2>3. age' = age
    OBVIOUS
  <2>4. E!ToChoose(listed.list.weights)' = E!ToChoose(listed.list.weights)
    BY DEF E!ToChoose
  <2>5. listed'.list = listed.list
    OBVIOUS
  <2> HIDE DEF age
  <2>6. listed.list.on => /\ on' \/ onSince' <= age
                          /\ \A a \in E!ToChoose(listed.list.weights) \ E!ToChoose(weights') : armsSince' <= age
    BY <1>2, <2>1, <2>2
  <2>7. NoOlder(listed.list, age)'
    BY <1>w, <2>3, <2>4, <2>5, <2>6 DEF NoOlder
  <2> QED
    BY <2>7 DEF age
<1> QED
  BY <1>1, <1>3, <1>4 DEF RouterInv

LEMMA RouterStep == E!ExperimentRouterAssumption /\ RouterInv /\ [E!Next]_(E!vars) => RouterInv'
<1> SUFFICES ASSUME E!ExperimentRouterAssumption, RouterInv, [E!Next]_(E!vars) PROVE RouterInv'
  OBVIOUS
<1>0. TTL \in Nat /\ MaxLookup \in Nat /\ on \in BOOLEAN
  BY DEF E!ExperimentRouterAssumption, RouterInv, RouterTyped
<1>1. ASSUME E!UpsertExperiments PROVE RouterInv'
  BY <1>1, RouterTables DEF E!UpsertExperiments
<1>2. ASSUME E!Window PROVE RouterInv'
  <2>1. on' \in BOOLEAN /\ onSince' = 0 /\ weights' = weights /\ armsSince' = armsSince /\ UNCHANGED <<listed, route>>
    BY <1>2 DEF E!Window
  <2>2. weights \in {<<1, 1>>, <<2, 1>>, <<0, 1>>}
    BY DEF RouterInv, RouterTyped
  <2>3. weights' \in {<<1, 1>>, <<2, 1>>, <<0, 1>>} /\ E!ToChoose(weights') = E!ToChoose(weights)
    BY <2>1, <2>2, Zenon
  <2> QED
    BY <2>1, <2>3, RouterTables
<1>3. ASSUME NEW r \in Actors, E!Route(r) PROVE RouterInv'
  <2>0. UNCHANGED <<on, weights, onSince, armsSince, listed>> /\ listed \in [list : E!Listed, left : -1..TTL]
    BY <1>3 DEF E!Route, RouterInv, RouterTyped
  <2>1. CASE E!Hit
    <3>1. E!RouteTo(r, listed.list, FALSE) /\ listed.left > 0 /\ listed.list \in E!Listed
      BY <1>3, <2>0, <2>1 DEF E!Route, E!Hit
    <3> DEFINE age == TTL - listed.left + MaxLookup
    <3>2. NoOlder(listed.list, age) /\ age \in Int /\ age <= TTL + MaxLookup
      BY <1>0, <2>0, <3>1 DEF RouterInv
    <3> HIDE DEF age
    <3>3. NoOlder(listed.list, TTL + MaxLookup)
      <4>1. onSince \in Int /\ armsSince \in Int
        BY DEF RouterInv, RouterTyped, E!Ages
      <4> QED
        BY <1>0, <3>2, <4>1 DEF NoOlder
    <3>4. PICK new \in Routes : route' = [route EXCEPT ![r] = new] /\ RouteOK(new)
      BY <3>1, <3>3, RouterRoutes
    <3> QED
      BY <2>0, <3>4, RouterStepOf
  <2>2. CASE ~E!Hit
    <3> DEFINE new == [E!Idle EXCEPT !.pc = "list"]
    <3>1. new \in Routes /\ new.pc = "list"
      BY RouterIdle DEF Routes
    <3>2. route' = [route EXCEPT ![r] = new]
      BY <1>3, <2>2 DEF E!Route
    <3> HIDE DEF new
    <3>3. RouteOK(new)
      BY <3>1 DEF RouteOK
    <3> QED
      BY <2>0, <3>1, <3>2, <3>3, RouterStepOf
  <2> QED
    BY <2>1, <2>2
<1>4. ASSUME NEW r \in Actors, E!QueryFails(r) PROVE RouterInv'
  <2>0. /\ UNCHANGED <<on, weights, onSince, armsSince, listed>> /\ listed \in [list : E!Listed, left : -1..TTL]
        /\ E!RouteTo(r, listed.list, TRUE)
    BY <1>4 DEF E!QueryFails, E!StaleOnError, RouterInv, RouterTyped
  <2>1. PICK new \in Routes : route' = [route EXCEPT ![r] = new] /\ RouteOK(new)
    BY <2>0, RouterRoutes
  <2> QED
    BY <2>0, <2>1, RouterStepOf
<1>5. ASSUME NEW r \in Actors, E!ListActiveExperiments(r) PROVE RouterInv'
  <2>0. /\ UNCHANGED <<on, weights, onSince, armsSince, listed>> /\ listed \in [list : E!Listed, left : -1..TTL]
        /\ route[r] \in Routes /\ route \in [Actors -> Routes] /\ route[r].list \in E!Listed /\ route[r].pc = "list"
    BY <1>5 DEF E!ListActiveExperiments, RouterInv, RouterTyped, Routes
  <2> DEFINE list == [route[r].list EXCEPT !.on = on]
             step == IF on THEN "arms" ELSE "store"
             new == [route[r] EXCEPT !.pc = step, !.list = list]
  <2>1. list \in E!Listed /\ list.on = on
    BY <1>0, <2>0 DEF E!Listed
  <2>2. route' = [route EXCEPT ![r] = new]
    BY <1>5, <2>0 DEF E!ListActiveExperiments
  <2> HIDE DEF list
  <2>3. step \in {"arms", "store"} /\ (step = "arms" => on) /\ (step = "store" => ~on)
    OBVIOUS
  <2> HIDE DEF step
  <2>4. new \in Routes /\ new.pc = step /\ new.list = list
    BY <2>0, <2>1, <2>3 DEF Routes
  <2> HIDE DEF new
  <2>5. step = "store" => ~list.on
    BY <2>1, <2>3
  <2>6. RouteOK(new)
    BY <2>3, <2>4, <2>5 DEF RouteOK, NoOlder
  <2> QED
    BY <2>0, <2>2, <2>4, <2>6, RouterStepOf
<1>6. ASSUME NEW r \in Actors, E!FetchArms(r) PROVE RouterInv'
  <2>0. /\ UNCHANGED <<on, weights, onSince, armsSince, listed>> /\ listed \in [list : E!Listed, left : -1..TTL]
        /\ route[r] \in Routes /\ route \in [Actors -> Routes] /\ route[r].list \in E!Listed /\ route[r].pc = "arms"
        /\ weights \in {<<1, 1>>, <<2, 1>>, <<0, 1>>} \cup {<<>>} /\ RouteOK(route[r])
    BY <1>6 DEF E!FetchArms, RouterInv, RouterTyped, Routes
  <2> DEFINE list == [route[r].list EXCEPT !.weights = weights]
             new == [route[r] EXCEPT !.pc = "store", !.list = list]
  <2>1. list \in E!Listed /\ list.weights = weights
    BY <2>0 DEF E!Listed
  <2>2. route' = [route EXCEPT ![r] = new]
    BY <1>6, <2>0 DEF E!FetchArms
  <2> HIDE DEF list
  <2>3. new \in Routes /\ new.pc = "store" /\ new.list = list /\ new.spent = route[r].spent
    BY <2>0, <2>1 DEF Routes
  <2> HIDE DEF new
  <2>4. RouteOK(new)
    BY <2>0, <2>1, <2>3 DEF RouteOK, NoOlder
  <2> QED
    BY <2>0, <2>2, <2>3, <2>4, RouterStepOf
<1>7. ASSUME NEW r \in Actors, E!Store(r) PROVE RouterInv'
  <2>0. /\ UNCHANGED <<on, weights, onSince, armsSince>> /\ route[r] \in Routes /\ RouteOK(route[r]) /\ route[r].pc = "store"
        /\ route[r].list \in E!Listed /\ E!RouteTo(r, route[r].list, FALSE) /\ listed' = [list |-> route[r].list, left |-> TTL]
        /\ route[r].spent \in 0..MaxLookup
    BY <1>7 DEF E!Store, RouterInv, RouterTyped, Routes
  <2>1. onSince \in Int /\ armsSince \in Int /\ NoOlder(route[r].list, route[r].spent)
    BY <2>0 DEF RouterInv, RouterTyped, E!Ages, RouteOK
  <2>2. NoOlder(route[r].list, MaxLookup) /\ NoOlder(route[r].list, TTL + MaxLookup)
    BY <1>0, <2>0, <2>1 DEF NoOlder
  <2>3. PICK new \in Routes : route' = [route EXCEPT ![r] = new] /\ RouteOK(new)
    BY <2>0, <2>2, RouterRoutes
  <2>4. listed' \in [list : E!Listed, left : -1..TTL] /\ listed'.list = route[r].list /\ listed'.left = TTL
    BY <1>0, <2>0
  <2>5. TTL - listed'.left + MaxLookup = MaxLookup
    BY <1>0, <2>4
  <2>6. NoOlder(listed'.list, TTL - listed'.left + MaxLookup)
    BY <2>2, <2>4, <2>5
  <2> QED
    BY <2>0, <2>3, <2>4, <2>6, RouterStepOf
<1>8. ASSUME UNCHANGED E!vars PROVE RouterInv'
  BY <1>8 DEF E!vars, RouterInv, RouterTyped, RouteOK, NoOlder, E!ToChoose
<1>9. ASSUME E!Tick PROVE RouterInv'
  BY <1>9, RouterTick
<1> QED
  BY <1>1, <1>2, <1>3, <1>4, <1>5, <1>6, <1>7, <1>8, <1>9 DEF E!Next
-----------------------------------------------------------------------------
(***************************************************************************)
(* BodyStorage, for any owners, buckets and requests x.                    *)
(***************************************************************************)
Paths(x) == [pc : B(x)!Phases, claude : BOOLEAN, at : DOMAIN x.owners, spent : Nat, cfg : B(x)!Values,
             failed : BOOLEAN, client : {0} \cup B(x)!Clients, early : BOOLEAN, late : BOOLEAN]

BodyTyped(x) ==
    /\ held \in [B(x)!Own -> [B(x)!Values -> 0..B(x)!Cap]]
    /\ \A o \in B(x)!Own : \E v \in x.buckets[o] \cup {B(x)!None} : \A w \in B(x)!Values : held[o][w] = 0 <=> w = v
    /\ configCache \in [B(x)!Own -> [cfg : B(x)!Values, failed : BOOLEAN, left : 0..TTL]]
    /\ client \in [B(x)!Own -> {0} \cup B(x)!Clients]
    /\ bucket \in [B(x)!Clients -> B(x)!Values]
    /\ closed \subseteq B(x)!Clients /\ stuck \subseteq B(x)!Clients
    /\ body \in [x.requests -> Paths(x)]

\* A cached config has been its owner's within the entry's age and a query.
BodyEntryOK(x, o) ==
    configCache[o].left > 0 => IF configCache[o].failed THEN configCache[o].cfg = B(x)!None
                               ELSE held[o][configCache[o].cfg] <= 1 + TTL - configCache[o].left + MaxLookup

Going == {"connect", "create", "put"}

\* What a request found in the cache or the table has been its owner's within the time
\* an entry, a query and the request's own way last; a client it has is of that config.
PathOK(x, q) ==
    LET left == held[x.owners[q.at]][q.cfg] IN
    /\ ~q.early /\ ~q.late
    /\ q.pc = "inRow" => ~q.claude
    /\ q.pc \in {"lookup", "read"} => q.cfg = B(x)!None /\ ~q.failed
    /\ q.pc \in {"lookup", "read", "cache"} => q.spent <= MaxLookup
    /\ q.pc = "cache" => IF q.failed THEN q.cfg = B(x)!None ELSE left <= 1 + q.spent
    /\ q.pc \in Going => q.spent <= MaxUpload /\ left <= 1 + TTL + MaxLookup + q.spent
    /\ q.pc = "put" => q.client # 0 /\ bucket[q.client] = q.cfg

\* The owner has had another config not long ago.
Changed(x, o, age) == \E v \in B(x)!Values : held[o][v] # 0 /\ held[o][v] <= 1 + TTL + MaxLookup + age

\* An upload is on its way to replace the registered client, which is of another config.
Replacing(x, o) == \E r \in x.requests : /\ body[r].pc = "create" /\ x.owners[body[r].at] = o
                                         /\ body[r].cfg # bucket[client[o]]

\* A registered client that no failed creation has left closed is closed only on the way
\* to its replacement, and an upload with a closed one belongs to an owner that changed
\* its config: its own config and the one of the upload that closed the client cannot
\* both be the owner's now.
ClosedOK(x) ==
    /\ \A o \in B(x)!Own : client[o] \in closed => client[o] \in stuck \/ Replacing(x, o)
    /\ \A r \in x.requests : body[r].pc = "put" /\ body[r].client \in closed =>
          body[r].client \in stuck \/ Changed(x, x.owners[body[r].at], MaxUpload + body[r].spent)

\* No two owners share a client, and an upload uses one of its own owner's.
OwnClients(x) ==
    /\ \A o, p \in B(x)!Own : client[o] = client[p] /\ client[o] # 0 => o = p
    /\ \A r \in x.requests : \A o \in B(x)!Own :
          body[r].pc = "put" /\ body[r].client = client[o] => x.owners[body[r].at] = o

BodyInv(x) ==
    /\ BodyTyped(x)
    /\ \A o \in B(x)!Own : BodyEntryOK(x, o)
    /\ \A r \in x.requests : PathOK(x, body[r])
    /\ ClosedOK(x)
    /\ OwnClients(x)

\* What the assumption says of the constants.
LEMMA BodyConstants ==
    ASSUME NEW x, B(x)!BodyStorageAssumption
    PROVE  /\ TTL \in Nat /\ MaxLookup \in Nat /\ MaxUpload \in Nat /\ B(x)!Cap \in Nat
           /\ TTL > 0 /\ B(x)!Cap = TTL + MaxLookup + 2 * MaxUpload + 2
           /\ Len(x.owners) \in Nat /\ 1 \in DOMAIN x.owners /\ DOMAIN x.owners = 1..Len(x.owners)
           /\ \A i \in DOMAIN x.owners : x.owners[i] \in B(x)!Own
           /\ B(x)!Clients \subseteq Nat \ {0}
           /\ B(x)!None \in B(x)!Values
           /\ \A o \in B(x)!Own : x.buckets[o] \cup {B(x)!None} \subseteq B(x)!Values
<1>1. TTL \in Nat /\ MaxLookup \in Nat /\ MaxUpload \in Nat /\ TTL > 0
  BY DEF B!BodyStorageAssumption
<1>2. B(x)!Cap = TTL + MaxLookup + 2 * MaxUpload + 2
  BY DEF B!Cap
<1>3. PICK T : x.owners \in Seq(T) /\ x.owners # <<>>
  BY DEF B!BodyStorageAssumption
<1>4. Len(x.owners) \in Nat /\ 1 \in DOMAIN x.owners /\ DOMAIN x.owners = 1..Len(x.owners)
  BY <1>3
<1>5. \A i \in DOMAIN x.owners : x.owners[i] \in B(x)!Own
  BY DEF B!Own
<1>6. B(x)!Clients \subseteq Nat \ {0}
  BY DEF B!Clients
<1>7. B(x)!None \in B(x)!Values /\ \A o \in B(x)!Own : x.buckets[o] \cup {B(x)!None} \subseteq B(x)!Values
  BY DEF B!Values
<1> QED
  BY <1>1, <1>2, <1>4, <1>5, <1>6, <1>7

\* The config of an owner is the one value it has been without for no time.
LEMMA ConfigIs ==
    ASSUME NEW x, B(x)!BodyStorageAssumption, BodyTyped(x), NEW o \in B(x)!Own
    PROVE  /\ B(x)!Config(o) \in B(x)!Values
           /\ \A w \in B(x)!Values : held[o][w] = 0 <=> w = B(x)!Config(o)
<1>1. PICK v \in x.buckets[o] \cup {B(x)!None} : \A w \in B(x)!Values : held[o][w] = 0 <=> w = v
  BY DEF BodyTyped
<1>2. v \in B(x)!Values /\ held[o][v] = 0
  BY <1>1, BodyConstants
<1>3. B(x)!Config(o) \in B(x)!Values /\ held[o][B(x)!Config(o)] = 0
  BY <1>2 DEF B!Config
<1> QED
  BY <1>1, <1>3

LEMMA BodyIdle ==
    ASSUME NEW x, B(x)!BodyStorageAssumption
    PROVE  /\ B(x)!Idle \in Paths(x)
           /\ B(x)!Idle.pc = "idle" /\ B(x)!Idle.cfg = B(x)!None /\ B(x)!Idle.client = 0 /\ B(x)!Idle.spent = 0
           /\ ~B(x)!Idle.failed /\ ~B(x)!Idle.early /\ ~B(x)!Idle.late /\ ~B(x)!Idle.claude
  BY BodyConstants DEF B!Idle, Paths, B!Phases

LEMMA BodyImplies ==
    ASSUME NEW x, BodyInv(x)
    PROVE  B(x)!TypeOK /\ B(x)!BodiesGoWhereTheyBelong
<1>1. \A r \in x.requests : body[r] \in Paths(x) /\ PathOK(x, body[r])
  BY DEF BodyInv, BodyTyped
<1>2. \A r \in x.requests : body[r].pc \in B(x)!Phases /\ body[r].at \in DOMAIN x.owners
  BY <1>1 DEF Paths
<1>3. B(x)!TypeOK
  BY <1>2 DEF BodyInv, BodyTyped, B!TypeOK
<1>4. B(x)!BodiesGoWhereTheyBelong
  BY <1>1 DEF PathOK, B!BodiesGoWhereTheyBelong
<1> QED
  BY <1>3, <1>4

LEMMA BodyInit ==
    ASSUME NEW x, B(x)!BodyStorageAssumption, B(x)!Init
    PROVE  BodyInv(x)
<1> USE BodyConstants, BodyIdle
<1>1. PICK c \in [B(x)!Own -> B(x)!Values] :
          /\ \A o \in B(x)!Own : c[o] \in x.buckets[o] \cup {B(x)!None}
          /\ held = [o \in B(x)!Own |-> [v \in B(x)!Values |-> IF v = c[o] THEN 0 ELSE B(x)!Cap]]
  BY DEF B!Init
<1>2. /\ configCache = [o \in B(x)!Own |-> [cfg |-> B(x)!None, failed |-> FALSE, left |-> 0]]
      /\ client = [o \in B(x)!Own |-> 0]
      /\ bucket = [k \in B(x)!Clients |-> B(x)!None]
      /\ closed = {} /\ stuck = {}
      /\ body = [r \in x.requests |-> B(x)!Idle]
  BY DEF B!Init
<1>3. held \in [B(x)!Own -> [B(x)!Values -> 0..B(x)!Cap]]
  <2>1. ASSUME NEW o \in B(x)!Own, NEW v \in B(x)!Values
        PROVE  (IF v = c[o] THEN 0 ELSE B(x)!Cap) \in 0..B(x)!Cap
    OBVIOUS
  <2> QED
    BY <1>1, <2>1
<1>4. ASSUME NEW o \in B(x)!Own
      PROVE  \E v \in x.buckets[o] \cup {B(x)!None} : \A w \in B(x)!Values : held[o][w] = 0 <=> w = v
  <2>1. c[o] \in x.buckets[o] \cup {B(x)!None} /\ B(x)!Cap # 0
    BY <1>1
  <2>2. \A w \in B(x)!Values : held[o][w] = 0 <=> w = c[o]
    BY <1>1, <2>1
  <2> QED
    BY <2>1, <2>2
<1>5. configCache \in [B(x)!Own -> [cfg : B(x)!Values, failed : BOOLEAN, left : 0..TTL]]
  BY <1>2
<1>6. BodyTyped(x)
  BY <1>2, <1>3, <1>4, <1>5 DEF BodyTyped
<1>7. \A r \in x.requests : PathOK(x, body[r])
  BY <1>2 DEF PathOK, Going
<1>8. \A o \in B(x)!Own : BodyEntryOK(x, o)
  BY <1>2 DEF BodyEntryOK
<1>9. ClosedOK(x) /\ OwnClients(x)
  BY <1>2 DEF ClosedOK, OwnClients
<1> QED
  BY <1>6, <1>7, <1>8, <1>9 DEF BodyInv

\* Two values it held lately are enough: at most one of them is the config.
LEMMA ChangedLately ==
    ASSUME NEW x, B(x)!BodyStorageAssumption, BodyTyped(x), NEW o \in B(x)!Own, NEW age \in Nat,
           NEW v \in B(x)!Values, NEW w \in B(x)!Values, v # w,
           held[o][v] <= 1 + TTL + MaxLookup + age, held[o][w] <= 1 + TTL + MaxLookup + age
    PROVE  Changed(x, o, age)
<1>1. held[o][v] # 0 \/ held[o][w] # 0
  BY ConfigIs
<1> QED
  BY <1>1 DEF Changed

\* A step of one request that is neither creating a client nor going to.
LEMMA BodyMove ==
    ASSUME NEW x, B(x)!BodyStorageAssumption, BodyInv(x), NEW r \in x.requests, NEW new \in Paths(x),
           body' = [body EXCEPT ![r] = new], UNCHANGED <<held, client, bucket, closed, stuck>>,
           configCache' \in [B(x)!Own -> [cfg : B(x)!Values, failed : BOOLEAN, left : 0..TTL]],
           \A o \in B(x)!Own : BodyEntryOK(x, o)',
           body[r].pc # "create", PathOK(x, new),
           new.pc = "put" => \A o \in B(x)!Own : new.client = client[o] => x.owners[new.at] = o,
           new.pc = "put" /\ new.client \in closed =>
               new.client \in stuck \/ Changed(x, x.owners[new.at], MaxUpload + new.spent)
    PROVE  BodyInv(x)'
<1>0. body \in [x.requests -> Paths(x)]
  BY DEF BodyInv, BodyTyped
<1>1. /\ body' \in [x.requests -> Paths(x)] /\ body'[r] = new
      /\ \A s \in x.requests : s # r => body'[s] = body[s]
      /\ held' = held /\ client' = client /\ bucket' = bucket /\ closed' = closed /\ stuck' = stuck
  BY <1>0
<1>2. BodyTyped(x)'
  BY <1>1 DEF BodyInv, BodyTyped
<1>3. \A s \in x.requests : PathOK(x, body[s])'
  BY <1>1 DEF BodyInv, PathOK, Going
<1>4. ClosedOK(x)'
  <2>1. ASSUME NEW o \in B(x)!Own, client[o] \in closed, client[o] \notin stuck
        PROVE  Replacing(x, o)'
    <3>1. PICK s \in x.requests : /\ body[s].pc = "create" /\ x.owners[body[s].at] = o
                                  /\ body[s].cfg # bucket[client[o]]
      BY <2>1 DEF BodyInv, ClosedOK, Replacing
    <3> QED
      BY <1>1, <3>1 DEF Replacing
  <2>2. ASSUME NEW s \in x.requests, body'[s].pc = "put", body'[s].client \in closed
        PROVE  body'[s].client \in stuck \/ Changed(x, x.owners[body'[s].at], MaxUpload + body'[s].spent)
    BY <1>1, <2>2 DEF BodyInv, ClosedOK
  <2> QED
    BY <1>1, <2>1, <2>2 DEF ClosedOK, Changed
<1>5. OwnClients(x)'
  BY <1>1 DEF BodyInv, OwnClients
<1> QED
  BY <1>2, <1>3, <1>4, <1>5 DEF BodyInv

\* Decide: the next owner, or the way to this one's bucket, or the row; nothing is early.
LEMMA BodyDecided ==
    ASSUME NEW x, B(x)!BodyStorageAssumption, BodyInv(x), NEW r \in x.requests,
           NEW cfg \in B(x)!Values, NEW failed \in BOOLEAN,
           IF failed THEN cfg = B(x)!None ELSE held[x.owners[body[r].at]][cfg] <= 1 + TTL + MaxLookup,
           cfg = B(x)!None => body[r].cfg = cfg
    PROVE  LET new == [B(x)!Decide(r, cfg, failed) EXCEPT !.failed = FALSE] IN
           /\ new \in Paths(x) /\ PathOK(x, new) /\ new.pc # "put"
           /\ ~body[r].failed => new = B(x)!Decide(r, cfg, failed)
<1> DEFINE q == body[r]
           o == x.owners[q.at]
           hides == ~failed /\ held[o][B(x)!None] > TTL + MaxLookup + 1
           d == B(x)!Decide(r, cfg, failed)
           new == [d EXCEPT !.failed = FALSE]
<1> USE BodyConstants
<1>0. TTL \in Nat /\ MaxLookup \in Nat /\ MaxUpload \in Nat /\ B(x)!Cap \in Nat
  OBVIOUS
<1>1. /\ q \in Paths(x) /\ q.at \in DOMAIN x.owners /\ o \in B(x)!Own /\ q.early = FALSE /\ q.late = FALSE
      /\ held[o] \in [B(x)!Values -> 0..B(x)!Cap]
  BY DEF BodyInv, BodyTyped, Paths, PathOK
<1>2. cfg = B(x)!None => hides = FALSE
  <2>1. ASSUME cfg = B(x)!None PROVE ~hides
    <3>1. CASE failed
      BY <3>1
    <3>2. CASE ~failed
      <4>1. held[o][B(x)!None] <= 1 + TTL + MaxLookup
        BY <2>1, <3>2
      <4>2. held[o][B(x)!None] \in 0..B(x)!Cap
        BY <1>1
      <4>3. ~(held[o][B(x)!None] > TTL + MaxLookup + 1)
        BY <1>0, <4>1, <4>2
      <4> QED
        BY <4>3
    <3> QED
      BY <3>1, <3>2
  <2> HIDE DEF hides
  <2> QED
    BY <2>1
<1>3. CASE cfg # B(x)!None
  <2>1. d = [q EXCEPT !.pc = "connect", !.cfg = cfg, !.spent = 0]
    BY <1>3 DEF B!Decide
  <2>2. /\ d \in Paths(x) /\ d.pc = "connect" /\ d.cfg = cfg /\ d.spent = 0 /\ d.at = q.at
        /\ d.early = FALSE /\ d.late = FALSE /\ d.failed = q.failed
    <3> HIDE DEF q, d
    <3>1. d \in Paths(x)
      BY <1>1, <2>1 DEF Paths, B!Phases
    <3>2. d.pc = "connect" /\ d.cfg = cfg /\ d.spent = 0 /\ d.at = q.at
      BY <1>1, <2>1 DEF Paths
    <3>3. d.early = q.early /\ d.late = q.late /\ d.failed = q.failed
      BY <1>1, <2>1 DEF Paths
    <3> QED
      BY <1>1, <3>1, <3>2, <3>3
  <2> HIDE DEF d
  <2>3. /\ new \in Paths(x) /\ new.pc = "connect" /\ new.cfg = cfg /\ new.spent = 0 /\ new.at = q.at
        /\ new.early = FALSE /\ new.late = FALSE /\ (~q.failed => new = d)
    BY <2>2, <1>1 DEF Paths
  <2> HIDE DEF new
  <2>4. held[o][cfg] <= 1 + TTL + MaxLookup + 0 /\ 0 <= MaxUpload
    BY <1>0, <1>1, <1>3
  <2>5. PathOK(x, new)
    BY <1>1, <2>3, <2>4 DEF PathOK, Going
  <2> QED
    BY <2>3, <2>5 DEF new, d
<1>4. CASE cfg = B(x)!None /\ q.at < Len(x.owners)
  <2>1. d = [q EXCEPT !.pc = "lookup", !.at = q.at + 1, !.spent = 0, !.early = q.early \/ hides]
    BY <1>4 DEF B!Decide, B!Owner
  <2>2. (q.early \/ hides) = FALSE
    BY <1>1, <1>2, <1>4
  <2>3. q.at + 1 \in DOMAIN x.owners
    BY <1>1, <1>4
  <2> HIDE DEF hides
  <2>4. d = [q EXCEPT !.pc = "lookup", !.at = q.at + 1, !.spent = 0, !.early = FALSE]
    BY <2>1, <2>2
  <2>5. /\ d \in Paths(x) /\ d.pc = "lookup" /\ d.cfg = q.cfg /\ d.spent = 0
        /\ d.early = FALSE /\ d.late = FALSE /\ d.failed = q.failed
    <3> HIDE DEF q, d
    <3>1. d \in Paths(x)
      BY <1>1, <2>3, <2>4 DEF Paths, B!Phases
    <3>2. d.pc = "lookup" /\ d.cfg = q.cfg /\ d.spent = 0
      BY <1>1, <2>4 DEF Paths
    <3>3. d.early = FALSE /\ d.late = q.late /\ d.failed = q.failed
      BY <1>1, <2>4 DEF Paths
    <3> QED
      BY <1>1, <3>1, <3>2, <3>3
  <2> HIDE DEF d
  <2>6. /\ new \in Paths(x) /\ new.pc = "lookup" /\ new.cfg = B(x)!None /\ new.spent = 0 /\ new.failed = FALSE
        /\ new.early = FALSE /\ new.late = FALSE /\ (~q.failed => new = d)
    BY <2>5, <1>1, <1>4 DEF Paths
  <2> HIDE DEF new
  <2>7. PathOK(x, new)
    BY <1>0, <2>6 DEF PathOK, Going
  <2> QED
    BY <2>6, <2>7 DEF new, d
<1>5. CASE cfg = B(x)!None /\ ~(q.at < Len(x.owners))
  <2>1. d = [B(x)!Idle EXCEPT !.pc = B(x)!Global(r), !.claude = q.claude, !.early = q.early \/ hides]
    BY <1>5 DEF B!Decide, B!Owner
  <2>2. (q.early \/ hides) = FALSE
    BY <1>1, <1>2, <1>5
  <2>3. B(x)!Global(r) \in {"inRow", "dropped"} /\ (B(x)!Global(r) = "inRow" => ~q.claude)
    BY DEF B!Global
  <2> HIDE DEF hides
  <2>4. d = [B(x)!Idle EXCEPT !.pc = B(x)!Global(r), !.claude = q.claude, !.early = FALSE]
    BY <2>1, <2>2
  <2>5. /\ d \in Paths(x) /\ d.pc = B(x)!Global(r) /\ d.claude = q.claude
        /\ d.early = FALSE /\ d.late = FALSE /\ d.failed = FALSE
    BY <1>1, <2>3, <2>4, BodyIdle, ZenonT(30) DEF Paths, B!Phases
  <2> HIDE DEF d
  <2>6. /\ new \in Paths(x) /\ new.pc = B(x)!Global(r) /\ new.claude = q.claude
        /\ new.early = FALSE /\ new.late = FALSE /\ new = d
    BY <2>5 DEF Paths
  <2> HIDE DEF new
  <2>7. PathOK(x, new)
    BY <2>3, <2>6 DEF PathOK, Going
  <2> QED
    BY <2>3, <2>6, <2>7 DEF new, d
<1> QED
  BY <1>3, <1>4, <1>5

\* The end of an upload that has failed.
LEMMA BodyFailed ==
    ASSUME NEW x, B(x)!BodyStorageAssumption, NEW q \in Paths(x), PathOK(x, q)
    PROVE  LET new == [B(x)!Idle EXCEPT !.at = q.at, !.early = q.early, !.pc = "failed"] IN
           /\ new \in Paths(x) /\ PathOK(x, new) /\ new.pc = "failed" /\ new.at = q.at /\ new.client = 0
<1> DEFINE new == [B(x)!Idle EXCEPT !.at = q.at, !.early = q.early, !.pc = "failed"]
<1>1. q.at \in DOMAIN x.owners /\ q.early = FALSE
  BY DEF Paths, PathOK
<1>2. /\ new \in Paths(x) /\ new.pc = "failed" /\ new.at = q.at /\ new.client = 0
      /\ new.early = FALSE /\ new.late = FALSE
  BY <1>1, BodyIdle DEF Paths, B!Phases
<1> HIDE DEF new
<1>3. PathOK(x, new)
  BY <1>2 DEF PathOK, Going
<1> QED
  BY <1>2, <1>3 DEF new

\* The steps that leave the clients alone.
LEMMA BodyRequestSteps ==
    ASSUME NEW x, B(x)!BodyStorageAssumption, BodyInv(x), NEW r \in x.requests,
           \/ B(x)!LogRequest(r) \/ B(x)!GetConfig(r) \/ B(x)!GetCloudStorageConfig(r)
           \/ B(x)!CacheConfig(r) \/ B(x)!Put(r) \/ B(x)!UploadFails(r)
    PROVE  BodyInv(x)'
<1> DEFINE q == body[r]
           o == x.owners[q.at]
<1>0. /\ TTL \in Nat /\ MaxLookup \in Nat /\ MaxUpload \in Nat /\ B(x)!Cap \in Nat /\ TTL > 0
      /\ B(x)!None \in B(x)!Values
      /\ \A i \in DOMAIN x.owners : x.owners[i] \in B(x)!Own
  BY BodyConstants
<1>1. /\ q \in Paths(x) /\ q.at \in DOMAIN x.owners /\ o \in B(x)!Own /\ PathOK(x, q)
      /\ held[o] \in [B(x)!Values -> 0..B(x)!Cap] /\ \A p \in B(x)!Own : BodyEntryOK(x, p)
      /\ configCache \in [B(x)!Own -> [cfg : B(x)!Values, failed : BOOLEAN, left : 0..TTL]]
  BY <1>0 DEF BodyInv, BodyTyped, Paths
<1>2. UNCHANGED <<held, client, bucket, closed, stuck>>
  BY Zenon DEF B!LogRequest, B!GetConfig, B!GetCloudStorageConfig, B!CacheConfig, B!Put, B!UploadFails
<1>3. q.pc # "create"
  BY Zenon DEF B!LogRequest, B!GetConfig, B!GetCloudStorageConfig, B!CacheConfig, B!Put, B!UploadFails, B!Busy, B!Uploading
<1>4. ASSUME UNCHANGED configCache
      PROVE  /\ \A p \in B(x)!Own : BodyEntryOK(x, p)'
             /\ configCache' \in [B(x)!Own -> [cfg : B(x)!Values, failed : BOOLEAN, left : 0..TTL]]
  BY <1>1, <1>2, <1>4 DEF BodyEntryOK
<1>5. ASSUME NEW new \in Paths(x), body' = [body EXCEPT ![r] = new], new.pc # "put", PathOK(x, new),
             \A p \in B(x)!Own : BodyEntryOK(x, p)',
             configCache' \in [B(x)!Own -> [cfg : B(x)!Values, failed : BOOLEAN, left : 0..TTL]]
      PROVE  BodyInv(x)'
  BY <1>2, <1>3, <1>5, BodyMove
<1>6. CASE B(x)!LogRequest(r)
  <2>1. PICK claude \in BOOLEAN : body' = [body EXCEPT ![r] = [B(x)!Idle EXCEPT !.pc = "lookup", !.claude = claude]]
    BY <1>6, Zenon DEF B!LogRequest
  <2> DEFINE new == [B(x)!Idle EXCEPT !.pc = "lookup", !.claude = claude]
  <2>2. /\ new \in Paths(x) /\ new.pc = "lookup" /\ new.cfg = B(x)!None /\ new.spent = 0
        /\ ~new.failed /\ ~new.early /\ ~new.late
    BY BodyIdle DEF Paths, B!Phases
  <2>3. UNCHANGED configCache /\ body' = [body EXCEPT ![r] = new]
    BY <1>6, <2>1, Zenon DEF B!LogRequest
  <2> HIDE DEF new
  <2>4. PathOK(x, new)
    BY <1>0, <2>2 DEF PathOK, Going
  <2> QED
    BY <1>4, <1>5, <2>2, <2>3, <2>4
<1>7. CASE B(x)!GetConfig(r)
  <2> DEFINE e == configCache[o]
  <2>1. /\ q.pc = "lookup" /\ UNCHANGED configCache
        /\ body' = [body EXCEPT ![r] = IF e.left > 0 THEN B(x)!Decide(r, e.cfg, e.failed) ELSE [body[r] EXCEPT !.pc = "read"]]
    BY <1>7 DEF B!GetConfig, B!Owner
  <2>2. CASE e.left > 0
    <3>1. e.cfg \in B(x)!Values /\ e.failed \in BOOLEAN /\ e.left \in 0..TTL
      BY <1>1
    <3>2. held[o][e.cfg] \in 0..B(x)!Cap
      BY <1>1, <3>1
    <3>3. IF e.failed THEN e.cfg = B(x)!None ELSE held[o][e.cfg] <= 1 + TTL - e.left + MaxLookup
      BY <1>1, <2>2 DEF BodyEntryOK
    <3>4. held[o][e.cfg] <= 1 + TTL - e.left + MaxLookup => held[o][e.cfg] <= 1 + TTL + MaxLookup
      BY <1>0, <3>1, <3>2
    <3>5. IF e.failed THEN e.cfg = B(x)!None ELSE held[x.owners[body[r].at]][e.cfg] <= 1 + TTL + MaxLookup
      BY <3>3, <3>4
    <3>6. q.cfg = B(x)!None /\ ~body[r].failed
      BY <1>1, <2>1 DEF PathOK
    <3>7. e.cfg = B(x)!None => body[r].cfg = e.cfg
      BY <3>6
    <3> DEFINE new == [B(x)!Decide(r, e.cfg, e.failed) EXCEPT !.failed = FALSE]
    <3> HIDE DEF e
    <3>9. new \in Paths(x) /\ PathOK(x, new) /\ new.pc # "put" /\ new = B(x)!Decide(r, e.cfg, e.failed)
      BY <3>1, <3>5, <3>6, <3>7, BodyDecided
    <3>8. body' = [body EXCEPT ![r] = new]
      BY <2>1, <2>2, <3>9
    <3> HIDE DEF new
    <3> QED
      BY <1>4, <1>5, <2>1, <3>8, <3>9
  <2>3. CASE ~(e.left > 0)
    <3> DEFINE new == [body[r] EXCEPT !.pc = "read"]
    <3>1. body' = [body EXCEPT ![r] = new]
      BY <2>1, <2>3
    <3>2. /\ new \in Paths(x) /\ new.pc = "read" /\ new.cfg = q.cfg /\ new.spent = q.spent
          /\ new.failed = q.failed /\ new.early = q.early /\ new.late = q.late
      BY <1>1 DEF Paths, B!Phases
    <3>3. q.cfg = B(x)!None /\ ~q.failed /\ ~q.early /\ ~q.late /\ q.spent <= MaxLookup
      BY <1>1, <2>1 DEF PathOK
    <3> HIDE DEF new
    <3>4. PathOK(x, new)
      BY <3>2, <3>3 DEF PathOK, Going
    <3> QED
      BY <1>4, <1>5, <2>1, <3>1, <3>2, <3>4
  <2> QED
    BY <2>2, <2>3
<1>8. CASE B(x)!GetCloudStorageConfig(r)
  <2>1. /\ q.pc = "read" /\ UNCHANGED configCache
        /\ \/ body' = [body EXCEPT ![r].pc = "cache", ![r].cfg = B(x)!Config(o)]
           \/ body' = [body EXCEPT ![r].pc = "cache", ![r].failed = TRUE]
    BY <1>8 DEF B!GetCloudStorageConfig, B!Owner
  <2>2. q.cfg = B(x)!None /\ ~q.failed /\ ~q.early /\ ~q.late /\ q.spent <= MaxLookup /\ q.spent \in Nat
    BY <1>1, <2>1 DEF PathOK, Paths
  <2>3. body \in [x.requests -> Paths(x)] /\ B(x)!Config(o) \in B(x)!Values /\ held[o][B(x)!Config(o)] = 0
    BY <1>1, ConfigIs DEF BodyInv, BodyTyped
  <2>4. CASE body' = [body EXCEPT ![r].pc = "cache", ![r].cfg = B(x)!Config(o)]
    <3> DEFINE new == [body[r] EXCEPT !.pc = "cache", !.cfg = B(x)!Config(o)]
    <3>1. body' = [body EXCEPT ![r] = new]
      BY <2>3, <2>4
    <3>2. /\ new \in Paths(x) /\ new.pc = "cache" /\ new.cfg = B(x)!Config(o) /\ new.spent = q.spent /\ new.at = q.at
          /\ new.failed = q.failed /\ new.early = q.early /\ new.late = q.late
      BY <1>1, <2>3 DEF Paths, B!Phases
    <3> HIDE DEF new
    <3>3. held[x.owners[new.at]][new.cfg] = 0 /\ 0 <= 1 + new.spent
      BY <2>2, <2>3, <3>2
    <3>4. PathOK(x, new)
      BY <2>2, <3>2, <3>3 DEF PathOK, Going
    <3> QED
      BY <1>4, <1>5, <2>1, <3>1, <3>2, <3>4
  <2>5. CASE body' = [body EXCEPT ![r].pc = "cache", ![r].failed = TRUE]
    <3> DEFINE new == [body[r] EXCEPT !.pc = "cache", !.failed = TRUE]
    <3>1. body' = [body EXCEPT ![r] = new]
      BY <2>3, <2>5
    <3>2. /\ new \in Paths(x) /\ new.pc = "cache" /\ new.cfg = q.cfg /\ new.spent = q.spent
          /\ new.failed = TRUE /\ new.early = q.early /\ new.late = q.late
      BY <1>1 DEF Paths, B!Phases
    <3> HIDE DEF new
    <3>4. PathOK(x, new)
      BY <2>2, <3>2 DEF PathOK, Going
    <3> QED
      BY <1>4, <1>5, <2>1, <3>1, <3>2, <3>4
  <2> QED
    BY <2>1, <2>4, <2>5
<1>9. CASE B(x)!CacheConfig(r)
  <2>1. /\ q.pc = "cache"
        /\ configCache' = [configCache EXCEPT ![o] = [cfg |-> q.cfg, failed |-> q.failed, left |-> TTL]]
        /\ body' = [body EXCEPT ![r] = [B(x)!Decide(r, q.cfg, q.failed) EXCEPT !.failed = FALSE]]
    BY <1>9 DEF B!CacheConfig, B!Owner
  <2>2. /\ q.cfg \in B(x)!Values /\ q.failed \in BOOLEAN /\ q.spent \in Nat /\ q.spent <= MaxLookup
        /\ IF q.failed THEN q.cfg = B(x)!None ELSE held[o][q.cfg] <= 1 + q.spent
    BY <1>1, <2>1 DEF PathOK, Paths
  <2>3. held[o][q.cfg] \in 0..B(x)!Cap
    BY <1>1, <2>2
  <2>4. held[o][q.cfg] <= 1 + q.spent => held[o][q.cfg] <= 1 + MaxLookup
    BY <1>0, <2>2, <2>3
  <2>5. /\ held[o][q.cfg] <= 1 + MaxLookup => held[o][q.cfg] <= 1 + TTL + MaxLookup
        /\ held[o][q.cfg] <= 1 + MaxLookup => held[o][q.cfg] <= 1 + TTL - TTL + MaxLookup
    BY <1>0, <2>3
  <2>6. IF q.failed THEN q.cfg = B(x)!None ELSE held[o][q.cfg] <= 1 + TTL + MaxLookup
    BY <2>2, <2>4, <2>5
  <2>7. IF q.failed THEN q.cfg = B(x)!None ELSE held[o][q.cfg] <= 1 + TTL - TTL + MaxLookup
    BY <2>2, <2>4, <2>5
  <2> DEFINE new == [B(x)!Decide(r, q.cfg, q.failed) EXCEPT !.failed = FALSE]
             entry == [cfg |-> q.cfg, failed |-> q.failed, left |-> TTL]
  <2>8. new \in Paths(x) /\ PathOK(x, new) /\ new.pc # "put"
    BY <2>2, <2>6, BodyDecided
  <2>9. /\ entry \in [cfg : B(x)!Values, failed : BOOLEAN, left : 0..TTL]
        /\ entry.cfg = q.cfg /\ entry.failed = q.failed /\ entry.left = TTL
    BY <1>0, <2>2
  <2> HIDE DEF new, entry
  <2>10. configCache' = [configCache EXCEPT ![o] = entry] /\ body' = [body EXCEPT ![r] = new]
    BY <2>1 DEF new, entry
  <2>11. configCache' \in [B(x)!Own -> [cfg : B(x)!Values, failed : BOOLEAN, left : 0..TTL]]
    BY <1>1, <2>9, <2>10
  <2>12. ASSUME NEW p \in B(x)!Own PROVE BodyEntryOK(x, p)'
    <3>1. CASE p = o
      BY <1>1, <1>2, <2>7, <2>9, <2>10, <3>1 DEF BodyEntryOK
    <3>2. CASE p # o
      BY <1>1, <1>2, <2>10, <3>2 DEF BodyEntryOK
    <3> QED
      BY <3>1, <3>2
  <2> QED
    BY <1>5, <2>8, <2>10, <2>11, <2>12
<1>10. CASE B(x)!Put(r)
  <2> DEFINE c == q.client
             late == IF c \in closed THEN c \notin stuck /\ B(x)!Unexplained(o) ELSE B(x)!Misplaced(o, bucket[c])
             end == IF c \in closed THEN "lost" ELSE "stored"
             new == [B(x)!Idle EXCEPT !.at = q.at, !.early = q.early, !.pc = end, !.late = late]
  <2>1. q.pc = "put" /\ UNCHANGED configCache /\ body' = [body EXCEPT ![r] = new]
    BY <1>10 DEF B!Put, B!Owner
  <2>2. /\ c \in {0} \cup B(x)!Clients /\ bucket[c] = q.cfg /\ q.cfg \in B(x)!Values
        /\ held[o][q.cfg] <= 1 + TTL + MaxLookup + q.spent /\ q.spent \in Nat /\ q.spent <= MaxUpload
        /\ ~q.early
    BY <1>1, <2>1 DEF PathOK, Paths, Going
  <2>3. ~B(x)!Misplaced(o, bucket[c])
    <3>1. held[o][q.cfg] \in 0..B(x)!Cap
      BY <1>1, <2>2
    <3>2. ~(held[o][q.cfg] > TTL + MaxLookup + MaxUpload + 1)
      BY <1>0, <2>2, <3>1
    <3> QED
      BY <2>2, <3>2 DEF B!Misplaced
  <2>4. ASSUME c \in closed, c \notin stuck PROVE ~B(x)!Unexplained(o)
    <3>1. Changed(x, o, MaxUpload + q.spent)
      BY <2>1, <2>4 DEF BodyInv, ClosedOK
    <3>2. PICK v \in B(x)!Values : held[o][v] # 0 /\ held[o][v] <= 1 + TTL + MaxLookup + (MaxUpload + q.spent)
      BY <3>1 DEF Changed
    <3>3. v # B(x)!Config(o)
      BY <1>1, <3>2, ConfigIs DEF BodyInv
    <3>4. held[o][v] \in 0..B(x)!Cap
      BY <1>1
    <3>5. ~(held[o][v] > TTL + MaxLookup + 2 * MaxUpload + 1)
      BY <1>0, <2>2, <3>2, <3>4
    <3> QED
      BY <3>3, <3>5 DEF B!Unexplained
  <2>5. late = FALSE
    <3>1. CASE c \in closed
      BY <2>4, <3>1 DEF B!Unexplained
    <3>2. CASE c \notin closed
      BY <2>3, <3>2 DEF B!Misplaced
    <3> QED
      BY <3>1, <3>2
  <2>6. end \in {"lost", "stored"}
    OBVIOUS
  <2> HIDE DEF late, end
  <2>7. /\ new \in Paths(x) /\ new.pc = end /\ new.late = late /\ new.early = q.early
    BY <1>1, <2>5, <2>6, BodyIdle DEF Paths, B!Phases
  <2> HIDE DEF new
  <2>8. PathOK(x, new) /\ new.pc # "put"
    BY <2>2, <2>5, <2>6, <2>7 DEF PathOK, Going
  <2> QED
    BY <1>4, <1>5, <2>1, <2>7, <2>8
<1>11. CASE B(x)!UploadFails(r)
  <2> DEFINE new == [B(x)!Idle EXCEPT !.at = q.at, !.early = q.early, !.pc = "failed"]
  <2>1. UNCHANGED configCache /\ body' = [body EXCEPT ![r] = new]
    BY <1>11 DEF B!UploadFails, B!Failed
  <2>2. new \in Paths(x) /\ PathOK(x, new) /\ new.pc # "put"
    BY <1>1, BodyFailed
  <2> HIDE DEF new
  <2> QED
    BY <1>4, <1>5, <2>1, <2>2
<1> QED
  BY <1>6, <1>7, <1>8, <1>9, <1>10, <1>11

\* Time passes for the configs, the entries and those on their way alike.
LEMMA BodyTick ==
    ASSUME NEW x, B(x)!BodyStorageAssumption, BodyInv(x), B(x)!Tick
    PROVE  BodyInv(x)'
<1>0. /\ TTL \in Nat /\ MaxLookup \in Nat /\ MaxUpload \in Nat /\ B(x)!Cap \in Nat /\ TTL > 0
      /\ B(x)!Cap = TTL + MaxLookup + 2 * MaxUpload + 2
      /\ B(x)!None \in B(x)!Values
      /\ \A i \in DOMAIN x.owners : x.owners[i] \in B(x)!Own
  BY BodyConstants
<1>1. /\ held \in [B(x)!Own -> [B(x)!Values -> 0..B(x)!Cap]]
      /\ configCache \in [B(x)!Own -> [cfg : B(x)!Values, failed : BOOLEAN, left : 0..TTL]]
      /\ body \in [x.requests -> Paths(x)] /\ client' = client /\ bucket' = bucket
      /\ closed' = closed /\ stuck' = stuck
  BY DEF BodyInv, BodyTyped, B!Tick
\* Only what has an age gets older, and by one.
<1>2. ASSUME NEW o \in B(x)!Own, NEW v \in B(x)!Values
      PROVE  /\ held'[o][v] \in 0..B(x)!Cap /\ held'[o][v] <= held[o][v] + 1
             /\ held'[o][v] = 0 <=> held[o][v] = 0
  <2>1. held'[o][v] = IF held[o][v] \in 1..B(x)!Cap - 1 THEN held[o][v] + 1 ELSE held[o][v]
    BY DEF B!Tick
  <2>2. held[o][v] \in 0..B(x)!Cap
    BY <1>1
  <2> QED
    BY <1>0, <2>1, <2>2
<1>3. held' \in [B(x)!Own -> [B(x)!Values -> 0..B(x)!Cap]]
  <2>1. held' = [o \in B(x)!Own |-> [v \in B(x)!Values |-> held'[o][v]]]
    BY DEF B!Tick
  <2> QED
    BY <1>2, <2>1
<1>4. ASSUME NEW o \in B(x)!Own
      PROVE  /\ configCache'[o] \in [cfg : B(x)!Values, failed : BOOLEAN, left : 0..TTL]
             /\ configCache'[o].cfg = configCache[o].cfg /\ configCache'[o].failed = configCache[o].failed
             /\ configCache'[o].left > 0 => configCache'[o].left = configCache[o].left - 1 /\ configCache[o].left > 0
  <2> DEFINE e == configCache[o]
  <2>0. e \in [cfg : B(x)!Values, failed : BOOLEAN, left : 0..TTL]
    BY <1>1
  <2>1. CASE e.left > 0
    <3>1. configCache'[o] = [e EXCEPT !.left = e.left - 1]
      BY <2>1 DEF B!Tick
    <3>2. e.left - 1 \in 0..TTL
      BY <1>0, <2>0, <2>1
    <3> HIDE DEF e
    <3> QED
      BY <2>0, <2>1, <3>1, <3>2 DEF e
  <2>2. CASE ~(e.left > 0)
    <3>1. configCache'[o] = e
      BY <2>2 DEF B!Tick
    <3> QED
      BY <2>0, <2>2, <3>1
  <2> QED
    BY <2>1, <2>2
<1>5. configCache' \in [B(x)!Own -> [cfg : B(x)!Values, failed : BOOLEAN, left : 0..TTL]]
  <2>1. configCache' = [o \in B(x)!Own |-> configCache'[o]]
    BY DEF B!Tick
  <2> QED
    BY <1>4, <2>1
<1>6. ASSUME NEW r \in x.requests
      PROVE  /\ body'[r] \in Paths(x)
             /\ body'[r].pc = body[r].pc /\ body'[r].claude = body[r].claude /\ body'[r].at = body[r].at
             /\ body'[r].cfg = body[r].cfg /\ body'[r].failed = body[r].failed /\ body'[r].client = body[r].client
             /\ body'[r].early = body[r].early /\ body'[r].late = body[r].late
             /\ body[r].pc \in {"read", "cache"} \cup Going => body'[r].spent = body[r].spent + 1
             /\ body[r].pc \in {"read", "cache"} => body[r].spent < MaxLookup
             /\ body[r].pc \in Going => body[r].spent < MaxUpload
             /\ body[r].pc # "lookup"
  <2>0. body[r] \in Paths(x) /\ body[r].spent \in Nat
    BY <1>1 DEF Paths
  <2>1. /\ body[r].pc \in {"read", "cache"} => body[r].spent < MaxLookup
        /\ body[r].pc \in Going => body[r].spent < MaxUpload
        /\ body[r].pc # "lookup"
    BY DEF B!Tick, B!Fetching, B!Uploading, Going
  <2>2. CASE body[r].pc \in {"read", "cache"} \cup Going
    <3>1. body'[r] = [body[r] EXCEPT !.spent = body[r].spent + 1]
      BY <2>2 DEF B!Tick, B!Fetching, B!Uploading, Going
    <3>2. body[r].spent + 1 \in Nat
      BY <2>0
    <3> QED
      BY <2>0, <2>1, <3>1, <3>2 DEF Paths
  <2>3. CASE ~(body[r].pc \in {"read", "cache"} \cup Going)
    <3>1. body'[r] = body[r]
      BY <2>3 DEF B!Tick, B!Fetching, B!Uploading, Going
    <3> QED
      BY <2>0, <2>1, <2>3, <3>1
  <2> QED
    BY <2>2, <2>3
<1>7. body' \in [x.requests -> Paths(x)]
  <2>1. body' = [r \in x.requests |-> body'[r]]
    BY DEF B!Tick
  <2> QED
    BY <1>6, <2>1
<1>8. BodyTyped(x)'
  BY <1>1, <1>2, <1>3, <1>5, <1>7, ZenonT(30) DEF BodyInv, BodyTyped
<1>9. ASSUME NEW o \in B(x)!Own PROVE BodyEntryOK(x, o)'
  <2>1. /\ configCache[o].left \in 0..TTL /\ configCache[o].cfg \in B(x)!Values /\ BodyEntryOK(x, o)
        /\ held[o][configCache[o].cfg] \in 0..B(x)!Cap
    BY <1>1 DEF BodyInv
  <2>2. held'[o][configCache[o].cfg] \in 0..B(x)!Cap /\ held'[o][configCache[o].cfg] <= held[o][configCache[o].cfg] + 1
    BY <1>2, <2>1
  <2>3. configCache'[o].left > 0 /\ held[o][configCache[o].cfg] <= 1 + TTL - configCache[o].left + MaxLookup
            => held'[o][configCache[o].cfg] <= 1 + TTL - configCache'[o].left + MaxLookup
    BY <1>0, <1>4, <2>1, <2>2
  <2> QED
    BY <1>4, <2>1, <2>3 DEF BodyEntryOK
<1>10. ASSUME NEW r \in x.requests PROVE PathOK(x, body[r])'
  <2> DEFINE o == x.owners[body[r].at]
  <2>1. /\ o \in B(x)!Own /\ body[r].cfg \in B(x)!Values /\ body[r].spent \in Nat /\ PathOK(x, body[r])
        /\ held[o][body[r].cfg] \in 0..B(x)!Cap
    BY <1>0, <1>1 DEF BodyInv, Paths
  <2>2. held'[o][body[r].cfg] \in 0..B(x)!Cap /\ held'[o][body[r].cfg] <= held[o][body[r].cfg] + 1
    BY <1>2, <2>1
  <2>3. /\ body[r].pc = "cache" /\ held[o][body[r].cfg] <= 1 + body[r].spent => held'[o][body[r].cfg] <= 1 + body'[r].spent
        /\ body[r].pc \in {"read", "cache"} => body'[r].spent <= MaxLookup
    BY <1>0, <1>6, <2>1, <2>2
  <2>4. body[r].pc \in Going /\ held[o][body[r].cfg] <= 1 + TTL + MaxLookup + body[r].spent
            => body'[r].spent <= MaxUpload /\ held'[o][body[r].cfg] <= 1 + TTL + MaxLookup + body'[r].spent
    BY <1>0, <1>6, <2>1, <2>2
  <2>5. o' = o
    BY <1>6
  <2> QED
    BY <1>1, <1>6, <2>1, <2>3, <2>4, <2>5 DEF PathOK
<1>11. ClosedOK(x)'
  <2>1. ASSUME NEW o \in B(x)!Own, client[o] \in closed, client[o] \notin stuck
        PROVE  Replacing(x, o)'
    <3>1. PICK r \in x.requests : /\ body[r].pc = "create" /\ x.owners[body[r].at] = o
                                  /\ body[r].cfg # bucket[client[o]]
      BY <2>1 DEF BodyInv, ClosedOK, Replacing
    <3> QED
      BY <1>1, <1>6, <3>1 DEF Replacing
  <2>2. ASSUME NEW r \in x.requests, body'[r].pc = "put", body'[r].client \in closed, body'[r].client \notin stuck
        PROVE  Changed(x, x.owners[body[r].at], MaxUpload + body[r].spent)'
    <3> DEFINE o == x.owners[body[r].at]
    <3>1. o \in B(x)!Own /\ body[r].spent \in Nat /\ body'[r].spent = body[r].spent + 1 /\ o = x.owners[body'[r].at]
      BY <1>0, <1>1, <1>6, <2>2 DEF Paths, Going
    <3>2. Changed(x, o, MaxUpload + body[r].spent)
      BY <1>6, <2>2 DEF BodyInv, ClosedOK
    <3>3. PICK v \in B(x)!Values : held[o][v] # 0 /\ held[o][v] <= 1 + TTL + MaxLookup + (MaxUpload + body[r].spent)
      BY <3>2 DEF Changed
    <3>4. held[o][v] \in 0..B(x)!Cap /\ held'[o][v] \in 0..B(x)!Cap /\ held'[o][v] <= held[o][v] + 1 /\ held'[o][v] # 0
      BY <1>1, <1>2, <3>1, <3>3
    <3>5. held'[o][v] <= 1 + TTL + MaxLookup + (MaxUpload + body'[r].spent)
      BY <1>0, <3>1, <3>3, <3>4
    <3> QED
      BY <3>1, <3>4, <3>5 DEF Changed
  <2> QED
    BY <1>1, <2>1, <2>2 DEF ClosedOK
<1>12. OwnClients(x)'
  BY <1>1, <1>6 DEF BodyInv, OwnClients
<1> QED
  BY <1>8, <1>9, <1>10, <1>11, <1>12 DEF BodyInv

\* A new config has no age, the one it replaces the age one, and the others stay.
LEMMA BodyConfigChanges ==
    ASSUME NEW x, B(x)!BodyStorageAssumption, BodyInv(x), NEW o \in B(x)!Own, B(x)!ConfigChanges(o)
    PROVE  BodyInv(x)'
<1>0. /\ TTL \in Nat /\ MaxLookup \in Nat /\ MaxUpload \in Nat /\ B(x)!Cap \in Nat /\ TTL > 0
      /\ B(x)!Cap = TTL + MaxLookup + 2 * MaxUpload + 2
      /\ B(x)!None \in B(x)!Values
      /\ \A i \in DOMAIN x.owners : x.owners[i] \in B(x)!Own
      /\ x.buckets[o] \subseteq B(x)!Values
  BY BodyConstants
<1>1. /\ held \in [B(x)!Own -> [B(x)!Values -> 0..B(x)!Cap]]
      /\ configCache \in [B(x)!Own -> [cfg : B(x)!Values, failed : BOOLEAN, left : 0..TTL]]
      /\ body \in [x.requests -> Paths(x)]
      /\ UNCHANGED <<configCache, client, bucket, closed, stuck, body>>
  BY DEF BodyInv, BodyTyped, B!ConfigChanges
<1>2. PICK v \in x.buckets[o] \ {B(x)!Config(o)} :
          held' = [held EXCEPT ![o] = [w \in B(x)!Values |-> IF w = v THEN 0 ELSE IF held[o][w] = 0 THEN 1 ELSE held[o][w]]]
  BY DEF B!ConfigChanges
\* An age grows only from nothing, to one; the new config's is nothing.
<1>3. ASSUME NEW p \in B(x)!Own, NEW w \in B(x)!Values
      PROVE  /\ held'[p][w] \in 0..B(x)!Cap
             /\ held'[p][w] <= 1 \/ held'[p][w] <= held[p][w]
  <2>1. held[p][w] \in 0..B(x)!Cap /\ 1 <= B(x)!Cap
    BY <1>0, <1>1
  <2>2. CASE p = o
    <3>1. held'[p][w] = IF w = v THEN 0 ELSE IF held[o][w] = 0 THEN 1 ELSE held[o][w]
      BY <1>1, <1>2, <2>2
    <3> QED
      BY <1>0, <2>1, <2>2, <3>1
  <2>3. CASE p # o
    BY <1>1, <1>2, <2>1, <2>3
  <2> QED
    BY <2>2, <2>3
<1>4. held' \in [B(x)!Own -> [B(x)!Values -> 0..B(x)!Cap]]
  <2> DEFINE new == [w \in B(x)!Values |-> IF w = v THEN 0 ELSE IF held[o][w] = 0 THEN 1 ELSE held[o][w]]
  <2>1. new \in [B(x)!Values -> 0..B(x)!Cap]
    BY <1>0, <1>1
  <2>2. held' = [held EXCEPT ![o] = new]
    BY <1>2
  <2> HIDE DEF new
  <2> QED
    BY <1>1, <2>1, <2>2
<1>5. ASSUME NEW p \in B(x)!Own
      PROVE  \E u \in x.buckets[p] \cup {B(x)!None} : \A w \in B(x)!Values : held'[p][w] = 0 <=> w = u
  <2>1. CASE p = o
    <3>1. \A w \in B(x)!Values : held'[o][w] = 0 <=> w = v
      BY <1>1, <1>2
    <3> QED
      BY <1>2, <2>1, <3>1
  <2>2. CASE p # o
    <3>1. held'[p] = held[p]
      BY <1>1, <1>2, <2>2
    <3>2. \E u \in x.buckets[p] \cup {B(x)!None} : \A w \in B(x)!Values : held[p][w] = 0 <=> w = u
      BY DEF BodyInv, BodyTyped
    <3> QED
      BY <3>1, <3>2
  <2> QED
    BY <2>1, <2>2
<1>6. BodyTyped(x)'
  BY <1>1, <1>4, <1>5 DEF BodyInv, BodyTyped
<1>7. ASSUME NEW p \in B(x)!Own PROVE BodyEntryOK(x, p)'
  <2> DEFINE e == configCache[p]
  <2>1. e.cfg \in B(x)!Values /\ e.left \in 0..TTL /\ BodyEntryOK(x, p)
    BY <1>1 DEF BodyInv
  <2>2. /\ held[p][e.cfg] \in 0..B(x)!Cap /\ held'[p][e.cfg] \in 0..B(x)!Cap
        /\ held'[p][e.cfg] <= 1 \/ held'[p][e.cfg] <= held[p][e.cfg]
    BY <1>1, <1>3, <2>1
  <2>3. held[p][e.cfg] <= 1 + TTL - e.left + MaxLookup => held'[p][e.cfg] <= 1 + TTL - e.left + MaxLookup
    BY <1>0, <2>1, <2>2
  <2> QED
    BY <1>1, <2>1, <2>3 DEF BodyEntryOK
<1>8. ASSUME NEW r \in x.requests PROVE PathOK(x, body[r])'
  <2> DEFINE q == body[r]
             p == x.owners[q.at]
  <2>1. p \in B(x)!Own /\ q.cfg \in B(x)!Values /\ q.spent \in Nat /\ PathOK(x, q) /\ q' = q /\ p' = p
    BY <1>0, <1>1 DEF BodyInv, Paths
  <2>2. /\ held[p][q.cfg] \in 0..B(x)!Cap /\ held'[p][q.cfg] \in 0..B(x)!Cap
        /\ held'[p][q.cfg] <= 1 \/ held'[p][q.cfg] <= held[p][q.cfg]
    BY <1>1, <1>3, <2>1
  <2>3. /\ held[p][q.cfg] <= 1 + q.spent => held'[p][q.cfg] <= 1 + q.spent
        /\ held[p][q.cfg] <= 1 + TTL + MaxLookup + q.spent => held'[p][q.cfg] <= 1 + TTL + MaxLookup + q.spent
    BY <1>0, <2>1, <2>2
  <2> QED
    BY <1>1, <2>1, <2>3 DEF PathOK
<1>9. ClosedOK(x)'
  <2>1. ASSUME NEW r \in x.requests, body[r].pc = "put", body[r].client \in closed, body[r].client \notin stuck
        PROVE  Changed(x, x.owners[body[r].at], MaxUpload + body[r].spent)'
    <3> DEFINE p == x.owners[body[r].at]
               old == B(x)!Config(o)
    <3>1. p \in B(x)!Own /\ body[r].spent \in Nat /\ body'[r] = body[r]
      BY <1>0, <1>1 DEF Paths
    <3>2. Changed(x, p, MaxUpload + body[r].spent)
      BY <2>1 DEF BodyInv, ClosedOK
    <3>3. CASE p = o
      <4>1. old \in B(x)!Values /\ held[o][old] = 0 /\ old # v
        BY <1>2, ConfigIs DEF BodyInv
      <4>2. held'[o][old] = 1
        BY <1>1, <1>2, <4>1
      <4>3. held'[o][old] # 0 /\ held'[o][old] <= 1 + TTL + MaxLookup + (MaxUpload + body[r].spent)
        BY <1>0, <3>1, <4>2
      <4> QED
        BY <3>1, <3>3, <4>1, <4>3 DEF Changed
    <3>4. CASE p # o
      <4>1. held'[p] = held[p]
        BY <1>1, <1>2, <3>1, <3>4
      <4> QED
        BY <3>1, <3>2, <4>1 DEF Changed
    <3> QED
      BY <3>3, <3>4
  <2>2. \A r \in x.requests : body'[r].pc = "put" /\ body'[r].client \in closed' =>
            body'[r].client \in stuck' \/ Changed(x, x.owners[body[r].at], MaxUpload + body[r].spent)'
    BY <1>1, <2>1
  <2> QED
    BY <1>1, <2>2 DEF BodyInv, ClosedOK, Replacing
<1>10. OwnClients(x)'
  BY <1>1 DEF BodyInv, OwnClients
<1> QED
  BY <1>6, <1>7, <1>8, <1>9, <1>10 DEF BodyInv

\* The registered client is used, closed or not, or is closed and to be replaced.
LEMMA BodyConnect ==
    ASSUME NEW x, B(x)!BodyStorageAssumption, BodyInv(x), NEW r \in x.requests, B(x)!Connect(r)
    PROVE  BodyInv(x)'
<1> DEFINE q == body[r]
           o == x.owners[q.at]
           c == client[o]
<1>0. /\ TTL \in Nat /\ MaxLookup \in Nat /\ MaxUpload \in Nat /\ B(x)!Cap \in Nat
      /\ \A i \in DOMAIN x.owners : x.owners[i] \in B(x)!Own
  BY BodyConstants
<1>1. /\ q \in Paths(x) /\ q.at \in DOMAIN x.owners /\ o \in B(x)!Own /\ PathOK(x, q) /\ q.pc = "connect"
      /\ held \in [B(x)!Own -> [B(x)!Values -> 0..B(x)!Cap]]
      /\ body \in [x.requests -> Paths(x)] /\ c \in {0} \cup B(x)!Clients
      /\ UNCHANGED <<held, configCache, client, bucket, stuck>>
      /\ configCache \in [B(x)!Own -> [cfg : B(x)!Values, failed : BOOLEAN, left : 0..TTL]]
      /\ \A p \in B(x)!Own : BodyEntryOK(x, p)
  BY <1>0 DEF BodyInv, BodyTyped, Paths, B!Connect
\* What an upload found lately enough to be on its way with it.
<1>2. ASSUME NEW s \in x.requests, body[s].pc \in Going
      PROVE  /\ x.owners[body[s].at] \in B(x)!Own /\ body[s].cfg \in B(x)!Values /\ body[s].spent \in Nat
             /\ held[x.owners[body[s].at]][body[s].cfg] <= 1 + TTL + MaxLookup + MaxUpload
  <2>1. /\ body[s] \in Paths(x) /\ body[s].cfg \in B(x)!Values /\ body[s].spent \in Nat
        /\ x.owners[body[s].at] \in B(x)!Own
    BY <1>0, <1>1 DEF Paths
  <2>2. /\ held[x.owners[body[s].at]][body[s].cfg] <= 1 + TTL + MaxLookup + body[s].spent
        /\ body[s].spent <= MaxUpload
    BY <1>2 DEF BodyInv, PathOK
  <2>3. held[x.owners[body[s].at]][body[s].cfg] \in 0..B(x)!Cap
    BY <1>1, <2>1
  <2> QED
    BY <1>0, <2>1, <2>2, <2>3
<1>3. ASSUME NEW s \in x.requests, NEW t \in x.requests, body[s].pc \in Going, body[t].pc \in Going,
             x.owners[body[s].at] = x.owners[body[t].at], body[s].cfg # body[t].cfg, NEW n \in Nat
      PROVE  Changed(x, x.owners[body[s].at], MaxUpload + n)
  <2> DEFINE p == x.owners[body[s].at]
             v == body[s].cfg
             w == body[t].cfg
  <2>1. /\ p \in B(x)!Own /\ v \in B(x)!Values /\ w \in B(x)!Values /\ v # w
        /\ held[p][v] <= 1 + TTL + MaxLookup + MaxUpload /\ held[p][w] <= 1 + TTL + MaxLookup + MaxUpload
    BY <1>2, <1>3
  <2>2. held[p][v] \in 0..B(x)!Cap /\ held[p][w] \in 0..B(x)!Cap
    BY <1>1, <2>1
  <2>3. /\ held[p][v] <= 1 + TTL + MaxLookup + (MaxUpload + n)
        /\ held[p][w] <= 1 + TTL + MaxLookup + (MaxUpload + n) /\ MaxUpload + n \in Nat
    BY <1>0, <2>1, <2>2
  <2> HIDE DEF p, v, w
  <2>4. Changed(x, p, MaxUpload + n)
    BY <2>1, <2>3, ChangedLately DEF BodyInv
  <2> QED
    BY <2>4 DEF p
<1>4. CASE c # 0 /\ bucket[c] = q.cfg
  <2> DEFINE new == [q EXCEPT !.pc = "put", !.client = c]
  <2>1. body' = [body EXCEPT ![r] = new] /\ closed' = closed
    BY <1>1, <1>4, Zenon DEF B!Connect, B!Owner, B!SameHash
  <2>2. /\ new \in Paths(x) /\ new.pc = "put" /\ new.client = c /\ new.cfg = q.cfg /\ new.spent = q.spent /\ new.at = q.at
        /\ new.early = q.early /\ new.late = q.late
    BY <1>1 DEF Paths, B!Phases
  <2> HIDE DEF new
  <2>3. PathOK(x, new)
    BY <1>1, <1>4, <2>2, Zenon DEF PathOK, Going
  <2>4. \A p \in B(x)!Own : new.client = client[p] => x.owners[new.at] = p
    BY <1>1, <1>4, <2>2 DEF BodyInv, OwnClients
  <2>5. ASSUME c \in closed, c \notin stuck PROVE Changed(x, x.owners[new.at], MaxUpload + new.spent)
    <3>1. PICK s \in x.requests : /\ body[s].pc = "create" /\ x.owners[body[s].at] = o
                                  /\ body[s].cfg # bucket[c]
      BY <1>1, <2>5 DEF BodyInv, ClosedOK, Replacing
    <3>2. q.spent \in Nat
      BY <1>1 DEF Paths
    <3>3. Changed(x, x.owners[body[s].at], MaxUpload + q.spent)
      BY <1>1, <1>3, <1>4, <3>1, <3>2, Zenon DEF Going
    <3> QED
      BY <2>2, <3>1, <3>3
  <2>6. \A p \in B(x)!Own : BodyEntryOK(x, p)'
    BY <1>1 DEF BodyEntryOK
  <2> QED
    BY <1>1, <2>1, <2>2, <2>3, <2>4, <2>5, <2>6, BodyMove
<1>5. CASE ~(c # 0 /\ bucket[c] = q.cfg)
  <2> DEFINE new == [q EXCEPT !.pc = "create"]
  <2>1. /\ body' = [body EXCEPT ![r] = new] /\ closed' \subseteq closed \cup ({c} \ {0}) /\ closed \subseteq closed'
        /\ closed' \subseteq B(x)!Clients
    BY <1>1, <1>5, Zenon DEF B!Connect, B!Owner, B!SameHash, BodyInv, BodyTyped
  <2>2. /\ new \in Paths(x) /\ new.pc = "create" /\ new.client = q.client /\ new.cfg = q.cfg
        /\ new.spent = q.spent /\ new.at = q.at /\ new.early = q.early /\ new.late = q.late
    BY <1>1 DEF Paths, B!Phases
  <2> HIDE DEF new
  <2>3. /\ body' \in [x.requests -> Paths(x)] /\ body'[r] = new
        /\ \A s \in x.requests : s # r => body'[s] = body[s]
    BY <1>1, <2>1, <2>2
  <2>4. BodyTyped(x)'
    BY <1>1, <2>1, <2>3 DEF BodyInv, BodyTyped
  <2>5. \A p \in B(x)!Own : BodyEntryOK(x, p)'
    BY <1>1 DEF BodyEntryOK
  <2>6. PathOK(x, new)
    BY <1>1, <2>2 DEF PathOK, Going
  <2>7. ASSUME NEW s \in x.requests PROVE PathOK(x, body[s])'
    BY <1>1, <2>3, <2>6 DEF BodyInv, PathOK
  <2>8. ASSUME NEW p \in B(x)!Own, client[p] \in closed', client[p] \notin stuck
        PROVE  \E s \in x.requests : /\ body'[s].pc = "create" /\ x.owners[body'[s].at] = p
                                     /\ body'[s].cfg # bucket[client[p]]
    <3>1. CASE client[p] \in closed
      <4>1. PICK s \in x.requests : /\ body[s].pc = "create" /\ x.owners[body[s].at] = p
                                    /\ body[s].cfg # bucket[client[p]]
        BY <2>8, <3>1 DEF BodyInv, ClosedOK, Replacing
      <4> QED
        BY <1>1, <2>3, <4>1
    <3>2. CASE client[p] \notin closed
      <4>1. client[p] = c /\ c # 0
        BY <2>1, <2>8, <3>2
      <4>2. p = o
        BY <1>1, <4>1 DEF BodyInv, OwnClients
      <4> QED
        BY <1>5, <2>2, <2>3, <4>1, <4>2, Zenon
    <3> QED
      BY <3>1, <3>2
  <2>9. ASSUME NEW s \in x.requests, body'[s].pc = "put", body'[s].client \in closed'
        PROVE  /\ body'[s] = body[s]
               /\ body[s].client \in stuck \/ Changed(x, x.owners[body[s].at], MaxUpload + body[s].spent)
    <3>1. s # r /\ body'[s] = body[s] /\ body[s].pc = "put"
      BY <2>2, <2>3, <2>9
    <3>2. CASE body[s].client \in closed
      BY <3>1, <3>2 DEF BodyInv, ClosedOK
    <3>3. CASE body[s].client \notin closed
      <4>1. body[s].client = c /\ c # 0
        BY <2>1, <2>9, <3>1, <3>3
      <4>2. x.owners[body[s].at] = o /\ bucket[c] = body[s].cfg
        BY <1>1, <3>1, <4>1, Zenon DEF BodyInv, OwnClients, PathOK
      <4>3. body[s].spent \in Nat
        BY <1>1 DEF Paths
      <4> QED
        BY <1>1, <1>3, <1>5, <3>1, <4>1, <4>2, <4>3, Zenon DEF Going
    <3> QED
      BY <3>2, <3>3
  <2>10. ClosedOK(x)'
    <3>1. ASSUME NEW s \in x.requests, body'[s].pc = "put", body'[s].client \in closed'
          PROVE  body[s].client \in stuck \/ Changed(x, x.owners[body[s].at], MaxUpload + body[s].spent)'
      BY <1>1, <2>9, <3>1 DEF Changed
    <3>2. \A s \in x.requests : body'[s].pc = "put" /\ body'[s].client \in closed' => body'[s] = body[s]
      BY <2>9
    <3> QED
      BY <1>1, <2>8, <3>1, <3>2 DEF ClosedOK, Replacing
  <2>11. OwnClients(x)'
    BY <1>1, <2>2, <2>3 DEF BodyInv, OwnClients
  <2> QED
    BY <2>4, <2>5, <2>7, <2>10, <2>11 DEF BodyInv
<1> QED
  BY <1>4, <1>5, Zenon

\* The new client was nobody's, so nobody else has or registers it.
LEMMA BodyCreate ==
    ASSUME NEW x, B(x)!BodyStorageAssumption, BodyInv(x), NEW r \in x.requests, B(x)!CreateClient(r)
    PROVE  BodyInv(x)'
<1> DEFINE q == body[r]
           o == x.owners[q.at]
<1>0. B(x)!Clients \subseteq Nat \ {0} /\ \A i \in DOMAIN x.owners : x.owners[i] \in B(x)!Own
  BY BodyConstants
<1>1. /\ q \in Paths(x) /\ q.at \in DOMAIN x.owners /\ o \in B(x)!Own /\ PathOK(x, q) /\ q.pc = "create"
      /\ body \in [x.requests -> Paths(x)] /\ UNCHANGED <<held, configCache>>
      /\ client \in [B(x)!Own -> {0} \cup B(x)!Clients]
      /\ bucket \in [B(x)!Clients -> B(x)!Values]
      /\ closed \subseteq B(x)!Clients /\ stuck \subseteq B(x)!Clients
  BY <1>0 DEF BodyInv, BodyTyped, Paths, B!CreateClient
<1>2. PICK c \in B(x)!Clients \ B(x)!InUse :
          /\ client' = [client EXCEPT ![o] = c]
          /\ bucket' = [bucket EXCEPT ![c] = q.cfg]
          /\ closed' = closed \ {c} /\ stuck' = stuck \ {c}
          /\ body' = [body EXCEPT ![r].pc = "put", ![r].client = c]
  BY DEF B!CreateClient, B!Owner
\* Nobody has the new client yet.
<1>3. /\ c # 0 /\ c \in B(x)!Clients /\ \A p \in B(x)!Own : client[p] # c
      /\ \A s \in x.requests : body[s].client # c
  BY <1>0, <1>2 DEF B!InUse
<1> DEFINE new == [q EXCEPT !.pc = "put", !.client = c]
<1>4. /\ new \in Paths(x) /\ new.pc = "put" /\ new.client = c /\ new.cfg = q.cfg
      /\ new.spent = q.spent /\ new.at = q.at /\ new.early = q.early /\ new.late = q.late
  BY <1>1, <1>3 DEF Paths, B!Phases
<1>5. body' = [body EXCEPT ![r] = new]
  BY <1>1, <1>2
<1> HIDE DEF new
<1>6. /\ body' \in [x.requests -> Paths(x)] /\ body'[r] = new
      /\ \A s \in x.requests : s # r => body'[s] = body[s]
  BY <1>1, <1>4, <1>5
<1>7. /\ client' \in [B(x)!Own -> {0} \cup B(x)!Clients] /\ client'[o] = c
      /\ \A p \in B(x)!Own : p # o => client'[p] = client[p]
  BY <1>1, <1>2, <1>3
<1>8. /\ bucket' \in [B(x)!Clients -> B(x)!Values] /\ bucket'[c] = q.cfg
      /\ \A d \in B(x)!Clients : d # c => bucket'[d] = bucket[d]
  <2>1. q.cfg \in B(x)!Values
    BY <1>1 DEF Paths
  <2> QED
    BY <1>1, <1>2, <1>3, <2>1
<1>9. BodyTyped(x)'
  BY <1>1, <1>2, <1>6, <1>7, <1>8 DEF BodyInv, BodyTyped
<1>10. \A p \in B(x)!Own : BodyEntryOK(x, p)'
  BY <1>1 DEF BodyInv, BodyEntryOK
<1>11. ASSUME NEW s \in x.requests PROVE PathOK(x, body[s])'
  <2>1. CASE s = r
    BY <1>1, <1>3, <1>4, <1>6, <1>8, <2>1 DEF PathOK, Going
  <2>2. CASE s # r
    <3>1. PathOK(x, body[s]) /\ body[s] \in Paths(x) /\ body[s].client \in {0} \cup B(x)!Clients
      BY <1>1 DEF BodyInv, Paths
    <3>2. body[s].client # 0 => bucket'[body[s].client] = bucket[body[s].client]
      BY <1>3, <1>8, <3>1
    <3> QED
      BY <1>1, <1>6, <2>2, <3>1, <3>2 DEF PathOK
  <2> QED
    BY <2>1, <2>2
<1>12. ASSUME NEW p \in B(x)!Own, client'[p] \in closed', client'[p] \notin stuck'
       PROVE  Replacing(x, p)'
  <2>1. p # o /\ client'[p] = client[p] /\ client[p] \in closed /\ client[p] \notin stuck
    BY <1>2, <1>3, <1>7, <1>12
  <2>2. PICK s \in x.requests : /\ body[s].pc = "create" /\ x.owners[body[s].at] = p
                                /\ body[s].cfg # bucket[client[p]]
    BY <2>1 DEF BodyInv, ClosedOK, Replacing
  <2>3. s # r /\ bucket'[client[p]] = bucket[client[p]]
    BY <1>1, <1>3, <1>8, <2>1, <2>2
  <2> QED
    BY <1>6, <2>1, <2>2, <2>3 DEF Replacing
<1>13. ASSUME NEW s \in x.requests, body'[s].pc = "put", body'[s].client \in closed'
       PROVE  /\ body'[s] = body[s]
              /\ body[s].client \in stuck' \/ Changed(x, x.owners[body[s].at], MaxUpload + body[s].spent)'
  <2>1. s # r /\ body'[s] = body[s] /\ body[s].client \in closed /\ body[s].client # c
    BY <1>2, <1>3, <1>4, <1>6, <1>13
  <2>2. body[s].client \in stuck' \/ Changed(x, x.owners[body[s].at], MaxUpload + body[s].spent)
    BY <1>2, <1>13, <2>1 DEF BodyInv, ClosedOK
  <2> QED
    BY <1>1, <2>1, <2>2 DEF Changed
<1>14. ClosedOK(x)'
  <2>1. \A s \in x.requests : body'[s].pc = "put" /\ body'[s].client \in closed' => body'[s] = body[s]
    BY <1>13
  <2>2. \A s \in x.requests : body'[s].pc = "put" /\ body'[s].client \in closed' =>
            body[s].client \in stuck' \/ Changed(x, x.owners[body[s].at], MaxUpload + body[s].spent)'
    BY <1>13
  <2> QED
    BY <1>12, <2>1, <2>2 DEF ClosedOK
<1>15. OwnClients(x)'
  <2>1. ASSUME NEW p \in B(x)!Own, NEW p2 \in B(x)!Own, client'[p] = client'[p2], client'[p] # 0
        PROVE  p = p2
    BY <1>3, <1>7, <2>1 DEF BodyInv, OwnClients
  <2>2. ASSUME NEW s \in x.requests, NEW p \in B(x)!Own, body'[s].pc = "put", body'[s].client = client'[p]
        PROVE  x.owners[body'[s].at] = p
    <3>1. CASE s = r
      BY <1>3, <1>4, <1>6, <1>7, <2>2, <3>1
    <3>2. CASE s # r
      <4>1. body'[s] = body[s] /\ body[s].client # c
        BY <1>3, <1>6, <3>2
      <4>2. p # o /\ client'[p] = client[p]
        BY <1>7, <2>2, <4>1
      <4> QED
        BY <2>2, <4>1, <4>2 DEF BodyInv, OwnClients
    <3> QED
      BY <3>1, <3>2
  <2> QED
    BY <2>1, <2>2 DEF OwnClients
<1> QED
  BY <1>9, <1>10, <1>11, <1>14, <1>15 DEF BodyInv

\* What is left registered and closed is stuck; other owners' clients are untouched.
LEMMA BodyCreateFails ==
    ASSUME NEW x, B(x)!BodyStorageAssumption, BodyInv(x), NEW r \in x.requests, B(x)!CreateFails(r)
    PROVE  BodyInv(x)'
<1> DEFINE q == body[r]
           o == x.owners[q.at]
           new == [B(x)!Idle EXCEPT !.at = q.at, !.early = q.early, !.pc = "failed"]
<1>1. /\ q \in Paths(x) /\ o \in B(x)!Own /\ PathOK(x, q) /\ q.pc = "create"
      /\ body \in [x.requests -> Paths(x)] /\ UNCHANGED <<held, configCache, client, bucket, closed>>
      /\ closed \subseteq B(x)!Clients /\ stuck \subseteq B(x)!Clients
  BY BodyConstants DEF BodyInv, BodyTyped, Paths, B!CreateFails
<1>2. stuck' = stuck \cup (closed \cap {client[o]}) /\ body' = [body EXCEPT ![r] = new]
  BY DEF B!CreateFails, B!Failed, B!Owner
<1>3. new \in Paths(x) /\ PathOK(x, new) /\ new.pc = "failed"
  BY <1>1, BodyFailed
<1> HIDE DEF new
<1>4. /\ body' \in [x.requests -> Paths(x)] /\ body'[r] = new
      /\ \A s \in x.requests : s # r => body'[s] = body[s]
  BY <1>1, <1>2, <1>3
<1>5. BodyTyped(x)'
  BY <1>1, <1>2, <1>4 DEF BodyInv, BodyTyped
<1>6. \A p \in B(x)!Own : BodyEntryOK(x, p)'
  BY <1>1 DEF BodyInv, BodyEntryOK
<1>7. \A s \in x.requests : PathOK(x, body[s])'
  BY <1>1, <1>3, <1>4 DEF BodyInv, PathOK, Going
<1>8. ClosedOK(x)'
  <2>1. ASSUME NEW p \in B(x)!Own, client[p] \in closed, client[p] \notin stuck'
        PROVE  Replacing(x, p)'
    <3>1. p # o /\ client[p] \notin stuck
      BY <1>2, <2>1
    <3>2. PICK s \in x.requests : /\ body[s].pc = "create" /\ x.owners[body[s].at] = p
                                  /\ body[s].cfg # bucket[client[p]]
      BY <2>1, <3>1 DEF BodyInv, ClosedOK, Replacing
    <3> QED
      BY <1>1, <1>4, <3>1, <3>2 DEF Replacing
  <2>2. ASSUME NEW s \in x.requests, body'[s].pc = "put", body'[s].client \in closed
        PROVE  body'[s].client \in stuck' \/ Changed(x, x.owners[body'[s].at], MaxUpload + body'[s].spent)
    <3>1. s # r /\ body'[s] = body[s]
      BY <1>3, <1>4, <2>2
    <3> QED
      BY <1>2, <2>2, <3>1 DEF BodyInv, ClosedOK
  <2> QED
    BY <1>1, <2>1, <2>2 DEF ClosedOK, Changed
<1>9. OwnClients(x)'
  BY <1>1, <1>3, <1>4 DEF BodyInv, OwnClients
<1> QED
  BY <1>5, <1>6, <1>7, <1>8, <1>9 DEF BodyInv

LEMMA BodyStep ==
    ASSUME NEW x, B(x)!BodyStorageAssumption, BodyInv(x), [B(x)!Next]_(B(x)!vars)
    PROVE  BodyInv(x)'
<1>1. ASSUME UNCHANGED B(x)!vars PROVE BodyInv(x)'
  BY <1>1 DEF B!vars, BodyInv, BodyTyped, BodyEntryOK, PathOK, ClosedOK, Replacing, OwnClients, Changed
<1>2. ASSUME NEW o \in B(x)!Own, B(x)!ConfigChanges(o) PROVE BodyInv(x)'
  BY <1>2, BodyConfigChanges
<1>3. ASSUME NEW r \in x.requests,
             \/ B(x)!LogRequest(r) \/ B(x)!GetConfig(r) \/ B(x)!GetCloudStorageConfig(r)
             \/ B(x)!CacheConfig(r) \/ B(x)!Put(r) \/ B(x)!UploadFails(r)
      PROVE  BodyInv(x)'
  BY <1>3, BodyRequestSteps
<1>4. ASSUME NEW r \in x.requests, B(x)!Connect(r) PROVE BodyInv(x)'
  BY <1>4, BodyConnect
<1>5. ASSUME NEW r \in x.requests, B(x)!CreateClient(r) PROVE BodyInv(x)'
  BY <1>5, BodyCreate
<1>6. ASSUME NEW r \in x.requests, B(x)!CreateFails(r) PROVE BodyInv(x)'
  BY <1>6, BodyCreateFails
<1>7. ASSUME B(x)!Tick PROVE BodyInv(x)'
  BY <1>7, BodyTick
<1> QED
  BY <1>1, <1>2, <1>3, <1>4, <1>5, <1>6, <1>7 DEF B!Next

-----------------------------------------------------------------------------
(***************************************************************************)
(* A behaviour of one of the parts.                                        *)
(***************************************************************************)
IInv ==
    /\ part = "keys" => KeyInv
    /\ part = "proxyKeys" => ProxyInv
    /\ part = "experiments" => RouterInv
    /\ part = "activeKeys" => ActiveInv
    /\ part = "pricing" => MP!IInv
    /\ part = "chain" => BodyInv(Chain)
    /\ part = "uploads" => BodyInv(Uploads)
    /\ part = "handler" => HandlerInv
    /\ part = "usage" => UsageInv

Safe == /\ TypeOK /\ CredentialsAreFresh /\ RoutedAsPublished /\ WrongOnlyByRaceOrFailure /\ PricesFollowTheLists
        /\ BodiesGoWhereTheyBelong /\ TagsTellWhatWasSent /\ UsageLostOnlyByCut

LEMMA InitIInv == MCInit => IInv
<1> SUFFICES ASSUME MCInit PROVE IInv
  OBVIOUS
<1>1. part = "keys" => KeyInv
  BY KeyInit, MCServingAssumption DEF MCInit
<1>2. part = "proxyKeys" => ProxyInv
  BY ProxyInit, MCServingAssumption DEF MCInit
<1>3. part = "experiments" => RouterInv
  BY RouterInit, MCServingAssumption DEF MCInit
<1>4. part = "activeKeys" => ActiveInv
  BY ActiveInit, MCServingAssumption DEF MCInit
<1>5. part = "pricing" => MP!IInv
  BY PriceInit DEF MCInit
<1>6. part = "chain" => BodyInv(Chain)
  BY BodyInit, MCServingAssumption DEF MCInit
<1>7. part = "uploads" => BodyInv(Uploads)
  BY BodyInit, MCServingAssumption DEF MCInit
<1>8. part = "handler" => HandlerInv
  BY HandlerInit DEF MCInit
<1>9. part = "usage" => UsageInv
  BY UsageInit DEF MCInit
<1> QED
  BY <1>1, <1>2, <1>3, <1>4, <1>5, <1>6, <1>7, <1>8, <1>9 DEF IInv

LEMMA NextIInv == IInv /\ [MCNext]_MCvars => IInv'
<1> SUFFICES ASSUME IInv, [MCNext]_MCvars PROVE IInv'
  OBVIOUS
<1>0. part' = part
  BY DEF MCNext, MCvars
<1>1. ASSUME part = "keys" PROVE KeyInv'
  <2>1. [K!Next]_(K!vars)
    BY <1>1 DEF MCNext, MCvars, K!vars
  <2> QED
    BY <1>1, <2>1, KeyStep, MCServingAssumption DEF IInv
<1>2. ASSUME part = "proxyKeys" PROVE ProxyInv'
  <2>1. [P!Next]_(P!vars)
    BY <1>2 DEF MCNext, MCvars, P!vars
  <2> QED
    BY <1>2, <2>1, ProxyStep, MCServingAssumption DEF IInv
<1>3. ASSUME part = "experiments" PROVE RouterInv'
  <2>1. [E!Next]_(E!vars)
    BY <1>3 DEF MCNext, MCvars, E!vars
  <2> QED
    BY <1>3, <2>1, RouterStep, MCServingAssumption DEF IInv
<1>4. ASSUME part = "activeKeys" PROVE ActiveInv'
  <2>1. [A!Next]_(A!vars)
    BY <1>4 DEF MCNext, MCvars, A!vars
  <2> QED
    BY <1>4, <2>1, ActiveStep, MCServingAssumption DEF IInv
<1>5. ASSUME part = "pricing" PROVE MP!IInv'
  <2>1. [M!Next]_(M!vars)
    BY <1>5 DEF MCNext, MCvars, M!vars
  <2> QED
    BY <1>5, <2>1, PriceStep DEF IInv
<1>6. ASSUME part = "chain" PROVE BodyInv(Chain)'
  <2>1. [B(Chain)!Next]_(B(Chain)!vars)
    BY <1>6 DEF MCNext, MCvars, B!vars
  <2> QED
    BY <1>6, <2>1, BodyStep, MCServingAssumption DEF IInv
<1>7. ASSUME part = "uploads" PROVE BodyInv(Uploads)'
  <2>1. [B(Uploads)!Next]_(B(Uploads)!vars)
    BY <1>7 DEF MCNext, MCvars, B!vars
  <2> QED
    BY <1>7, <2>1, BodyStep, MCServingAssumption DEF IInv
<1>8. ASSUME part = "handler" PROVE HandlerInv'
  <2>1. [H!Next]_(H!vars)
    BY <1>8 DEF MCNext, MCvars, H!vars
  <2> QED
    BY <1>8, <2>1, HandlerStep, MCServingAssumption DEF IInv
<1>9. ASSUME part = "usage" PROVE UsageInv'
  <2>1. [S!Next]_(S!vars)
    BY <1>9 DEF MCNext, MCvars, S!vars
  <2> QED
    BY <1>9, <2>1, UsageStep DEF IInv
<1> QED
  BY <1>0, <1>1, <1>2, <1>3, <1>4, <1>5, <1>6, <1>7, <1>8, <1>9 DEF IInv

LEMMA UsageImplies == UsageInv => S!TypeOK /\ S!UsageLostOnlyByCut
  BY DEF UsageInv

LEMMA KeyImplies == KeyInv => K!TypeOK /\ K!AnswersAreFresh
  BY DEF KeyInv

LEMMA IInvImplies == IInv => Safe
<1> SUFFICES ASSUME IInv PROVE Safe
  OBVIOUS
<1>1. part = "keys" => K!TypeOK /\ K!AnswersAreFresh
  BY KeyImplies DEF IInv
<1>2. part = "proxyKeys" => P!TypeOK /\ P!GrantsAreFresh
  BY ProxyImplies DEF IInv
<1>3. part = "experiments" => E!TypeOK /\ E!RoutedAsPublished
  BY RouterImplies DEF IInv
<1>4. part = "activeKeys" => A!TypeOK /\ A!WrongOnlyByRaceOrFailure
  BY ActiveImplies DEF IInv
<1>5. part = "pricing" => M!TypeOK /\ M!PricesFollowTheLists
  BY PriceImplies, MCServingAssumption DEF IInv
<1>6. part = "chain" => B(Chain)!TypeOK /\ B(Chain)!BodiesGoWhereTheyBelong
  BY BodyImplies DEF IInv
<1>7. part = "uploads" => B(Uploads)!TypeOK /\ B(Uploads)!BodiesGoWhereTheyBelong
  BY BodyImplies DEF IInv
<1>8. part = "handler" => H!TypeOK /\ H!TagsTellWhatWasSent
  BY HandlerImplies DEF IInv
<1>9. part = "usage" => S!TypeOK /\ S!UsageLostOnlyByCut
  BY UsageImplies DEF IInv
<1>10. TypeOK
  BY <1>1, <1>2, <1>3, <1>4, <1>5, <1>6, <1>7, <1>8, <1>9 DEF TypeOK
<1>11. CredentialsAreFresh
  BY <1>1, <1>2 DEF CredentialsAreFresh
<1>12. RoutedAsPublished /\ WrongOnlyByRaceOrFailure /\ PricesFollowTheLists
  BY <1>3, <1>4, <1>5 DEF RoutedAsPublished, WrongOnlyByRaceOrFailure, PricesFollowTheLists
<1>13. BodiesGoWhereTheyBelong
  BY <1>6, <1>7 DEF BodiesGoWhereTheyBelong
<1>14. TagsTellWhatWasSent /\ UsageLostOnlyByCut
  BY <1>8, <1>9 DEF TagsTellWhatWasSent, UsageLostOnlyByCut
<1> QED
  BY <1>10, <1>11, <1>12, <1>13, <1>14 DEF Safe

LEMMA Invariance == MCSpec => []Safe
<1>1. MCInit => IInv
  BY InitIInv
<1>2. IInv /\ [MCNext]_MCvars => IInv'
  BY NextIInv
<1>3. IInv => Safe
  BY IInvImplies
<1> QED
  BY <1>1, <1>2, <1>3, PTL DEF MCSpec

\* The state of every part keeps its type.
THEOREM TypeCorrect == MCSpec => []TypeOK
<1>1. Safe => TypeOK
  BY DEF Safe
<1> QED
  BY <1>1, Invariance, PTL

\* No Majordomo key and no provider key that was revoked or replaced is used for longer
\* than a cache entry and a lookup last, but for the revived mappings ProxyKeys names.
THEOREM RevokedKeysStop == MCSpec => []CredentialsAreFresh
<1>1. Safe => CredentialsAreFresh
  BY DEF Safe
<1> QED
  BY <1>1, Invariance, PTL

\* No request is routed by an experiment that ended, or to an arm that lost its traffic,
\* longer ago than that, unless the last list had to serve because a read failed.
THEOREM ExperimentsEnd == MCSpec => []RoutedAsPublished
<1>1. Safe => RoutedAsPublished
  BY DEF Safe
<1> QED
  BY <1>1, Invariance, PTL

\* A set of active keys that is wrong comes from a failed read, or from a change in the
\* middle of a read, and not from one long ago.
THEOREM ActiveKeysAreExplained == MCSpec => []WrongOnlyByRaceOrFailure
<1>1. Safe => WrongOnlyByRaceOrFailure
  BY DEF Safe
<1> QED
  BY <1>1, Invariance, PTL

\* PricingProofs' theorem, of the part that prices.
THEOREM PricesAreOfTheLists == MCSpec => []PricesFollowTheLists
<1>1. Safe => PricesFollowTheLists
  BY DEF Safe
<1> QED
  BY <1>1, Invariance, PTL

\* A body is passed on to the next owner, put to a bucket or lost on a closed client only
\* where the configs of the last entry's, query's and uploads' time account for it, and a
\* Claude Code body is never in the row.
THEOREM BodiesAreStored == MCSpec => []BodiesGoWhereTheyBelong
<1>1. Safe => BodiesGoWhereTheyBelong
  BY DEF Safe
<1> QED
  BY <1>1, Invariance, PTL

\* Where the model is in the body, the row's tags tell which one was sent and which asked for.
THEOREM RowsTellTheModel == MCSpec => []TagsTellWhatWasSent
<1>1. Safe => TagsTellWhatWasSent
  BY DEF Safe
<1> QED
  BY <1>1, Invariance, PTL

\* A row is charged with what the stream had counted when it ended, with less only if a
\* line was too long, the cut went through a Bedrock frame or Gemini answered with a
\* stream of events, and never with more.
THEOREM StreamsAreCharged == MCSpec => []UsageLostOnlyByCut
<1>1. Safe => UsageLostOnlyByCut
  BY DEF Safe
<1> QED
  BY <1>1, Invariance, PTL
=============================================================================
