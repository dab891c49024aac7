------------------------------- MODULE ActiveKeys ------------------------------
(***************************************************************************)
(* Whether one metadata key of one API key is indexed: its is_active in    *)
(* llm_requests_metadata_keys, and the ActiveKeysCache that the log writer *)
(* asks for every row.  A change updates the row and then invalidates the  *)
(* cache; a fetch reads the table outside the lock and stores its answer   *)
(* afterwards, whatever was invalidated meanwhile.                         *)
(***************************************************************************)
EXTENDS Integers

CONSTANTS
    Writers,      \* who inserts rows
    TTL,          \* the cache's ttl
    MaxFetch      \* the longest a fetch takes

ActiveKeysAssumption == TTL \in Nat \ {0} /\ MaxFetch \in Nat

VARIABLES
    active,     \* is_active of the key
    since,      \* history: the time since it last changed
    changing,   \* a change has been made whose invalidation is still to come
    cache,      \* the cached answer, if there is one
    get         \* per writer: its call of GetActiveKeys

vars == <<active, since, changing, cache, get>>

Cap     == TTL + MaxFetch + 1
Answers == [active : BOOLEAN, crossed : BOOLEAN, failed : BOOLEAN]
NoEntry == [active |-> FALSE, crossed |-> FALSE, failed |-> FALSE, left |-> 0]
Idle    == [pc |-> "idle", spent |-> 0, ans |-> [active |-> FALSE, crossed |-> FALSE, failed |-> FALSE],
            wrong |-> FALSE, amid |-> FALSE, age |-> 0]

TypeOK ==
    /\ {active, changing} \subseteq BOOLEAN
    /\ since \in 0..Cap
    /\ cache \in [active : BOOLEAN, crossed : BOOLEAN, failed : BOOLEAN, left : 0..TTL]
    /\ get \in [Writers -> [pc : {"idle", "fetch", "store", "answered"}, spent : 0..MaxFetch,
                            ans : Answers, wrong : BOOLEAN, amid : BOOLEAN, age : 0..Cap]]

Init ==
    /\ active \in BOOLEAN
    /\ since = Cap
    /\ changing = FALSE
    /\ cache = NoEntry
    /\ get = [w \in Writers |-> Idle]

(***************************************************************************)
(* ActivateMetadataKey and DeactivateMetadataKey.                          *)
(***************************************************************************)
SetActive(on) ==
    /\ ~changing /\ active # on
    /\ active' = on /\ since' = 0 /\ changing' = TRUE
    /\ UNCHANGED <<cache, get>>

ActivateMetadataKey   == SetActive(TRUE)
DeactivateMetadataKey == SetActive(FALSE)

NothingToInvalidate ==   \* mutant: the entry stays
    /\ changing /\ changing' = FALSE
    /\ UNCHANGED <<active, since, cache, get>>

InvalidateAPIKey ==
    /\ changing /\ changing' = FALSE
    /\ cache' = NoEntry
    /\ get' = [w \in Writers |-> IF get[w].pc = "store" THEN [get[w] EXCEPT !.ans.crossed = TRUE] ELSE get[w]]
    /\ UNCHANGED <<active, since>>

(***************************************************************************)
(* GetActiveKeys.                                                          *)
(***************************************************************************)
Fetching(w) == get[w].pc \in {"fetch", "store"}

Tick ==
    /\ \A w \in Writers : Fetching(w) => get[w].spent < MaxFetch
    /\ since' = IF since < Cap THEN since + 1 ELSE Cap
    /\ cache' = IF cache.left > 1 THEN [cache EXCEPT !.left = @ - 1] ELSE NoEntry
    /\ get' = [w \in Writers |-> IF Fetching(w) THEN [get[w] EXCEPT !.spent = @ + 1] ELSE get[w]]
    /\ UNCHANGED <<active, changing>>

\* History: whether the answer is wrong, since when, and whether a change is being made.
Return(w, ans) ==
    get' = [get EXCEPT ![w] = IF ans.active = active THEN [Idle EXCEPT !.pc = "answered"]
                              ELSE [Idle EXCEPT !.pc = "answered", !.ans = ans, !.wrong = TRUE,
                                                !.amid = changing, !.age = since]]

Cached == [active |-> cache.active, crossed |-> cache.crossed, failed |-> cache.failed]

GetActiveKeys(w) ==
    /\ ~Fetching(w)
    /\ IF cache.left > 0 THEN Return(w, Cached)
       ELSE get' = [get EXCEPT ![w] = [Idle EXCEPT !.pc = "fetch"]]
    /\ UNCHANGED <<active, since, changing, cache>>

\* A failed query answers with no active key at all, and a row that cannot be scanned
\* is skipped, which comes to the same for the one key; rows.Err() ends the call.
FetchActiveKeys(w) ==
    /\ get[w].pc = "fetch"
    /\ get' \in { [get EXCEPT ![w].pc = "store", ![w].ans.active = active],
                  [get EXCEPT ![w].pc = "store", ![w].ans.failed = TRUE],
                  [get EXCEPT ![w] = Idle] }
    /\ UNCHANGED <<active, since, changing, cache>>

Store(w) ==
    LET ans == get[w].ans IN
    /\ get[w].pc = "store"
    /\ cache' = [active |-> ans.active, crossed |-> ans.crossed, failed |-> ans.failed, left |-> TTL]
    /\ Return(w, ans)
    /\ UNCHANGED <<active, since, changing>>

Next ==
    \/ ActivateMetadataKey \/ DeactivateMetadataKey \/ InvalidateAPIKey \/ Tick
    \/ \E w \in Writers : GetActiveKeys(w) \/ FetchActiveKeys(w) \/ Store(w)

Spec == Init /\ [][Next]_vars
-----------------------------------------------------------------------------
\* A row is indexed by the keys active when it is written, with three exceptions:
\* while a change has not been followed by its invalidation, after a fetch that an
\* invalidation overtook, which is at most a TTL and a fetch old, and after a fetch
\* that failed, for as long as its empty answer stays.
WrongOnlyByRaceOrFailure ==
    \A w \in Writers : get[w].wrong =>
        \/ get[w].ans.failed
        \/ (get[w].amid \/ get[w].ans.crossed) /\ get[w].age <= TTL + MaxFetch
=============================================================================
