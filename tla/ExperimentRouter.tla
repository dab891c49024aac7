---------------------------- MODULE ExperimentRouter ---------------------------
(***************************************************************************)
(* One experiment of one org: its rows in experiments and experiment_arms, *)
(* the router's cache of what ListActiveExperiments returned, and the      *)
(* choice of an arm.  The query is two statements, and neither the window  *)
(* nor the status is looked at again while the cached answer lives.        *)
(***************************************************************************)
EXTENDS Integers, Sequences

CONSTANTS
    Weightings,    \* the weights an experiment's arms may have, in the order the query returns them
    Requests,      \* concurrent requests that match the experiment's key and filters
    TTL,           \* cacheTTL
    MaxFetch       \* the longest a query takes

ExperimentRouterAssumption ==
    /\ TTL \in Nat \ {0} /\ MaxFetch \in Nat
    /\ \A w \in Weightings : w \in Seq(Nat)

VARIABLES
    on,          \* the experiment is active and in its window
    weights,     \* of its arms
    sinceOn,     \* history: the time since "on" last changed
    sinceArms,   \* history: the time since arms last came to or left those to choose from
    cache,       \* the cached list: of this experiment or empty, if there is one
    req          \* per request: its call of Route

vars == <<on, weights, sinceOn, sinceArms, cache, req>>

Cap == TTL + MaxFetch + 1
Ages == 0..Cap
Listed  == [on : BOOLEAN, weights : Weightings \cup {<<>>}]
Nothing == [on |-> FALSE, weights |-> <<>>]
NoCache == [list |-> Nothing, left |-> -1]
Idle    == [pc |-> "idle", spent |-> 0, list |-> Nothing, arm |-> 0, failed |-> FALSE, offFor |-> 0, goneFor |-> 0]

TypeOK ==
    /\ on \in BOOLEAN /\ weights \in Weightings
    /\ sinceOn \in Ages /\ sinceArms \in Ages
    /\ cache \in [list : Listed, left : -1..TTL]
    /\ \A r \in Requests : /\ req[r].pc \in {"idle", "list", "arms", "store", "routed", "passed"}
                           /\ req[r].spent \in 0..MaxFetch /\ req[r].list \in Listed

Init ==
    /\ on \in BOOLEAN /\ weights \in Weightings
    /\ sinceOn = Cap /\ sinceArms = Cap
    /\ cache = NoCache
    /\ req = [r \in Requests |-> Idle]

(***************************************************************************)
(* The table.                                                              *)
(***************************************************************************)
ToChoose(w) == {i \in DOMAIN w : w[i] > 0}

\* One transaction for the experiment and its arms.
UpsertExperiments ==
    /\ \E o \in BOOLEAN, w \in Weightings :
          /\ on' = o /\ sinceOn' = IF o = on THEN sinceOn ELSE 0
          /\ weights' = w /\ sinceArms' = IF ToChoose(w) = ToChoose(weights) THEN sinceArms ELSE 0
    /\ UNCHANGED <<cache, req>>

\* Its window begins or ends.
Window ==
    /\ on' = ~on /\ sinceOn' = 0
    /\ UNCHANGED <<weights, sinceArms, cache, req>>

Asking(r) == req[r].pc \in {"list", "arms", "store"}
Older(a)  == IF a < Cap THEN a + 1 ELSE Cap

Tick ==
    /\ \A r \in Requests : Asking(r) => req[r].spent < MaxFetch
    /\ sinceOn' = Older(sinceOn) /\ sinceArms' = Older(sinceArms)
    /\ cache' = [cache EXCEPT !.left = IF @ > 0 THEN @ - 1 ELSE @]
    /\ req' = [r \in Requests |-> IF Asking(r) THEN [req[r] EXCEPT !.spent = @ + 1] ELSE req[r]]
    /\ UNCHANGED <<on, weights>>

(***************************************************************************)
(* selectArm: draw a number below the total weight, and give it to the     *)
(* first arm that brings the sum of the weights above it.                  *)
(***************************************************************************)
SumTo(w, i) == LET sum[k \in 0..Len(w)] == IF k = 0 THEN 0 ELSE sum[k - 1] + w[k] IN sum[i]

Reaches(w, i, n) == SumTo(w, i) > n

SelectArm(w, n) == CHOOSE i \in DOMAIN w : Reaches(w, i, n) /\ \A j \in 1..i - 1 : ~Reaches(w, j, n)

\* Every arm is drawn for as many numbers as its weight says.
ArmsGetTheirShare ==
    \A w \in Weightings : \A i \in DOMAIN w :
        LET total == SumTo(w, Len(w)) IN
        {n \in 0..total - 1 : SelectArm(w, n) = i} = SumTo(w, i - 1)..SumTo(w, i) - 1

(***************************************************************************)
(* Route.                                                                  *)
(***************************************************************************)
\* The experiment is skipped if it is not listed, or has no arm to choose.
RouteTo(r, list, failed) ==
    LET total == SumTo(list.weights, Len(list.weights)) IN
    IF ~list.on \/ total <= 0 THEN req' = [req EXCEPT ![r] = [Idle EXCEPT !.pc = "passed"]]
    ELSE \E n \in 0..total - 1 :
            LET a == SelectArm(list.weights, n) IN
            req' = [req EXCEPT ![r] = [Idle EXCEPT !.pc = "routed", !.arm = a, !.failed = failed,
                                                   !.offFor = IF on THEN 0 ELSE sinceOn,
                                                   !.goneFor = IF a \in ToChoose(weights) THEN 0 ELSE sinceArms]]

Hit == cache.left > 0

Route(r) ==
    /\ ~Asking(r)
    /\ IF Hit THEN RouteTo(r, cache.list, FALSE)
       ELSE req' = [req EXCEPT ![r] = [Idle EXCEPT !.pc = "list"]]
    /\ UNCHANGED <<on, weights, sinceOn, sinceArms, cache>>

\* The list that is cached is used for as long as the query fails.
StaleOnError(r) == RouteTo(r, cache.list, TRUE)
StaleRenewed(r) == cache' = [cache EXCEPT !.left = TTL]

QueryFailsRenewing(r) ==   \* mutant: the stale list counts as fetched now
    /\ req[r].pc \in {"list", "arms"}
    /\ StaleOnError(r) /\ StaleRenewed(r)
    /\ UNCHANGED <<on, weights, sinceOn, sinceArms>>

QueryFails(r) ==
    /\ req[r].pc \in {"list", "arms"}
    /\ StaleOnError(r)
    /\ UNCHANGED <<on, weights, sinceOn, sinceArms, cache>>

ListActiveExperiments(r) ==
    /\ req[r].pc = "list"
    /\ req' = [req EXCEPT ![r].pc = IF on THEN "arms" ELSE "store", ![r].list.on = on]
    /\ UNCHANGED <<on, weights, sinceOn, sinceArms, cache>>

FetchArms(r) ==
    /\ req[r].pc = "arms"
    /\ req' = [req EXCEPT ![r].pc = "store", ![r].list.weights = weights]
    /\ UNCHANGED <<on, weights, sinceOn, sinceArms, cache>>

Store(r) ==
    /\ req[r].pc = "store"
    /\ cache' = [list |-> req[r].list, left |-> TTL]
    /\ RouteTo(r, req[r].list, FALSE)
    /\ UNCHANGED <<on, weights, sinceOn, sinceArms>>

Next ==
    \/ UpsertExperiments \/ Window \/ Tick
    \/ \E r \in Requests : Route(r) \/ QueryFails(r) \/ ListActiveExperiments(r) \/ FetchArms(r) \/ Store(r)

Spec == Init /\ [][Next]_vars
-----------------------------------------------------------------------------
\* A request goes to an experiment that is over, or to an arm that was taken out or
\* weighted down to nothing, only for a TTL and a query, unless the query failed for
\* this very request: a failure gives the stale list no new life.  The two halves of
\* the list are read apart, so that either may be older than the other.
RoutedAsPublished ==
    \A r \in Requests : req[r].pc = "routed" =>
        req[r].failed \/ (req[r].offFor <= TTL + MaxFetch /\ req[r].goneFor <= TTL + MaxFetch)
=============================================================================
