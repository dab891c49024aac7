------------------------------ MODULE WorkTicker ------------------------------
(***************************************************************************)
(* The work ticker of an org: it claims jobs at Butler, copies down what   *)
(* each one asks for -- changed API keys and experiments behind a cursor,  *)
(* cloud storage configs and provider keys as a whole, a replay or eval    *)
(* run with its set and items -- and acks or fails the job.  Every call    *)
(* and statement can fail, the tick's deadline can pass, and the process   *)
(* can die between any two steps.                                          *)
(*                                                                         *)
(* A row is a version number, at Butler and in the local tables.  Butler   *)
(* is not part of this repository: that it offers a job again whose        *)
(* steward never answered is an assumption.                                *)
(***************************************************************************)
EXTENDS Naturals, FiniteSets

CONSTANTS
    Jobs,
    KeyRows, ExpRows, CloudRows, ProvRows,   \* rows, by table
    ReplayRuns, EvalRuns, SetOf(_), ItemsOf(_),
    Present,        \* rows without a stamp that Butler has from the start
    Configured,     \* the job types whose syncer is not nil
    PageSize,       \* limit of the cursor syncers' GETs
    WorkTickLimit,  \* config: jobs claimed per tick
    MaxWrites,      \* bound on the changes made at Butler
    MaxOffers,      \* bound on the times jobs are offered
    MaxFaults,      \* bound on failing calls and statements
    MaxDeaths       \* bound on process deaths and restarts of the workers

CursorTypes   == {"sync_api_keys", "sync_experiments"}
SnapshotTypes == {"sync_cloud_storage", "sync_provider_keys"}
Works == CursorTypes \cup SnapshotTypes \cup ReplayRuns \cup EvalRuns \cup {"unknown"}

Bundle(run) == {SetOf(run), run} \cup ItemsOf(run)

Tables == [sync_api_keys |-> KeyRows, sync_experiments |-> ExpRows, sync_cloud_storage |-> CloudRows,
           sync_provider_keys |-> ProvRows, unknown |-> {}]

RowsOf(w) ==
    IF w \in DOMAIN Tables THEN Tables[w]
    ELSE IF w \in EvalRuns THEN Bundle(w) ELSE {w}

Rows == UNION {RowsOf(w) : w \in Works}

ASSUME WorkTickerAssumption ==
    /\ {PageSize, WorkTickLimit} \subseteq Nat \ {0}
    /\ {MaxWrites, MaxOffers, MaxFaults, MaxDeaths} \subseteq Nat
    /\ Configured \subseteq CursorTypes \cup SnapshotTypes
    /\ Present \cap (KeyRows \cup ExpRows) = {}

\* A row is in one table, but eval runs of the same set share it and its items; runs
\* are not named like a job type; a run that is there has its set and items.
ASSUME WorkTickerTables ==
    /\ \A v, w \in Works : v # w /\ RowsOf(v) \cap RowsOf(w) # {} => {v, w} \subseteq EvalRuns
    /\ (ReplayRuns \cup EvalRuns) \cap DOMAIN Tables = {} /\ ReplayRuns \cap EvalRuns = {}
    /\ \A run \in EvalRuns :
          /\ SetOf(run) \notin EvalRuns /\ ItemsOf(run) \cap EvalRuns = {}
          /\ run \in Present => Bundle(run) \subseteq Present

VARIABLES
    butler,   \* Butler's rows: version, updated_at, and whether credentials are there
    jobs,     \* Butler's queue: each job's status and what it asks for
    local,    \* the local tables: version of each row, 0 if there is none
    wt,       \* the WorkTicker goroutine
    cursor,   \* KeySyncer.cursor, ExperimentSyncer.cursor
    owed,     \* history: the versions a job's claim asked for
    missed,   \* history: the last version of a row that a cursor has passed over, or
              \* that came without credentials
    offers, writes, faults, deaths

vars == <<butler, jobs, local, wt, cursor, owed, missed, offers, writes, faults, deaths>>

NoRows == [r \in {} |-> 0]
Off  == [pc |-> "off", stop |-> FALSE, items |-> {}, job |-> {}, cur |-> 0, got |-> NoRows,
         ok |-> FALSE, expired |-> FALSE]
Idle == [Off EXCEPT !.pc = "wait"]

InTick == wt.pc \in {"work", "dispatch", "page", "get", "write", "mark"}
TheJob == CHOOSE j \in wt.job : TRUE
Work   == jobs[TheJob].work

TypeOK ==
    /\ butler \in [Rows -> [ver : 0..MaxWrites + 1, at : 0..MaxWrites, ok : BOOLEAN]]
    /\ jobs \in [Jobs -> [status : {"idle", "pending", "claimed", "acked", "failed"},
                          work : Works]]
    /\ local \in [Rows -> Nat] /\ \A r \in Rows : local[r] <= butler[r].ver
    /\ DOMAIN wt = DOMAIN Off
    /\ wt.pc \in {"off", "wait", "work", "dispatch", "page", "get", "write", "mark"}
    /\ wt.items \subseteq Jobs /\ wt.job \subseteq Jobs \ wt.items
    /\ Cardinality(wt.job) = IF wt.pc \in {"page", "get", "write", "mark"} THEN 1 ELSE 0
    /\ wt.got # NoRows => wt.pc \in {"page", "write"} /\ DOMAIN wt.got \subseteq RowsOf(Work)
    /\ cursor \in [CursorTypes -> 0..MaxWrites]
    /\ owed \in [Jobs -> SUBSET (Rows \X Nat)] /\ missed \in [Rows -> Nat]
    /\ offers \in 0..MaxOffers /\ writes \in 0..MaxWrites /\ faults \in 0..MaxFaults /\ deaths \in 0..MaxDeaths

Init ==
    /\ butler = [r \in Rows |-> [ver |-> IF r \in Present THEN 1 ELSE 0, at |-> 0, ok |-> TRUE]]
    /\ jobs \in [Jobs -> [status : {"idle"}, work : Works]]
    /\ local = [r \in Rows |-> 0]
    /\ wt = Off
    /\ cursor = [w \in CursorTypes |-> 0]
    /\ owed = [j \in Jobs |-> {}]
    /\ missed = [r \in Rows |-> 0]
    /\ offers = 0 /\ writes = 0 /\ faults = 0 /\ deaths = 0

Fault == faults < MaxFaults /\ faults' = faults + 1

\* A call made after the tick's deadline fails; any other call may.
Fails == IF wt.expired THEN UNCHANGED faults ELSE Fault
Succeeds == ~wt.expired /\ UNCHANGED faults

(***************************************************************************)
(* Butler.                                                                 *)
(***************************************************************************)
Passed(w) == IF InTick /\ wt.job # {} /\ Work = w /\ wt.cur > cursor[w] THEN wt.cur ELSE cursor[w]

\* A row of a table that some job asks for is changed and stamped: later than all
\* others of its table, like the last one, or, committed late, before it.  An eval
\* item, which is no more than its set and its request, is added but never changed.
Change(w, r) ==
    /\ r \in RowsOf(w)
    /\ (\E run \in EvalRuns : r \in ItemsOf(run)) => butler[r].ver = 0
    /\ r \in EvalRuns => \A s \in Bundle(r) \ {r} : butler[s].ver > 0
    /\ writes < MaxWrites
    /\ writes' = writes + 1
    /\ \E at \in {writes, writes + 1}, ok \in IF w \in SnapshotTypes THEN BOOLEAN ELSE {TRUE} :
          /\ at > 0
          /\ butler' = [butler EXCEPT ![r] = [ver |-> @.ver + 1, at |-> at, ok |-> ok]]
          /\ missed' = IF ~ok \/ (w \in CursorTypes /\ at <= Passed(w))
                       THEN [missed EXCEPT ![r] = butler[r].ver + 1] ELSE missed
    /\ UNCHANGED <<offers, jobs, local, wt, cursor, owed, faults, deaths>>

\* A job is enqueued, retried, or offered again as nobody answered for it.
Offer(j) ==
    /\ jobs[j].status \in {"idle", "claimed", "failed"}
    /\ offers < MaxOffers
    /\ offers' = offers + 1
    /\ jobs' = [jobs EXCEPT ![j].status = "pending"]
    /\ UNCHANGED <<butler, local, wt, cursor, owed, missed, writes, faults, deaths>>

\* The versions that a steward which serves the job now has to have in the end.
Asked(w) == {<<r, butler[r].ver>> : r \in {s \in RowsOf(w) : butler[s].ver > 0 /\ butler[s].ok}}

(***************************************************************************)
(* Start, Stop and the select of run; the deadline; death.                 *)
(***************************************************************************)
\* New syncers start with a zero cursor.
Start ==
    /\ wt.pc = "off"
    /\ wt' = Idle
    /\ cursor' = [w \in CursorTypes |-> 0]
    /\ UNCHANGED <<offers, butler, jobs, local, owed, missed, writes, faults, deaths>>

Stop ==
    /\ wt.pc # "off" /\ ~wt.stop /\ deaths < MaxDeaths
    /\ deaths' = deaths + 1
    /\ wt' = [wt EXCEPT !.stop = TRUE]
    /\ UNCHANGED <<offers, butler, jobs, local, cursor, owed, missed, writes, faults>>

\* The goroutine looks at stopCh only between ticks.
SeeStop ==
    /\ wt.pc = "wait" /\ wt.stop
    /\ wt' = Off
    /\ UNCHANGED <<offers, butler, jobs, local, cursor, owed, missed, writes, faults, deaths>>

Tick ==
    /\ wt.pc = "wait"
    /\ wt' = [wt EXCEPT !.pc = "work"]
    /\ UNCHANGED <<offers, butler, jobs, local, cursor, owed, missed, writes, faults, deaths>>

\* Five minutes for the whole tick, however many jobs it has.
Expire ==
    /\ InTick /\ ~wt.expired /\ Fault
    /\ wt' = [wt EXCEPT !.expired = TRUE]
    /\ UNCHANGED <<offers, butler, jobs, local, cursor, owed, missed, writes, deaths>>

Die ==
    /\ wt.pc # "off" /\ deaths < MaxDeaths
    /\ deaths' = deaths + 1
    /\ wt' = Off
    /\ UNCHANGED <<offers, butler, jobs, local, cursor, owed, missed, writes, faults>>

(***************************************************************************)
(* fetchWork: Butler claims the jobs whether or not its reply arrives.     *)
(***************************************************************************)
Pending == {j \in Jobs : jobs[j].status = "pending"}

fetchWork ==
    /\ wt.pc = "work"
    /\ \/ /\ Fails
          /\ wt' = [Idle EXCEPT !.stop = wt.stop]
          /\ UNCHANGED <<jobs, owed>>
       \/ /\ ~wt.expired
          /\ \E J \in SUBSET Pending :
                /\ Cardinality(J) <= WorkTickLimit
                /\ Cardinality(J) = WorkTickLimit \/ J = Pending
                /\ jobs' = [j \in Jobs |-> IF j \in J THEN [jobs[j] EXCEPT !.status = "claimed"] ELSE jobs[j]]
                /\ owed' = [j \in Jobs |-> IF j \in J THEN Asked(jobs[j].work) ELSE owed[j]]
                /\ \/ /\ UNCHANGED faults
                      /\ wt' = IF J = {} THEN [Idle EXCEPT !.stop = wt.stop]
                               ELSE [wt EXCEPT !.pc = "dispatch", !.items = J]
                   \/ Fault /\ J # {} /\ wt' = [Idle EXCEPT !.stop = wt.stop]
    /\ UNCHANGED <<offers, butler, local, cursor, missed, writes, deaths>>

(***************************************************************************)
(* tick and dispatch: the jobs one after the other.                        *)
(***************************************************************************)
ResultWithRows(ok) == wt' = [wt EXCEPT !.pc = "mark", !.ok = ok]   \* mutant: the records stay
ErrorSkipsMark(ok) ==   \* mutant: continue before markResult
    wt' = IF ok THEN [wt EXCEPT !.pc = "mark", !.ok = TRUE, !.got = NoRows, !.cur = 0]
          ELSE IF wt.items = {} THEN [Idle EXCEPT !.stop = wt.stop]
          ELSE [Idle EXCEPT !.stop = wt.stop, !.pc = "dispatch", !.items = wt.items, !.expired = wt.expired]
Result(ok) == wt' = [wt EXCEPT !.pc = "mark", !.ok = ok, !.got = NoRows, !.cur = 0]

\* An unknown type, or a syncer that is nil.
CanDispatch(w) == w # "unknown" /\ (w \in CursorTypes \cup SnapshotTypes => w \in Configured)

dispatch(j) ==
    /\ wt.pc = "dispatch" /\ j \in wt.items
    /\ LET w    == jobs[j].work
           mine == [wt EXCEPT !.items = @ \ {j}, !.job = {j}] IN
       wt' = IF ~CanDispatch(w) THEN [mine EXCEPT !.pc = "mark", !.ok = FALSE]
             ELSE IF w \in CursorTypes THEN [mine EXCEPT !.pc = "page", !.cur = cursor[w]]
             ELSE [mine EXCEPT !.pc = "get"]
    /\ UNCHANGED <<offers, butler, jobs, local, cursor, owed, missed, writes, faults, deaths>>

\* Ack or fail, once and for all: nobody looks at what becomes of the POST.
markResult ==
    /\ wt.pc = "mark"
    /\ \/ /\ Succeeds
          /\ jobs' = [jobs EXCEPT ![TheJob].status =
                         IF @ \in {"pending", "claimed"} THEN (IF wt.ok THEN "acked" ELSE "failed") ELSE @]
       \/ Fails /\ UNCHANGED jobs
    /\ wt' = IF wt.items = {} THEN [Idle EXCEPT !.stop = wt.stop]
             ELSE [wt EXCEPT !.pc = "dispatch", !.job = {}]
    /\ UNCHANGED <<offers, butler, local, cursor, owed, missed, writes, deaths>>

(***************************************************************************)
(* The fetches.                                                            *)
(***************************************************************************)
\* updated_after=cursor, by updated_at, at most PageSize of them.
After(w, c) == {r \in RowsOf(w) : butler[r].ver > 0 /\ butler[r].at > c}
Pages(w, c) == {P \in SUBSET After(w, c) :
                  /\ Cardinality(P) <= PageSize
                  /\ Cardinality(P) = PageSize \/ P = After(w, c)
                  /\ \A r \in P, q \in After(w, c) \ P : butler[r].at <= butler[q].at}

Latest(c, P) == CHOOSE m \in {c} \cup {butler[r].at : r \in P} : \A r \in P : butler[r].at <= m
Read(P)      == [r \in P \cup DOMAIN wt.got |-> IF r \in P THEN butler[r].ver ELSE wt.got[r]]

FetchPage(w, P) ==
    LET last == Cardinality(P) < PageSize
        c    == Latest(wt.cur, P)
        got  == Read(P) IN
    /\ wt' = IF ~last THEN [wt EXCEPT !.got = got, !.cur = c]
             ELSE IF got = NoRows THEN [wt EXCEPT !.pc = "mark", !.ok = TRUE, !.cur = 0]
             ELSE [wt EXCEPT !.got = got, !.cur = c, !.pc = "write"]
    /\ missed' = [r \in Rows |-> IF r \in After(w, wt.cur) \ P /\ butler[r].at <= c
                               THEN butler[r].ver ELSE missed[r]]

Fetch(w) ==
    \/ Succeeds /\ \E P \in Pages(w, wt.cur) : FetchPage(w, P)
    \/ Fails /\ Result(FALSE) /\ UNCHANGED missed

KeySyncerFetch        == wt.pc = "page" /\ Work = "sync_api_keys" /\ Fetch(Work)
ExperimentSyncerFetch == wt.pc = "page" /\ Work = "sync_experiments" /\ Fetch(Work)

\* The table as a whole.  Rows without credentials are skipped; a failing
\* encryption fails the job.
WithCredentials(S) == {r \in S : butler[r].ver > 0 /\ butler[r].ok}
Got(P) == IF P = {} THEN Result(TRUE)
          ELSE wt' = [wt EXCEPT !.pc = "write", !.got = [r \in P |-> butler[r].ver]]

CloudStorageSyncerFetch ==
    /\ wt.pc = "get" /\ Work = "sync_cloud_storage"
    /\ (Succeeds /\ Got(WithCredentials(CloudRows))) \/ (Fails /\ Result(FALSE))

ProviderKeySyncerFetch ==
    /\ wt.pc = "get" /\ Work = "sync_provider_keys"
    /\ (Succeeds /\ Got(WithCredentials(ProvRows))) \/ (Fails /\ Result(FALSE))

FetchReplayRun ==
    /\ wt.pc = "get" /\ Work \in ReplayRuns
    /\ \/ Succeeds /\ butler[Work].ver > 0 /\ Got({Work})
       \/ Succeeds /\ butler[Work].ver = 0 /\ Result(FALSE)   \* 404
       \/ Fails /\ Result(FALSE)

FetchEvalRun ==
    /\ wt.pc = "get" /\ Work \in EvalRuns
    /\ \/ Succeeds /\ butler[Work].ver > 0 /\ Got(Bundle(Work))
       \/ Succeeds /\ butler[Work].ver = 0 /\ Result(FALSE)
       \/ Fails /\ Result(FALSE)

(***************************************************************************)
(* The upserts: which rows the next statement or transaction writes.       *)
(***************************************************************************)
InHand == DOMAIN wt.got

UpsertAPIKeys             == {{r} : r \in InHand}   \* a statement each, no transaction
UpsertExperiments         == {InHand}               \* one transaction, arms included
UpsertCloudStorageConfigs == {InHand}
UpsertBatch               == {InHand}
UpsertReplayRun           == {InHand}
ExecuteEvalRunFirst(run) == IF run \in InHand THEN {{run}} ELSE {InHand}   \* mutant
\* The set, its items, then the run, a statement each.  A stored item is left alone:
\* it is the one in hand.
ExecuteEval(run) ==
    IF SetOf(run) \in InHand THEN {{SetOf(run)}}
    ELSE IF InHand \cap ItemsOf(run) # {} THEN {{i} : i \in InHand \cap ItemsOf(run)}
    ELSE {InHand}

Statements ==
    IF Work = "sync_api_keys" THEN UpsertAPIKeys
    ELSE IF Work = "sync_experiments" THEN UpsertExperiments
    ELSE IF Work = "sync_cloud_storage" THEN UpsertCloudStorageConfigs
    ELSE IF Work = "sync_provider_keys" THEN UpsertBatch
    ELSE IF Work \in ReplayRuns THEN UpsertReplayRun
    ELSE ExecuteEval(Work)

AdvanceAnyhow(finished) ==   \* mutant: the upsert's error is looked at too late
    cursor' = IF Work \in CursorTypes THEN [cursor EXCEPT ![Work] = wt.cur] ELSE cursor
\* "The cursor advances only on a successful upsert."
Advance(finished) ==
    cursor' = IF finished /\ Work \in CursorTypes THEN [cursor EXCEPT ![Work] = wt.cur] ELSE cursor

Write ==
    /\ wt.pc = "write"
    /\ \/ \E S \in Statements :
          /\ Succeeds
          /\ local' = [r \in Rows |-> IF r \in S THEN wt.got[r] ELSE local[r]]
          /\ Advance(S = InHand)
          /\ IF S = InHand THEN Result(TRUE)
             ELSE wt' = [wt EXCEPT !.got = [r \in InHand \ S |-> wt.got[r]]]
       \/ Fails /\ Advance(FALSE) /\ Result(FALSE) /\ UNCHANGED local
    /\ UNCHANGED <<offers, butler, jobs, owed, missed, writes, deaths>>

Sync ==
    \/ KeySyncerFetch /\ UNCHANGED <<offers, butler, jobs, local, cursor, owed, writes, deaths>>
    \/ ExperimentSyncerFetch /\ UNCHANGED <<offers, butler, jobs, local, cursor, owed, writes, deaths>>
    \/ /\ CloudStorageSyncerFetch \/ ProviderKeySyncerFetch \/ FetchReplayRun \/ FetchEvalRun
       /\ UNCHANGED <<offers, butler, jobs, local, cursor, owed, missed, writes, deaths>>
    \/ Write

TickerStep == Start \/ SeeStop \/ Tick \/ fetchWork \/ (\E j \in Jobs : dispatch(j)) \/ Sync \/ markResult

Next ==
    \/ TickerStep \/ Stop \/ Expire \/ Die
    \/ \E j \in Jobs : Offer(j) \/ \E r \in Rows : Change(jobs[j].work, r)

Spec == Init /\ [][Next]_vars

\* The goroutine runs and its ticker ticks; workers that were stopped are started
\* again; Butler offers a claimed job again if nobody answers for it.
Fairness == WF_vars(TickerStep) /\ \A j \in Jobs : WF_vars(jobs[j].status = "claimed" /\ Offer(j))

FairSpec == Spec /\ Fairness
-----------------------------------------------------------------------------
\* A job's work is in effect when every version it asked for is in the local
\* tables, or was passed over by a cursor (a row committed late or in the same
\* instant as the last row of a page), or its row has lost its credentials.
InEffect(j) == \A x \in owed[j] : local[x[1]] >= x[2] \/ missed[x[1]] >= x[2]

Queue == INSTANCE JobQueue WITH
            status <- [j \in Jobs |-> jobs[j].status],
            done   <- {j \in Jobs : InEffect(j)}
\* "Ack each successful item, fail each errored item": a job is acked only when
\* what it asked for at its claim is here, through partial upserts, lost replies,
\* a deadline in mid-tick and restarts; and nothing once in effect is undone.
ImplementsJobQueue == Queue!Spec

\* The worker never claims an eval run whose set or items are not here yet.
RunComesWithItsSet ==
    \A run \in EvalRuns : local[run] > 0 => \A s \in Bundle(run) : local[s] > 0

\* A job that is offered is acked or failed in the end: at its first claim if
\* nothing fails, and otherwise for as long as Butler goes on to offer it.
JobsSettle ==
    \A j \in Jobs :
        jobs[j].status = "pending" ~>
            \/ jobs[j].status \in {"acked", "failed"}
            \/ offers = MaxOffers /\ faults + deaths > 0
=============================================================================
