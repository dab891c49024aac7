--------------------------- MODULE ResultsReporter ---------------------------
(***************************************************************************)
(* Replay and eval runs: Butler sends a run down, the co-located worker    *)
(* claims it and writes results, scores, a summary and a final status, and *)
(* a ResultsReporter per org sends all of that back, with synced_at in the *)
(* tables as its only memory.                                              *)
(*                                                                         *)
(* A row is a version number: what Butler gets to see is the version that  *)
(* was read, what is marked is the row whatever its version has become.    *)
(* The worker is not part of this repository: its steps are the write      *)
(* operations that the repositories offer it, in the order their comments  *)
(* give.                                                                   *)
(***************************************************************************)
EXTENDS Naturals, FiniteSets

CONSTANTS
    Orgs,
    ReplayRuns, ReplayResults, EvalRuns, EvalResults, Scores,   \* rows, by table
    Parent(_),        \* a result's run, a score's result
    BatchSize,        \* reporterBatchSize
    ScoreBatchSize,   \* 4 * reporterBatchSize
    MaxScoreVersion,  \* bound on re-evaluations of a score
    MaxFaults,        \* bound on failing statements and calls
    MaxDeaths         \* bound on process deaths

Runs    == ReplayRuns \cup EvalRuns
Results == ReplayResults \cup EvalResults
Rows    == Runs \cup Results \cup Scores

ASSUME ResultsReporterAssumption ==
    /\ {BatchSize, ScoreBatchSize} \subseteq Nat \ {0}
    /\ {MaxScoreVersion, MaxFaults, MaxDeaths} \subseteq Nat
    /\ \A x \in ReplayResults : Parent(x) \in ReplayRuns
    /\ \A x \in EvalResults : Parent(x) \in EvalRuns
    /\ \A s \in Scores : Parent(s) \in EvalResults
    /\ Scores \cap (Runs \cup Results) = {}

\* Versions of a run; any other row starts at version 1 and only scores go on.
Absent  == 0
Pending == 1
Running == 2
Summed  == 3   \* UpdateRunSummary
Ended   == 4   \* completed or failed

VARIABLES
    version,   \* the tables: the version of each row
    unsynced,  \* runs with synced_at NULL or < updated_at, others with synced_at NULL
    seen,      \* the versions of each row that Butler has ingested
    rr,        \* per org: the ResultsReporter goroutine
    raced,     \* history: rows changed between a reporter's fetch and its mark
    faults, deaths

vars == <<version, unsynced, seen, rr, raced, faults, deaths>>

\* flushAll goes through the tables in this order.
Table == <<ReplayRuns, ReplayResults, EvalRuns, EvalResults>>

None == [x \in {} |-> 0]
Off  == [pc |-> "off", cat |-> 1, batch |-> None, scores |-> None, stop |-> FALSE, final |-> FALSE]

TypeOK ==
    /\ version \in [Rows -> Nat]
    /\ unsynced \subseteq {x \in Rows : version[x] # Absent}
    /\ seen \in [Rows -> SUBSET Nat]
    /\ raced \subseteq Rows
    /\ faults \in 0..MaxFaults
    /\ deaths \in 0..MaxDeaths
    /\ \A o \in Orgs :
          /\ DOMAIN rr[o] = DOMAIN Off
          /\ rr[o].pc \in {"off", "wait", "fetch", "scores", "post", "mark", "markScores", "done"}
          /\ rr[o].cat \in DOMAIN Table
          /\ DOMAIN rr[o].batch \subseteq Table[rr[o].cat]
          /\ DOMAIN rr[o].scores \subseteq {s \in Scores : Parent(s) \in DOMAIN rr[o].batch}
          /\ DOMAIN rr[o].batch # {} <=> rr[o].pc \in {"scores", "post", "mark", "markScores"}
          /\ rr[o].pc = "scores" => Table[rr[o].cat] = EvalResults

Init ==
    /\ version = [x \in Rows |-> Absent]
    /\ unsynced = {}
    /\ seen = [x \in Rows |-> {}]
    /\ rr = [o \in Orgs |-> Off]
    /\ raced = {}
    /\ faults = 0
    /\ deaths = 0

Fault == faults < MaxFaults /\ faults' = faults + 1

(***************************************************************************)
(* Butler's jobs and the worker.  Every write leaves the row unsynced:     *)
(* updated_at = now(), or synced_at NULL.                                  *)
(***************************************************************************)
InBatch(x) == \E o \in Orgs : x \in DOMAIN rr[o].batch \cup DOMAIN rr[o].scores

WriteOfSynced(x, v) ==   \* mutant: the conflict branch leaves synced_at alone
    /\ version' = [version EXCEPT ![x] = v]
    /\ unsynced' = IF version[x] = Absent THEN unsynced \cup {x} ELSE unsynced
    /\ raced' = IF InBatch(x) /\ v # version[x] THEN raced \cup {x} ELSE raced
    /\ UNCHANGED <<seen, rr, faults, deaths>>

Write(x, v) ==
    /\ version' = [version EXCEPT ![x] = v]
    /\ unsynced' = unsynced \cup {x}
    /\ raced' = IF InBatch(x) /\ v # version[x] THEN raced \cup {x} ELSE raced
    /\ UNCHANGED <<seen, rr, faults, deaths>>

\* UpsertReplayRun, UpsertEvalRun: a run that is already here keeps its status.
UpsertRun(r) == Write(r, IF version[r] = Absent THEN Pending ELSE version[r])

\* ClaimPendingReplayRun, ClaimPendingEvalRun
ClaimPendingRun(r) == version[r] = Pending /\ Write(r, Running)

InsertResult(x) ==
    /\ version[Parent(x)] = Running
    /\ version[x] = Absent
    /\ Write(x, 1)

\* ON CONFLICT DO UPDATE: scoring again is a new version.
InsertEvalResultScore(s) ==
    /\ version[Parent(s)] = 1
    /\ version[Parent(Parent(s))] = Running
    /\ version[s] < MaxScoreVersion
    /\ Write(s, version[s] + 1)

UpdateRunSummary(r) == version[r] = Running /\ Write(r, Summed)

\* UpdateReplayRunStatus, UpdateEvalRunStatus with "completed" or "failed"
EndRun(r) == version[r] \in {Running, Summed} /\ Write(r, Ended)

Worker ==
    \/ \E r \in Runs : ClaimPendingRun(r) \/ UpdateRunSummary(r) \/ EndRun(r)
    \/ \E x \in Results : InsertResult(x)
    \/ \E s \in Scores : InsertEvalResultScore(s)

(***************************************************************************)
(* Start, Stop and run.                                                    *)
(***************************************************************************)
Set(o, new) ==
    /\ rr' = [rr EXCEPT ![o] = new]
    /\ UNCHANGED <<version, raced, deaths>>

Start(o) ==
    /\ rr[o].pc = "off"
    /\ Set(o, [Off EXCEPT !.pc = "wait"])
    /\ UNCHANGED <<unsynced, seen, faults>>

Stop(o) ==
    /\ rr[o].pc # "off"
    /\ ~rr[o].stop
    /\ Set(o, [rr[o] EXCEPT !.stop = TRUE])
    /\ UNCHANGED <<unsynced, seen, faults>>

\* The ticker fires, or stopCh is closed: flushAll.
FlushAll(o) ==
    /\ rr[o].pc = "wait"
    /\ \E last \in {FALSE, rr[o].stop} :
          Set(o, [rr[o] EXCEPT !.pc = "fetch", !.cat = 1, !.final = last])
    /\ UNCHANGED <<unsynced, seen, faults>>

Stopped(o) ==
    /\ rr[o].pc = "done"
    /\ rr[o].stop
    /\ Set(o, Off)
    /\ UNCHANGED <<unsynced, seen, faults>>

(***************************************************************************)
(* flushReplayRuns, flushReplayResults, flushEvalRuns, flushEvalResults:   *)
(* one page of each table, whatever became of the table before.            *)
(***************************************************************************)
After(o) == IF rr[o].cat < 4 THEN "fetch" ELSE IF rr[o].final THEN "done" ELSE "wait"

FirstTable(o) ==   \* mutant: every table begins the flush again
    [rr[o] EXCEPT !.pc = "fetch", !.cat = 1, !.batch = None, !.scores = None]

NextTableWithBatch(o) ==   \* mutant: the batch of one table is in hand at the next
    [rr[o] EXCEPT !.pc     = After(o),
                  !.cat    = IF @ < 4 THEN @ + 1 ELSE 1]

NextTable(o) ==
    [rr[o] EXCEPT !.pc     = After(o),
                  !.cat    = IF @ < 4 THEN @ + 1 ELSE 1,
                  !.batch  = None,
                  !.scores = None]

\* SELECT of at most limit unsynced rows of S.  No org is named.
Selected(S, limit) ==
    {T \in SUBSET (S \cap unsynced) :
        Cardinality(T) = IF Cardinality(S \cap unsynced) < limit
                         THEN Cardinality(S \cap unsynced) ELSE limit}

Read(T) == [x \in T |-> version[x]]

FetchUnsynced(o) ==
    /\ rr[o].pc = "fetch"
    /\ LET rows == Table[rr[o].cat] IN
       \/ /\ \E T \in Selected(rows, BatchSize) :
                Set(o, IF T = {} THEN NextTable(o)
                       ELSE [rr[o] EXCEPT !.pc    = IF rows = EvalResults THEN "scores" ELSE "post",
                                          !.batch = Read(T)])
          /\ UNCHANGED faults
       \/ Fault /\ Set(o, NextTable(o))
    /\ UNCHANGED <<unsynced, seen>>

PostWithoutScores(o) == [rr[o] EXCEPT !.pc = "post"]   \* mutant: no `return`
ScoresFailed(o) == NextTable(o)

\* All unsynced scores, bucketed by result: those of other results are ignored.
FetchUnsyncedScores(o) ==
    /\ rr[o].pc = "scores"
    /\ \/ /\ \E T \in Selected(Scores, ScoreBatchSize) :
                Set(o, [rr[o] EXCEPT !.pc = "post",
                                     !.scores = Read({s \in T : Parent(s) \in DOMAIN rr[o].batch})])
          /\ UNCHANGED faults
       \/ Fault /\ Set(o, ScoresFailed(o))
    /\ UNCHANGED <<unsynced, seen>>

\* Butler ingests what was read.
Ingest(o) ==
    LET sent == DOMAIN rr[o].batch \cup DOMAIN rr[o].scores
        what(x) == IF x \in DOMAIN rr[o].batch THEN rr[o].batch[x] ELSE rr[o].scores[x]
    IN  seen' = [x \in Rows |-> IF x \in sent THEN seen[x] \cup {what(x)} ELSE seen[x]]

PostOfAnyStatus(o) ==   \* mutant: the reply is not looked at
    /\ rr[o].pc = "post"
    /\ Set(o, [rr[o] EXCEPT !.pc = "mark"])
    /\ \/ Ingest(o) /\ UNCHANGED faults
       \/ Fault /\ UNCHANGED <<seen>>
    /\ UNCHANGED unsynced

Post(o) ==
    /\ rr[o].pc = "post"
    /\ \/ Ingest(o) /\ Set(o, [rr[o] EXCEPT !.pc = "mark"]) /\ UNCHANGED faults
       \/ Ingest(o) /\ Set(o, NextTable(o)) /\ Fault                      \* the reply is lost
       \/ Set(o, NextTable(o)) /\ Fault /\ UNCHANGED <<seen>>
    /\ UNCHANGED unsynced

\* UPDATE ... SET synced_at = now() WHERE id = ANY($1), the versions unread.
MarkSynced(o) ==
    /\ rr[o].pc = "mark"
    /\ \/ unsynced' = unsynced \ DOMAIN rr[o].batch /\ UNCHANGED faults
       \/ Fault /\ UNCHANGED unsynced
    /\ Set(o, IF DOMAIN rr[o].scores = {} THEN NextTable(o) ELSE [rr[o] EXCEPT !.pc = "markScores"])
    /\ UNCHANGED <<seen>>

MarkScoresSynced(o) ==
    /\ rr[o].pc = "markScores"
    /\ \/ unsynced' = unsynced \ DOMAIN rr[o].scores /\ UNCHANGED faults
       \/ Fault /\ UNCHANGED unsynced
    /\ Set(o, NextTable(o))
    /\ UNCHANGED <<seen>>

Crash ==
    /\ deaths < MaxDeaths
    /\ deaths' = deaths + 1
    /\ rr' = [o \in Orgs |-> Off]
    /\ UNCHANGED <<version, unsynced, seen, raced, faults>>

Reporter(o) ==
    \/ Start(o) \/ FlushAll(o) \/ Stopped(o)
    \/ FetchUnsynced(o) \/ FetchUnsyncedScores(o) \/ Post(o) \/ MarkSynced(o) \/ MarkScoresSynced(o)

Next ==
    \/ \E r \in Runs : UpsertRun(r)
    \/ Worker
    \/ \E o \in Orgs : Reporter(o) \/ Stop(o)
    \/ Crash

Spec == Init /\ [][Next]_vars

\* The reporters' goroutines run, and are started again after a stop or a death.
\* Nothing is assumed of Butler's jobs or of the worker.
FairSpec == Spec /\ \A o \in Orgs : WF_vars(Reporter(o))
-----------------------------------------------------------------------------
\* "Crash-safe": what is marked synced is at Butler, unless the row changed while
\* a reporter had an older version of it in hand.
LostOnlyByRace ==
    \A x \in Rows : (version[x] # Absent /\ x \notin unsynced)
                    => (version[x] \in seen[x] \/ x \in raced)

\* Every result reaches Butler, whatever fails in the tables before its own.
ResultsAreReported ==
    \A x \in Results : (version[x] # Absent) ~> (seen[x] # {})

\* The final status of a run that no flush raced with reaches Butler.
UnracedEndIsReported ==
    \A r \in Runs : (version[r] = Ended) ~> (Ended \in seen[r] \/ r \in raced)

\* "Replay runs whose status/summary has been updated since the last sync" are
\* sent: so the final status of every run is.
EveryEndIsReported ==
    \A r \in Runs : (version[r] = Ended) ~> (Ended \in seen[r])

\* More scores are unsynced than one fetch returns.
Crowded == Cardinality(Scores \cap unsynced) > ScoreBatchSize

\* A score that was there before its result was read reaches Butler with it, unless
\* the fetch could not hold all scores.  (A score that comes after its result does
\* not: the code calls that out of scope.  It stays unsynced, and in the way.)
ScoresGoWithTheirResult ==
    \A s \in Scores :
        (version[s] # Absent /\ Parent(s) \in unsynced /\ ~InBatch(Parent(s)))
            ~> (seen[s] # {} \/ Crowded)
=============================================================================
