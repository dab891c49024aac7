------------------------- MODULE UsagePipelineProofs -------------------------
(***************************************************************************)
(* Proofs about the composition, for any requests, orgs, capacities and    *)
(* bounds: each component behaves as its own module says, so that what is  *)
(* proved of it alone holds of the whole.                                  *)
(***************************************************************************)
EXTENDS UsagePipeline, TLAPS

\* The proofs about the components, about their instances here.
LogProofs == INSTANCE RequestLogProofs
RepProofs == INSTANCE ReporterProofs WITH faults <- reportFaults, MaxDeaths <- MaxDeaths + 1,
                                          Poison <- {}
-----------------------------------------------------------------------------
\* A step of the reporters, of Butler or of nobody is none of the request log.
LEMMA OthersAreStutters ==
    ASSUME UNCHANGED <<logVars, faults, deaths>> PROVE UNCHANGED Log!vars
  BY DEF logVars, Log!vars, Log!logVars, Log!hllVars

\* Every step is one of the request log, or none.
LEMMA StepsOfTheLog == [Next]_vars => [Log!Next]_(Log!vars)
<1> SUFFICES ASSUME [Next]_vars PROVE [Log!Next]_(Log!vars)
  OBVIOUS
<1>1. CASE \E r \in Requests : Arrive(r) \/ LogAndFinish(r) \/ WriteRequestLog(r)
  BY <1>1 DEF Arrive, LogAndFinish, WriteRequestLog, Log!Next
<1>2. CASE WriteLoop \/ Flusher
  BY <1>2 DEF WriteLoop, Flusher, Log!Next
<1>3. CASE Shutdown \/ ShuttingDown \/ Crash \/ Restart
  <2>1. CASE \E o \in Orgs : StopOrg(o)
    <3>1. UNCHANGED <<logVars, faults, deaths>>
      BY <2>1 DEF StopOrg, Rep!Stop
    <3>2. QED
      BY <3>1, OthersAreStutters
  <2>2. CASE Shutdown \/ HttpDrained \/ CloseLogWriter \/ FinishClose \/ Exit \/ Crash \/ Restart
    BY <2>2 DEF Shutdown, HttpDrained, CloseLogWriter, FinishClose, Exit, Crash, Restart,
       Log!Next, Log!Closing
  <2>3. QED
    BY <1>3, <2>1, <2>2 DEF ShuttingDown
<1>4. CASE \E o \in Orgs : StartOrg(o) \/ Report(o) \/ Ingest(o)
  <2>1. UNCHANGED <<logVars, faults, deaths>>
    BY <1>4 DEF StartOrg, Report, Ingest, Rep!Start, Rep!Tick, Rep!SeeStop, Rep!Stopped,
       Rep!FetchUnsyncedRecords, Rep!Send, Rep!SendReturns, Rep!MarkSynced, Rep!Ingest
  <2>2. QED
    BY <2>1, OthersAreStutters
<1>5. CASE \E m \in late : IngestLate(m)
  <2>1. UNCHANGED <<logVars, faults, deaths>>
    BY <1>5 DEF IngestLate, Rep!IngestLate
  <2>2. QED
    BY <2>1, OthersAreStutters
<1>6. CASE UNCHANGED vars
  BY <1>6, OthersAreStutters DEF vars
<1>7. QED
  BY <1>1, <1>2, <1>3, <1>4, <1>5, <1>6 DEF Next
-----------------------------------------------------------------------------
\* The log of this module is the one that was proved about: the same definitions, expanded.
LEMMA SameLog ==
    (Log!Init => LogProofs!Init) /\ ([Log!Next]_(Log!vars) => [LogProofs!Next]_(LogProofs!vars))
  BY DEF Log!logVars, Log!vars, Log!Done, Log!DbOpen, Log!Idle, Log!Init, Log!Arrive, Log!LogAndFinish,
     Log!HasRoom, Log!Enqueued, Log!WriteRequestLog, Log!Taken, Log!Receive, Log!SeeDone,
     Log!LoopReturn, Log!Meta, Log!Finished, Log!ToClaude, Log!Step, Log!InsertFailed,
     Log!StatementFails, Log!Insert, Log!CountKey, Log!RegisterMetadataKey, Log!CreateDetail,
     Log!UpdateSessionStats, Log!Flusher, Log!Advance, Log!Shutdown, Log!HttpDrained,
     Log!CloseDone, Log!HllStopped, Log!CloseDb, Log!Die, Log!Exit, Log!Crash, Log!Restart,
     Log!WriteLoop, Log!Closing, Log!Next, Log!hllVars, Log!NoEntry, Log!NoRow, Log!HllInit,
     Log!Fault, Log!AddValue, Log!RegisterKey, Log!Dirty, Log!TakeDirty, Log!FlushTick,
     Log!AfterDone, Log!FlushLast, Log!FlushRow, Log!Loaded, Log!HllStart, LogProofs!logVars,
     LogProofs!vars, LogProofs!Done, LogProofs!DbOpen, LogProofs!Idle, LogProofs!Init,
     LogProofs!Arrive, LogProofs!LogAndFinish, LogProofs!HasRoom, LogProofs!Enqueued,
     LogProofs!WriteRequestLog, LogProofs!Taken, LogProofs!Receive, LogProofs!SeeDone,
     LogProofs!LoopReturn, LogProofs!Meta, LogProofs!Finished, LogProofs!ToClaude, LogProofs!Step,
     LogProofs!InsertFailed, LogProofs!StatementFails, LogProofs!Insert, LogProofs!CountKey,
     LogProofs!RegisterMetadataKey, LogProofs!CreateDetail, LogProofs!UpdateSessionStats,
     LogProofs!Flusher, LogProofs!Advance, LogProofs!Shutdown, LogProofs!HttpDrained,
     LogProofs!CloseDone, LogProofs!HllStopped, LogProofs!CloseDb, LogProofs!Die, LogProofs!Exit,
     LogProofs!Crash, LogProofs!Restart, LogProofs!WriteLoop, LogProofs!Closing, LogProofs!Next,
     LogProofs!hllVars, LogProofs!NoEntry, LogProofs!NoRow, LogProofs!HllInit, LogProofs!Fault,
     LogProofs!AddValue, LogProofs!RegisterKey, LogProofs!Dirty, LogProofs!TakeDirty,
     LogProofs!FlushTick, LogProofs!AfterDone, LogProofs!FlushLast, LogProofs!FlushRow,
     LogProofs!Loaded, LogProofs!HllStart

\* The invariant of the request log holds in the composition.
LEMMA LogInvariance == Spec => []LogProofs!IInv
<1>1. Init => LogProofs!Init
  BY SameLog DEF Init
<1>2. [Next]_vars => [LogProofs!Next]_(LogProofs!vars)
  BY StepsOfTheLog, SameLog
<1>3. LogProofs!RequestLogAssumption /\ LogProofs!MaxFaultsAssumption
  BY UsagePipelineAssumption DEF Log!RequestLogAssumption, Log!MaxFaultsAssumption,
     LogProofs!RequestLogAssumption, LogProofs!MaxFaultsAssumption
<1>4. LogProofs!Spec => []LogProofs!IInv
  BY <1>3, LogProofs!Invariance, PTL
<1>5. QED
  BY <1>1, <1>2, <1>4, PTL DEF Spec, LogProofs!Spec

\* The write loop inserts a log that has no row yet, and a process that runs has died at most
\* as often as the bound says.
LEMMA WhatTheReportersNeed ==
    ASSUME LogProofs!IInv
    PROVE  /\ loop.pc = "insert" => loop.log \in Requests \ Rep!Stored
           /\ proc # "down" => deaths < MaxDeaths + 1
<1> USE DEF LogProofs!IInv
<1>1. loop.log \in Requests \cup {None} /\ deaths \in 0..MaxDeaths + 1
  BY DEF LogProofs!Typed, LogProofs!TypeOK
<1>2. loop.pc = "insert" => loop.log # None /\ loop.log \notin Rep!Stored
  BY DEF LogProofs!LoopOK, LogProofs!OncePlaced, LogProofs!Stored, Rep!Stored
<1>3. proc # "down" => deaths <= MaxDeaths
  BY DEF LogProofs!ProcOK
<1>4. MaxDeaths \in Nat
  BY UsagePipelineAssumption DEF Log!RequestLogAssumption
<1>5. QED
  BY <1>1, <1>2, <1>3, <1>4

\* A step that leaves the table and what is reported alone is none of the reporters.
LEMMA OthersAreStuttersToo ==
    ASSUME UNCHANGED <<rows, repVars, deaths>> PROVE UNCHANGED Rep!vars
  BY DEF repVars, Rep!vars, Rep!repVars

\* Every step is one of the reporters, or none: the write loop's insertion is their NewRow,
\* and a graceful exit takes them with it as a crash does.
LEMMA StepsOfTheReporters == LogProofs!IInv /\ [Next]_vars => [Rep!Next]_(Rep!vars)
<1> SUFFICES ASSUME LogProofs!IInv, [Next]_vars PROVE [Rep!Next]_(Rep!vars)
  OBVIOUS
<1>1. CASE \E r \in Requests : Arrive(r) \/ LogAndFinish(r) \/ WriteRequestLog(r)
  <2>1. UNCHANGED <<rows, repVars, deaths>>
    BY <1>1 DEF Arrive, LogAndFinish, WriteRequestLog, Log!Arrive, Log!LogAndFinish, Log!WriteRequestLog
  <2>2. QED
    BY <2>1, OthersAreStuttersToo
<1>2. CASE WriteLoop
  <2>1. CASE UNCHANGED rows
    <3>1. UNCHANGED <<rows, repVars, deaths>>
      BY <1>2, <2>1 DEF WriteLoop, Log!WriteLoop, Log!Receive, Log!SeeDone, Log!LoopReturn, Log!Insert,
         Log!CountKey, Log!RegisterMetadataKey, Log!CreateDetail, Log!UpdateSessionStats
    <3>2. QED
      BY <3>1, OthersAreStuttersToo
  <2>2. CASE rows' # rows
    <3>1. loop.pc = "insert" /\ rows' = Append(rows, loop.log) /\ UNCHANGED <<repVars, deaths>>
      BY <1>2, <2>2 DEF WriteLoop, Log!WriteLoop, Log!Receive, Log!SeeDone, Log!LoopReturn, Log!Insert,
         Log!CountKey, Log!RegisterMetadataKey, Log!CreateDetail, Log!UpdateSessionStats
    <3>2. loop.log \in Requests /\ Rep!NewRow(loop.log)
      BY <3>1, WhatTheReportersNeed DEF Rep!NewRow, repVars, Rep!repVars
    <3>3. QED
      BY <3>2 DEF Rep!Next
  <2>3. QED
    BY <2>1, <2>2
<1>3. CASE Flusher \/ Shutdown \/ HttpDrained \/ CloseLogWriter \/ FinishClose \/ Restart
  <2>1. UNCHANGED <<rows, repVars, deaths>>
    BY <1>3 DEF Flusher, Shutdown, HttpDrained, CloseLogWriter, FinishClose, Restart, Log!Flusher,
       Log!Shutdown, Log!HttpDrained, Log!CloseDone, Log!HllStopped, Log!CloseDb, Log!Restart, Log!Advance
  <2>2. QED
    BY <2>1, OthersAreStuttersToo
<1>4. CASE \E o \in Orgs : StartOrg(o) \/ Report(o) \/ Ingest(o) \/ StopOrg(o)
  BY <1>4 DEF StartOrg, Report, Ingest, StopOrg, Rep!Next, Rep!ReporterStep
<1>5. CASE \E m \in late : IngestLate(m)
  BY <1>5 DEF IngestLate, Rep!Next
<1>6. CASE Exit \/ Crash
  <2>1. proc # "down" /\ Rep!Die
    BY <1>6 DEF Exit, Crash, Log!Exit, Log!Crash
  <2>2. Rep!Crash
    BY <2>1, WhatTheReportersNeed DEF Rep!Crash
  <2>3. QED
    BY <2>2 DEF Rep!Next
<1>7. CASE UNCHANGED vars
  BY <1>7, OthersAreStuttersToo DEF vars, logVars
<1>8. QED
  BY <1>1, <1>2, <1>3, <1>4, <1>5, <1>6, <1>7 DEF Next, ShuttingDown

\* The reporters keep their promises while the write loop fills the table under them and
\* while exits, which the request log counts as its own, take them down.
THEOREM ReportersAreReporters == Spec => ImplementsReporter
<1>1. Init => Rep!Init
  BY DEF Init
<1>2. QED
  BY <1>1, StepsOfTheReporters, LogInvariance, PTL DEF Spec, ImplementsReporter, Rep!Spec

\* The reporters of this module are the ones that were proved about.
LEMMA SameReporters ==
    (Rep!Init => RepProofs!Init) /\ ([Rep!Next]_(Rep!vars) => [RepProofs!Next]_(RepProofs!vars))
  BY DEF Rep!Cardinality, Rep!repVars, Rep!vars, Rep!Stored, Rep!Unsynced, Rep!Page, Rep!Pending,
     Rep!Off, Rep!NoPost, Rep!Init, Rep!Fault, Rep!NewRow, Rep!Start, Rep!Stop, Rep!Tick,
     Rep!SeeStop, Rep!Stopped, Rep!FlushEnds, Rep!NothingToSend, Rep!FetchUnsyncedRecords,
     Rep!Send, Rep!Accepted, Rep!Refused, Rep!SendReturns, Rep!LastPage, Rep!MarkSynced,
     Rep!Ingested, Rep!Ingest, Rep!IngestLate, Rep!Die, Rep!Crash, Rep!ReporterStep, Rep!Next,
     RepProofs!Cardinality, RepProofs!repVars, RepProofs!vars, RepProofs!Stored,
     RepProofs!Unsynced, RepProofs!Page, RepProofs!Pending, RepProofs!Off, RepProofs!NoPost,
     RepProofs!Init, RepProofs!Fault, RepProofs!NewRow, RepProofs!Start, RepProofs!Stop,
     RepProofs!Tick, RepProofs!SeeStop, RepProofs!Stopped, RepProofs!FlushEnds,
     RepProofs!NothingToSend, RepProofs!FetchUnsyncedRecords, RepProofs!Send, RepProofs!Accepted,
     RepProofs!Refused, RepProofs!SendReturns, RepProofs!LastPage, RepProofs!MarkSynced,
     RepProofs!Ingested, RepProofs!Ingest, RepProofs!IngestLate, RepProofs!Die, RepProofs!Crash,
     RepProofs!ReporterStep, RepProofs!Next

\* What is proved of the reporters holds of them here.
LEMMA ReportersBehave == Spec => RepProofs!Spec
<1>1. Init => RepProofs!Init
  BY SameReporters DEF Init
<1>2. LogProofs!IInv /\ [Next]_vars => [RepProofs!Next]_(RepProofs!vars)
  BY StepsOfTheReporters, SameReporters
<1>3. QED
  BY <1>1, <1>2, LogInvariance, PTL DEF Spec, RepProofs!Spec

\* WholeWay: the chain of promises holds end to end, whatever fails on the way, in any interleaving of
\* serving, writing, reporting, shutting down and dying.
THEOREM NothingIsMadeUp == Spec => []WholeWay
<1>1. RepProofs!ReporterAssumption
  BY UsagePipelineAssumption DEF Rep!ReporterAssumption, RepProofs!ReporterAssumption
<1>2. LogProofs!IInv /\ RepProofs!IInv /\ RepProofs!DuplicatesArePaidFor => WholeWay
  <2> SUFFICES ASSUME LogProofs!IInv, RepProofs!IInv, RepProofs!DuplicatesArePaidFor PROVE WholeWay
    OBVIOUS
  <2>1. \A i, j \in DOMAIN rows : rows[i] = rows[j] => i = j
    BY DEF LogProofs!IInv, LogProofs!OncePlaced, LogProofs!Distinct
  <2>2. \A o \in Orgs, r \in Requests :
           butler[o][r] > 0 => r \in Log!Stored /\ handler[r] = "returned" /\ OrgOf(r) = o
    <3>1. \A r \in Log!Stored : handler[r] = "returned"
      BY DEF LogProofs!IInv, LogProofs!OncePlaced, LogProofs!Stored, Log!Stored
    <3>2. QED
      BY <3>1 DEF RepProofs!IInv, RepProofs!IngestedIsOwn, RepProofs!Stored, Log!Stored
  <2>3. \A o \in Orgs, r \in Requests : butler[o][r] <= 1 + reportFaults + deaths
    BY DEF RepProofs!DuplicatesArePaidFor
  <2>4. \A r \in synced : OrgOf(r) \in Orgs /\ butler[OrgOf(r)][r] > 0
    BY DEF RepProofs!IInv, RepProofs!SyncedWasIngested
  <2>5. QED
    BY <2>1, <2>2, <2>3, <2>4 DEF WholeWay
<1>3. RepProofs!Spec => []RepProofs!IInv /\ []RepProofs!DuplicatesArePaidFor
  BY <1>1, RepProofs!Invariance, RepProofs!RepeatsArePaidFor, PTL
<1>4. QED
  BY <1>2, <1>3, LogInvariance, ReportersBehave, PTL
=============================================================================
