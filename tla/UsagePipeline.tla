---------------------------- MODULE UsagePipeline ----------------------------
(***************************************************************************)
(* A steward from the proxied request to Butler: the request log           *)
(* (RequestLog) fills llm_requests, the reporters (Reporter) empty it, and *)
(* Server.ShutdownWithTimeout stops both in an order of its own.  The two  *)
(* components share the table, the process and its failures.               *)
(***************************************************************************)
EXTENDS Naturals, Sequences, FiniteSets

CONSTANTS
    Requests, Orgs, NoOrg, OrgOf(_), BatchMaxSize,                     \* Reporter
    Keys, Values, MetaOf(_), Claude, SessionOf(_), Sessions, NoSession, None, ChanCap,
    MaxFaults, MaxDeaths

VARIABLES
    hlls, flusher, toFlush, keyRows, hllLoaded,                        \* MetadataKeys
    handler, logChan, loop, proc, rows, details, sessions,             \* RequestLog
    synced, rep, post, late, butler,                                   \* Reporter
    faults, reportFaults,                                              \* of each of the two
    deaths                                                             \* of the process

Log == INSTANCE RequestLog
\* A graceful exit takes the reporters with it as a crash does, and is one death
\* more than the crashes RequestLog allows.
Rep == INSTANCE Reporter WITH faults <- reportFaults, MaxDeaths <- MaxDeaths + 1,
                             Poison <- {}

ASSUME UsagePipelineAssumption ==
    Log!RequestLogAssumption /\ Log!MaxFaultsAssumption /\ Rep!ReporterAssumption

logVars == <<hlls, flusher, toFlush, keyRows, hllLoaded,
             handler, logChan, loop, proc, rows, details, sessions>>
repVars == <<synced, rep, post, late, butler, reportFaults>>
vars    == <<logVars, faults, repVars, deaths>>

Init == Log!Init /\ Rep!Init

Started == \A o \in Orgs : rep[o].pc # "off"
StoppedAll == \A o \in Orgs : rep[o].pc = "off"

(***************************************************************************)
(* The components' own steps.                                              *)
(***************************************************************************)
\* The HTTP server starts only after Build has started the workers of every
\* registered org (LoadFromDB).
Arrive(r) == Started /\ Log!Arrive(r) /\ UNCHANGED repVars

LogAndFinish(r)    == Log!LogAndFinish(r) /\ UNCHANGED repVars
WriteRequestLog(r) == Log!WriteRequestLog(r) /\ UNCHANGED repVars

WriteLoop == Log!WriteLoop /\ UNCHANGED repVars
Flusher   == Log!Flusher /\ UNCHANGED repVars

StartOrgOnce(o) ==   \* mutant: a restart does not load the registered orgs
    proc = "running" /\ deaths = 0 /\ Rep!Start(o) /\ UNCHANGED <<logVars, faults>>

StartOrg(o) == proc = "running" /\ Rep!Start(o) /\ UNCHANGED <<logVars, faults>>

Report(o) ==
    /\ \/ Rep!Tick(o) \/ Rep!SeeStop(o) \/ Rep!Stopped(o)
       \/ Rep!FetchUnsyncedRecords(o) \/ Rep!Send(o) \/ Rep!SendReturns(o) \/ Rep!MarkSynced(o)
    /\ UNCHANGED <<logVars, faults>>

Ingest(o)     == Rep!Ingest(o) /\ UNCHANGED <<logVars, faults>>
IngestLate(m) == Rep!IngestLate(m) /\ UNCHANGED <<logVars, faults>>

(***************************************************************************)
(* ShutdownWithTimeout: the HTTP server, then StopAll, which waits for one *)
(* org's reporter after the other, then Writer.Close.                      *)
(***************************************************************************)
Shutdown    == Started /\ Log!Shutdown /\ UNCHANGED repVars
HttpDrained == Log!HttpDrained /\ UNCHANGED repVars

AbandonOrg(o) ==    \* mutant: the workers are forgotten, their last flush is not awaited
    /\ proc = "drained"
    /\ rep[o].pc # "off"
    /\ rep' = [rep EXCEPT ![o] = Rep!Off]
    /\ UNCHANGED <<logVars, faults, synced, post, late, butler, reportFaults, deaths>>

StopOrg(o) ==
    /\ proc = "drained"
    /\ \A p \in Orgs : ~rep[p].stop
    /\ Rep!Stop(o)
    /\ UNCHANGED <<logVars, faults>>

CloseLogWriter ==
    /\ StoppedAll
    /\ Log!CloseDone
    /\ UNCHANGED repVars

FinishClose == (Log!HllStopped \/ Log!CloseDb) /\ UNCHANGED repVars

Exit    == Log!Exit /\ Rep!Die
Crash   == Log!Crash /\ Rep!Die
Restart == Log!Restart /\ UNCHANGED repVars

ShuttingDown ==
    \/ HttpDrained \/ CloseLogWriter \/ FinishClose \/ Exit
    \/ \E o \in Orgs : StopOrg(o)

Next ==
    \/ \E r \in Requests : Arrive(r) \/ LogAndFinish(r) \/ WriteRequestLog(r)
    \/ WriteLoop \/ Flusher
    \/ \E o \in Orgs : StartOrg(o) \/ Report(o) \/ Ingest(o)
    \/ \E m \in late : IngestLate(m)
    \/ Shutdown \/ ShuttingDown \/ Crash \/ Restart

Spec == Init /\ [][Next]_vars

\* As in the components; and a steward that went down is started again as long
\* as the bound on deaths allows.
Fairness ==
    /\ WF_vars(WriteLoop) /\ WF_vars(Flusher) /\ WF_vars(ShuttingDown) /\ WF_vars(Restart)
    /\ \A r \in Requests : WF_vars(LogAndFinish(r)) /\ WF_vars(WriteRequestLog(r))
    /\ \A o \in Orgs : WF_vars(StartOrg(o)) /\ WF_vars(Report(o)) /\ WF_vars(Ingest(o))

FairSpec == Spec /\ Fairness
-----------------------------------------------------------------------------
\* The reporters, in the company of the log, still behave as specified: what Reporter
\* assumes of the table and of the end of the process is what RequestLog and the
\* shutdown do.
ImplementsReporter == Rep!Spec

\* From the proxied request to Butler: what Butler holds is a row of the log, under the
\* row's own org, of a request whose log was accepted, not dropped or lost with the
\* process; it holds it once but for one more time per failure of the reporters or
\* death of the process; the log has one row per request; and a row is marked synced
\* only when Butler holds it.
WholeWay ==
    /\ \A i, j \in DOMAIN rows : rows[i] = rows[j] => i = j
    /\ \A o \in Orgs, r \in Requests :
          /\ butler[o][r] > 0 => r \in Log!Stored /\ handler[r] = "returned" /\ OrgOf(r) = o
          /\ butler[o][r] <= 1 + reportFaults + deaths
    /\ \A r \in synced : OrgOf(r) \in Orgs /\ butler[OrgOf(r)][r] > 0

\* A request that is served while the steward runs undisturbed reaches Butler,
\* unless its log met a full channel.
ServedIsReported ==
    \A r \in Requests :
        (handler[r] = "serving" /\ OrgOf(r) \in Orgs)
            ~> \/ r \in synced \/ handler[r] = "dropped"
               \/ faults > 0 \/ proc # "running"

\* A request that reached the table reaches Butler, across failures, shutdowns
\* and crashes, unless the steward stays down for good.
StoredIsReported ==
    \A r \in Requests :
        (r \in Log!Stored /\ OrgOf(r) \in Orgs)
            ~> (r \in synced \/ (proc = "down" /\ deaths > MaxDeaths))

\* "ShutdownWithTimeout gracefully stops the server, drains all reporter queues,
\* then closes the log writer": when it is done and nothing has failed, no row
\* of an org is left to report.
ShutdownDrainsReporterQueues ==
    (proc = "closed" /\ faults = 0 /\ reportFaults = 0 /\ deaths = 0) =>
        \A r \in Log!Stored : OrgOf(r) \in Orgs => r \in synced
=============================================================================
