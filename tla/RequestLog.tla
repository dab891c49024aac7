----------------------------- MODULE RequestLog -----------------------------
(***************************************************************************)
(* The request log of the proxy: requests are served, each spawns a        *)
(* goroutine that hands its log to requestlog.Writer, and the writer's     *)
(* single write loop inserts it and then counts it for the metadata keys   *)
(* (MetadataKeys) and for the Claude Code session it belongs to.           *)
(*                                                                         *)
(* The module covers the whole life of the process: requests in flight, a  *)
(* bounded channel that drops when full, failing statements, the shutdown  *)
(* that main.go starts on SIGTERM, a crash at any step, and the restart.   *)
(* What is in memory dies with the process; rows, session totals and       *)
(* metadata keys live in PostgreSQL.                                       *)
(***************************************************************************)
EXTENDS MetadataKeys, Sequences

CONSTANTS
    Requests,     \* proxied requests; each yields one request log
    MetaOf(_),    \* the log's raw metadata: function from some of Keys to Values
    Claude,       \* the requests whose log carries ClaudeMetadata
    SessionOf(_), \* the Claude Code session it names, or NoSession
    Sessions,
    NoSession,
    None,         \* no log in hand
    ChanCap,      \* capacity of logChan (1000 in the code)
    MaxDeaths     \* bound on crashes, and on exits that are followed by a restart

ASSUME RequestLogAssumption ==
    /\ ChanCap \in Nat \ {0}
    /\ MaxDeaths \in Nat
    /\ None \notin Requests
    /\ Claude \subseteq Requests
    /\ NoSession \notin Sessions
    /\ \A r \in Requests : /\ DOMAIN MetaOf(r) \subseteq Keys
                           /\ \A k \in DOMAIN MetaOf(r) : MetaOf(r)[k] \in Values
                           /\ SessionOf(r) \in Sessions \cup {NoSession}

VARIABLES
    handler,   \* per request: ServeHTTP, then its logRequest goroutine
    logChan,   \* Writer.logChan
    loop,      \* writeLoop: where it is, the log in hand, metadata keys still to do
    proc,      \* the process, from running to down
    rows,      \* llm_requests, in created_at order
    details,   \* claude_request_details: the requests that have a row there
    sessions,  \* claude_sessions.total_requests
    deaths     \* crashes and exits so far

logVars == <<hllVars, handler, logChan, loop, proc, rows, details, sessions>>
vars    == <<logVars, faults, deaths>>

\* "running" -> "draining" (http.Server.Shutdown) -> "drained" -> "signalled"
\* (Writer.Close closed done) -> "hllStopped" -> "closed" (db.Close) -> "down"
ProcStates == {"running", "draining", "drained", "signalled", "hllStopped", "closed", "down"}

Done   == proc \in {"signalled", "hllStopped", "closed"}   \* Writer.done is closed
DbOpen == proc \notin {"closed", "down"}

Idle == [pc |-> "select", log |-> None, todo |-> {}, draining |-> FALSE]

Queued  == {logChan[i] : i \in DOMAIN logChan}
Stored  == {rows[i] : i \in DOMAIN rows}
Uses(k) == {r \in Requests : k \in DOMAIN MetaOf(r)}

TypeOK ==
    /\ HllTypeOK
    /\ faults \in 0..MaxFaults
    /\ handler \in [Requests -> {"new", "serving", "logging", "returned", "dropped", "gone"}]
    /\ logChan \in Seq(Requests)
    /\ Len(logChan) <= ChanCap
    /\ loop \in [pc       : {"select", "insert", "count", "register", "detail", "stats", "exited"},
                 log      : Requests \cup {None},
                 todo     : SUBSET Keys,
                 draining : BOOLEAN]
    /\ proc \in ProcStates
    /\ rows \in Seq(Requests)
    /\ details \subseteq Requests
    /\ sessions \in [Sessions -> Nat]
    /\ deaths \in 0..(MaxDeaths + 1)

Init ==
    /\ HllInit
    /\ faults = 0
    /\ handler = [r \in Requests |-> "new"]
    /\ logChan = <<>>
    /\ loop = Idle
    /\ proc = "running"
    /\ rows = <<>>
    /\ details = {}
    /\ sessions = [s \in Sessions |-> 0]
    /\ deaths = 0

(***************************************************************************)
(* Requests.                                                               *)
(***************************************************************************)
Arrive(r) ==
    /\ proc = "running"
    /\ handler[r] = "new"
    /\ handler' = [handler EXCEPT ![r] = "serving"]
    /\ UNCHANGED <<hllVars, faults, logChan, loop, proc, rows, details, sessions, deaths>>

\* ServeHTTP has answered the client: `go h.logRequest(...)`, which nobody awaits.
LogAndFinish(r) ==
    /\ proc # "down"
    /\ handler[r] = "serving"
    /\ handler' = [handler EXCEPT ![r] = "logging"]
    /\ UNCHANGED <<hllVars, faults, logChan, loop, proc, rows, details, sessions, deaths>>

HasRoomForOneMore == Len(logChan) <= ChanCap    \* mutant: off by one
HasRoom == Len(logChan) < ChanCap

EnqueuedFirst(r) == <<r>> \o logChan            \* mutant: last in, first out
Enqueued(r) == Append(logChan, r)

\* Non-blocking send: the log is dropped, with a warning, when the channel is
\* full.  Nothing looks at done, so logs are still accepted after Close.
WriteRequestLog(r) ==
    /\ proc # "down"
    /\ handler[r] = "logging"
    /\ IF HasRoom
       THEN /\ logChan' = Enqueued(r)
            /\ handler' = [handler EXCEPT ![r] = "returned"]
       ELSE /\ UNCHANGED logChan
            /\ handler' = [handler EXCEPT ![r] = "dropped"]
    /\ UNCHANGED <<hllVars, faults, loop, proc, rows, details, sessions, deaths>>

(***************************************************************************)
(* writeLoop.  While both cases of its select are ready, either is taken.  *)
(***************************************************************************)
TakenUnlessDraining ==   \* mutant: the drain receives the logs and does not write them
    IF loop.draining THEN loop ELSE [loop EXCEPT !.pc = "insert", !.log = Head(logChan)]
Taken == [loop EXCEPT !.pc = "insert", !.log = Head(logChan)]

Receive ==
    /\ proc # "down"
    /\ loop.pc = "select"
    /\ logChan # <<>>
    /\ loop' = Taken
    /\ logChan' = Tail(logChan)
    /\ UNCHANGED <<hllVars, faults, handler, proc, rows, details, sessions, deaths>>

SeeDone ==
    /\ Done
    /\ loop.pc = "select"
    /\ ~loop.draining
    /\ loop' = [loop EXCEPT !.draining = TRUE]
    /\ UNCHANGED <<hllVars, faults, handler, logChan, proc, rows, details, sessions, deaths>>

LoopReturn ==
    /\ proc # "down"
    /\ loop.pc = "select"
    /\ loop.draining
    /\ logChan = <<>>
    /\ loop' = [loop EXCEPT !.pc = "exited"]
    /\ UNCHANGED <<hllVars, faults, handler, logChan, proc, rows, details, sessions, deaths>>

(***************************************************************************)
(* writeLog, one statement at a time.                                      *)
(***************************************************************************)
Meta == DOMAIN MetaOf(loop.log)

Finished  == [loop EXCEPT !.pc = "select", !.log = None, !.todo = {}]
ToClaude  == IF loop.log \in Claude THEN [loop EXCEPT !.pc = "detail", !.todo = {}] ELSE Finished
Step(next, rest, after) ==   \* the next key of a loop over the metadata, or what follows it
    IF rest = {} THEN after ELSE [loop EXCEPT !.pc = next, !.todo = rest]

InsertFailedGoesOn  == Step("count", Meta, ToClaude)             \* mutant: no `return`
InsertFailedReturns == [loop EXCEPT !.pc = "exited", !.log = None] \* mutant: the loop returns
InsertFailed == Finished

\* A statement fails: for a reason of its own, or because the pool is closed.
StatementFails == IF DbOpen THEN Fault ELSE UNCHANGED faults

Insert ==
    /\ proc # "down"
    /\ loop.pc = "insert"
    /\ \/ /\ DbOpen
          /\ rows' = Append(rows, loop.log)
          /\ loop' = Step("count", Meta, ToClaude)
          /\ UNCHANGED faults
       \/ /\ StatementFails
          /\ loop' = InsertFailed
          /\ UNCHANGED rows
    /\ UNCHANGED <<hllVars, handler, logChan, proc, details, sessions, deaths>>

CountKey(k) ==
    /\ proc # "down"
    /\ loop.pc = "count"
    /\ k \in loop.todo
    /\ AddValue(k, MetaOf(loop.log)[k])
    /\ loop' = Step("count", loop.todo \ {k}, [loop EXCEPT !.pc = "register", !.todo = Meta])
    /\ UNCHANGED <<flusher, toFlush, keyRows, hllLoaded, faults>>
    /\ UNCHANGED <<handler, logChan, proc, rows, details, sessions, deaths>>

\* registerMetadataKeys: a failing statement is logged and the next key tried.
RegisterMetadataKey(k) ==
    /\ proc # "down"
    /\ loop.pc = "register"
    /\ k \in loop.todo
    /\ \/ DbOpen /\ RegisterKey(k) /\ UNCHANGED faults
       \/ StatementFails /\ UNCHANGED keyRows
    /\ loop' = Step("register", loop.todo \ {k}, ToClaude)
    /\ UNCHANGED <<hlls, flusher, toFlush, hllLoaded>>
    /\ UNCHANGED <<handler, logChan, proc, rows, details, sessions, deaths>>

CreateDetail ==
    /\ proc # "down"
    /\ loop.pc = "detail"
    /\ \/ DbOpen /\ details' = details \cup {loop.log} /\ UNCHANGED faults
       \/ StatementFails /\ UNCHANGED details
    /\ loop' = IF SessionOf(loop.log) = NoSession THEN Finished ELSE [loop EXCEPT !.pc = "stats"]
    /\ UNCHANGED <<hllVars, handler, logChan, proc, rows, sessions, deaths>>

UpdateSessionStats ==
    /\ proc # "down"
    /\ loop.pc = "stats"
    /\ \/ /\ DbOpen
          /\ sessions' = [sessions EXCEPT ![SessionOf(loop.log)] = @ + 1]
          /\ UNCHANGED faults
       \/ StatementFails /\ UNCHANGED sessions
    /\ loop' = Finished
    /\ UNCHANGED <<hllVars, handler, logChan, proc, rows, details, deaths>>

(***************************************************************************)
(* The flush loop of HLLManager.                                           *)
(***************************************************************************)
Flusher ==
    /\ proc # "down"
    /\ \/ FlushTick
       \/ Done /\ FlushLast
       \/ \E k \in Keys : FlushRow(k)
    /\ UNCHANGED <<handler, logChan, loop, proc, rows, details, sessions, deaths>>

(***************************************************************************)
(* Shutdown, in the order of ShutdownWithTimeout, and Writer.Close.        *)
(***************************************************************************)
Advance(from, to) ==
    /\ proc = from
    /\ proc' = to
    /\ UNCHANGED <<hllVars, handler, logChan, loop, rows, details, sessions, deaths>>

Shutdown == Advance("running", "draining") /\ UNCHANGED faults

\* The handlers have returned, or the timeout of Shutdown has expired.
HttpDrained ==
    /\ Advance("draining", "drained")
    /\ IF \A r \in Requests : handler[r] # "serving" THEN UNCHANGED faults ELSE Fault

CloseDone  == Advance("drained", "signalled") /\ UNCHANGED faults
HllStopped == Advance("signalled", "hllStopped") /\ flusher = "stopped" /\ UNCHANGED faults
CloseDb    == Advance("hllStopped", "closed") /\ UNCHANGED faults

(***************************************************************************)
(* The end of the process, with all that was in memory, and its restart.   *)
(***************************************************************************)
Die ==
    /\ proc' = "down"
    /\ deaths' = deaths + 1
    /\ logChan' = <<>>
    /\ loop' = Idle
    /\ handler' = [r \in Requests |-> IF handler[r] \in {"serving", "logging"}
                                      THEN "gone" ELSE handler[r]]
    /\ UNCHANGED <<hllVars, faults, rows, details, sessions>>

Exit  == proc = "closed" /\ Die
Crash == proc # "down" /\ deaths < MaxDeaths /\ Die

Restart ==
    /\ proc = "down"
    /\ deaths <= MaxDeaths
    /\ proc' = "running"
    /\ HllStart
    /\ UNCHANGED <<handler, logChan, loop, rows, details, sessions, deaths>>

WriteLoop ==
    \/ Receive \/ SeeDone \/ LoopReturn
    \/ Insert \/ CreateDetail \/ UpdateSessionStats
    \/ \E k \in Keys : CountKey(k) \/ RegisterMetadataKey(k)

Closing == HttpDrained \/ CloseDone \/ HllStopped \/ CloseDb \/ Exit

Next ==
    \/ \E r \in Requests : Arrive(r) \/ LogAndFinish(r) \/ WriteRequestLog(r)
    \/ WriteLoop
    \/ Flusher
    \/ Shutdown \/ Closing \/ Crash \/ Restart

Spec == Init /\ [][Next]_vars

\* Goroutines that can run do run, and main.go carries a shutdown through.
\* Nothing is assumed of clients, of SIGTERM, or of an operator's restart.
Fairness ==
    /\ WF_vars(WriteLoop)
    /\ WF_vars(Flusher)
    /\ WF_vars(Closing)
    /\ \A r \in Requests : WF_vars(LogAndFinish(r)) /\ WF_vars(WriteRequestLog(r))

FairSpec == Spec /\ Fairness
-----------------------------------------------------------------------------
InHand == IF loop.pc = "insert" THEN <<loop.log>> ELSE <<>>

\* What the writer promises (UsageLog): the logs it accepts are stored at most
\* once, in the order in which it accepted them, and only a log that is still
\* in memory is ever lost.
Log == INSTANCE UsageLog WITH pending <- InHand \o logChan, stored <- rows
ImplementsUsageLog == Log!Spec

\* In a process that meets no fault, no log vanishes silently: while the database
\* is open, a log the writer took without a warning is in the channel, in the
\* write loop's hands or in the table.
NoSilentLoss ==
    (faults = 0 /\ deaths = 0 /\ DbOpen) =>
        \A r \in Requests : handler[r] = "returned" =>
            \/ r \in Queued \cup Stored
            \/ loop.pc = "insert" /\ loop.log = r

\* What is derived from the log never runs ahead of it, whatever fails or dies
\* between the statements of writeLog.
SessionRows(s) == {r \in Stored \cap Claude : SessionOf(r) = s}
Uncounted(s)   == IF loop.pc \in {"count", "register", "detail", "stats"} /\ loop.log \in SessionRows(s)
                  THEN {loop.log} ELSE {}
\* Flushed, being flushed or in memory.
Counted(k) == keyRows[k].count
              + (IF k \in DOMAIN toFlush /\ proc # "down" THEN toFlush[k] ELSE 0)
              + (IF proc # "down" THEN hlls[k].count ELSE 0)
DerivedMatchesLog ==
    \* A session's total counts every stored request of the session exactly once,
    \* the one whose statistics are still to be updated excepted.
    /\ \A s \in Sessions :
          LET counted == Cardinality(SessionRows(s) \ Uncounted(s)) IN
          /\ sessions[s] <= counted
          /\ (faults = 0 /\ deaths = 0 /\ DbOpen) => sessions[s] = counted
    \* No count of a metadata key is flushed twice, and the cardinality shown for a
    \* key is that of values that stored requests carry.
    /\ \A k \in Keys :
          /\ Counted(k) <= Cardinality(Stored \cap Uses(k))
          /\ keyRows[k].sketch \subseteq {MetaOf(r)[k] : r \in Stored \cap Uses(k)}

\* A flush never makes a persisted sketch smaller, except in a process whose
\* LoadFromDB failed and which therefore started from empty sketches.
SketchesOnlyGrow ==
    [][hllLoaded => \A k \in Keys : keyRows[k].sketch \subseteq keyRows'[k].sketch]_vars

\* Every log handed to the writer leaves the channel and the write loop.
LogsSettle ==
    \A r \in Requests : (r \in Queued) ~> (r \notin Queued /\ loop.log # r)

\* A shutdown ends: neither the flush loop's last flush nor requests that are
\* still being served can hold it up for ever.
ShutdownTerminates == (proc = "draining") ~> (proc = "down")

\* "Close drains the write channel, flushes HLLs, and closes the database": when
\* Close returns, no accepted log is left to a write loop still at work.
CloseDrains ==
    [][(DbOpen /\ proc' = "closed" /\ loop.pc # "exited") => (logChan = <<>> /\ loop.log = None)]_vars

\* "Flush persists dirty HLLs to the database": once no statement has failed, no
\* flush is under way and the write loop is between two logs, the entry of a
\* registered key that is not dirty is the one in the database.
FlushPersistsDirty ==
    (faults = 0 /\ deaths = 0 /\ flusher = "idle" /\ loop.pc = "select") =>
        \A k \in Keys : (keyRows[k].exists /\ hlls[k].known /\ ~hlls[k].dirty)
                        => keyRows[k].sketch = hlls[k].sketch
=============================================================================
