------------------------------ MODULE Reporter ------------------------------
(***************************************************************************)
(* The usage reporters of a steward, one per org with active workers.      *)
(* llm_requests is the queue: a reporter fetches a page of the rows of its *)
(* org that are not marked synced_to_butler, posts it to Butler, and marks *)
(* it.  Every statement and every call can fail, a request that timed out  *)
(* at the client can still be served later, and the process can die        *)
(* between any two steps.                                                  *)
(***************************************************************************)
EXTENDS Naturals, Sequences, FiniteSets

CONSTANTS
    Requests,
    Orgs,
    NoOrg,
    OrgOf(_),      \* org_id of the request's row, or NoOrg
    Poison,        \* requests whose record Butler will never accept
    BatchMaxSize,  \* config: records per page
    MaxFaults,     \* bound on failing statements and calls
    MaxDeaths      \* bound on process deaths

ASSUME ReporterAssumption ==
    /\ BatchMaxSize \in Nat \ {0}
    /\ MaxFaults \in Nat
    /\ MaxDeaths \in Nat
    /\ NoOrg \notin Orgs
    /\ \A r \in Requests : OrgOf(r) \in Orgs \cup {NoOrg}

VARIABLES
    rows,     \* llm_requests, in created_at order
    synced,   \* the requests whose row has synced_to_butler = true
    rep,      \* per org: the Reporter goroutine
    post,     \* per org: the POST its reporter is waiting on
    late,     \* POSTs nobody waits on any more, still to be served by Butler
    butler,   \* per org and request: how often Butler has ingested it for the org
    faults,
    deaths

repVars == <<synced, rep, post, late, butler>>
vars    == <<rows, repVars, faults, deaths>>

Stored == {rows[i] : i \in DOMAIN rows}

\* SELECT ... WHERE synced_to_butler = false AND org_id = $2
\* ORDER BY created_at ASC LIMIT $1
UnsyncedOfAnyOrg(o) == {i \in DOMAIN rows : rows[i] \notin synced}   \* mutant: no org filter
AllOfOrg(o) == {i \in DOMAIN rows : OrgOf(rows[i]) = o}               \* mutant: no synced filter
Unsynced(o) == {i \in DOMAIN rows : OrgOf(rows[i]) = o /\ rows[i] \notin synced}
NewestPage(o) == {rows[i] : i \in {j \in Unsynced(o) :                 \* mutant: DESC
                      Cardinality({k \in Unsynced(o) : k > j}) < BatchMaxSize}}
Page(o)     == {rows[i] : i \in {j \in Unsynced(o) :
                    Cardinality({k \in Unsynced(o) : k < j}) < BatchMaxSize}}
Pending(o)  == {rows[i] : i \in Unsynced(o)}

\* stop: stopCh is closed.  final: this flush is the one made on stopCh.
\* owed and clean are history: what was pending when the final flush began, and
\* whether that flush has met a fault.
Off == [pc |-> "off", batch |-> {}, stop |-> FALSE, final |-> FALSE, owed |-> {}, clean |-> TRUE]

NoPost == [state |-> "none", ids |-> {}]

RepState  == [pc    : {"off", "wait", "fetch", "send", "sent", "mark", "done"},
              batch : SUBSET Requests,
              stop  : BOOLEAN,
              final : BOOLEAN,
              owed  : SUBSET Requests,
              clean : BOOLEAN]
PostState == [state : {"none", "open", "ok"}, ids : SUBSET Requests]

\* A batch is in hand from the fetch to the end of its flush.
InHand(o) ==
    /\ rep[o].batch # {} <=> rep[o].pc \in {"send", "sent", "mark"}
    /\ post[o].state # "none" <=> rep[o].pc = "sent"
    /\ post[o].state # "none" => post[o].ids = rep[o].batch

RepTypeOK ==
    /\ rep \in [Orgs -> RepState]
    /\ post \in [Orgs -> PostState]
    /\ \A o \in Orgs : InHand(o)

DataTypeOK ==
    /\ rows \in Seq(Requests)
    /\ synced \subseteq Requests
    /\ late \subseteq [org : Orgs, ids : SUBSET Requests]
    /\ butler \in [Orgs -> [Requests -> Nat]]
    /\ faults \in Nat
    /\ deaths \in Nat

TypeOK == DataTypeOK /\ RepTypeOK

Init ==
    /\ rows = <<>>
    /\ synced = {}
    /\ rep = [o \in Orgs |-> Off]
    /\ post = [o \in Orgs |-> NoPost]
    /\ late = {}
    /\ butler = [o \in Orgs |-> [r \in Requests |-> 0]]
    /\ faults = 0
    /\ deaths = 0

Fault == faults < MaxFaults /\ faults' = faults + 1

\* The write loop of the request log has inserted a row.
NewRow(r) ==
    /\ r \notin Stored
    /\ rows' = Append(rows, r)
    /\ UNCHANGED <<repVars, faults, deaths>>

(***************************************************************************)
(* NewReporter and Start, Stop, and the select of run.                     *)
(***************************************************************************)
Start(o) ==
    /\ rep[o].pc = "off"
    /\ rep' = [rep EXCEPT ![o] = [Off EXCEPT !.pc = "wait"]]
    /\ UNCHANGED <<rows, synced, post, late, butler, faults, deaths>>

\* Stop closes stopCh, then waits for doneCh: see Stopped.
Stop(o) ==
    /\ rep[o].pc # "off"
    /\ ~rep[o].stop
    /\ rep' = [rep EXCEPT ![o].stop = TRUE]
    /\ UNCHANGED <<rows, synced, post, late, butler, faults, deaths>>

Tick(o) ==
    /\ rep[o].pc = "wait"
    /\ rep' = [rep EXCEPT ![o].pc = "fetch"]
    /\ UNCHANGED <<rows, synced, post, late, butler, faults, deaths>>

SeeStop(o) ==
    /\ rep[o].pc = "wait"
    /\ rep[o].stop
    /\ rep' = [rep EXCEPT ![o].pc = "fetch", ![o].final = TRUE, ![o].owed = Pending(o)]
    /\ UNCHANGED <<rows, synced, post, late, butler, faults, deaths>>

\* doneCh is closed and Stop returns.
Stopped(o) ==
    /\ rep[o].pc = "done"
    /\ rep[o].stop
    /\ rep' = [rep EXCEPT ![o] = Off]
    /\ UNCHANGED <<rows, synced, post, late, butler, faults, deaths>>

(***************************************************************************)
(* flush.  An empty page, a failure, or a page that was not full ends it.  *)
(***************************************************************************)
FlushEndsForGood(o, fault) ==   \* mutant: a failure ends the goroutine, not the flush
    rep' = [rep EXCEPT ![o].pc    = IF rep[o].final \/ fault THEN "done" ELSE "wait",
                       ![o].batch = {}]
FlushEnds(o, fault) ==
    rep' = [rep EXCEPT ![o].pc    = IF rep[o].final THEN "done" ELSE "wait",
                       ![o].batch = {},
                       ![o].clean = IF fault /\ rep[o].final THEN FALSE ELSE @]

NothingNoticed(o) == FALSE      \* mutant: an empty page is sent
NothingToSend(o) == Page(o) = {}

FetchUnsyncedRecords(o) ==
    /\ rep[o].pc = "fetch"
    /\ \/ /\ ~NothingToSend(o)
          /\ rep' = [rep EXCEPT ![o].pc = "send", ![o].batch = Page(o)]
          /\ UNCHANGED faults
       \/ NothingToSend(o) /\ FlushEnds(o, FALSE) /\ UNCHANGED faults
       \/ Fault /\ FlushEnds(o, TRUE)
    /\ UNCHANGED <<rows, synced, post, late, butler, deaths>>

Send(o) ==
    /\ rep[o].pc = "send"
    /\ rep' = [rep EXCEPT ![o].pc = "sent"]
    /\ post' = [post EXCEPT ![o] = [state |-> "open", ids |-> rep[o].batch]]
    /\ UNCHANGED <<rows, synced, late, butler, faults, deaths>>

AnyStatusAccepted(o) == post[o].state # "none"   \* mutant: the status is not looked at
Accepted(o) == post[o].state = "ok"

\* Butler answers a page as a whole: one record it rejects has them all rejected.
Refused(ids) == ids \cap Poison # {}

\* The reply arrives.  Only a 200 counts.
SendReturns(o) ==
    /\ rep[o].pc = "sent"
    /\ \/ /\ Accepted(o)
          /\ rep' = [rep EXCEPT ![o].pc = "mark"]
          /\ UNCHANGED <<late, faults>>
       \/ /\ post[o].state = "open"     \* the status of a rejected page
          /\ Refused(post[o].ids)
          /\ FlushEnds(o, TRUE)
          /\ UNCHANGED <<late, faults>>
       \/ /\ post[o].state = "open"     \* timeout, reset or error status
          /\ Fault
          /\ FlushEnds(o, TRUE)
          /\ late' = late \cup {[org |-> o, ids |-> post[o].ids]}
       \/ /\ post[o].state = "ok"       \* the reply is lost
          /\ Fault
          /\ FlushEnds(o, TRUE)
          /\ UNCHANGED late
    /\ post' = [post EXCEPT ![o] = NoPost]
    /\ UNCHANGED <<rows, synced, butler, deaths>>

AnyPageIsLast(o) == Cardinality(rep[o].batch) <= BatchMaxSize   \* mutant: off by one
LastPage(o) == Cardinality(rep[o].batch) < BatchMaxSize

\* UPDATE llm_requests SET synced_to_butler = true WHERE id IN (...)
MarkSynced(o) ==
    /\ rep[o].pc = "mark"
    /\ \/ /\ synced' = synced \cup rep[o].batch
          /\ IF LastPage(o)
             THEN FlushEnds(o, FALSE)
             ELSE rep' = [rep EXCEPT ![o].pc = "fetch", ![o].batch = {}]
          /\ UNCHANGED faults
       \/ Fault /\ FlushEnds(o, TRUE) /\ UNCHANGED synced
    /\ UNCHANGED <<rows, post, late, butler, deaths>>

(***************************************************************************)
(* Butler, and the network between.                                        *)
(***************************************************************************)
Ingested(o, ids) ==
    butler' = [butler EXCEPT ![o] = [r \in Requests |-> IF r \in ids THEN @[r] + 1 ELSE @[r]]]

\* POST /api/v1/steward/ingest/metadata: the token names the org.
Ingest(o) ==
    /\ post[o].state = "open" /\ ~Refused(post[o].ids)
    /\ Ingested(o, post[o].ids)
    /\ post' = [post EXCEPT ![o].state = "ok"]
    /\ UNCHANGED <<rows, synced, rep, late, faults, deaths>>

\* A request whose sender gave up reaches Butler after all, or never does.
IngestLate(m) ==
    /\ m \in late
    /\ late' = late \ {m}
    /\ \/ ~Refused(m.ids) /\ Ingested(m.org, m.ids)
       \/ UNCHANGED butler
    /\ UNCHANGED <<rows, synced, rep, post, faults, deaths>>

\* The process dies.  Its open POSTs may still be on their way.
Die ==
    /\ deaths' = deaths + 1
    /\ rep' = [o \in Orgs |-> Off]
    /\ post' = [o \in Orgs |-> NoPost]
    /\ late' = late \cup {[org |-> o, ids |-> post[o].ids] : o \in {p \in Orgs : post[p].state = "open"}}
    /\ UNCHANGED <<rows, synced, butler, faults>>

Crash == deaths < MaxDeaths /\ Die

ReporterStep(o) ==
    \/ Start(o) \/ Tick(o) \/ SeeStop(o) \/ Stopped(o)
    \/ FetchUnsyncedRecords(o) \/ Send(o) \/ SendReturns(o) \/ MarkSynced(o)

Next ==
    \/ \E r \in Requests : NewRow(r)
    \/ \E o \in Orgs : ReporterStep(o) \/ Stop(o) \/ Ingest(o)
    \/ \E m \in late : IngestLate(m)
    \/ Crash

Spec == Init /\ [][Next]_vars

\* A reporter's goroutine runs, its ticker ticks, Butler serves the requests that
\* reach it, and reporters that were stopped (with the process, or by
\* deregistering their org) are started again.
Fairness ==
    \A o \in Orgs : WF_vars(ReporterStep(o)) /\ WF_vars(Ingest(o))

FairSpec == Spec /\ Fairness
-----------------------------------------------------------------------------
\* "Records persisted by the proxy write loop will not be lost": a row is marked
\* synced only if Butler has ingested it for the row's own org, whatever was
\* lost, late or repeated on the way.
SyncedWasIngested ==
    \A r \in synced : OrgOf(r) \in Orgs /\ butler[OrgOf(r)][r] > 0

\* No org's reporter ever hands Butler a row of another org.
OwnOrgOnly ==
    \A o \in Orgs, r \in Requests : butler[o][r] > 0 => OrgOf(r) = o

\* Butler sees a record again only after a fault or a death: each of them causes
\* at most one more ingestion of any record.
DuplicatesArePaidFor ==
    \A o \in Orgs, r \in Requests : butler[o][r] <= 1 + faults + deaths

\* Rows are reported in the order in which they were created: the synced rows of
\* an org come before its unsynced ones.
SyncedIsPrefix ==
    \A i, j \in DOMAIN rows :
        (i < j /\ OrgOf(rows[i]) = OrgOf(rows[j]) /\ rows[j] \in synced) => rows[i] \in synced

\* "Stop signals the reporter to do a final flush": when Stop returns after a
\* flush without a fault, every row that was pending when it began is synced,
\* however many pages that took.
FinalFlushDrains ==
    \A o \in Orgs : (rep[o].pc = "done" /\ rep[o].clean) => rep[o].owed \subseteq synced

Delivered == {r \in Requests : OrgOf(r) \in Orgs /\ butler[OrgOf(r)][r] > 0}

\* At-least-once delivery, through failures and restarts.
Reliable == INSTANCE ReliableDelivery WITH
                stored <- Stored, delivered <- Delivered, synced <- synced,
                Reported <- {r \in Requests : OrgOf(r) \in Orgs}
ImplementsReliableDelivery == Reliable!Spec

\* A row waits for ever if Butler rejects an earlier row of its org, or one so little
\* later that the same page may hold both.
Blocked(r) ==
    \E i, j \in DOMAIN rows :
        /\ rows[i] = r /\ rows[j] \in Poison /\ OrgOf(rows[j]) = OrgOf(r)
        /\ Cardinality({k \in i..j - 1 : OrgOf(rows[k]) = OrgOf(r)}) < BatchMaxSize

\* Every other row is reported: a rejected record never holds up another org, nor a
\* row of its own org that is a page or more ahead of it.
EveryRowIsReported ==
    \A r \in Requests : (OrgOf(r) \in Orgs /\ r \in Stored) ~> (r \in synced \/ Blocked(r))
=============================================================================
