----------------------------- MODULE OrgWorkers -----------------------------
(***************************************************************************)
(* Which orgs a steward works for: the rows of registered_orgs and the     *)
(* workers of WorkerManager.active, which admin requests, the poller of    *)
(* managed assignments, the start of the process and its shutdown keep in  *)
(* step.  WorkerManager's mutex makes StartOrg, StopOrg and StopAll atomic *)
(* with respect to each other; nothing makes "store the row, start the     *)
(* workers" or "stop the workers, remove the row" atomic.                  *)
(***************************************************************************)
EXTENDS Naturals, FiniteSets

CONSTANTS
    Orgs,
    Tokens,        \* steward tokens; an assignment of Butler's is known by its token
    TokenOrg(_),   \* the org Butler says a token belongs to
    NoToken,
    Admins,        \* concurrent admin requests
    MaxFaults,     \* bound on failing statements and calls
    MaxDeaths      \* bound on restarts

ASSUME OrgWorkersAssumption ==
    /\ NoToken \notin Tokens
    /\ \A t \in Tokens : TokenOrg(t) \in Orgs
    /\ {MaxFaults, MaxDeaths} \subseteq Nat

VARIABLES
    table,    \* registered_orgs: the token of each org that has a row
    active,   \* WorkerManager.active: the token its workers were started with
    admin,    \* per admin request: where it is, and its token or org
    poller,   \* ManagedOrgPoller: where it is, the assignment in hand, those to do
    pending,  \* Butler: assignments made and not yet claimed
    claimed,  \* Butler: assignments claimed
    proc,     \* the process
    toLoad,   \* orgs LoadFromDB has still to start
    raced,    \* history: orgs for which a registration and a deregistration overlapped
    faults, deaths

vars == <<table, active, admin, poller, pending, claimed, proc, toLoad, raced, faults, deaths>>

\* "drained" -> "polled" (poller stopped) -> "stopped" (StopAll) -> "down"
ProcStates == {"loading", "running", "draining", "drained", "polled", "stopped", "down"}

Free     == [pc |-> "free", token |-> NoToken, org |-> {}]
NoPoller == [pc |-> "off", token |-> NoToken, todo |-> {}]

TypeOK ==
    /\ table \in [Orgs -> Tokens \cup {NoToken}]
    /\ active \in [Orgs -> Tokens \cup {NoToken}]
    /\ \A a \in Admins :
          \/ admin[a] = Free
          \/ admin[a].pc \in {"store", "start"} /\ admin[a].token \in Tokens
             /\ admin[a].org = {TokenOrg(admin[a].token)}
          \/ admin[a].pc = "remove" /\ \E o \in Orgs : admin[a].org = {o}
    /\ poller \in [pc : {"off", "wait", "next", "store", "start", "claim"},
                   token : Tokens \cup {NoToken}, todo : SUBSET Tokens]
    /\ poller.token # NoToken <=> poller.pc \in {"store", "start", "claim"}
    /\ pending \subseteq Tokens /\ claimed \subseteq Tokens /\ pending \cap claimed = {}
    /\ proc \in ProcStates
    /\ toLoad \subseteq Orgs
    /\ raced \subseteq Orgs
    /\ faults \in 0..MaxFaults /\ deaths \in 0..(MaxDeaths + 1)

Init ==
    /\ table = [o \in Orgs |-> NoToken]
    /\ active = [o \in Orgs |-> NoToken]
    /\ admin = [a \in Admins |-> Free]
    /\ poller = NoPoller
    /\ pending = {}
    /\ claimed = {}
    /\ proc = "loading"
    /\ toLoad = {}
    /\ raced = {}
    /\ faults = 0
    /\ deaths = 0

Fault == faults < MaxFaults /\ faults' = faults + 1
Alive == proc # "down"

Registering(o) ==
    \/ \E a \in Admins : admin[a].pc \in {"store", "start"} /\ TokenOrg(admin[a].token) = o
    \/ poller.pc \in {"store", "start"} /\ TokenOrg(poller.token) = o
Deregistering(o) == \E a \in Admins : admin[a].pc = "remove" /\ admin[a].org = {o}

\* StartOrg: a no-op for an org that has workers, whatever token they have.
StartOrg(t) == active' = IF active[TokenOrg(t)] = NoToken
                         THEN [active EXCEPT ![TokenOrg(t)] = t] ELSE active

\* StewardRepository.RegisterOrg: an upsert.
RegisterOrg(t) == table' = [table EXCEPT ![TokenOrg(t)] = t]

(***************************************************************************)
(* Admin requests.                                                         *)
(***************************************************************************)
\* HandleRegisterOrg and OrgRegistrationService.RegisterOrg, up to Butler's answer
\* to fetchMe.  A request Butler rejects changes nothing.
BeginRegister(a, t) ==
    /\ proc = "running"
    /\ admin[a] = Free
    /\ admin' = [admin EXCEPT ![a] = [pc |-> "store", token |-> t, org |-> {TokenOrg(t)}]]
    /\ raced' = raced \cup {o \in {TokenOrg(t)} : Deregistering(o)}
    /\ UNCHANGED <<table, active, poller, pending, claimed, proc, toLoad, faults, deaths>>

StoreRegistrationAnyhow(a) ==   \* mutant: the error of the upsert is not returned
    /\ Alive
    /\ admin[a].pc = "store"
    /\ \/ RegisterOrg(admin[a].token) /\ UNCHANGED faults
       \/ Fault /\ UNCHANGED table
    /\ admin' = [admin EXCEPT ![a].pc = "start"]
    /\ UNCHANGED <<active, poller, pending, claimed, proc, toLoad, raced, deaths>>

StoreRegistration(a) ==
    /\ Alive
    /\ admin[a].pc = "store"
    /\ \/ RegisterOrg(admin[a].token) /\ admin' = [admin EXCEPT ![a].pc = "start"] /\ UNCHANGED faults
       \/ Fault /\ admin' = [admin EXCEPT ![a] = Free] /\ UNCHANGED table
    /\ UNCHANGED <<active, poller, pending, claimed, proc, toLoad, raced, deaths>>

StartRegistered(a) ==
    /\ Alive
    /\ admin[a].pc = "start"
    /\ StartOrg(admin[a].token)
    /\ admin' = [admin EXCEPT ![a] = Free]
    /\ UNCHANGED <<table, poller, pending, claimed, proc, toLoad, raced, faults, deaths>>

\* HandleDeregisterOrg: StopOrg, then RemoveRegisteredOrg.
StopOrg(a, o) ==
    /\ proc = "running"
    /\ admin[a] = Free
    /\ active' = [active EXCEPT ![o] = NoToken]
    /\ admin' = [admin EXCEPT ![a] = [pc |-> "remove", token |-> NoToken, org |-> {o}]]
    /\ raced' = raced \cup {p \in {o} : Registering(p)}
    /\ UNCHANGED <<table, poller, pending, claimed, proc, toLoad, faults, deaths>>

RemoveRegisteredOrg(a) ==
    /\ Alive
    /\ admin[a].pc = "remove"
    /\ \/ table' = [o \in Orgs |-> IF o \in admin[a].org THEN NoToken ELSE table[o]] /\ UNCHANGED faults
       \/ Fault /\ UNCHANGED table
    /\ admin' = [admin EXCEPT ![a] = Free]
    /\ UNCHANGED <<active, poller, pending, claimed, proc, toLoad, raced, deaths>>

(***************************************************************************)
(* The managed poller: poll and handleAssignment.                          *)
(***************************************************************************)
Poller(new) ==
    /\ poller' = new
    /\ UNCHANGED <<admin, pending, proc, toLoad, deaths>>

\* Butler's side: an org is assigned to this steward.
Assign(t) ==
    /\ t \notin pending \cup claimed
    /\ pending' = pending \cup {t}
    /\ UNCHANGED <<table, active, admin, poller, claimed, proc, toLoad, raced, faults, deaths>>

FetchPending ==
    /\ Alive
    /\ poller.pc = "wait"
    /\ pending # {}
    /\ \/ Poller([poller EXCEPT !.pc = "next", !.todo = pending]) /\ UNCHANGED faults
       \/ Fault /\ Poller(poller)
    /\ UNCHANGED <<table, active, claimed, raced>>

NextAssignment ==
    /\ Alive
    /\ poller.pc = "next"
    /\ IF poller.todo = {}
       THEN Poller([poller EXCEPT !.pc = "wait"]) /\ UNCHANGED raced
       ELSE \E t \in poller.todo :
               /\ Poller([pc |-> "store", token |-> t, todo |-> poller.todo \ {t}])
               /\ raced' = raced \cup {o \in {TokenOrg(t)} : Deregistering(o)}
    /\ UNCHANGED <<table, active, claimed, faults>>

DoneWithTokenInHand == [poller EXCEPT !.pc = "next"]    \* mutant: the loop variable survives
AssignmentDone == [poller EXCEPT !.pc = "next", !.token = NoToken]

StoreAssignment ==
    /\ Alive
    /\ poller.pc = "store"
    /\ \/ RegisterOrg(poller.token) /\ Poller([poller EXCEPT !.pc = "start"]) /\ UNCHANGED faults
       \/ Fault /\ Poller(AssignmentDone) /\ UNCHANGED table
    /\ UNCHANGED <<active, claimed, raced>>

NewOrgsOnly ==          \* mutant: an org that already has workers is not claimed
    IF active[TokenOrg(poller.token)] = NoToken THEN [poller EXCEPT !.pc = "claim"] ELSE AssignmentDone
StartedAssignment == [poller EXCEPT !.pc = "claim"]

StartAssignment ==
    /\ Alive
    /\ poller.pc = "start"
    /\ StartOrg(poller.token)
    /\ Poller(StartedAssignment)
    /\ UNCHANGED <<table, claimed, raced, faults>>

\* The claim may fail before or after Butler has noted it.
ClaimAssignment ==
    /\ Alive
    /\ poller.pc = "claim"
    /\ poller' = AssignmentDone
    /\ \/ /\ claimed' = claimed \cup {poller.token}
          /\ pending' = pending \ {poller.token}
          /\ UNCHANGED faults
       \/ Fault /\ UNCHANGED <<pending, claimed>>
    /\ UNCHANGED <<table, active, admin, proc, toLoad, raced, deaths>>

(***************************************************************************)
(* The process: LoadFromDB and the rest of Build, then ShutdownWithTimeout *)
(* on SIGTERM.                                                             *)
(***************************************************************************)
Process(to) ==
    /\ proc' = to
    /\ UNCHANGED <<table, admin, pending, claimed, raced>>

\* An org whose token cannot be decrypted is skipped.
LoadOrg(o) ==
    /\ proc = "loading"
    /\ o \in toLoad
    /\ toLoad' = toLoad \ {o}
    /\ \/ StartOrg(table[o]) /\ UNCHANGED faults
       \/ Fault /\ UNCHANGED active
    /\ UNCHANGED <<table, admin, poller, pending, claimed, proc, raced, deaths>>

\* The poller starts, and polls, before the HTTP server does.
Serve ==
    /\ proc = "loading"
    /\ toLoad = {}
    /\ Process("running")
    /\ poller' = [NoPoller EXCEPT !.pc = "wait"]
    /\ UNCHANGED <<active, toLoad, faults, deaths>>

Shutdown == proc = "running" /\ Process("draining") /\ UNCHANGED <<active, poller, toLoad, faults, deaths>>

\* The admin requests have been answered, or the timeout has expired.
HttpDrained ==
    /\ proc = "draining"
    /\ IF \A a \in Admins : admin[a] = Free THEN UNCHANGED faults ELSE Fault
    /\ Process("drained")
    /\ UNCHANGED <<active, poller, toLoad, deaths>>

NotAwaited == TRUE      \* mutant: `<-p.doneCh` is missing
PollerReturned == poller.pc = "wait"

\* managedPoller.Stop: a poll that is under way is carried through.
StopPoller ==
    /\ proc = "drained"
    /\ PollerReturned
    /\ Process("polled")
    /\ poller' = IF poller.pc = "wait" THEN NoPoller ELSE poller
    /\ UNCHANGED <<active, toLoad, faults, deaths>>

StopAll ==
    /\ proc = "polled"
    /\ Process("stopped")
    /\ active' = [o \in Orgs |-> NoToken]
    /\ UNCHANGED <<poller, toLoad, faults, deaths>>

\* The end of the process, after Close or by a crash.
Die ==
    /\ proc' = "down"
    /\ deaths' = deaths + 1
    /\ active' = [o \in Orgs |-> NoToken]
    /\ admin' = [a \in Admins |-> Free]
    /\ poller' = NoPoller
    /\ toLoad' = {}
    /\ raced' = {}
    /\ UNCHANGED <<table, pending, claimed, faults>>

Exit  == proc = "stopped" /\ Die
Crash == Alive /\ deaths < MaxDeaths /\ Die

ListRegisteredOrgs == {o \in Orgs : table[o] # NoToken}

\* LoadFromDB.  If its query fails, Build fails and the process is down again.
Restart ==
    /\ proc = "down"
    /\ deaths <= MaxDeaths
    /\ \/ /\ Process("loading")
          /\ toLoad' = ListRegisteredOrgs
          /\ UNCHANGED faults
       \/ Fault /\ Process("down") /\ UNCHANGED toLoad
    /\ UNCHANGED <<active, poller, deaths>>

Handle(a) == StoreRegistration(a) \/ StartRegistered(a) \/ RemoveRegisteredOrg(a)
Poll      == FetchPending \/ NextAssignment \/ StoreAssignment \/ StartAssignment \/ ClaimAssignment
Run       == Serve \/ HttpDrained \/ StopPoller \/ StopAll \/ Exit \/ \E o \in Orgs : LoadOrg(o)

Next ==
    \/ \E a \in Admins :
          \/ Handle(a)
          \/ \E t \in Tokens : BeginRegister(a, t)
          \/ \E o \in Orgs : StopOrg(a, o)
    \/ \E t \in Tokens : Assign(t)
    \/ Poll \/ Run \/ Shutdown \/ Crash \/ Restart

Spec == Init /\ [][Next]_vars

\* Handlers, the poller and main.go's sequence go on; a steward that is down is
\* started again within the bound on deaths.
Fairness ==
    /\ \A a \in Admins : WF_vars(Handle(a))
    /\ WF_vars(Poll) /\ WF_vars(Run) /\ WF_vars(Restart)

FairSpec == Spec /\ Fairness
-----------------------------------------------------------------------------
\* Workers and rows agree unless a registration of the org overlapped with a
\* deregistration.  Workers run only for an org that is registered, so that it
\* "survives a restart", through failures and crashes; and a registered org,
\* whether an admin registered it, Butler assigned it or a restart loaded it, has
\* workers once the operations on it are over, if nothing failed in them.
WorkersMatchRegistrations ==
    \A o \in Orgs \ raced :
        /\ active[o] # NoToken => table[o] # NoToken
        /\ (proc = "running" /\ faults = 0 /\ table[o] # NoToken
                /\ ~Registering(o) /\ ~Deregistering(o)) => active[o] # NoToken

\* Butler's assignments are claimed in the end, through failures and crashes.
AssignmentsAreClaimed ==
    \A t \in Tokens : (t \in pending) ~> (t \in claimed \/ (proc # "running" /\ deaths >= MaxDeaths))

\* "StopAll blocks until all workers finish": none is started after it, unless an
\* admin request outlived the drain timeout (a fault).
NoWorkersAfterStopAll ==
    (proc = "stopped" /\ faults = 0) => \A o \in Orgs : active[o] = NoToken
=============================================================================
