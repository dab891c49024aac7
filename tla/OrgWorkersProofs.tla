-------------------------- MODULE OrgWorkersProofs --------------------------
(***************************************************************************)
(* Proofs about the registration of orgs and their workers, for any orgs,  *)
(* tokens, admin requests and bounds on faults and deaths.                 *)
(***************************************************************************)
EXTENDS OrgWorkers, TLAPS

Requests == [pc : {"free", "store", "start", "remove"}, token : Tokens \cup {NoToken}, org : SUBSET Orgs]

\* The parts of the inductive invariant.
RequestOK(h) ==
    /\ h \in Requests
    /\ \/ h = Free
       \/ h.pc \in {"store", "start"} /\ h.token \in Tokens /\ h.org = {TokenOrg(h.token)}
       \/ h.pc = "remove" /\ \E o \in Orgs : h.org = {o}

\* A row holds a token of its own org.
RowsOK ==
    /\ table \in [Orgs -> Tokens \cup {NoToken}]
    /\ \A o \in Orgs : table[o] # NoToken => TokenOrg(table[o]) = o

Typed ==
    /\ TypeOK
    /\ RowsOK
    /\ admin \in [Admins -> Requests]
    /\ \A a \in Admins : RequestOK(admin[a])

NoRequests == \A a \in Admins : admin[a] = Free

\* What each state of the process rules out.
Phases ==
    /\ Alive => deaths <= MaxDeaths
    /\ proc \in {"loading", "down"} => NoRequests /\ raced = {}
    /\ proc \in {"loading", "polled", "stopped", "down"} => poller.pc = "off"
    /\ proc # "loading" => toLoad = {}
    /\ \A o \in toLoad : table[o] # NoToken
    /\ proc = "down" => \A o \in Orgs : active[o] = NoToken
    /\ (proc \in {"drained", "polled", "stopped"} /\ faults = 0) => NoRequests

Starting(o) ==
    \/ \E a \in Admins : admin[a].pc = "start" /\ TokenOrg(admin[a].token) = o
    \/ poller.pc = "start" /\ TokenOrg(poller.token) = o

\* An org whose registrations and deregistrations have not overlapped.
InStep(o) ==
    /\ active[o] # NoToken => table[o] # NoToken
    /\ Starting(o) => table[o] # NoToken
    /\ Deregistering(o) => ~Registering(o) /\ active[o] = NoToken
    /\ (proc \in {"loading", "running"} /\ faults = 0 /\ table[o] # NoToken
            /\ ~Registering(o) /\ ~Deregistering(o)) => active[o] # NoToken \/ o \in toLoad

IInv ==
    /\ Typed
    /\ Phases
    /\ \A o \in Orgs \ raced : InStep(o)
    /\ NoWorkersAfterStopAll
-----------------------------------------------------------------------------
\* The invariant holds at the start, when no org is registered and nothing runs.
THEOREM InitIInv == Init => IInv
<1> SUFFICES ASSUME Init PROVE IInv
  OBVIOUS
<1> USE OrgWorkersAssumption DEF Init, Free
<1>1. Typed
  BY DEF RowsOK, Typed, TypeOK, Requests, RequestOK, ProcStates, NoPoller
<1>2. Phases
  BY DEF Phases, Alive, NoRequests, NoPoller
<1>3. NoWorkersAfterStopAll /\ \A o \in Orgs : InStep(o)
  BY DEF NoWorkersAfterStopAll, InStep, Starting, Deregistering, NoPoller
<1> QED
  BY <1>1, <1>2, <1>3 DEF IInv

\* It implies the invariants that the run checks.
THEOREM IInvImplies == IInv => TypeOK /\ WorkersMatchRegistrations /\ NoWorkersAfterStopAll
<1> SUFFICES ASSUME IInv PROVE TypeOK /\ WorkersMatchRegistrations /\ NoWorkersAfterStopAll
  OBVIOUS
<1>1. ASSUME NEW o \in Orgs \ raced, proc = "running" PROVE o \notin toLoad
  BY <1>1 DEF IInv, Phases
<1>2. WorkersMatchRegistrations
  BY <1>1 DEF IInv, InStep, WorkersMatchRegistrations
<1> QED
  BY <1>2 DEF IInv, Typed

-----------------------------------------------------------------------------
LEMMA FaultType == ASSUME Typed, Fault \/ UNCHANGED faults
                   PROVE  faults' \in 0..MaxFaults /\ faults \in Nat /\ (faults' = 0 => faults = 0)
BY OrgWorkersAssumption DEF RowsOK, Typed, TypeOK, Fault

LEMMA TokensOrg == ASSUME NEW t \in Tokens PROVE TokenOrg(t) \in Orgs /\ t # NoToken
BY OrgWorkersAssumption

\* An admin request goes on; the poller does not.
LEMMA RequestMoves ==
    ASSUME Typed, NEW a \in Admins, NEW h, RequestOK(h), admin' = [admin EXCEPT ![a] = h],
           UNCHANGED <<poller, pending, claimed, proc, toLoad, deaths>>,
           Fault \/ UNCHANGED faults, raced' \subseteq Orgs,
           RowsOK', active' \in [Orgs -> Tokens \cup {NoToken}]
    PROVE  /\ Typed'
           /\ admin'[a] = h
           /\ \A b \in Admins \ {a} : admin'[b] = admin[b]
<1>1. h \in Requests
  BY DEF RequestOK
<1>2. admin' \in [Admins -> Requests] /\ admin'[a] = h /\ \A b \in Admins \ {a} : admin'[b] = admin[b]
  BY <1>1 DEF Typed
<1>3. \A b \in Admins : RequestOK(admin'[b])
  BY <1>2 DEF Typed
<1>4. \A b \in Admins : RequestOK(admin[b])'
  BY <1>3 DEF RequestOK
<1>5. TypeOK'
  <2>1. faults' \in 0..MaxFaults
    BY FaultType
  <2>2. \A b \in Admins :
          \/ admin'[b] = Free
          \/ admin'[b].pc \in {"store", "start"} /\ admin'[b].token \in Tokens
             /\ admin'[b].org = {TokenOrg(admin'[b].token)}
          \/ admin'[b].pc = "remove" /\ \E o \in Orgs : admin'[b].org = {o}
    BY <1>3 DEF RequestOK
  <2> QED
    BY <2>1, <2>2 DEF RowsOK, Typed, TypeOK
<1> QED
  BY <1>2, <1>4, <1>5 DEF Typed

\* The poller, Butler or the process goes on; the admin requests do not.
LEMMA OthersMove ==
    ASSUME Typed, UNCHANGED admin,
           poller' \in [pc : {"off", "wait", "next", "store", "start", "claim"},
                        token : Tokens \cup {NoToken}, todo : SUBSET Tokens],
           poller'.token # NoToken <=> poller'.pc \in {"store", "start", "claim"},
           pending' \subseteq Tokens, claimed' \subseteq Tokens, pending' \cap claimed' = {},
           proc' \in ProcStates, toLoad' \subseteq Orgs, raced' \subseteq Orgs,
           Fault \/ UNCHANGED faults, UNCHANGED deaths,
           RowsOK', active' \in [Orgs -> Tokens \cup {NoToken}]
    PROVE  Typed'
<1>1. faults' \in 0..MaxFaults
  BY FaultType
<1> QED
  BY <1>1 DEF RowsOK, Typed, TypeOK, RequestOK

LEMMA StartType ==
    ASSUME Typed, NEW t \in Tokens, StartOrg(t)
    PROVE  /\ active' \in [Orgs -> Tokens \cup {NoToken}]
           /\ active'[TokenOrg(t)] # NoToken
           /\ \A o \in Orgs : o # TokenOrg(t) => active'[o] = active[o]
           /\ \A o \in Orgs : active[o] # NoToken => active'[o] # NoToken
BY TokensOrg DEF RowsOK, Typed, TypeOK, StartOrg

LEMMA RegisterType ==
    ASSUME Typed, NEW t \in Tokens, RegisterOrg(t)
    PROVE  /\ RowsOK'
           /\ table'[TokenOrg(t)] # NoToken
           /\ \A o \in Orgs : o # TokenOrg(t) => table'[o] = table[o]
BY TokensOrg DEF RowsOK, Typed, TypeOK, RegisterOrg

\* What a step of the request of a does to the operations under way on an org.
LEMMA Underway ==
    ASSUME NEW a \in Admins, NEW o, UNCHANGED poller, \A b \in Admins \ {a} : admin'[b] = admin[b]
    PROVE  /\ Registering(o)' <=> \/ admin'[a].pc \in {"store", "start"} /\ TokenOrg(admin'[a].token) = o
                                  \/ \E b \in Admins \ {a} : admin[b].pc \in {"store", "start"} /\ TokenOrg(admin[b].token) = o
                                  \/ poller.pc \in {"store", "start"} /\ TokenOrg(poller.token) = o
           /\ Deregistering(o)' <=> \/ admin'[a].pc = "remove" /\ admin'[a].org = {o}
                                    \/ \E b \in Admins \ {a} : admin[b].pc = "remove" /\ admin[b].org = {o}
           /\ Starting(o)' <=> \/ admin'[a].pc = "start" /\ TokenOrg(admin'[a].token) = o
                               \/ \E b \in Admins \ {a} : admin[b].pc = "start" /\ TokenOrg(admin[b].token) = o
                               \/ poller.pc = "start" /\ TokenOrg(poller.token) = o
<1>1. Registering(o)' <=> \/ \E b \in Admins : admin'[b].pc \in {"store", "start"} /\ TokenOrg(admin'[b].token) = o
                          \/ poller.pc \in {"store", "start"} /\ TokenOrg(poller.token) = o
  BY DEF Registering
<1>2. Deregistering(o)' <=> \E b \in Admins : admin'[b].pc = "remove" /\ admin'[b].org = {o}
  BY DEF Deregistering
<1>3. Starting(o)' <=> \/ \E b \in Admins : admin'[b].pc = "start" /\ TokenOrg(admin'[b].token) = o
                       \/ poller.pc = "start" /\ TokenOrg(poller.token) = o
  BY DEF Starting
<1> QED
  BY <1>1, <1>2, <1>3
-----------------------------------------------------------------------------
(***************************************************************************)
(* Admin requests.                                                         *)
(***************************************************************************)
LEMMA BeginRegisterStep ==
    ASSUME IInv, NEW a \in Admins, NEW t \in Tokens, BeginRegister(a, t) PROVE IInv'
<1> DEFINE h == [pc |-> "store", token |-> t, org |-> {TokenOrg(t)}]
<1> USE DEF IInv
<1>1. RequestOK(h)
  BY TokensOrg DEF RequestOK, Requests
<1>2. admin' = [admin EXCEPT ![a] = h] /\ raced' \subseteq Orgs
  BY TokensOrg DEF BeginRegister, RowsOK, Typed, TypeOK
<1>3. Typed' /\ admin'[a] = h /\ \A b \in Admins \ {a} : admin'[b] = admin[b]
  <2> HIDE DEF h
  <2> QED
    BY <1>1, <1>2, RequestMoves DEF BeginRegister, RowsOK, Typed, TypeOK
<1>4. Phases' /\ NoWorkersAfterStopAll'
  BY DEF BeginRegister, Phases, NoWorkersAfterStopAll, NoRequests, Alive
<1>5. ASSUME NEW o \in Orgs \ raced' PROVE InStep(o)'
  <2>1. o \in Orgs \ raced /\ InStep(o)
    BY DEF BeginRegister
  <2>2. o = TokenOrg(t) => ~Deregistering(o)
    BY DEF BeginRegister
  <2>3. admin[a].pc = "free"
    BY DEF BeginRegister, Free
  <2>4. /\ Registering(o)' <=> Registering(o) \/ o = TokenOrg(t)
        /\ Deregistering(o)' <=> Deregistering(o)
        /\ Starting(o)' <=> Starting(o)
    <3>1. UNCHANGED poller
      BY DEF BeginRegister
    <3> QED
      BY <1>3, <2>3, <3>1, Underway DEF Registering, Deregistering, Starting
  <2> QED
    BY <2>1, <2>2, <2>4 DEF BeginRegister, InStep
<1> QED
  BY <1>3, <1>4, <1>5

LEMMA StoreRegistrationStep ==
    ASSUME IInv, NEW a \in Admins, StoreRegistration(a) PROVE IInv'
<1> DEFINE t == admin[a].token
<1> USE DEF IInv
<1>1. t \in Tokens /\ RequestOK(admin[a]) /\ admin[a] \in Requests /\ admin[a].pc = "store"
  BY DEF StoreRegistration, Typed, RequestOK, Free
<1>2. CASE RegisterOrg(t) /\ admin' = [admin EXCEPT ![a].pc = "start"] /\ UNCHANGED faults
  <2> DEFINE h == [admin[a] EXCEPT !.pc = "start"]
  <2>1. RequestOK(h) /\ h.pc = "start" /\ h.token = t /\ admin' = [admin EXCEPT ![a] = h]
    BY <1>1, <1>2 DEF RequestOK, Requests, Free
  <2> HIDE DEF h
  <2>2. Typed' /\ admin'[a] = h /\ \A b \in Admins \ {a} : admin'[b] = admin[b]
    BY <1>1, <1>2, <2>1, RequestMoves, RegisterType DEF StoreRegistration, RowsOK, Typed, TypeOK
  <2>3. Phases' /\ NoWorkersAfterStopAll'
    BY <1>1, <1>2, RegisterType DEF StoreRegistration, Phases, NoWorkersAfterStopAll, NoRequests, Alive, Free
  <2>4. ASSUME NEW o \in Orgs \ raced' PROVE InStep(o)'
    <3>1. o \in Orgs \ raced /\ InStep(o)
      BY DEF StoreRegistration
    <3>2. /\ Registering(o)' <=> Registering(o)
          /\ Deregistering(o)' <=> Deregistering(o)
          /\ Starting(o)' => Starting(o) \/ o = TokenOrg(t)
      <4>1. UNCHANGED poller
        BY DEF StoreRegistration
      <4> QED
        BY <1>1, <2>1, <2>2, <4>1, Underway DEF Registering, Deregistering, Starting
    <3>3. o = TokenOrg(t) => Registering(o)
      BY <1>1 DEF Registering
    <3> QED
      BY <1>1, <1>2, <3>1, <3>2, <3>3, RegisterType DEF StoreRegistration, InStep
  <2> QED
    BY <2>2, <2>3, <2>4
<1>3. CASE Fault /\ admin' = [admin EXCEPT ![a] = Free] /\ UNCHANGED table
  <2>1. RequestOK(Free)
    BY DEF RequestOK, Requests, Free
  <2>2. Typed' /\ admin'[a] = Free /\ \A b \in Admins \ {a} : admin'[b] = admin[b]
    BY <1>3, <2>1, RequestMoves DEF StoreRegistration, RowsOK, Typed, TypeOK
  <2>3. faults' # 0
    BY <1>3 DEF Fault, RowsOK, Typed, TypeOK
  <2>4. Phases' /\ NoWorkersAfterStopAll'
    BY <1>1, <1>3, <2>2, <2>3 DEF StoreRegistration, Phases, NoWorkersAfterStopAll, NoRequests, Alive, Free
  <2>5. ASSUME NEW o \in Orgs \ raced' PROVE InStep(o)'
    <3>1. o \in Orgs \ raced /\ InStep(o)
      BY DEF StoreRegistration
    <3>2. /\ Registering(o)' => Registering(o)
          /\ Deregistering(o)' => Deregistering(o)
          /\ Starting(o)' => Starting(o)
      <4>1. UNCHANGED poller
        BY DEF StoreRegistration
      <4> QED
        BY <2>2, <4>1, Underway DEF Registering, Deregistering, Starting, Free
    <3> QED
      BY <1>3, <2>3, <3>1, <3>2 DEF StoreRegistration, InStep
  <2> QED
    BY <2>2, <2>4, <2>5
<1> QED
  BY <1>2, <1>3 DEF StoreRegistration

LEMMA StartRegisteredStep ==
    ASSUME IInv, NEW a \in Admins, StartRegistered(a) PROVE IInv'
<1> DEFINE t == admin[a].token
<1> USE DEF IInv
<1>1. t \in Tokens /\ admin[a].pc = "start" /\ StartOrg(t) /\ Alive
  BY DEF StartRegistered, Typed, RequestOK, Free
<1>2. RequestOK(Free)
  BY DEF RequestOK, Requests, Free
<1>3. Typed' /\ admin'[a] = Free /\ \A b \in Admins \ {a} : admin'[b] = admin[b]
  BY <1>1, <1>2, RequestMoves, StartType DEF StartRegistered, RowsOK, Typed, TypeOK
<1>4. Phases' /\ NoWorkersAfterStopAll'
  BY <1>1, <1>3 DEF StartRegistered, Phases, NoWorkersAfterStopAll, NoRequests, Alive, Free
<1>5. ASSUME NEW o \in Orgs \ raced' PROVE InStep(o)'
  <2>1. o \in Orgs \ raced /\ InStep(o)
    BY DEF StartRegistered
  <2>2. o = TokenOrg(t) => Starting(o) /\ Registering(o)
    BY <1>1 DEF Starting, Registering
  <2>3. /\ Registering(o)' => Registering(o)
        /\ Deregistering(o)' <=> Deregistering(o)
        /\ Starting(o)' => Starting(o)
        /\ o # TokenOrg(t) => (Registering(o) => Registering(o)')
    <3>1. UNCHANGED poller
      BY DEF StartRegistered
    <3> QED
      BY <1>1, <1>3, <3>1, Underway DEF Registering, Deregistering, Starting, Free
  <2> QED
    BY <1>1, <2>1, <2>2, <2>3, StartType DEF StartRegistered, InStep
<1> QED
  BY <1>3, <1>4, <1>5

LEMMA StopOrgStep ==
    ASSUME IInv, NEW a \in Admins, NEW p \in Orgs, StopOrg(a, p) PROVE IInv'
<1> DEFINE h == [pc |-> "remove", token |-> NoToken, org |-> {p}]
<1> USE DEF IInv
<1>1. RequestOK(h) /\ admin' = [admin EXCEPT ![a] = h] /\ h.pc = "remove" /\ h.org = {p}
  BY DEF StopOrg, RequestOK, Requests
<1> HIDE DEF h
<1>2. Typed' /\ admin'[a] = h /\ \A b \in Admins \ {a} : admin'[b] = admin[b]
  BY <1>1, RequestMoves DEF StopOrg, RowsOK, Typed, TypeOK
<1>3. Phases' /\ NoWorkersAfterStopAll'
  BY DEF StopOrg, Phases, NoWorkersAfterStopAll, NoRequests, Alive
<1>4. ASSUME NEW o \in Orgs \ raced' PROVE InStep(o)'
  <2>1. o \in Orgs \ raced /\ InStep(o)
    BY DEF StopOrg
  <2>2. o = p => ~Registering(o)
    BY DEF StopOrg
  <2>3. admin[a].pc = "free"
    BY DEF StopOrg, Free
  <2>4. /\ Registering(o)' <=> Registering(o)
        /\ Deregistering(o)' <=> Deregistering(o) \/ o = p
        /\ Starting(o)' <=> Starting(o)
    <3>1. UNCHANGED poller
      BY DEF StopOrg
    <3> QED
      BY <1>1, <1>2, <2>3, <3>1, Underway DEF Registering, Deregistering, Starting
  <2>5. active'[o] = IF o = p THEN NoToken ELSE active[o]
    BY DEF StopOrg, RowsOK, Typed, TypeOK
  <2>6. Starting(o) => Registering(o)
    BY DEF Starting, Registering
  <2> QED
    BY <2>1, <2>2, <2>4, <2>5, <2>6 DEF StopOrg, InStep
<1> QED
  BY <1>2, <1>3, <1>4

LEMMA RemoveRegisteredOrgStep ==
    ASSUME IInv, NEW a \in Admins, RemoveRegisteredOrg(a) PROVE IInv'
<1> USE DEF IInv
<1>1. PICK p \in Orgs : admin[a].org = {p} /\ admin[a].pc = "remove" /\ Alive
  BY DEF RemoveRegisteredOrg, Typed, RequestOK, Free
<1>2. RequestOK(Free)
  BY DEF RequestOK, Requests, Free
<1>3. /\ RowsOK'
      /\ \A o \in Orgs : o # p => table'[o] = table[o]
      /\ table'[p] # NoToken => table'[p] = table[p] /\ faults' # 0
  BY <1>1 DEF RemoveRegisteredOrg, RowsOK, Typed, TypeOK, Fault
<1>4. Typed' /\ admin'[a] = Free /\ \A b \in Admins \ {a} : admin'[b] = admin[b]
  BY <1>2, <1>3, RequestMoves DEF RemoveRegisteredOrg, RowsOK, Typed, TypeOK
<1>5. ~NoRequests /\ (faults' = 0 => faults = 0)
  BY <1>1, FaultType DEF RemoveRegisteredOrg, NoRequests, Free
<1>6. proc # "loading" /\ proc # "down"
  BY <1>5 DEF Phases
<1>7. Phases' /\ NoWorkersAfterStopAll'
  BY <1>5, <1>6 DEF RemoveRegisteredOrg, Phases, NoWorkersAfterStopAll, Alive
<1>8. ASSUME NEW o \in Orgs \ raced' PROVE InStep(o)'
  <2>1. o \in Orgs \ raced /\ InStep(o)
    BY DEF RemoveRegisteredOrg
  <2>2. o = p => Deregistering(o)
    BY <1>1 DEF Deregistering
  <2>3. /\ Registering(o)' <=> Registering(o)
        /\ Deregistering(o)' => Deregistering(o)
        /\ o # p => (Deregistering(o) => Deregistering(o)')
        /\ Starting(o)' <=> Starting(o)
    <3>1. UNCHANGED poller
      BY DEF RemoveRegisteredOrg
    <3> QED
      BY <1>1, <1>4, <3>1, Underway DEF Registering, Deregistering, Starting, Free
  <2>4. Starting(o) => Registering(o)
    BY DEF Starting, Registering
  <2>5. CASE o = p
    BY <1>3, <2>1, <2>2, <2>3, <2>4, <2>5 DEF RemoveRegisteredOrg, InStep
  <2>6. CASE o # p
    BY <1>3, <1>5, <2>1, <2>3, <2>6 DEF RemoveRegisteredOrg, InStep
  <2> QED
    BY <2>5, <2>6
<1> QED
  BY <1>4, <1>7, <1>8
-----------------------------------------------------------------------------
(***************************************************************************)
(* The poller and Butler.                                                  *)
(***************************************************************************)
LEMMA AssignStep == ASSUME IInv, NEW t \in Tokens, Assign(t) PROVE IInv'
<1> USE DEF IInv
<1>1. Typed'
  BY OthersMove DEF Assign, RowsOK, Typed, TypeOK
<1>2. Phases' /\ NoWorkersAfterStopAll'
  BY DEF Assign, Phases, NoWorkersAfterStopAll, NoRequests, Alive
<1>3. ASSUME NEW o \in Orgs \ raced' PROVE InStep(o)'
  BY DEF Assign, InStep, Starting, Registering, Deregistering
<1> QED
  BY <1>1, <1>2, <1>3

\* The states of a poller that is between two assignments, or has one in hand.
Pollers == [pc : {"off", "wait", "next", "store", "start", "claim"}, token : Tokens \cup {NoToken}, todo : SUBSET Tokens]

LEMMA PollerInHand ==
    ASSUME Typed PROVE /\ poller \in Pollers
                       /\ poller.pc \in {"store", "start", "claim"} => poller.token \in Tokens
                       /\ AssignmentDone \in Pollers /\ AssignmentDone.pc = "next" /\ AssignmentDone.token = NoToken
BY DEF RowsOK, Typed, TypeOK, Pollers, AssignmentDone

\* The poller is taken from wherever it is to n by a step that stores and starts nothing.
LEMMA PollerMoves ==
    ASSUME IInv, NEW n \in Pollers, poller' = n, n.pc \in {"wait", "next", "claim"}, n.token # NoToken <=> n.pc = "claim",
           UNCHANGED <<table, active, admin, proc, toLoad, raced, deaths>>, proc \notin {"loading", "polled", "stopped", "down"},
           Fault \/ UNCHANGED faults,
           poller.pc \in {"store", "start"} => Fault,
           pending' \subseteq Tokens, claimed' \subseteq Tokens, pending' \cap claimed' = {}
    PROVE  IInv'
<1> USE DEF IInv
<1>1. Typed'
  BY OthersMove DEF RowsOK, Typed, TypeOK, Pollers
<1>2. faults' = 0 => faults = 0 /\ poller.pc \notin {"store", "start"}
  BY FaultType DEF Fault, RowsOK, Typed, TypeOK
<1>3. Phases' /\ NoWorkersAfterStopAll'
  BY <1>2 DEF Phases, NoWorkersAfterStopAll, NoRequests, Alive
<1>4. ASSUME NEW o \in Orgs \ raced' PROVE InStep(o)'
  <2>1. /\ InStep(o)
        /\ Starting(o)' => Starting(o)
        /\ Registering(o)' => Registering(o)
        /\ faults' = 0 => (Registering(o) => Registering(o)')
        /\ Deregistering(o)' <=> Deregistering(o)
    BY <1>2 DEF Starting, Registering, Deregistering
  <2> QED
    BY <1>2, <2>1 DEF InStep
<1> QED
  BY <1>1, <1>3, <1>4

\* Where the poller is under way.
LEMMA PollerAlive ==
    ASSUME Phases, poller.pc # "off" PROVE proc \notin {"loading", "polled", "stopped", "down"}
BY DEF Phases

LEMMA FetchPendingStep == ASSUME IInv, FetchPending PROVE IInv'
<1> USE DEF IInv, FetchPending
<1> DEFINE n == [poller EXCEPT !.pc = "next", !.todo = pending]
<1>1. proc \notin {"loading", "polled", "stopped", "down"} /\ poller \in Pollers /\ poller.pc = "wait" /\ poller.token = NoToken
  BY PollerAlive, PollerInHand DEF RowsOK, Typed, TypeOK
<1>2. n \in Pollers /\ n.pc = "next" /\ n.token = NoToken
  BY <1>1 DEF RowsOK, Typed, TypeOK, Pollers
<1>3. pending' = pending /\ claimed' = claimed /\ UNCHANGED <<table, active, admin, proc, toLoad, raced, deaths>>
  BY DEF Poller
<1>4. pending' \subseteq Tokens /\ claimed' \subseteq Tokens /\ pending' \cap claimed' = {}
  BY <1>3 DEF RowsOK, Typed, TypeOK
<1>5. CASE poller' = n /\ UNCHANGED faults
  <2> HIDE DEF n, FetchPending
  <2> QED
    BY <1>1, <1>2, <1>3, <1>4, <1>5, PollerMoves
<1>6. CASE Fault /\ poller' = poller
  BY <1>1, <1>3, <1>4, <1>6, PollerMoves
<1> QED
  BY <1>5, <1>6 DEF Poller

LEMMA NextAssignmentStep == ASSUME IInv, NextAssignment PROVE IInv'
<1> USE DEF IInv
<1>1. proc \notin {"loading", "polled", "stopped", "down"} /\ poller \in Pollers /\ poller.pc = "next" /\ poller.token = NoToken
  BY PollerAlive, PollerInHand DEF RowsOK, Typed, TypeOK, NextAssignment
<1>2. /\ UNCHANGED <<table, active, admin, pending, claimed, proc, toLoad, faults, deaths>>
      /\ pending' \subseteq Tokens /\ claimed' \subseteq Tokens /\ pending' \cap claimed' = {}
  BY DEF NextAssignment, Poller, RowsOK, Typed, TypeOK
<1>3. CASE poller.todo = {}
  <2> DEFINE n == [poller EXCEPT !.pc = "wait"]
  <2>1. n \in Pollers /\ n.pc = "wait" /\ n.token = NoToken
    BY <1>1 DEF Pollers
  <2>2. poller' = n /\ UNCHANGED raced
    BY <1>3 DEF NextAssignment, Poller
  <2> HIDE DEF n
  <2> QED
    BY <1>1, <1>2, <2>1, <2>2, PollerMoves
<1>4. CASE poller.todo # {}
  <2>1. PICK t \in poller.todo :
          /\ poller' = [pc |-> "store", token |-> t, todo |-> poller.todo \ {t}]
          /\ raced' = raced \cup {o \in {TokenOrg(t)} : Deregistering(o)}
    BY <1>4 DEF NextAssignment, Poller
  <2>2. t \in Tokens /\ poller' \in Pollers
    BY <1>1, <2>1 DEF Pollers
  <2>3. Typed'
    BY <1>2, <2>1, <2>2, OthersMove, TokensOrg DEF RowsOK, Typed, TypeOK, Pollers
  <2>4. Phases' /\ NoWorkersAfterStopAll'
    BY <1>1, <1>2 DEF Phases, NoWorkersAfterStopAll, NoRequests, Alive
  <2>5. ASSUME NEW o \in Orgs \ raced' PROVE InStep(o)'
    <3>1. o \in Orgs \ raced /\ InStep(o) /\ (o = TokenOrg(t) => ~Deregistering(o))
      BY <2>1
    <3>2. /\ Registering(o)' <=> Registering(o) \/ o = TokenOrg(t)
          /\ Deregistering(o)' <=> Deregistering(o)
          /\ Starting(o)' <=> Starting(o)
      BY <1>1, <1>2, <2>1 DEF Registering, Deregistering, Starting
    <3> QED
      BY <1>2, <3>1, <3>2 DEF InStep
  <2> QED
    BY <2>3, <2>4, <2>5
<1> QED
  BY <1>3, <1>4

LEMMA StoreAssignmentStep == ASSUME IInv, StoreAssignment PROVE IInv'
<1> DEFINE t == poller.token
           n == [poller EXCEPT !.pc = "start"]
<1> USE DEF IInv
<1>1. /\ proc \notin {"loading", "polled", "stopped", "down"} /\ poller \in Pollers
      /\ poller.pc = "store" /\ t \in Tokens
  BY PollerAlive, PollerInHand DEF RowsOK, Typed, TypeOK, StoreAssignment
<1>2. /\ UNCHANGED <<active, admin, pending, claimed, proc, toLoad, raced, deaths>>
      /\ pending' \subseteq Tokens /\ claimed' \subseteq Tokens /\ pending' \cap claimed' = {}
  BY DEF StoreAssignment, Poller, RowsOK, Typed, TypeOK
<1>3. CASE Fault /\ Poller(AssignmentDone) /\ UNCHANGED table
  <2>1. poller' = AssignmentDone
    BY <1>3 DEF Poller
  <2> QED
    BY <1>1, <1>2, <1>3, <2>1, PollerInHand, PollerMoves, TokensOrg
<1>4. CASE RegisterOrg(t) /\ Poller(n) /\ UNCHANGED faults
  <2>1. poller' = n /\ n \in Pollers /\ n.pc = "start" /\ n.token = t
    BY <1>1, <1>4 DEF Poller, Pollers
  <2> HIDE DEF n
  <2>2. Typed'
    BY <1>1, <1>2, <1>4, <2>1, OthersMove, TokensOrg, RegisterType DEF RowsOK, Typed, TypeOK, Pollers
  <2>3. Phases' /\ NoWorkersAfterStopAll'
    BY <1>1, <1>2, <1>4 DEF Phases, NoWorkersAfterStopAll, NoRequests, Alive
  <2>4. ASSUME NEW o \in Orgs \ raced' PROVE InStep(o)'
    <3>1. o \in Orgs \ raced /\ InStep(o)
      BY <1>2
    <3>2. /\ Registering(o)' <=> Registering(o)
          /\ Deregistering(o)' <=> Deregistering(o)
          /\ Starting(o)' => Starting(o) \/ o = TokenOrg(t)
          /\ o = TokenOrg(t) => Registering(o)
      BY <1>1, <1>2, <2>1 DEF Registering, Deregistering, Starting
    <3> QED
      BY <1>1, <1>2, <1>4, <3>1, <3>2, RegisterType DEF InStep
  <2> QED
    BY <2>2, <2>3, <2>4
<1> QED
  BY <1>3, <1>4 DEF StoreAssignment

LEMMA StartAssignmentStep == ASSUME IInv, StartAssignment PROVE IInv'
<1> DEFINE t == poller.token
           n == StartedAssignment
<1> USE DEF IInv
<1>1. /\ proc \notin {"loading", "polled", "stopped", "down"} /\ poller \in Pollers
      /\ poller.pc = "start" /\ t \in Tokens /\ StartOrg(t)
  BY PollerAlive, PollerInHand DEF RowsOK, Typed, TypeOK, StartAssignment
<1>2. /\ UNCHANGED <<table, admin, pending, claimed, proc, toLoad, raced, faults, deaths>>
      /\ pending' \subseteq Tokens /\ claimed' \subseteq Tokens /\ pending' \cap claimed' = {}
  BY DEF StartAssignment, Poller, RowsOK, Typed, TypeOK
<1>3. poller' = n /\ n \in Pollers /\ n.pc = "claim" /\ n.token = t
  BY <1>1 DEF StartAssignment, StartedAssignment, Poller, Pollers
<1> HIDE DEF n
<1>4. Typed'
  BY <1>1, <1>2, <1>3, OthersMove, TokensOrg, StartType DEF RowsOK, Typed, TypeOK, Pollers
<1>5. Phases' /\ NoWorkersAfterStopAll'
  BY <1>1, <1>2 DEF Phases, NoWorkersAfterStopAll, NoRequests, Alive
<1>6. ASSUME NEW o \in Orgs \ raced' PROVE InStep(o)'
  <2>1. o \in Orgs \ raced /\ InStep(o)
    BY <1>2
  <2>2. /\ Registering(o)' => Registering(o)
        /\ o # TokenOrg(t) => (Registering(o) => Registering(o)')
        /\ Deregistering(o)' <=> Deregistering(o)
        /\ Starting(o)' => Starting(o)
        /\ o = TokenOrg(t) => Registering(o) /\ Starting(o)
    BY <1>1, <1>2, <1>3 DEF Registering, Deregistering, Starting
  <2> QED
    BY <1>1, <1>2, <2>1, <2>2, StartType DEF InStep
<1> QED
  BY <1>4, <1>5, <1>6

LEMMA ClaimAssignmentStep == ASSUME IInv, ClaimAssignment PROVE IInv'
<1> USE DEF IInv
<1>1. /\ proc \notin {"loading", "polled", "stopped", "down"} /\ poller \in Pollers
      /\ poller.pc = "claim" /\ poller.token \in Tokens /\ poller' = AssignmentDone
      /\ UNCHANGED <<table, active, admin, proc, toLoad, raced, deaths>>
  BY PollerAlive, PollerInHand DEF ClaimAssignment
<1>2. /\ Fault \/ UNCHANGED faults
      /\ pending' \subseteq Tokens /\ claimed' \subseteq Tokens /\ pending' \cap claimed' = {}
  BY <1>1 DEF ClaimAssignment, RowsOK, Typed, TypeOK
<1> QED
  BY <1>1, <1>2, PollerInHand, PollerMoves
-----------------------------------------------------------------------------
(***************************************************************************)
(* The process.                                                            *)
(***************************************************************************)
LEMMA LoadOrgStep == ASSUME IInv, NEW o \in Orgs, LoadOrg(o) PROVE IInv'
<1> USE DEF IInv
<1>1. proc = "loading" /\ toLoad' = toLoad \ {o} /\ o \in toLoad /\ raced = {} /\ poller.pc = "off" /\ NoRequests
  BY DEF LoadOrg, Phases
<1>2. UNCHANGED <<table, admin, poller, pending, claimed, proc, raced, deaths>> /\ (Fault \/ UNCHANGED faults)
  BY DEF LoadOrg
<1>3. /\ active' \in [Orgs -> Tokens \cup {NoToken}]
      /\ \A p \in Orgs : active'[p] # NoToken => active[p] # NoToken \/ p = o
      /\ \A p \in Orgs : active[p] # NoToken => active'[p] # NoToken
      /\ active'[o] # NoToken \/ faults' # 0
  <2>1. table[o] \in Tokens
    BY <1>1 DEF Phases, RowsOK, Typed, TypeOK
  <2>2. CASE StartOrg(table[o])
    <3>1. table[o] # NoToken
      BY <1>1 DEF Phases
    <3>2. TokenOrg(table[o]) = o
      BY <3>1 DEF Typed, RowsOK
    <3> QED
      BY <2>1, <2>2, <3>1, <3>2, StartType
  <2>3. CASE Fault /\ UNCHANGED active
    BY <2>3 DEF Fault, RowsOK, Typed, TypeOK
  <2> QED
    BY <2>2, <2>3 DEF LoadOrg
<1>4. Typed'
  BY <1>1, <1>2, <1>3, OthersMove DEF RowsOK, Typed, TypeOK
<1>5. faults' = 0 => faults = 0
  BY <1>2, FaultType
<1>6. Phases' /\ NoWorkersAfterStopAll'
  BY <1>1, <1>2 DEF Phases, NoWorkersAfterStopAll, NoRequests, Alive
<1>7. ASSUME NEW p \in Orgs \ raced' PROVE InStep(p)'
  <2>1. InStep(p) /\ (o = p => table[o] # NoToken)
    BY <1>1, <1>2 DEF Phases
  <2>2. ~Registering(p) /\ ~Deregistering(p) /\ ~Registering(p)' /\ ~Deregistering(p)' /\ ~Starting(p)'
    BY <1>1, <1>2 DEF Registering, Deregistering, Starting, NoRequests, Free
  <2> QED
    BY <1>1, <1>2, <1>3, <1>5, <2>1, <2>2 DEF InStep
<1> QED
  BY <1>4, <1>6, <1>7

LEMMA ServeStep == ASSUME IInv, Serve PROVE IInv'
<1> USE DEF IInv
<1>1. /\ proc = "loading" /\ proc' = "running" /\ toLoad = {}
      /\ poller' = [pc |-> "wait", token |-> NoToken, todo |-> {}]
      /\ UNCHANGED <<table, active, admin, pending, claimed, toLoad, raced, faults, deaths>>
  BY DEF Serve, Process, NoPoller
<1>2. Typed'
  BY <1>1, OthersMove DEF RowsOK, Typed, TypeOK, ProcStates
<1>3. Phases' /\ NoWorkersAfterStopAll'
  BY <1>1 DEF Phases, NoWorkersAfterStopAll, Alive
<1>4. ASSUME NEW o \in Orgs \ raced' PROVE InStep(o)'
  <2>1. poller.pc = "off" /\ InStep(o)
    BY <1>1 DEF Phases
  <2> QED
    BY <1>1, <2>1 DEF InStep, Registering, Deregistering, Starting
<1> QED
  BY <1>2, <1>3, <1>4

\* A step of the shutdown: no request and no assignment moves.
LEMMA ShutdownMoves ==
    ASSUME IInv, UNCHANGED <<table, admin, pending, claimed, toLoad, raced, deaths>>, Fault \/ UNCHANGED faults,
           proc' \in {"draining", "drained", "polled", "stopped"}, proc \in {"running", "draining", "drained", "polled"},
           \/ UNCHANGED <<poller, active>>
           \/ UNCHANGED active /\ poller.pc = "wait" /\ poller' = NoPoller
           \/ UNCHANGED poller /\ active' = [o \in Orgs |-> NoToken],
           Phases', NoWorkersAfterStopAll'
    PROVE  IInv'
<1> USE DEF IInv
<1>1. /\ active' \in [Orgs -> Tokens \cup {NoToken}]
      /\ \A o \in Orgs : active'[o] # NoToken => active[o] # NoToken
  BY DEF Typed, TypeOK
<1>2. Typed'
  BY <1>1, OthersMove DEF RowsOK, Typed, TypeOK, ProcStates, NoPoller
<1>3. ASSUME NEW o \in Orgs \ raced' PROVE InStep(o)'
  <2>1. /\ InStep(o)
        /\ Registering(o)' <=> Registering(o)
        /\ Deregistering(o)' <=> Deregistering(o)
        /\ Starting(o)' <=> Starting(o)
    BY DEF Registering, Deregistering, Starting, NoPoller
  <2> QED
    BY <1>1, <2>1 DEF InStep
<1> QED
  BY <1>2, <1>3

LEMMA ShutdownStep ==
    ASSUME IInv, Shutdown \/ HttpDrained \/ StopPoller \/ StopAll PROVE IInv'
<1> USE DEF IInv, Process
<1>1. CASE Shutdown
  <2>1. Phases' /\ NoWorkersAfterStopAll'
    BY <1>1 DEF Shutdown, Phases, NoWorkersAfterStopAll, NoRequests, Alive
  <2> QED
    BY <1>1, <2>1, ShutdownMoves DEF Shutdown
<1>2. CASE HttpDrained
  <2>1. NoRequests \/ faults' # 0
    BY <1>2 DEF HttpDrained, NoRequests, Fault, Typed, TypeOK
  <2>2. Phases' /\ NoWorkersAfterStopAll'
    BY <1>2, <2>1 DEF HttpDrained, Phases, NoWorkersAfterStopAll, NoRequests, Alive
  <2> QED
    BY <1>2, <2>2, ShutdownMoves DEF HttpDrained
<1>3. CASE StopPoller
  <2>1. Phases' /\ NoWorkersAfterStopAll'
    BY <1>3 DEF StopPoller, PollerReturned, Phases, NoWorkersAfterStopAll, NoRequests, Alive, NoPoller
  <2> QED
    BY <1>3, <2>1, ShutdownMoves DEF StopPoller, PollerReturned
<1>4. CASE StopAll
  <2>1. Phases' /\ NoWorkersAfterStopAll'
    BY <1>4 DEF StopAll, Phases, NoWorkersAfterStopAll, NoRequests, Alive
  <2> QED
    BY <1>4, <2>1, ShutdownMoves DEF StopAll
<1> QED
  BY <1>1, <1>2, <1>3, <1>4

LEMMA DieStep == ASSUME IInv, Exit \/ Crash PROVE IInv'
<1> USE DEF IInv
<1>1. Die /\ deaths <= MaxDeaths
  BY DEF Exit, Crash, Phases, Alive
<1>2. /\ proc' = "down" /\ poller' = NoPoller /\ toLoad' = {} /\ raced' = {} /\ deaths' = deaths + 1
      /\ UNCHANGED <<table, pending, claimed, faults>>
      /\ admin' = [a \in Admins |-> Free] /\ active' = [o \in Orgs |-> NoToken]
  BY <1>1 DEF Die
<1>3. deaths' \in 0..(MaxDeaths + 1)
  BY <1>1, <1>2, OrgWorkersAssumption DEF Typed, TypeOK
<1>4. Typed'
  BY <1>2, <1>3 DEF RowsOK, Typed, TypeOK, RequestOK, Requests, Free, NoPoller, ProcStates
<1>5. Phases' /\ NoWorkersAfterStopAll'
  BY <1>2 DEF Phases, NoWorkersAfterStopAll, NoRequests, Alive, NoPoller
<1>6. ASSUME NEW o \in Orgs PROVE InStep(o)'
  BY <1>2 DEF InStep, Registering, Deregistering, Starting, Free, NoPoller
<1> QED
  BY <1>2, <1>4, <1>5, <1>6

LEMMA RestartStep == ASSUME IInv, Restart PROVE IInv'
<1> USE DEF IInv
<1>1. /\ proc = "down" /\ deaths <= MaxDeaths /\ (Fault \/ UNCHANGED faults)
      /\ UNCHANGED <<table, active, admin, poller, pending, claimed, raced, deaths>>
      /\ \/ proc' = "loading" /\ toLoad' = ListRegisteredOrgs
         \/ proc' = "down" /\ UNCHANGED toLoad
  BY DEF Restart, Process
<1>2. Typed'
  BY <1>1, OthersMove DEF RowsOK, Typed, TypeOK, ProcStates, ListRegisteredOrgs
<1>3. Phases' /\ NoWorkersAfterStopAll'
  BY <1>1 DEF Phases, NoWorkersAfterStopAll, NoRequests, Alive, ListRegisteredOrgs
<1>4. ASSUME NEW o \in Orgs PROVE InStep(o)'
  <2>1. active[o] = NoToken /\ NoRequests /\ poller.pc = "off"
    BY <1>1 DEF Phases
  <2>2. ~Starting(o)' /\ ~Deregistering(o)'
    BY <1>1, <2>1 DEF Deregistering, Starting, NoRequests, Free
  <2> QED
    BY <1>1, <2>1, <2>2 DEF InStep, ListRegisteredOrgs
<1> QED
  BY <1>1, <1>2, <1>3, <1>4
-----------------------------------------------------------------------------
LEMMA StutterStep == ASSUME IInv, UNCHANGED vars PROVE IInv'
<1> USE DEF IInv, vars
<1>1. Typed' /\ Phases' /\ NoWorkersAfterStopAll'
  BY DEF Typed, TypeOK, RowsOK, RequestOK, Phases, NoRequests, Alive, NoWorkersAfterStopAll
<1>2. \A o \in Orgs \ raced' : InStep(o)'
  BY DEF InStep, Starting, Registering, Deregistering
<1> QED
  BY <1>1, <1>2

\* Every step preserves it.
THEOREM NextIInv == IInv /\ [Next]_vars => IInv'
<1> SUFFICES ASSUME IInv, [Next]_vars PROVE IInv'
  OBVIOUS
<1>1. CASE \E a \in Admins : Handle(a)
  BY <1>1, StoreRegistrationStep, StartRegisteredStep, RemoveRegisteredOrgStep DEF Handle
<1>2. CASE \E a \in Admins : (\E t \in Tokens : BeginRegister(a, t)) \/ (\E o \in Orgs : StopOrg(a, o))
  BY <1>2, BeginRegisterStep, StopOrgStep
<1>3. CASE \E t \in Tokens : Assign(t)
  BY <1>3, AssignStep
<1>4. CASE Poll
  BY <1>4, FetchPendingStep, NextAssignmentStep, StoreAssignmentStep, StartAssignmentStep, ClaimAssignmentStep DEF Poll
<1>5. CASE Run \/ Shutdown \/ Crash \/ Restart
  BY <1>5, ServeStep, ShutdownStep, DieStep, LoadOrgStep, RestartStep DEF Run
<1>6. CASE UNCHANGED vars
  BY <1>6, StutterStep
<1> QED
  BY <1>1, <1>2, <1>3, <1>4, <1>5, <1>6 DEF Next

\* In every reachable state the variables have their types.
THEOREM TypeCorrect == Spec => []TypeOK
<1> QED
  BY InitIInv, NextIInv, IInvImplies, PTL DEF Spec

\* Rows and workers agree on every org on which no registration and deregistration
\* overlapped, through failures, crashes and restarts.
THEOREM WorkersFollowRegistrations == Spec => []WorkersMatchRegistrations
<1> QED
  BY InitIInv, NextIInv, IInvImplies, PTL DEF Spec

\* StopAll stops the last worker: neither the poller nor an admin request, unless one
\* outlived the drain timeout, starts another.
THEOREM ShutdownStopsWorkers == Spec => []NoWorkersAfterStopAll
<1> QED
  BY InitIInv, NextIInv, IInvImplies, PTL DEF Spec
=============================================================================
