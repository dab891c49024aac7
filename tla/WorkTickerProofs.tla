--------------------------- MODULE WorkTickerProofs ---------------------------
(***************************************************************************)
(* The work ticker's type invariant, that an eval run never comes before   *)
(* its set and items, and that a job is acked only when its work is in     *)
(* effect, for any tables, page size and number of jobs, changes, faults   *)
(* and deaths.                                                             *)
(***************************************************************************)
EXTENDS WorkTicker, FiniteSetTheorems, TLAPS

-----------------------------------------------------------------------------
(***************************************************************************)
(* A bounded set of naturals has a greatest element: the intervals above   *)
(* its elements have a smallest, as strict inclusion of finite sets is     *)
(* well-founded.                                                           *)
(***************************************************************************)
LEMMA Maximum ==
    ASSUME NEW N \in Nat, NEW T \in SUBSET (0..N), T # {}
    PROVE  \E m \in T : \A t \in T : t <= m
<1> DEFINE Above(t) == (t + 1)..N
           Tails    == {Above(t) : t \in T}
           R        == StrictSubsetOrdering(0..N)
           F        == FiniteSubsetsOf(0..N)
<1>1. ASSUME NEW t \in T PROVE Above(t) \in F
  <2>1. Above(t) \in SUBSET (0..N)
    OBVIOUS
  <2>2. IsFiniteSet(Above(t))
    BY FS_Interval
  <2>3. QED
    BY <2>1, <2>2 DEF FiniteSubsetsOf
<1>2. Tails \subseteq F /\ Tails # {}
  BY <1>1
<1>3. IsWellFoundedOn(R, F)
  BY FS_StrictSubsetOrderingWellFounded
<1>4. PICK S \in Tails : \A U \in Tails : ~(<<U, S>> \in R)
  <2> HIDE DEF Tails, R, F
  <2>1. QED
    BY <1>2, <1>3, WFMin
<1>5. PICK m \in T : S = Above(m)
  OBVIOUS
<1>6. ASSUME NEW t \in T, ~(t <= m) PROVE FALSE
  <2>1. t \in 0..N /\ m \in 0..N /\ m < t
    BY <1>6
  <2>2. Above(t) \subseteq Above(m) /\ t \in Above(m) /\ t \notin Above(t)
    BY <2>1
  <2>3. Above(t) \in SUBSET (0..N) /\ Above(m) \in SUBSET (0..N)
    BY <2>1
  <2>4. <<Above(t), Above(m)>> \in R
    BY <2>2, <2>3 DEF StrictSubsetOrdering
  <2>5. QED
    BY <1>4, <1>5, <2>4
<1>7. QED
  BY <1>6

-----------------------------------------------------------------------------
(***************************************************************************)
(* The inductive invariant.                                                *)
(***************************************************************************)
Pcs == {"off", "wait", "work", "dispatch", "page", "get", "write", "mark"}

Gots == UNION {[T -> Nat] : T \in SUBSET Rows}

Tickers == [pc : Pcs, stop : BOOLEAN, items : SUBSET Jobs, job : SUBSET Jobs,
            cur : 0..MaxWrites, got : Gots, ok : BOOLEAN, expired : BOOLEAN]

Typed ==
    /\ butler \in [Rows -> [ver : Nat, at : Nat, ok : BOOLEAN]]
    /\ jobs \in [Jobs -> [status : {"idle", "pending", "claimed", "acked", "failed"}, work : Works]]
    /\ local \in [Rows -> Nat]
    /\ wt \in Tickers
    /\ cursor \in [CursorTypes -> 0..MaxWrites]
    /\ owed \in [Jobs -> SUBSET (Rows \X Nat)]
    /\ missed \in [Rows -> Nat]
    /\ offers \in 0..MaxOffers /\ writes \in 0..MaxWrites
    /\ faults \in 0..MaxFaults /\ deaths \in 0..MaxDeaths

\* What Butler has of a row bounds what is here and what was passed over; a row
\* without credentials counts as passed over, a row behind a cursor has a stamp,
\* and an eval run has its bundle.
ButlerOK ==
    \A r \in Rows :
       /\ butler[r].ver <= writes + 1 /\ butler[r].at <= writes
       /\ local[r] <= butler[r].ver /\ missed[r] <= butler[r].ver
       /\ butler[r].ver > 0 =>
             /\ ~butler[r].ok => missed[r] >= butler[r].ver
             /\ \A w \in CursorTypes : r \in RowsOf(w) => butler[r].at > 0
             /\ r \in EvalRuns => \A s \in Bundle(r) : butler[s].ver > 0

\* Version v of the row is here, or the job is not answerable for it.
Settled(r, v) == local[r] >= v \/ missed[r] >= v

\* The same, or it is on its way.
SettledOrInHand(r, v) == Settled(r, v) \/ (r \in InHand /\ wt.got[r] >= v)

\* Nothing at or before a cursor is left behind.
CursorOK ==
    \A w \in CursorTypes : \A r \in RowsOf(w) :
       butler[r].ver > 0 /\ butler[r].at <= cursor[w] => Settled(r, butler[r].ver)

OwedOK == \A j \in Jobs : \A x \in owed[j] : x[1] \in RowsOf(jobs[j].work) /\ x[2] > 0 /\ x[2] <= butler[x[1]].ver

\* The job that the ticker is at, and what it has in hand.
HandOK ==
    /\ IF wt.pc \in {"page", "get", "write", "mark"} THEN \E j \in Jobs \ wt.items : wt.job = {j} ELSE wt.job = {}
    /\ wt.pc \notin {"page", "write"} => wt.got = NoRows
    /\ wt.pc = "page" => Work \in CursorTypes
    /\ wt.pc = "get" => Work \notin CursorTypes
    /\ wt.pc \in {"page", "write"} =>
          /\ InHand \subseteq RowsOf(Work)
          /\ \A r \in InHand : 0 < wt.got[r] /\ wt.got[r] <= butler[r].ver /\ local[r] <= wt.got[r]

\* The ticker's own cursor leaves nothing behind but what is in hand.
PassOK ==
    wt.pc \in {"page", "write"} /\ Work \in CursorTypes =>
       \A r \in RowsOf(Work) :
          butler[r].ver > 0 /\ butler[r].at <= wt.cur => SettledOrInHand(r, butler[r].ver)

\* From the last page on, all the job asked for is settled or in hand; with its
\* success, all of it is settled.
PromiseOK ==
    /\ wt.pc = "write" => \A x \in owed[TheJob] : SettledOrInHand(x[1], x[2])
    /\ wt.pc = "mark" /\ wt.ok => InEffect(TheJob)

\* What is still missing of the bundle of a run that is being written is in hand.
BundleOK ==
    wt.pc = "write" /\ Work \in EvalRuns => \A s \in Bundle(Work) : s \in InHand \/ local[s] > 0

IInv == Typed /\ ButlerOK /\ CursorOK /\ OwedOK /\ HandOK /\ PassOK /\ PromiseOK /\ BundleOK /\ RunComesWithItsSet

-----------------------------------------------------------------------------
(***************************************************************************)
(* The tables, and the ticker's records.                                   *)
(***************************************************************************)
LEMMA WorkFacts ==
    /\ CursorTypes = {"sync_api_keys", "sync_experiments"}
    /\ DOMAIN Tables = CursorTypes \cup SnapshotTypes \cup {"unknown"}
    /\ RowsOf("sync_cloud_storage") = CloudRows /\ RowsOf("sync_provider_keys") = ProvRows
    /\ RowsOf("unknown") = {}
    /\ \A w \in EvalRuns : w \in Works /\ RowsOf(w) = Bundle(w)
    /\ \A w \in ReplayRuns : w \in Works /\ RowsOf(w) = {w}
    /\ CursorTypes \subseteq Works /\ SnapshotTypes \subseteq Works
    /\ CursorTypes \cap SnapshotTypes = {}
    /\ (ReplayRuns \cup EvalRuns) \cap (CursorTypes \cup SnapshotTypes \cup {"unknown"}) = {}
    /\ ReplayRuns \cap EvalRuns = {}
<1>1. DOMAIN Tables = CursorTypes \cup SnapshotTypes \cup {"unknown"}
  BY DEF Tables, CursorTypes, SnapshotTypes
<1>2. /\ RowsOf("sync_cloud_storage") = CloudRows /\ RowsOf("sync_provider_keys") = ProvRows
      /\ RowsOf("unknown") = {}
  BY DEF RowsOf, Tables
<1>3. /\ \A w \in EvalRuns : w \in Works /\ RowsOf(w) = Bundle(w)
      /\ \A w \in ReplayRuns : w \in Works /\ RowsOf(w) = {w}
  BY WorkTickerTables DEF RowsOf, Works
<1>4. CursorTypes \cap SnapshotTypes = {}
  BY DEF CursorTypes, SnapshotTypes
<1>5. (ReplayRuns \cup EvalRuns) \cap (CursorTypes \cup SnapshotTypes \cup {"unknown"}) = {}
  BY <1>1, WorkTickerTables
<1>6. QED
  BY <1>1, <1>2, <1>3, <1>4, <1>5, WorkTickerTables DEF Works, CursorTypes

LEMMA RowsOfWorks == \A w \in Works : RowsOf(w) \subseteq Rows
  BY DEF Rows

LEMMA BundleRows == \A run \in EvalRuns : run \in Rows /\ Bundle(run) \subseteq Rows
  BY WorkFacts, RowsOfWorks DEF Bundle

\* A row behind a cursor is in no other table.
LEMMA CursorRows ==
    ASSUME NEW w \in CursorTypes, NEW v \in Works, NEW r \in RowsOf(w), r \in RowsOf(v)
    PROVE  v = w
<1>1. w \in Works /\ w \notin EvalRuns
  BY WorkFacts
<1>2. QED
  BY <1>1, WorkTickerTables

\* Nor is an eval run.
LEMMA RunRows ==
    ASSUME NEW run \in EvalRuns, NEW v \in Works, run \in RowsOf(v)
    PROVE  v = run
<1>1. run \in RowsOf(run) /\ run \in Works
  BY WorkFacts DEF Bundle
<1>2. SUFFICES ASSUME v \in EvalRuns PROVE v = run
  BY <1>1, WorkTickerTables
<1>3. RowsOf(v) = Bundle(v)
  BY <1>2, WorkFacts
<1>4. QED
  BY <1>2, <1>3, WorkTickerTables DEF Bundle

LEMMA GotType ==
    ASSUME NEW T \in SUBSET Rows, NEW g \in [T -> Nat] PROVE g \in Gots
  BY DEF Gots

LEMMA GotFacts ==
    ASSUME NEW g \in Gots
    PROVE  DOMAIN g \subseteq Rows /\ g \in [DOMAIN g -> Nat]
<1>1. PICK T \in SUBSET Rows : g \in [T -> Nat]
  BY DEF Gots
<1>2. QED
  BY <1>1

LEMMA NoRowsFacts == NoRows \in Gots /\ DOMAIN NoRows = {} /\ \A g \in Gots : DOMAIN g = {} <=> g = NoRows
<1>1. NoRows \in [{} -> Nat] /\ DOMAIN NoRows = {}
  BY DEF NoRows
<1>2. ASSUME NEW g \in Gots, DOMAIN g = {} PROVE g = NoRows
  <2>1. g \in [DOMAIN g -> Nat]
    BY GotFacts
  <2>2. QED
    BY <1>2, <2>1, <1>1
<1>3. QED
  BY <1>1, <1>2, GotType

LEMMA OffFacts ==
    /\ Off \in Tickers /\ Idle \in Tickers
    /\ Off.pc = "off" /\ Off.items = {} /\ Off.job = {} /\ Off.got = NoRows
    /\ Idle.pc = "wait" /\ Idle.items = {} /\ Idle.job = {} /\ Idle.got = NoRows
    /\ \A b \in BOOLEAN :
         /\ [Idle EXCEPT !.stop = b] \in Tickers
         /\ [Idle EXCEPT !.stop = b].pc = "wait" /\ [Idle EXCEPT !.stop = b].items = {}
         /\ [Idle EXCEPT !.stop = b].job = {} /\ [Idle EXCEPT !.stop = b].got = NoRows
<1>1. /\ Off \in Tickers
      /\ Off.pc = "off" /\ Off.items = {} /\ Off.job = {} /\ Off.got = NoRows
  BY NoRowsFacts, WorkTickerAssumption DEF Off, Tickers, Pcs
<1>2. /\ Idle \in Tickers
      /\ Idle.pc = "wait" /\ Idle.items = {} /\ Idle.job = {} /\ Idle.got = NoRows
  BY <1>1 DEF Idle, Tickers, Pcs
<1>3. ASSUME NEW b \in BOOLEAN
      PROVE  /\ [Idle EXCEPT !.stop = b] \in Tickers
             /\ [Idle EXCEPT !.stop = b].pc = "wait" /\ [Idle EXCEPT !.stop = b].items = {}
             /\ [Idle EXCEPT !.stop = b].job = {} /\ [Idle EXCEPT !.stop = b].got = NoRows
  BY <1>2 DEF Tickers
<1>4. QED
  BY <1>1, <1>2, <1>3

LEMMA TheJobIs == ASSUME NEW j \in Jobs, wt.job = {j} PROVE TheJob = j /\ Work = jobs[j].work
  BY DEF TheJob, Work

\* The job in hand is one of the jobs.
LEMMA InHandFacts ==
    ASSUME Typed, HandOK, wt.pc \in {"page", "get", "write", "mark"}
    PROVE  TheJob \in Jobs \ wt.items /\ wt.job = {TheJob} /\ Work \in Works
<1>1. PICK j \in Jobs \ wt.items : wt.job = {j}
  BY DEF HandOK
<1>2. TheJob = j /\ Work = jobs[j].work
  BY <1>1, TheJobIs
<1>3. QED
  BY <1>1, <1>2 DEF Typed

-----------------------------------------------------------------------------
(***************************************************************************)
(* The invariant, at the start and for what it implies.                    *)
(***************************************************************************)
\* The invariant holds of the states that the program starts in.
THEOREM InitIInv == Init => IInv
<1> SUFFICES ASSUME Init PROVE IInv
  OBVIOUS
<1> USE DEF Init
<1>1. Typed
  <2>1. wt \in Tickers
    BY OffFacts
  <2>2. butler \in [Rows -> [ver : Nat, at : Nat, ok : BOOLEAN]]
    OBVIOUS
  <2>3. jobs \in [Jobs -> [status : {"idle", "pending", "claimed", "acked", "failed"}, work : Works]]
    OBVIOUS
  <2>4. QED
    BY <2>1, <2>2, <2>3, WorkTickerAssumption DEF Typed
<1>2. ButlerOK
  <2> SUFFICES ASSUME NEW r \in Rows
               PROVE  /\ butler[r].ver <= writes + 1 /\ butler[r].at <= writes
                      /\ local[r] <= butler[r].ver /\ missed[r] <= butler[r].ver
                      /\ butler[r].ver > 0 =>
                            /\ butler[r].ok
                            /\ \A w \in CursorTypes : r \notin RowsOf(w)
                            /\ r \in EvalRuns => \A s \in Bundle(r) : butler[s].ver > 0
    BY Zenon DEF ButlerOK
  <2>0. /\ butler[r].ver <= writes + 1 /\ butler[r].at <= writes
        /\ local[r] <= butler[r].ver /\ missed[r] <= butler[r].ver
        /\ butler[r].ok
    OBVIOUS
  <2> SUFFICES ASSUME butler[r].ver > 0
               PROVE  /\ \A w \in CursorTypes : r \notin RowsOf(w)
                      /\ r \in EvalRuns => \A s \in Bundle(r) : butler[s].ver > 0
    BY <2>0
  <2>1. r \in Present
    OBVIOUS
  <2>2. RowsOf("sync_api_keys") = KeyRows /\ RowsOf("sync_experiments") = ExpRows
    BY DEF RowsOf, Tables
  <2>3. \A w \in CursorTypes : r \notin RowsOf(w)
    BY <2>1, <2>2, WorkTickerAssumption DEF CursorTypes
  <2>4. ASSUME r \in EvalRuns, NEW s \in Bundle(r) PROVE butler[s].ver > 0
    <3>1. s \in Present
      BY <2>1, <2>4, WorkTickerTables
    <3>2. s \in Rows
      BY <2>4, BundleRows
    <3>3. QED
      BY <3>1, <3>2
  <2>5. QED
    BY <2>3, <2>4
<1>3. CursorOK
  <2> SUFFICES ASSUME NEW w \in CursorTypes, NEW r \in RowsOf(w),
                      butler[r].ver > 0, butler[r].at <= cursor[w]
               PROVE  FALSE
    BY DEF CursorOK
  <2>1. r \in Rows
    BY WorkFacts, RowsOfWorks
  <2>2. r \in Present
    BY <2>1
  <2>3. RowsOf("sync_api_keys") = KeyRows /\ RowsOf("sync_experiments") = ExpRows
    BY DEF RowsOf, Tables
  <2>4. QED
    BY <2>2, <2>3, WorkTickerAssumption DEF CursorTypes
<1>4. OwedOK
  BY DEF OwedOK
<1>5. HandOK /\ PassOK /\ PromiseOK /\ BundleOK
  BY OffFacts DEF HandOK, PassOK, PromiseOK, BundleOK
<1>6. RunComesWithItsSet
  BY BundleRows DEF RunComesWithItsSet
<1>7. QED
  BY <1>1, <1>2, <1>3, <1>4, <1>5, <1>6 DEF IInv

\* The invariant implies the type invariant, its bounds included.
THEOREM IInvImplies == IInv => TypeOK
<1> SUFFICES ASSUME IInv PROVE TypeOK
  OBVIOUS
<1> USE DEF IInv
<1>1. butler \in [Rows -> [ver : 0..MaxWrites + 1, at : 0..MaxWrites, ok : BOOLEAN]]
  <2>1. \A r \in Rows : butler[r] \in [ver : 0..MaxWrites + 1, at : 0..MaxWrites, ok : BOOLEAN]
    <3> TAKE r \in Rows
    <3>1. butler[r] \in [ver : Nat, at : Nat, ok : BOOLEAN] /\ butler[r].ver <= writes + 1 /\ butler[r].at <= writes
      BY DEF Typed, ButlerOK
    <3>2. butler[r].ver \in 0..MaxWrites + 1 /\ butler[r].at \in 0..MaxWrites
      BY <3>1, WorkTickerAssumption DEF Typed
    <3>3. QED
      BY <3>1, <3>2
  <2>2. QED
    BY <2>1 DEF Typed
<1>2. \A r \in Rows : local[r] <= butler[r].ver
  BY DEF ButlerOK
<1>3. DOMAIN wt = DOMAIN Off /\ wt.pc \in Pcs
  BY OffFacts DEF Typed, Tickers
<1>4. wt.items \subseteq Jobs /\ wt.job \subseteq Jobs \ wt.items
  BY DEF Typed, Tickers, HandOK
<1>5. Cardinality(wt.job) = IF wt.pc \in {"page", "get", "write", "mark"} THEN 1 ELSE 0
  BY FS_Singleton, FS_EmptySet DEF HandOK
<1>6. wt.got # NoRows => wt.pc \in {"page", "write"} /\ DOMAIN wt.got \subseteq RowsOf(Work)
  BY DEF HandOK, InHand
<1>7. QED
  BY <1>1, <1>2, <1>3, <1>4, <1>5, <1>6 DEF TypeOK, Typed, Pcs

-----------------------------------------------------------------------------
(***************************************************************************)
(* What a step that leaves the tables, the jobs or the ticker's hand alone *)
(* preserves.                                                              *)
(***************************************************************************)
WorksSame == \A j \in Jobs : jobs'[j].work = jobs[j].work

LEMMA TablesAlone ==
    ASSUME IInv, UNCHANGED <<butler, local, missed, writes>> PROVE ButlerOK' /\ RunComesWithItsSet'
  BY DEF IInv, ButlerOK, RunComesWithItsSet

LEMMA CursorAlone ==
    ASSUME IInv, UNCHANGED <<butler, local, missed, cursor>> PROVE CursorOK'
  BY DEF IInv, CursorOK, Settled

LEMMA OwedAlone ==
    ASSUME IInv, WorksSame, UNCHANGED <<butler, owed>> PROVE OwedOK'
  BY DEF IInv, OwedOK, WorksSame

\* A ticker without a job.
LEMMA NoJob ==
    ASSUME wt'.pc \in Pcs \ {"page", "get", "write", "mark"}, wt'.job = {}, wt'.got = NoRows
    PROVE  HandOK' /\ PassOK' /\ PromiseOK' /\ BundleOK'
  BY DEF HandOK, PassOK, PromiseOK, BundleOK

LEMMA SameWork ==
    ASSUME Typed, HandOK, WorksSame, wt.pc \in {"page", "get", "write", "mark"}, wt'.job = wt.job
    PROVE  TheJob' = TheJob /\ Work' = Work
<1>1. TheJob' = TheJob
  BY DEF TheJob
<1>2. QED
  BY <1>1, InHandFacts DEF Work, WorksSame

\* The ticker's job and its hand stay, and so do the tables.
LEMMA HandAlone ==
    ASSUME IInv, WorksSame, UNCHANGED <<butler, local, missed, owed>>,
           wt'.pc = wt.pc, wt'.items = wt.items, wt'.job = wt.job, wt'.cur = wt.cur,
           wt'.got = wt.got, wt'.ok = wt.ok
    PROVE  HandOK' /\ PassOK' /\ PromiseOK' /\ BundleOK'
<1> USE DEF IInv
<1>0. InHand' = InHand
  BY DEF InHand
<1>1. CASE wt.pc \notin {"page", "get", "write", "mark"}
  <2>1. wt'.job = {} /\ wt'.got = NoRows /\ wt'.pc \in Pcs
    BY <1>1 DEF HandOK, Typed, Tickers
  <2>2. QED
    BY <1>1, <2>1, NoJob
<1>2. CASE wt.pc \in {"page", "get", "write", "mark"}
  <2>1. TheJob' = TheJob /\ Work' = Work
    BY <1>2, SameWork
  <2>2. HandOK'
    BY <1>0, <1>2, <2>1 DEF HandOK
  <2>3. PassOK'
    BY <1>0, <2>1 DEF PassOK, SettledOrInHand, Settled
  <2>4. PromiseOK'
    <3>1. InEffect(TheJob)' <=> InEffect(TheJob)
      BY <2>1 DEF InEffect
    <3>2. QED
      BY <1>0, <2>1, <3>1 DEF PromiseOK, SettledOrInHand, Settled
  <2>5. BundleOK'
    BY <1>0, <2>1 DEF BundleOK
  <2>6. QED
    BY <2>2, <2>3, <2>4, <2>5
<1>3. QED
  BY <1>1, <1>2

-----------------------------------------------------------------------------
(***************************************************************************)
(* One lemma for each action.                                              *)
(***************************************************************************)
LEMMA OfferStep ==
    ASSUME IInv, NEW j \in Jobs, Offer(j) PROVE IInv'
<1> USE DEF IInv, Offer
<1>1. WorksSame /\ jobs' \in [Jobs -> [status : {"idle", "pending", "claimed", "acked", "failed"}, work : Works]]
  BY DEF Typed, WorksSame
<1>2. Typed'
  BY <1>1, WorkTickerAssumption DEF Typed
<1>3. QED
  BY <1>1, <1>2, TablesAlone, CursorAlone, OwedAlone, HandAlone DEF Typed

LEMMA StartStep == ASSUME IInv, Start PROVE IInv'
<1> USE DEF IInv, Start
<1>1. WorksSame
  BY DEF WorksSame
<1>2. Typed'
  BY OffFacts, WorkTickerAssumption DEF Typed
<1>3. HandOK' /\ PassOK' /\ PromiseOK' /\ BundleOK'
  BY OffFacts, NoJob DEF Pcs
<1>4. CursorOK'
  <2> SUFFICES ASSUME NEW w \in CursorTypes, NEW r \in RowsOf(w),
                      butler[r].ver > 0, butler[r].at <= 0
               PROVE  FALSE
    BY DEF CursorOK
  <2>1. r \in Rows
    BY WorkFacts, RowsOfWorks
  <2>2. butler[r].at > 0
    BY <2>1 DEF ButlerOK
  <2>3. butler[r].at \in Nat
    BY <2>1 DEF Typed
  <2>4. QED
    BY <2>2, <2>3
<1>5. QED
  BY <1>1, <1>2, <1>3, <1>4, TablesAlone, OwedAlone

\* A step by which the ticker only leaves its job, if it has one.
LEMMA LeaveStep ==
    ASSUME IInv, wt' \in Tickers, wt'.pc \notin {"page", "get", "write", "mark"}, wt'.job = {}, wt'.got = NoRows,
           deaths' \in 0..MaxDeaths, faults' \in 0..MaxFaults,
           UNCHANGED <<offers, butler, jobs, local, cursor, owed, missed, writes>>
    PROVE  IInv'
<1> USE DEF IInv
<1>1. WorksSame
  BY DEF WorksSame
<1>2. Typed'
  BY DEF Typed
<1>3. HandOK' /\ PassOK' /\ PromiseOK' /\ BundleOK'
  BY NoJob DEF Tickers
<1>4. QED
  BY <1>1, <1>2, <1>3, TablesAlone, CursorAlone, OwedAlone

\* One that changes no more than its flags.
LEMMA FlagStep ==
    ASSUME IInv, wt' \in Tickers,
           wt'.pc = wt.pc, wt'.items = wt.items, wt'.job = wt.job, wt'.cur = wt.cur,
           wt'.got = wt.got, wt'.ok = wt.ok,
           deaths' \in 0..MaxDeaths, faults' \in 0..MaxFaults,
           UNCHANGED <<offers, butler, jobs, local, cursor, owed, missed, writes>>
    PROVE  IInv'
<1> USE DEF IInv
<1>1. WorksSame
  BY DEF WorksSame
<1>2. Typed'
  BY DEF Typed
<1>3. QED
  BY <1>1, <1>2, HandAlone, TablesAlone, CursorAlone, OwedAlone

LEMMA StopStep == ASSUME IInv, Stop PROVE IInv'
<1>1. wt' \in Tickers /\ wt'.pc = wt.pc /\ wt'.items = wt.items /\ wt'.job = wt.job /\ wt'.cur = wt.cur
      /\ wt'.got = wt.got /\ wt'.ok = wt.ok
  BY DEF IInv, Typed, Tickers, Stop
<1>2. deaths' \in 0..MaxDeaths /\ faults' \in 0..MaxFaults
  BY WorkTickerAssumption DEF IInv, Typed, Stop
<1>3. QED
  BY <1>1, <1>2, FlagStep DEF Stop

LEMMA ExpireStep == ASSUME IInv, Expire PROVE IInv'
<1>1. wt' \in Tickers /\ wt'.pc = wt.pc /\ wt'.items = wt.items /\ wt'.job = wt.job /\ wt'.cur = wt.cur
      /\ wt'.got = wt.got /\ wt'.ok = wt.ok
  BY DEF IInv, Typed, Tickers, Expire
<1>2. deaths' \in 0..MaxDeaths /\ faults' \in 0..MaxFaults
  BY WorkTickerAssumption DEF IInv, Typed, Expire, Fault
<1>3. QED
  BY <1>1, <1>2, FlagStep DEF Expire

LEMMA SeeStopStep == ASSUME IInv, SeeStop PROVE IInv'
<1>1. wt' \in Tickers /\ wt'.pc = "off" /\ wt'.job = {} /\ wt'.got = NoRows
  BY OffFacts DEF SeeStop
<1>2. QED
  BY <1>1, LeaveStep DEF SeeStop, IInv, Typed

LEMMA TickStep == ASSUME IInv, Tick PROVE IInv'
<1>1. wt' \in Tickers /\ wt'.pc = "work" /\ wt'.job = {} /\ wt'.got = NoRows
  BY DEF IInv, Typed, Tickers, Pcs, HandOK, Tick
<1>2. QED
  BY <1>1, LeaveStep DEF Tick, IInv, Typed

LEMMA DieStep == ASSUME IInv, Die PROVE IInv'
<1>1. wt' \in Tickers /\ wt'.pc = "off" /\ wt'.job = {} /\ wt'.got = NoRows
  BY OffFacts DEF Die
<1>2. deaths' \in 0..MaxDeaths /\ faults' \in 0..MaxFaults
  BY WorkTickerAssumption DEF IInv, Typed, Die
<1>3. QED
  BY <1>1, <1>2, LeaveStep DEF Die

\* What a job asks for at its claim is there, in the rows of its table.
LEMMA AskedFacts ==
    ASSUME Typed, ButlerOK, NEW w \in Works
    PROVE  /\ Asked(w) \in SUBSET (Rows \X Nat)
           /\ \A x \in Asked(w) : x[1] \in RowsOf(w) /\ x[2] > 0 /\ x[2] <= butler[x[1]].ver
<1> SUFFICES ASSUME NEW x \in Asked(w)
             PROVE  x \in Rows \X Nat /\ x[1] \in RowsOf(w) /\ x[2] > 0 /\ x[2] <= butler[x[1]].ver
  OBVIOUS
<1>1. PICK r \in RowsOf(w) : butler[r].ver > 0 /\ x = <<r, butler[r].ver>>
  BY DEF Asked
<1>2. r \in Rows
  BY RowsOfWorks
<1>3. butler[r].ver \in Nat
  BY <1>2 DEF Typed
<1>4. QED
  BY <1>1, <1>2, <1>3

LEMMA FaultFacts ==
    ASSUME Typed, Fails \/ Succeeds \/ Fault \/ UNCHANGED faults
    PROVE  faults' \in 0..MaxFaults
<1>1. CASE Fault
  BY <1>1, WorkTickerAssumption DEF Typed, Fault
<1>2. CASE UNCHANGED faults
  BY <1>2 DEF Typed
<1>3. QED
  BY <1>1, <1>2 DEF Fails, Succeeds

LEMMA fetchWorkStep == ASSUME IInv, fetchWork PROVE IInv'
<1> USE DEF IInv
<1>1. PICK J \in SUBSET Pending :
         /\ jobs' = [j \in Jobs |-> IF j \in J THEN [jobs[j] EXCEPT !.status = "claimed"] ELSE jobs[j]]
         /\ owed' = [j \in Jobs |-> IF j \in J THEN Asked(jobs[j].work) ELSE owed[j]]
  <2>1. CASE UNCHANGED <<jobs, owed>>
    <3>1. {} \in SUBSET Pending
      OBVIOUS
    <3>2. /\ jobs' = [j \in Jobs |-> jobs[j]]
          /\ owed' = [j \in Jobs |-> owed[j]]
      BY <2>1 DEF Typed
    <3>3. QED
      BY <3>1, <3>2
  <2>2. QED
    BY <2>1 DEF fetchWork
<1>2. jobs' \in [Jobs -> [status : {"idle", "pending", "claimed", "acked", "failed"}, work : Works]] /\ WorksSame
  BY <1>1 DEF Typed, WorksSame
<1>3. owed' \in [Jobs -> SUBSET (Rows \X Nat)] /\ OwedOK'
  <2>1. ASSUME NEW j \in Jobs
        PROVE  /\ owed'[j] \in SUBSET (Rows \X Nat)
               /\ \A x \in owed'[j] : x[1] \in RowsOf(jobs'[j].work) /\ x[2] > 0 /\ x[2] <= butler[x[1]].ver
    <3>1. jobs'[j].work = jobs[j].work /\ jobs[j].work \in Works
      BY <1>2 DEF WorksSame, Typed
    <3>2. CASE j \in J
      BY <1>1, <3>1, <3>2, AskedFacts
    <3>3. CASE j \notin J
      BY <1>1, <3>1, <3>3 DEF OwedOK, Typed
    <3>4. QED
      BY <3>2, <3>3
  <2>2. butler' = butler
    BY DEF fetchWork
  <2>3. QED
    BY <1>1, <2>1, <2>2 DEF OwedOK
<1>4. wt' \in Tickers /\ wt'.pc \in Pcs \ {"page", "get", "write", "mark"} /\ wt'.job = {} /\ wt'.got = NoRows
  <2>1. wt.stop \in BOOLEAN /\ wt \in Tickers /\ wt.job = {} /\ wt.got = NoRows
    BY DEF Typed, Tickers, HandOK, fetchWork
  <2>2. CASE wt' = [Idle EXCEPT !.stop = wt.stop]
    BY <2>1, <2>2, OffFacts DEF Pcs
  <2>3. CASE \E K \in SUBSET Pending : wt' = [wt EXCEPT !.pc = "dispatch", !.items = K]
    BY <2>1, <2>3 DEF Tickers, Pcs, Pending
  <2>4. QED
    BY <2>2, <2>3 DEF fetchWork
<1>5. faults' \in 0..MaxFaults
  BY FaultFacts DEF fetchWork
<1>6. Typed'
  BY <1>2, <1>3, <1>4, <1>5 DEF Typed, fetchWork
<1>7. HandOK' /\ PassOK' /\ PromiseOK' /\ BundleOK'
  BY <1>4, NoJob
<1>8. QED
  BY <1>3, <1>6, <1>7, TablesAlone, CursorAlone DEF fetchWork

LEMMA markResultStep == ASSUME IInv, markResult PROVE IInv'
<1> USE DEF IInv
<1>1. jobs' \in [Jobs -> [status : {"idle", "pending", "claimed", "acked", "failed"}, work : Works]] /\ WorksSame
  <2>1. TheJob \in Jobs
    BY InHandFacts DEF markResult
  <2>2. CASE UNCHANGED jobs
    BY <2>2 DEF Typed, WorksSame
  <2>3. CASE jobs' = [jobs EXCEPT ![TheJob].status =
                        IF @ \in {"pending", "claimed"} THEN (IF wt.ok THEN "acked" ELSE "failed") ELSE @]
    <3> DEFINE s == IF jobs[TheJob].status \in {"pending", "claimed"}
                    THEN (IF wt.ok THEN "acked" ELSE "failed") ELSE jobs[TheJob].status
    <3>1. jobs' = [jobs EXCEPT ![TheJob] = [jobs[TheJob] EXCEPT !.status = s]]
      BY <2>1, <2>3 DEF Typed
    <3>2. s \in {"idle", "pending", "claimed", "acked", "failed"}
      BY <2>1 DEF Typed
    <3> HIDE DEF s
    <3>3. [jobs[TheJob] EXCEPT !.status = s] \in [status : {"idle", "pending", "claimed", "acked", "failed"}, work : Works]
          /\ [jobs[TheJob] EXCEPT !.status = s].work = jobs[TheJob].work
      BY <2>1, <3>2 DEF Typed
    <3>4. QED
      BY <2>1, <3>1, <3>3 DEF Typed, WorksSame
  <2>4. QED
    BY <2>2, <2>3 DEF markResult
<1>2. wt' \in Tickers /\ wt'.pc \in Pcs \ {"page", "get", "write", "mark"} /\ wt'.job = {} /\ wt'.got = NoRows
  <2>1. wt.stop \in BOOLEAN /\ wt \in Tickers /\ wt.got = NoRows
    BY DEF Typed, Tickers, HandOK, markResult
  <2>2. CASE wt' = [Idle EXCEPT !.stop = wt.stop]
    BY <2>1, <2>2, OffFacts DEF Pcs
  <2>3. CASE wt' = [wt EXCEPT !.pc = "dispatch", !.job = {}]
    BY <2>1, <2>3 DEF Tickers, Pcs
  <2>4. QED
    BY <2>2, <2>3 DEF markResult
<1>3. faults' \in 0..MaxFaults
  BY FaultFacts DEF markResult
<1>4. Typed'
  BY <1>1, <1>2, <1>3 DEF Typed, markResult
<1>5. HandOK' /\ PassOK' /\ PromiseOK' /\ BundleOK'
  BY <1>2, NoJob
<1>6. QED
  BY <1>1, <1>4, <1>5, TablesAlone, CursorAlone, OwedAlone DEF markResult

LEMMA dispatchStep == ASSUME IInv, NEW j \in Jobs, dispatch(j) PROVE IInv'
<1> USE DEF IInv
<1> DEFINE w == jobs[j].work
           mine == [wt EXCEPT !.items = wt.items \ {j}, !.job = {j}]
<1>1. wt \in Tickers /\ wt.got = NoRows /\ w \in Works
  BY DEF Typed, HandOK, dispatch
<1>2. mine \in Tickers /\ mine.items = wt.items \ {j} /\ mine.job = {j} /\ mine.got = NoRows
  BY <1>1 DEF Tickers
<1>3. wt' = IF ~CanDispatch(w) THEN [mine EXCEPT !.pc = "mark", !.ok = FALSE]
            ELSE IF w \in CursorTypes THEN [mine EXCEPT !.pc = "page", !.cur = cursor[w]]
            ELSE [mine EXCEPT !.pc = "get"]
  BY DEF dispatch
<1> HIDE DEF mine
<1>4. /\ wt' \in Tickers /\ wt'.items = wt.items \ {j} /\ wt'.job = {j} /\ wt'.got = NoRows
      /\ \/ wt'.pc = "mark" /\ ~wt'.ok
         \/ w \in CursorTypes /\ wt'.pc = "page" /\ wt'.cur = cursor[w]
         \/ w \notin CursorTypes /\ wt'.pc = "get"
  <2>1. CASE ~CanDispatch(w)
    BY <1>2, <1>3, <2>1 DEF Tickers, Pcs
  <2>2. CASE CanDispatch(w) /\ w \in CursorTypes
    <3>1. cursor[w] \in 0..MaxWrites
      BY <2>2 DEF Typed
    <3>2. QED
      BY <1>2, <1>3, <2>2, <3>1 DEF Tickers, Pcs
  <2>3. CASE CanDispatch(w) /\ w \notin CursorTypes
    BY <1>2, <1>3, <2>3 DEF Tickers, Pcs
  <2>4. QED
    BY <2>1, <2>2, <2>3
<1>5. WorksSame /\ Typed'
  BY <1>4 DEF dispatch, WorksSame, Typed
<1>6. TheJob' = j /\ Work' = w /\ InHand' = {}
  <2>1. TheJob' = j
    BY <1>4 DEF TheJob
  <2>2. QED
    BY <1>4, <2>1, NoRowsFacts DEF Work, InHand, dispatch
<1>7. HandOK'
  BY <1>4, <1>6 DEF HandOK
<1>8. PassOK'
  <2> SUFFICES ASSUME wt'.pc = "page", w \in CursorTypes, NEW r \in RowsOf(w),
                      butler[r].ver > 0, butler[r].at <= cursor[w]
               PROVE  Settled(r, butler[r].ver)
    BY <1>4, <1>6 DEF PassOK, SettledOrInHand, Settled, dispatch
  <2>1. QED
    BY DEF CursorOK
<1>9. PromiseOK' /\ BundleOK'
  BY <1>4 DEF PromiseOK, BundleOK
<1>10. QED
  BY <1>5, <1>7, <1>8, <1>9, TablesAlone, CursorAlone, OwedAlone DEF dispatch

\* A change below the cursor of the ticker, or its table's, counts as passed over.
LEMMA PassedFacts ==
    ASSUME Typed, HandOK, NEW w \in CursorTypes
    PROVE  /\ Passed(w) \in Nat /\ cursor[w] <= Passed(w)
           /\ wt.pc \in {"page", "write"} /\ Work = w => wt.cur <= Passed(w)
<1>1. cursor[w] \in Nat /\ wt.cur \in Nat
  BY DEF Typed, Tickers
<1>2. wt.pc \in {"page", "write"} => InTick /\ wt.job # {}
  BY InHandFacts DEF InTick
<1>3. QED
  BY <1>1, <1>2 DEF Passed

LEMMA ChangeStep ==
    ASSUME IInv, NEW j \in Jobs, NEW r \in Rows, Change(jobs[j].work, r) PROVE IInv'
<1> USE DEF IInv
<1> DEFINE w == jobs[j].work
<1>1. w \in Works /\ r \in RowsOf(w)
  BY DEF Typed, Change
<1>2. butler[r] \in [ver : Nat, at : Nat, ok : BOOLEAN] /\ writes \in Nat /\ missed[r] \in Nat
  BY DEF Typed
<1>3. PICK at \in {writes, writes + 1}, ok \in BOOLEAN :
         /\ at > 0
         /\ butler' = [butler EXCEPT ![r] = [ver |-> butler[r].ver + 1, at |-> at, ok |-> ok]]
         /\ missed' = IF ~ok \/ (w \in CursorTypes /\ at <= Passed(w))
                      THEN [missed EXCEPT ![r] = butler[r].ver + 1] ELSE missed
  BY DEF Change
<1>4. at \in Nat /\ at <= writes + 1 /\ writes' = writes + 1 /\ writes' \in 0..MaxWrites
  BY <1>2, <1>3, WorkTickerAssumption DEF Change
<1>5. /\ butler'[r].ver = butler[r].ver + 1 /\ butler'[r].at = at /\ butler'[r].ok = ok
      /\ \A s \in Rows \ {r} : butler'[s] = butler[s]
  BY <1>3 DEF Typed
<1>6. /\ missed' \in [Rows -> Nat]
      /\ \A s \in Rows \ {r} : missed'[s] = missed[s]
      /\ missed'[r] \in {missed[r], butler'[r].ver}
      /\ ~ok \/ (w \in CursorTypes /\ at <= Passed(w)) => missed'[r] = butler'[r].ver
  BY <1>2, <1>3, <1>5 DEF Typed
<1>7. Typed'
  <2>1. butler' \in [Rows -> [ver : Nat, at : Nat, ok : BOOLEAN]]
    BY <1>2, <1>3, <1>4 DEF Typed
  <2>2. QED
    BY <1>4, <1>6, <2>1 DEF Typed, Change
<1>8. \A s \in Rows :
         /\ butler[s].ver \in Nat /\ butler'[s].ver \in Nat /\ butler[s].ver <= butler'[s].ver
         /\ missed[s] \in Nat /\ missed'[s] \in Nat /\ missed[s] <= missed'[s]
         /\ local[s] \in Nat /\ local'[s] = local[s]
  <2> TAKE s \in Rows
  <2>1. butler[s].ver \in Nat /\ missed[s] \in Nat /\ local[s] \in Nat /\ local'[s] = local[s] /\ missed[s] <= butler[s].ver
    BY DEF Typed, ButlerOK, Change
  <2>2. QED
    BY <1>5, <1>6, <2>1
<1>9. \A s \in Rows : \A v \in Nat : Settled(s, v) => Settled(s, v)'
  BY <1>8 DEF Settled
<1>10. ButlerOK'
  <2>1. ASSUME NEW s \in Rows
        PROVE  /\ butler'[s].ver <= writes' + 1 /\ butler'[s].at <= writes'
               /\ local'[s] <= butler'[s].ver /\ missed'[s] <= butler'[s].ver
    <3>1. /\ butler[s].ver <= writes + 1 /\ butler[s].at <= writes /\ butler[s].at \in Nat
          /\ local[s] <= butler[s].ver /\ missed[s] <= butler[s].ver
      BY DEF ButlerOK, Typed
    <3>2. CASE s = r
      BY <1>2, <1>4, <1>5, <1>6, <1>8, <3>1, <3>2
    <3>3. CASE s # r
      BY <1>2, <1>4, <1>5, <1>6, <1>8, <3>1, <3>3
    <3>4. QED
      BY <3>2, <3>3
  <2>2. ASSUME NEW s \in Rows, butler'[s].ver > 0, ~butler'[s].ok
        PROVE  missed'[s] >= butler'[s].ver
    <3>1. CASE s = r
      BY <1>5, <1>6, <1>8, <2>2, <3>1
    <3>2. CASE s # r
      BY <1>5, <1>6, <2>2, <3>2 DEF ButlerOK
    <3>3. QED
      BY <3>1, <3>2
  <2>3. ASSUME NEW s \in Rows, butler'[s].ver > 0, NEW v \in CursorTypes, s \in RowsOf(v)
        PROVE  butler'[s].at > 0
    <3>1. CASE s = r
      BY <1>3, <1>5, <3>1
    <3>2. CASE s # r
      BY <1>5, <2>3, <3>2 DEF ButlerOK
    <3>3. QED
      BY <3>1, <3>2
  <2>4. ASSUME NEW run \in Rows, butler'[run].ver > 0, run \in EvalRuns, NEW s \in Bundle(run)
        PROVE  butler'[s].ver > 0
    <3>1. s \in Rows
      BY <2>4, BundleRows
    <3>2. CASE s = r
      BY <1>2, <1>5, <3>2
    <3>3. CASE s # r /\ run = r
      <4>1. butler[s].ver > 0
        BY <2>4, <3>3 DEF Change
      <4>2. QED
        BY <1>8, <3>1, <4>1
    <3>4. CASE s # r /\ run # r
      <4>1. butler[run].ver > 0
        BY <1>5, <2>4, <3>4
      <4>2. butler[s].ver > 0
        BY <2>4, <4>1 DEF ButlerOK
      <4>3. QED
        BY <1>8, <3>1, <4>2
    <3>5. QED
      BY <3>2, <3>3, <3>4
  <2>5. QED
    BY <2>1, <2>2, <2>3, <2>4 DEF ButlerOK
<1>11. CursorOK'
  <2> SUFFICES ASSUME NEW v \in CursorTypes, NEW s \in RowsOf(v),
                      butler'[s].ver > 0, butler'[s].at <= cursor[v]
               PROVE  Settled(s, butler[s].ver)'
    BY DEF CursorOK, Settled, Change
  <2>1. s \in Rows
    BY WorkFacts, RowsOfWorks
  <2>2. CASE s = r
    <3>1. v = w
      BY <1>1, <2>2, CursorRows
    <3>2. at <= Passed(w)
      <4>1. Passed(w) \in Nat /\ cursor[w] <= Passed(w) /\ cursor[w] \in Nat
        BY <3>1, PassedFacts DEF Typed
      <4>2. QED
        BY <1>4, <1>5, <2>2, <3>1, <4>1
    <3>3. missed'[s] = butler'[s].ver
      BY <1>6, <2>2, <3>1, <3>2
    <3>4. QED
      BY <1>8, <2>1, <3>3 DEF Settled
  <2>3. CASE s # r
    <3>1. Settled(s, butler[s].ver)
      BY <1>5, <2>1, <2>3 DEF CursorOK
    <3>2. butler'[s].ver = butler[s].ver
      BY <1>5, <2>1, <2>3
    <3>3. QED
      BY <1>8, <2>1, <3>1, <3>2 DEF Settled
  <2>4. QED
    BY <2>2, <2>3
<1>12. OwedOK'
  <2> SUFFICES ASSUME NEW i \in Jobs, NEW x \in owed[i]
               PROVE  x[1] \in RowsOf(jobs[i].work) /\ x[2] > 0 /\ x[2] <= butler'[x[1]].ver
    BY DEF OwedOK, Change
  <2>1. x[1] \in Rows /\ x[2] \in Nat
    BY DEF Typed
  <2>2. x[1] \in RowsOf(jobs[i].work) /\ x[2] > 0 /\ x[2] <= butler[x[1]].ver
    BY DEF OwedOK
  <2>3. QED
    BY <1>8, <2>1, <2>2
<1>13. InHand' = InHand /\ wt' = wt /\ jobs' = jobs /\ TheJob' = TheJob /\ Work' = Work /\ owed' = owed
  BY DEF InHand, TheJob, Work, Change
<1>14. InHand \subseteq Rows /\ \A s \in InHand : wt.got[s] \in Nat
  BY GotFacts DEF Typed, Tickers, InHand
<1>15. HandOK'
  <2>1. ASSUME wt.pc \in {"page", "write"}, NEW s \in InHand
        PROVE  0 < wt.got[s] /\ wt.got[s] <= butler'[s].ver /\ local'[s] <= wt.got[s]
    <3>1. 0 < wt.got[s] /\ wt.got[s] <= butler[s].ver /\ local[s] <= wt.got[s]
      BY <2>1 DEF HandOK
    <3>2. QED
      BY <1>8, <1>14, <3>1
  <2>2. QED
    BY <1>13, <2>1 DEF HandOK
<1>16. PassOK'
  <2> SUFFICES ASSUME wt.pc \in {"page", "write"}, Work \in CursorTypes, NEW s \in RowsOf(Work),
                      butler'[s].ver > 0, butler'[s].at <= wt.cur
               PROVE  SettledOrInHand(s, butler[s].ver)'
    BY <1>13 DEF PassOK, SettledOrInHand, Settled
  <2>1. s \in Rows
    BY WorkFacts, RowsOfWorks
  <2>2. CASE s = r
    <3>1. Work = w
      BY <1>1, <2>2, CursorRows
    <3>2. at <= Passed(w)
      <4>1. Passed(w) \in Nat /\ wt.cur <= Passed(w) /\ wt.cur \in Nat
        BY <3>1, PassedFacts DEF Typed, Tickers
      <4>2. QED
        BY <1>4, <1>5, <2>2, <4>1
    <3>3. missed'[s] = butler'[s].ver
      BY <1>6, <2>2, <3>1, <3>2
    <3>4. QED
      BY <1>8, <2>1, <3>3 DEF SettledOrInHand, Settled
  <2>3. CASE s # r
    <3>1. SettledOrInHand(s, butler[s].ver)
      BY <1>5, <2>1, <2>3 DEF PassOK
    <3>2. butler'[s].ver = butler[s].ver
      BY <1>5, <2>1, <2>3
    <3>3. QED
      BY <1>8, <1>13, <2>1, <3>1, <3>2 DEF SettledOrInHand, Settled
  <2>4. QED
    BY <2>2, <2>3
<1>17. PromiseOK'
  <2>1. ASSUME wt.pc = "write", NEW x \in owed[TheJob] PROVE SettledOrInHand(x[1], x[2])'
    <3>1. x[1] \in Rows /\ x[2] \in Nat
      BY <2>1, InHandFacts DEF Typed
    <3>2. SettledOrInHand(x[1], x[2])
      BY <2>1 DEF PromiseOK
    <3>3. QED
      BY <1>9, <1>13, <3>1, <3>2 DEF SettledOrInHand
  <2>2. ASSUME wt.pc = "mark", wt.ok PROVE InEffect(TheJob)'
    <3> SUFFICES ASSUME NEW x \in owed[TheJob] PROVE Settled(x[1], x[2])'
      BY <1>13 DEF InEffect, Settled
    <3>1. x[1] \in Rows /\ x[2] \in Nat
      BY <2>2, InHandFacts DEF Typed
    <3>2. Settled(x[1], x[2])
      BY <2>2 DEF PromiseOK, InEffect, Settled
    <3>3. QED
      BY <1>9, <3>1, <3>2
  <2>3. QED
    BY <1>13, <2>1, <2>2 DEF PromiseOK
<1>18. BundleOK' /\ RunComesWithItsSet'
  BY <1>13 DEF BundleOK, RunComesWithItsSet, Change
<1>19. QED
  BY <1>7, <1>10, <1>11, <1>12, <1>15, <1>16, <1>17, <1>18

\* Once the syncer returns, the hand is empty; with its success, the promise is kept.
LEMMA ResultStep ==
    ASSUME IInv, WorksSame, UNCHANGED owed, wt.pc \in {"page", "get", "write"},
           wt' \in Tickers, wt'.pc = "mark", wt'.items = wt.items, wt'.job = wt.job, wt'.got = NoRows,
           wt'.ok => \A x \in owed[TheJob] : Settled(x[1], x[2])'
    PROVE  HandOK' /\ PassOK' /\ PromiseOK' /\ BundleOK'
<1> USE DEF IInv
<1>1. TheJob' = TheJob /\ Work' = Work /\ TheJob \in Jobs
  BY SameWork, InHandFacts
<1>2. HandOK'
  BY DEF HandOK
<1>3. PassOK' /\ BundleOK'
  BY DEF PassOK, BundleOK
<1>4. PromiseOK'
  <2>1. wt'.ok => InEffect(TheJob)'
    BY <1>1 DEF InEffect, Settled
  <2>2. QED
    BY <2>1 DEF PromiseOK
<1>5. QED
  BY <1>2, <1>3, <1>4

LEMMA ResultFacts ==
    ASSUME Typed, NEW b \in BOOLEAN, Result(b)
    PROVE  /\ wt' \in Tickers /\ wt'.pc = "mark" /\ wt'.items = wt.items /\ wt'.job = wt.job
           /\ wt'.got = NoRows /\ wt'.ok = b
<1>1. 0 \in 0..MaxWrites
  BY WorkTickerAssumption
<1>2. QED
  BY <1>1, NoRowsFacts DEF Typed, Tickers, Pcs, Result

\* A fetch that fails.
LEMMA FailedStep ==
    ASSUME IInv, wt.pc \in {"page", "get", "write"}, Result(FALSE), faults' \in 0..MaxFaults,
           UNCHANGED <<offers, butler, jobs, local, cursor, owed, missed, writes, deaths>>
    PROVE  IInv'
<1> USE DEF IInv
<1>1. WorksSame
  BY DEF WorksSame
<1>2. wt' \in Tickers /\ HandOK' /\ PassOK' /\ PromiseOK' /\ BundleOK'
  BY <1>1, ResultStep, ResultFacts
<1>3. Typed'
  BY <1>2 DEF Typed
<1>4. QED
  BY <1>1, <1>2, <1>3, TablesAlone, CursorAlone, OwedAlone

\* What is passed over only grows, up to what Butler has.
LEMMA MissedGrows ==
    ASSUME IInv, UNCHANGED <<butler, local, cursor, writes>>,
           missed' \in [Rows -> Nat], \A s \in Rows : missed[s] <= missed'[s] /\ missed'[s] <= butler[s].ver
    PROVE  /\ \A s \in Rows : \A v \in Nat : Settled(s, v) => Settled(s, v)'
           /\ ButlerOK' /\ CursorOK' /\ RunComesWithItsSet'
<1> USE DEF IInv
<1>1. \A s \in Rows : missed[s] \in Nat /\ missed'[s] \in Nat /\ butler[s].ver \in Nat
  BY DEF Typed
<1>2. \A s \in Rows : \A v \in Nat : Settled(s, v) => Settled(s, v)'
  BY <1>1 DEF Settled
<1>3. ButlerOK'
  <2>1. \A s \in Rows : butler[s].ver > 0 /\ ~butler[s].ok => missed'[s] >= butler[s].ver
    BY <1>1 DEF ButlerOK
  <2>2. QED
    BY <2>1 DEF ButlerOK
<1>4. CursorOK'
  <2> SUFFICES ASSUME NEW w \in CursorTypes, NEW r \in RowsOf(w), butler[r].ver > 0, butler[r].at <= cursor[w]
               PROVE  Settled(r, butler[r].ver)'
    BY DEF CursorOK, Settled
  <2>1. r \in Rows
    BY WorkFacts, RowsOfWorks
  <2>2. QED
    BY <1>1, <2>1 DEF CursorOK, Settled
<1>5. QED
  BY <1>2, <1>3, <1>4 DEF RunComesWithItsSet

LEMMA LatestFacts ==
    ASSUME Typed, ButlerOK, NEW c \in 0..MaxWrites, NEW P \in SUBSET Rows, \A r \in P : butler[r].at > c
    PROVE  /\ Latest(c, P) \in 0..MaxWrites /\ c <= Latest(c, P)
           /\ \A r \in P : butler[r].at <= Latest(c, P)
<1> DEFINE T == {c} \cup {butler[r].at : r \in P}
<1>1. ASSUME NEW r \in P PROVE butler[r].at \in 0..MaxWrites
  <2>1. butler[r].at \in Nat /\ butler[r].at <= writes /\ writes \in 0..MaxWrites
    BY DEF Typed, ButlerOK
  <2>2. QED
    BY <2>1, WorkTickerAssumption
<1>2. T \in SUBSET (0..MaxWrites) /\ T # {} /\ MaxWrites \in Nat
  BY <1>1, WorkTickerAssumption
<1>3. \E m \in T : \A t \in T : t <= m
  <2> HIDE DEF T
  <2>1. QED
    BY <1>2, Maximum
<1>4. \E m \in T : \A r \in P : butler[r].at <= m
  BY <1>3
<1>5. Latest(c, P) \in T /\ \A r \in P : butler[r].at <= Latest(c, P)
  <2> DEFINE good(m) == \A r \in P : butler[r].at <= m
  <2>1. Latest(c, P) = CHOOSE m \in T : good(m)
    BY DEF Latest
  <2>2. \E m \in T : good(m)
    BY <1>4
  <2> HIDE DEF T, good
  <2>3. Latest(c, P) \in T /\ good(Latest(c, P))
    BY <2>1, <2>2
  <2>4. QED
    BY <2>3 DEF good
<1>6. c <= Latest(c, P)
  <2>1. \A t \in T : c <= t
    BY <1>1
  <2>2. QED
    BY <1>5, <2>1
<1>7. QED
  BY <1>2, <1>5, <1>6

LEMMA FetchPageStep ==
    ASSUME IInv, wt.pc = "page", NEW P \in Pages(Work, wt.cur), FetchPage(Work, P), UNCHANGED faults,
           UNCHANGED <<offers, butler, jobs, local, cursor, owed, writes, deaths>>
    PROVE  IInv'
<1> USE DEF IInv
<1> DEFINE w    == Work
           A    == After(w, wt.cur)
           last == Cardinality(P) < PageSize
           c    == Latest(wt.cur, P)
           got  == Read(P)
<1>1. w \in CursorTypes /\ w \in Works /\ w \notin EvalRuns /\ TheJob \in Jobs
  BY InHandFacts, WorkFacts DEF HandOK
<1>2. /\ RowsOf(w) \subseteq Rows /\ P \subseteq A /\ A \subseteq RowsOf(w)
      /\ \A r \in A : butler[r].ver > 0 /\ butler[r].at > wt.cur
      /\ \A r \in RowsOf(w) \ A : butler[r].ver > 0 => ~(butler[r].at > wt.cur)
  BY <1>1, RowsOfWorks DEF Pages, After
<1>3. last => P = A
  BY WorkTickerAssumption DEF Pages
<1>4. \A r \in Rows : /\ butler[r].ver \in Nat /\ butler[r].at \in Nat /\ missed[r] \in Nat /\ local[r] \in Nat
                       /\ missed[r] <= butler[r].ver /\ local[r] <= butler[r].ver
  BY DEF Typed, ButlerOK
<1>5. wt.cur \in 0..MaxWrites /\ wt.cur \in Nat /\ wt \in Tickers
  BY DEF Typed, Tickers
<1>6. /\ c \in 0..MaxWrites /\ c \in Nat /\ wt.cur <= c
      /\ \A r \in P : butler[r].at <= c
  <2>1. P \in SUBSET Rows /\ \A r \in P : butler[r].at > wt.cur
    BY <1>2
  <2>2. QED
    BY <1>5, <2>1, LatestFacts
<1>7. /\ InHand \subseteq RowsOf(w)
      /\ \A r \in InHand : wt.got[r] \in Nat /\ 0 < wt.got[r] /\ wt.got[r] <= butler[r].ver /\ local[r] <= wt.got[r]
  <2>1. \A r \in InHand : wt.got[r] \in Nat
    BY GotFacts DEF Typed, Tickers, InHand
  <2>2. QED
    BY <2>1 DEF HandOK
<1>8. /\ DOMAIN got = P \cup InHand /\ got \in Gots
      /\ \A r \in P : got[r] = butler[r].ver
      /\ \A r \in InHand \ P : got[r] = wt.got[r]
      /\ \A r \in DOMAIN got : 0 < got[r] /\ got[r] <= butler[r].ver /\ local[r] <= got[r]
  <2>1. got = [r \in P \cup InHand |-> IF r \in P THEN butler[r].ver ELSE wt.got[r]]
    BY DEF Read, InHand
  <2>2. got \in [P \cup InHand -> Nat] /\ P \cup InHand \in SUBSET Rows
    BY <1>2, <1>4, <1>7, <2>1
  <2>3. got \in Gots
    BY <2>2, GotType
  <2>4. \A r \in P : 0 < butler[r].ver
    BY <1>2
  <2>5. QED
    BY <1>2, <1>4, <1>7, <2>1, <2>3, <2>4
<1>9. missed' = [r \in Rows |-> IF r \in A \ P /\ butler[r].at <= c THEN butler[r].ver ELSE missed[r]]
  BY DEF FetchPage
<1>10. missed' \in [Rows -> Nat] /\ \A s \in Rows : missed[s] <= missed'[s] /\ missed'[s] <= butler[s].ver
  BY <1>4, <1>9
<1>11. /\ \A s \in Rows : \A v \in Nat : Settled(s, v) => Settled(s, v)'
       /\ ButlerOK' /\ CursorOK' /\ RunComesWithItsSet'
  BY <1>10, MissedGrows
<1>12. WorksSame /\ OwedOK'
  BY OwedAlone DEF WorksSame
<1>13. wt' = IF ~last THEN [wt EXCEPT !.got = got, !.cur = c]
             ELSE IF got = NoRows THEN [wt EXCEPT !.pc = "mark", !.ok = TRUE, !.cur = 0]
             ELSE [wt EXCEPT !.got = got, !.cur = c, !.pc = "write"]
  BY DEF FetchPage
<1> HIDE DEF last, c, got, A
<1>14. ASSUME NEW r \in RowsOf(w), butler[r].ver > 0, butler[r].at <= wt.cur
       PROVE  Settled(r, butler[r].ver)' \/ (r \in DOMAIN got /\ got[r] >= butler[r].ver)
  <2>1. Settled(r, butler[r].ver) \/ (r \in InHand /\ wt.got[r] >= butler[r].ver)
    BY <1>1, <1>14 DEF PassOK, SettledOrInHand
  <2>2. r \in Rows
    BY <1>2
  <2>3. CASE Settled(r, butler[r].ver)
    BY <1>4, <1>10, <2>2, <2>3 DEF Settled
  <2>4. CASE r \in InHand /\ wt.got[r] >= butler[r].ver
    BY <1>4, <1>8, <2>2, <2>4
  <2>5. QED
    BY <2>1, <2>3, <2>4
<1>15. ASSUME NEW r \in RowsOf(w), butler[r].ver > 0, butler[r].at <= c
       PROVE  Settled(r, butler[r].ver)' \/ (r \in DOMAIN got /\ got[r] >= butler[r].ver)
  <2>1. r \in Rows
    BY <1>2
  <2>2. CASE r \in P
    BY <1>4, <1>8, <2>1, <2>2
  <2>3. CASE r \in A \ P
    <3>1. missed'[r] = butler[r].ver
      BY <1>9, <1>15, <2>1, <2>3
    <3>2. QED
      BY <1>4, <2>1, <3>1 DEF Settled
  <2>4. CASE r \notin A
    <3>1. butler[r].at <= wt.cur
      BY <1>2, <1>4, <1>5, <1>15, <2>1, <2>4
    <3>2. QED
      BY <1>14, <1>15, <3>1
  <2>5. QED
    BY <1>2, <2>2, <2>3, <2>4
<1>16. CASE ~last \/ got # NoRows
  <2>1. /\ wt' \in Tickers /\ wt'.pc = (IF last THEN "write" ELSE "page")
        /\ wt'.items = wt.items /\ wt'.job = wt.job /\ wt'.cur = c /\ wt'.got = got
    <3>1. CASE ~last
      BY <1>5, <1>6, <1>8, <1>13, <3>1 DEF Tickers
    <3>2. CASE last /\ got # NoRows
      BY <1>5, <1>6, <1>8, <1>13, <3>2 DEF Tickers, Pcs
    <3>3. QED
      BY <1>16, <3>1, <3>2
  <2>2. TheJob' = TheJob /\ Work' = w /\ InHand' = DOMAIN got
    BY <1>12, <2>1, SameWork DEF InHand
  <2>3. Typed'
    BY <1>10, <2>1 DEF Typed
  <2>4. HandOK'
    <3>1. DOMAIN got \subseteq RowsOf(w)
      BY <1>2, <1>7, <1>8
    <3>2. QED
      BY <1>1, <1>8, <2>1, <2>2, <3>1 DEF HandOK
  <2>5. PassOK'
    BY <1>15, <2>1, <2>2 DEF PassOK, SettledOrInHand, Settled
  <2>6. PromiseOK'
    <3> SUFFICES ASSUME last, NEW x \in owed[TheJob]
                 PROVE  Settled(x[1], x[2])' \/ (x[1] \in DOMAIN got /\ got[x[1]] >= x[2])
      BY <2>1, <2>2 DEF PromiseOK, SettledOrInHand, Settled
    <3>1. x[1] \in Rows /\ x[2] \in Nat /\ x[1] \in RowsOf(w) /\ 0 < x[2] /\ x[2] <= butler[x[1]].ver
      BY <1>1 DEF OwedOK, Typed, Work
    <3>2. butler[x[1]].ver > 0 /\ butler[x[1]].ver \in Nat
      BY <1>4, <3>1
    <3>3. CASE x[1] \in P
      BY <1>8, <3>1, <3>2, <3>3
    <3>4. CASE x[1] \notin P
      <4>1. butler[x[1]].at <= wt.cur
        BY <1>2, <1>3, <1>4, <1>5, <3>1, <3>2, <3>4
      <4>2. Settled(x[1], butler[x[1]].ver)' \/ (x[1] \in DOMAIN got /\ got[x[1]] >= butler[x[1]].ver)
        BY <1>14, <3>1, <3>2, <4>1
      <4>3. x[1] \in DOMAIN got => got[x[1]] \in Nat
        BY <1>8, GotFacts
      <4>4. missed'[x[1]] \in Nat /\ local[x[1]] \in Nat /\ local' = local /\ butler' = butler
        BY <1>4, <1>10, <3>1
      <4>5. QED
        BY <3>1, <3>2, <4>2, <4>3, <4>4 DEF Settled
    <3>5. QED
      BY <3>3, <3>4
  <2>7. BundleOK'
    BY <1>1, <2>2 DEF BundleOK
  <2>8. QED
    BY <1>11, <1>12, <2>3, <2>4, <2>5, <2>6, <2>7
<1>17. CASE last /\ got = NoRows
  <2>1. P = {} /\ A = {} /\ InHand = {}
    BY <1>3, <1>8, <1>17, NoRowsFacts
  <2>a. wt.got \in Gots /\ 0 \in 0..MaxWrites
    BY <1>5, WorkTickerAssumption DEF Tickers
  <2>2. wt.got = NoRows /\ 0 \in 0..MaxWrites
    BY <2>1, <2>a, NoRowsFacts DEF InHand
  <2>3. /\ wt' \in Tickers /\ wt'.pc = "mark" /\ wt'.ok = TRUE
        /\ wt'.items = wt.items /\ wt'.job = wt.job /\ wt'.got = NoRows
    BY <1>5, <1>13, <1>17, <2>2 DEF Tickers, Pcs
  <2>4. ASSUME NEW x \in owed[TheJob] PROVE Settled(x[1], x[2])'
    <3>1. x[1] \in Rows /\ x[2] \in Nat /\ x[1] \in RowsOf(w) /\ 0 < x[2] /\ x[2] <= butler[x[1]].ver
      BY <1>1 DEF OwedOK, Typed, Work
    <3>2. butler[x[1]].ver > 0 /\ butler[x[1]].ver \in Nat
      BY <1>4, <3>1
    <3>3. butler[x[1]].at <= wt.cur
      BY <1>2, <1>4, <1>5, <2>1, <3>1, <3>2
    <3>4. Settled(x[1], butler[x[1]].ver)'
      BY <1>8, <1>14, <2>1, <3>1, <3>2, <3>3
    <3>5. missed'[x[1]] \in Nat /\ local[x[1]] \in Nat /\ local' = local /\ butler' = butler
      BY <1>4, <1>10, <3>1
    <3>6. QED
      BY <3>1, <3>2, <3>4, <3>5 DEF Settled
  <2>5. HandOK' /\ PassOK' /\ PromiseOK' /\ BundleOK'
    BY <1>12, <2>3, <2>4, ResultStep
  <2>6. Typed'
    BY <1>10, <2>3 DEF Typed
  <2>7. QED
    BY <1>11, <1>12, <2>5, <2>6
<1>18. QED
  BY <1>16, <1>17

\* The rows of a table, a replay run or an eval run as they are at Butler.
LEMMA GotStep ==
    ASSUME IInv, wt.pc = "get", NEW P \in SUBSET RowsOf(Work), Got(P),
           \A r \in P : butler[r].ver > 0,
           \A r \in RowsOf(Work) \ P : butler[r].ver > 0 => ~butler[r].ok,
           Work \in EvalRuns => P = Bundle(Work),
           UNCHANGED <<offers, butler, jobs, local, cursor, owed, missed, writes, faults, deaths>>
    PROVE  IInv'
<1> USE DEF IInv
<1>1. /\ Work \in Works /\ TheJob \in Jobs /\ Work = jobs[TheJob].work
      /\ RowsOf(Work) \subseteq Rows /\ Work \notin CursorTypes
  BY InHandFacts, RowsOfWorks DEF HandOK, Work
<1>2. WorksSame
  BY DEF WorksSame
<1>3. \A r \in Rows : /\ butler[r].ver \in Nat /\ missed[r] \in Nat /\ local[r] \in Nat
                       /\ missed[r] <= butler[r].ver /\ local[r] <= butler[r].ver
  BY DEF Typed, ButlerOK
<1>4. \A x \in owed[TheJob] : /\ x[1] \in RowsOf(Work) /\ x[2] \in Nat /\ 0 < x[2] /\ x[2] <= butler[x[1]].ver
                              /\ x[1] \notin P => Settled(x[1], x[2])
  <2> TAKE x \in owed[TheJob]
  <2>1. x[1] \in RowsOf(Work) /\ x[2] \in Nat /\ 0 < x[2] /\ x[2] <= butler[x[1]].ver
    BY <1>1 DEF OwedOK, Typed
  <2>2. ASSUME x[1] \notin P PROVE Settled(x[1], x[2])
    <3>1. x[1] \in Rows /\ butler[x[1]].ver > 0 /\ butler[x[1]].ver \in Nat /\ missed[x[1]] \in Nat
      BY <1>1, <1>3, <2>1
    <3>2. ~butler[x[1]].ok
      BY <2>1, <2>2, <3>1
    <3>3. missed[x[1]] >= butler[x[1]].ver
      BY <3>1, <3>2 DEF ButlerOK
    <3>4. QED
      BY <2>1, <3>1, <3>3 DEF Settled
  <2>3. QED
    BY <2>1, <2>2
<1>5. CASE P = {}
  <2>1. Result(TRUE)
    BY <1>5 DEF Got
  <2>2. \A x \in owed[TheJob] : Settled(x[1], x[2])'
    BY <1>4, <1>5 DEF Settled
  <2>3. wt' \in Tickers /\ HandOK' /\ PassOK' /\ PromiseOK' /\ BundleOK'
    BY <1>2, <2>1, <2>2, ResultStep, ResultFacts
  <2>4. Typed'
    BY <2>3 DEF Typed
  <2>5. QED
    BY <1>2, <2>3, <2>4, TablesAlone, CursorAlone, OwedAlone
<1>6. CASE P # {}
  <2> DEFINE got == [r \in P |-> butler[r].ver]
  <2>1. wt' = [wt EXCEPT !.pc = "write", !.got = got]
    BY <1>6 DEF Got
  <2>2. got \in Gots /\ DOMAIN got = P /\ \A r \in P : got[r] = butler[r].ver
    <3>1. P \in SUBSET Rows /\ got \in [P -> Nat]
      BY <1>1, <1>3
    <3>2. QED
      BY <3>1, GotType
  <2> HIDE DEF got
  <2>3. wt' \in Tickers /\ wt'.pc = "write" /\ wt'.items = wt.items /\ wt'.job = wt.job /\ wt'.got = got
    BY <2>1, <2>2 DEF Typed, Tickers, Pcs
  <2>4. TheJob' = TheJob /\ Work' = Work /\ InHand' = P
    BY <1>2, <2>2, <2>3, SameWork DEF InHand
  <2>5. Typed'
    BY <2>3 DEF Typed
  <2>6. HandOK'
    <3>1. \A r \in P : 0 < got[r] /\ got[r] <= butler[r].ver /\ local[r] <= got[r]
      BY <1>1, <1>3, <2>2
    <3>2. QED
      BY <2>2, <2>3, <2>4, <3>1 DEF HandOK
  <2>7. PassOK'
    BY <1>1, <2>4 DEF PassOK
  <2>8. PromiseOK'
    <3> SUFFICES ASSUME NEW x \in owed[TheJob]
                 PROVE  Settled(x[1], x[2]) \/ (x[1] \in P /\ got[x[1]] >= x[2])
      BY <2>3, <2>4 DEF PromiseOK, SettledOrInHand, Settled
    <3>1. QED
      BY <1>1, <1>3, <1>4, <2>2
  <2>9. BundleOK'
    BY <2>4 DEF BundleOK
  <2>10. QED
    BY <1>2, <2>5, <2>6, <2>7, <2>8, <2>9, TablesAlone, CursorAlone, OwedAlone
<1>7. QED
  BY <1>5, <1>6

LEMMA SnapshotStep ==
    ASSUME IInv, CloudStorageSyncerFetch \/ ProviderKeySyncerFetch \/ FetchReplayRun \/ FetchEvalRun,
           UNCHANGED <<offers, butler, jobs, local, cursor, owed, missed, writes, deaths>>
    PROVE  IInv'
<1> USE DEF IInv
<1>1. CASE Fails /\ Result(FALSE) /\ wt.pc = "get"
  BY <1>1, FaultFacts, FailedStep
<1>2. CASE UNCHANGED faults /\ Result(FALSE) /\ wt.pc = "get"
  BY <1>2, FaultFacts, FailedStep
<1>3. CASE wt.pc = "get" /\ UNCHANGED faults /\ Work = "sync_cloud_storage" /\ Got(WithCredentials(CloudRows))
  <2>1. RowsOf(Work) = CloudRows /\ Work \notin EvalRuns
    BY <1>3, WorkFacts DEF SnapshotTypes
  <2>2. QED
    BY <1>3, <2>1, GotStep DEF WithCredentials
<1>4. CASE wt.pc = "get" /\ UNCHANGED faults /\ Work = "sync_provider_keys" /\ Got(WithCredentials(ProvRows))
  <2>1. RowsOf(Work) = ProvRows /\ Work \notin EvalRuns
    BY <1>4, WorkFacts DEF SnapshotTypes
  <2>2. QED
    BY <1>4, <2>1, GotStep DEF WithCredentials
<1>5. CASE wt.pc = "get" /\ UNCHANGED faults /\ Work \in ReplayRuns /\ butler[Work].ver > 0 /\ Got({Work})
  <2>1. RowsOf(Work) = {Work} /\ Work \notin EvalRuns
    BY <1>5, WorkFacts
  <2>2. QED
    BY <1>5, <2>1, GotStep
<1>6. CASE wt.pc = "get" /\ UNCHANGED faults /\ Work \in EvalRuns /\ butler[Work].ver > 0 /\ Got(Bundle(Work))
  <2>1. RowsOf(Work) = Bundle(Work) /\ Work \in Rows
    BY <1>6, WorkFacts, BundleRows
  <2>2. \A s \in Bundle(Work) : butler[s].ver > 0
    BY <1>6, <2>1 DEF ButlerOK
  <2>3. QED
    BY <1>6, <2>1, <2>2, GotStep
<1>7. QED
  BY <1>1, <1>2, <1>3, <1>4, <1>5, <1>6
  DEF CloudStorageSyncerFetch, ProviderKeySyncerFetch, FetchReplayRun, FetchEvalRun, Succeeds

\* A statement writes rows that are in hand, and an eval run only as the last.
LEMMA StatementFacts ==
    ASSUME NEW S \in Statements
    PROVE  /\ S \subseteq InHand
           /\ Work \in EvalRuns /\ Work \in S /\ InHand \subseteq Bundle(Work) => S = InHand
<1>1. S = InHand \/ (\E r \in InHand : S = {r} /\ Work \notin EvalRuns) \/ S \in ExecuteEval(Work)
  <2>1. "sync_api_keys" \notin EvalRuns
    BY WorkFacts
  <2>2. QED
    BY <2>1 DEF Statements, UpsertAPIKeys, UpsertExperiments, UpsertCloudStorageConfigs, UpsertBatch, UpsertReplayRun
<1>2. CASE S = InHand
  BY <1>2
<1>3. CASE \E r \in InHand : S = {r} /\ Work \notin EvalRuns
  BY <1>3
<1>4. CASE S \in ExecuteEval(Work) /\ SetOf(Work) \in InHand
  BY <1>4, WorkTickerTables DEF ExecuteEval
<1>5. CASE S \in ExecuteEval(Work) /\ SetOf(Work) \notin InHand /\ InHand \cap ItemsOf(Work) # {}
  BY <1>5, WorkTickerTables DEF ExecuteEval
<1>6. CASE S \in ExecuteEval(Work) /\ SetOf(Work) \notin InHand /\ InHand \cap ItemsOf(Work) = {}
  BY <1>6 DEF ExecuteEval
<1>7. QED
  BY <1>1, <1>2, <1>3, <1>4, <1>5, <1>6

LEMMA StatementStep ==
    ASSUME IInv, wt.pc = "write", NEW S \in Statements, UNCHANGED faults,
           local' = [r \in Rows |-> IF r \in S THEN wt.got[r] ELSE local[r]],
           Advance(S = InHand),
           IF S = InHand THEN Result(TRUE)
           ELSE wt' = [wt EXCEPT !.got = [r \in InHand \ S |-> wt.got[r]]],
           UNCHANGED <<offers, butler, jobs, owed, missed, writes, deaths>>
    PROVE  IInv'
<1> USE DEF IInv
<1>1. Work \in Works /\ TheJob \in Jobs /\ RowsOf(Work) \subseteq Rows /\ InHand \subseteq RowsOf(Work) /\ S \subseteq InHand
  BY InHandFacts, RowsOfWorks, StatementFacts DEF HandOK
<1>2. WorksSame /\ OwedOK'
  BY OwedAlone DEF WorksSame
<1>3. \A r \in Rows : /\ butler[r].ver \in Nat /\ missed[r] \in Nat /\ local[r] \in Nat
                       /\ missed[r] <= butler[r].ver /\ local[r] <= butler[r].ver
  BY DEF Typed, ButlerOK
<1>4. \A r \in InHand : wt.got[r] \in Nat /\ 0 < wt.got[r] /\ wt.got[r] <= butler[r].ver /\ local[r] <= wt.got[r]
  <2>1. \A r \in InHand : wt.got[r] \in Nat
    BY GotFacts DEF Typed, Tickers, InHand
  <2>2. QED
    BY <2>1 DEF HandOK
<1>5. /\ local' \in [Rows -> Nat]
      /\ \A r \in S : local'[r] = wt.got[r]
      /\ \A r \in Rows \ S : local'[r] = local[r]
      /\ \A r \in Rows : local[r] <= local'[r] /\ local'[r] <= butler[r].ver
  BY <1>1, <1>3, <1>4
<1>6. \A r \in Rows : \A v \in Nat : Settled(r, v) => Settled(r, v)'
  BY <1>3, <1>5 DEF Settled
<1>7. \A r \in S : \A v \in Nat : wt.got[r] >= v => Settled(r, v)'
  BY <1>5 DEF Settled
<1>8. ButlerOK'
  BY <1>5 DEF ButlerOK
<1>9. CursorOK' /\ cursor' \in [CursorTypes -> 0..MaxWrites]
  <2>1. CASE cursor' = cursor
    <3> SUFFICES ASSUME NEW w \in CursorTypes, NEW r \in RowsOf(w), butler[r].ver > 0, butler[r].at <= cursor[w]
                 PROVE  Settled(r, butler[r].ver)'
      BY <2>1 DEF CursorOK, Settled, Typed
    <3>1. r \in Rows /\ Settled(r, butler[r].ver)
      BY WorkFacts, RowsOfWorks DEF CursorOK
    <3>2. QED
      BY <1>3, <1>6, <3>1 DEF Settled
  <2>2. CASE S = InHand /\ Work \in CursorTypes /\ cursor' = [cursor EXCEPT ![Work] = wt.cur]
    <3>1. wt.cur \in 0..MaxWrites /\ cursor' \in [CursorTypes -> 0..MaxWrites]
      BY <2>2 DEF Typed, Tickers
    <3> SUFFICES ASSUME NEW w \in CursorTypes, NEW r \in RowsOf(w), butler[r].ver > 0, butler[r].at <= cursor'[w]
                 PROVE  Settled(r, butler[r].ver)'
      BY <3>1 DEF CursorOK, Settled
    <3>2. r \in Rows
      BY WorkFacts, RowsOfWorks
    <3>3. CASE w # Work
      <4>1. Settled(r, butler[r].ver)
        BY <2>2, <3>3 DEF CursorOK, Typed
      <4>2. QED
        BY <1>3, <1>6, <3>2, <4>1 DEF Settled
    <3>4. CASE w = Work
      <4>1. cursor'[w] = wt.cur
        BY <2>2, <3>4 DEF Typed
      <4>2. SettledOrInHand(r, butler[r].ver)
        BY <3>4, <4>1 DEF PassOK
      <4>3. CASE Settled(r, butler[r].ver)
        BY <1>3, <1>6, <3>2, <4>3 DEF Settled
      <4>4. CASE r \in InHand /\ wt.got[r] >= butler[r].ver
        BY <1>3, <1>7, <2>2, <3>2, <4>4 DEF Settled
      <4>5. QED
        BY <4>2, <4>3, <4>4 DEF SettledOrInHand
    <3>5. QED
      BY <3>3, <3>4
  <2>3. QED
    BY <2>1, <2>2 DEF Advance
<1>10. \A x \in owed[TheJob] :
          /\ x[1] \in Rows /\ x[2] \in Nat
          /\ Settled(x[1], x[2])' \/ (x[1] \in InHand \ S /\ wt.got[x[1]] >= x[2])
  <2> TAKE x \in owed[TheJob]
  <2>1. x[1] \in Rows /\ x[2] \in Nat
    BY <1>1 DEF Typed
  <2>2. Settled(x[1], x[2]) \/ (x[1] \in InHand /\ wt.got[x[1]] >= x[2])
    BY DEF PromiseOK, SettledOrInHand
  <2>3. QED
    BY <1>6, <1>7, <2>1, <2>2
<1>11. RunComesWithItsSet'
  <2> SUFFICES ASSUME NEW run \in EvalRuns, local'[run] > 0, NEW s \in Bundle(run) PROVE local'[s] > 0
    BY DEF RunComesWithItsSet
  <2>1. run \in Rows /\ s \in Rows
    BY BundleRows
  <2>2. CASE run \in S
    <3>1. Work = run
      BY <1>1, <2>2, RunRows
    <3>2. S = InHand
      <4>1. InHand \subseteq Bundle(Work)
        BY <1>1, <3>1, WorkFacts
      <4>2. QED
        BY <2>2, <3>1, <4>1, StatementFacts
    <3>3. CASE s \in InHand
      BY <1>4, <1>5, <3>2, <3>3
    <3>4. CASE s \notin InHand
      <4>1. local[s] > 0
        BY <3>1, <3>4 DEF BundleOK
      <4>2. QED
        BY <1>3, <1>5, <2>1, <4>1
    <3>5. QED
      BY <3>3, <3>4
  <2>3. CASE run \notin S
    <3>1. local[s] > 0
      BY <1>5, <2>1, <2>3 DEF RunComesWithItsSet
    <3>2. QED
      BY <1>3, <1>5, <2>1, <3>1
  <2>4. QED
    BY <2>2, <2>3
<1>12. CASE S = InHand
  <2>1. \A x \in owed[TheJob] : Settled(x[1], x[2])'
    BY <1>10, <1>12
  <2>2. wt' \in Tickers /\ HandOK' /\ PassOK' /\ PromiseOK' /\ BundleOK'
    BY <1>2, <1>12, <2>1, ResultStep, ResultFacts
  <2>3. Typed'
    BY <1>5, <1>9, <2>2 DEF Typed
  <2>4. QED
    BY <1>2, <1>8, <1>9, <1>11, <2>2, <2>3
<1>13. CASE S # InHand
  <2> DEFINE got == [r \in InHand \ S |-> wt.got[r]]
  <2>1. wt' = [wt EXCEPT !.got = got]
    BY <1>13
  <2>2. got \in Gots /\ DOMAIN got = InHand \ S /\ \A r \in InHand \ S : got[r] = wt.got[r]
    <3>1. got \in [InHand \ S -> Nat] /\ InHand \ S \in SUBSET Rows
      BY <1>1, <1>4
    <3>2. QED
      BY <3>1, GotType
  <2> HIDE DEF got
  <2>3. /\ wt' \in Tickers /\ wt'.pc = "write" /\ wt'.items = wt.items /\ wt'.job = wt.job
        /\ wt'.cur = wt.cur /\ wt'.got = got
    BY <2>1, <2>2 DEF Typed, Tickers
  <2>4. TheJob' = TheJob /\ Work' = Work /\ InHand' = InHand \ S
    BY <1>2, <2>2, <2>3, SameWork DEF InHand
  <2>5. Typed'
    BY <1>5, <1>9, <2>3 DEF Typed
  <2>6. HandOK'
    <3>1. \A r \in InHand \ S : 0 < got[r] /\ got[r] <= butler[r].ver /\ local'[r] <= got[r]
      BY <1>1, <1>4, <1>5, <2>2
    <3>2. QED
      BY <1>1, <2>3, <2>4, <3>1 DEF HandOK
  <2>7. PassOK'
    <3> SUFFICES ASSUME Work \in CursorTypes, NEW r \in RowsOf(Work), butler[r].ver > 0, butler[r].at <= wt.cur
                 PROVE  Settled(r, butler[r].ver)' \/ (r \in InHand \ S /\ got[r] >= butler[r].ver)
      BY <2>3, <2>4 DEF PassOK, SettledOrInHand, Settled
    <3>1. r \in Rows /\ SettledOrInHand(r, butler[r].ver)
      BY <1>1 DEF PassOK
    <3>2. CASE Settled(r, butler[r].ver)
      BY <1>3, <1>6, <3>1, <3>2 DEF Settled
    <3>3. CASE r \in S /\ wt.got[r] >= butler[r].ver
      BY <1>3, <1>7, <3>1, <3>3 DEF Settled
    <3>4. CASE r \in InHand \ S /\ wt.got[r] >= butler[r].ver
      BY <2>2, <3>4
    <3>5. QED
      BY <3>1, <3>2, <3>3, <3>4 DEF SettledOrInHand
  <2>8. PromiseOK'
    <3> SUFFICES ASSUME NEW x \in owed[TheJob]
                 PROVE  Settled(x[1], x[2])' \/ (x[1] \in InHand \ S /\ got[x[1]] >= x[2])
      BY <2>3, <2>4 DEF PromiseOK, SettledOrInHand, Settled
    <3>1. QED
      BY <1>10, <2>2
  <2>9. BundleOK'
    <3> SUFFICES ASSUME Work \in EvalRuns, NEW s \in Bundle(Work)
                 PROVE  s \in InHand \ S \/ local'[s] > 0
      BY <2>4 DEF BundleOK
    <3>1. s \in Rows /\ (s \in InHand \/ local[s] > 0)
      BY BundleRows DEF BundleOK
    <3>2. QED
      BY <1>3, <1>4, <1>5, <3>1
  <2>10. QED
    BY <1>2, <1>8, <1>9, <1>11, <2>5, <2>6, <2>7, <2>8, <2>9
<1>14. QED
  BY <1>12, <1>13

LEMMA FetchStep ==
    ASSUME IInv, wt.pc = "page", Fetch(Work), UNCHANGED <<offers, butler, jobs, local, cursor, owed, writes, deaths>>
    PROVE  IInv'
<1>1. CASE Succeeds /\ \E P \in Pages(Work, wt.cur) : FetchPage(Work, P)
  BY <1>1, FetchPageStep DEF Succeeds
<1>2. CASE Fails /\ Result(FALSE) /\ UNCHANGED missed
  BY <1>2, FailedStep, FaultFacts DEF IInv
<1>3. QED
  BY <1>1, <1>2 DEF Fetch

LEMMA WriteStep == ASSUME IInv, Write PROVE IInv'
<1>1. CASE Fails /\ Advance(FALSE) /\ Result(FALSE) /\ UNCHANGED local
  <2>1. cursor' = cursor
    BY <1>1 DEF Advance
  <2>2. QED
    BY <1>1, <2>1, FailedStep, FaultFacts DEF IInv, Write
<1>2. ASSUME NEW S \in Statements, Succeeds,
             local' = [r \in Rows |-> IF r \in S THEN wt.got[r] ELSE local[r]],
             Advance(S = InHand),
             IF S = InHand THEN Result(TRUE) ELSE wt' = [wt EXCEPT !.got = [r \in InHand \ S |-> wt.got[r]]]
      PROVE  IInv'
  BY <1>2, StatementStep DEF Succeeds, Write
<1>3. QED
  BY <1>1, <1>2 DEF Write

\* Every step preserves the invariant.
THEOREM NextIInv == IInv /\ [Next]_vars => IInv'
<1> SUFFICES ASSUME IInv, [Next]_vars PROVE IInv'
  OBVIOUS
<1>1. CASE UNCHANGED vars
  <2>1. WorksSame /\ wt' \in Tickers /\ deaths' \in 0..MaxDeaths /\ faults' \in 0..MaxFaults
    BY <1>1 DEF vars, WorksSame, IInv, Typed
  <2>2. QED
    BY <1>1, <2>1, FlagStep DEF vars
<1>2. CASE Sync
  <2>1. CASE KeySyncerFetch \/ ExperimentSyncerFetch
    <3>1. UNCHANGED <<offers, butler, jobs, local, cursor, owed, writes, deaths>> /\ wt.pc = "page" /\ Fetch(Work)
      BY <1>2, <2>1 DEF Sync, KeySyncerFetch, ExperimentSyncerFetch, CloudStorageSyncerFetch, ProviderKeySyncerFetch,
                        FetchReplayRun, FetchEvalRun, Write
    <3>2. QED
      BY <3>1, FetchStep
  <2>2. CASE (CloudStorageSyncerFetch \/ ProviderKeySyncerFetch \/ FetchReplayRun \/ FetchEvalRun)
             /\ UNCHANGED <<offers, butler, jobs, local, cursor, owed, missed, writes, deaths>>
    BY <2>2, SnapshotStep
  <2>3. CASE Write
    BY <2>3, WriteStep
  <2>4. QED
    BY <1>2, <2>1, <2>2, <2>3 DEF Sync
<1>3. CASE TickerStep /\ ~Sync
  BY <1>3, StartStep, SeeStopStep, TickStep, fetchWorkStep, dispatchStep, markResultStep DEF TickerStep
<1>4. CASE Stop \/ Expire \/ Die
  BY <1>4, StopStep, ExpireStep, DieStep
<1>5. ASSUME NEW j \in Jobs, Offer(j) PROVE IInv'
  BY <1>5, OfferStep
<1>6. ASSUME NEW j \in Jobs, NEW r \in Rows, Change(jobs[j].work, r) PROVE IInv'
  BY <1>6, ChangeStep
<1>7. QED
  BY <1>1, <1>2, <1>3, <1>4, <1>5, <1>6 DEF Next, TickerStep

\* The invariant holds in every reachable state.
THEOREM Invariance == Spec => []IInv
  BY InitIInv, NextIInv, PTL DEF Spec

\* Type correctness: no row here is newer than at Butler, the ticker's hand is empty
\* but in a fetch or an upsert, and holds rows of its job's table only.
THEOREM TypeCorrect == Spec => []TypeOK
<1>1. IInv => TypeOK
  BY IInvImplies
<1>2. QED
  BY <1>1, Invariance, PTL

\* An eval run is in the local tables only after its set and all its items, whatever
\* fails between the statements that write them.
THEOREM RunsComeWhole == Spec => []RunComesWithItsSet
<1>1. IInv => RunComesWithItsSet
  BY DEF IInv
<1>2. QED
  BY <1>1, Invariance, PTL

-----------------------------------------------------------------------------
(***************************************************************************)
(* The ticker implements the job queue: an offer, a claim and an answer    *)
(* are the queue's, everything else is work on its jobs.                   *)
(***************************************************************************)
\* Nothing that is settled is ever undone.
LEMMA Grows ==
    ASSUME IInv, Next PROVE \A s \in Rows : local[s] <= local'[s] /\ missed[s] <= missed'[s]
<1> USE DEF IInv
<1>1. \A s \in Rows : local[s] \in Nat /\ missed[s] \in Nat /\ butler[s].ver \in Nat /\ missed[s] <= butler[s].ver
  BY DEF Typed, ButlerOK
<1>2. CASE UNCHANGED <<local, missed>>
  BY <1>1, <1>2
<1>3. ASSUME NEW j \in Jobs, NEW r \in Rows, Change(jobs[j].work, r)
      PROVE  \A s \in Rows : local[s] <= local'[s] /\ missed[s] <= missed'[s]
  <2>1. local' = local /\ missed' \in {missed, [missed EXCEPT ![r] = butler[r].ver + 1]}
    BY <1>3 DEF Change
  <2>2. QED
    BY <1>1, <2>1 DEF Typed
<1>4. CASE KeySyncerFetch \/ ExperimentSyncerFetch
  <2>1. UNCHANGED local
    BY <1>4 DEF Next, TickerStep, Sync, KeySyncerFetch, ExperimentSyncerFetch, CloudStorageSyncerFetch,
                ProviderKeySyncerFetch, FetchReplayRun, FetchEvalRun, Write, Start, SeeStop, Tick, fetchWork,
                dispatch, markResult, Stop, Expire, Die, Offer, Change
  <2>2. \A s \in Rows : missed'[s] \in {missed[s], butler[s].ver}
    BY <1>4 DEF KeySyncerFetch, ExperimentSyncerFetch, Fetch, FetchPage
  <2>3. QED
    BY <1>1, <2>1, <2>2
<1>5. CASE Write
  <2>1. UNCHANGED missed
    BY <1>5 DEF Write
  <2>2. CASE UNCHANGED local
    BY <1>1, <2>1, <2>2
  <2>3. ASSUME NEW S \in Statements, local' = [r \in Rows |-> IF r \in S THEN wt.got[r] ELSE local[r]]
        PROVE  \A s \in Rows : local[s] <= local'[s]
    <3>1. S \subseteq InHand /\ \A r \in InHand : local[r] <= wt.got[r]
      BY <1>5, <2>3, StatementFacts DEF HandOK, Write
    <3>2. QED
      BY <1>1, <2>3, <3>1
  <2>4. CASE \E S \in Statements : local' = [r \in Rows |-> IF r \in S THEN wt.got[r] ELSE local[r]]
    BY <1>1, <2>1, <2>3, <2>4
  <2>5. QED
    BY <1>5, <2>2, <2>4 DEF Write
<1>6. QED
  BY <1>2, <1>3, <1>4, <1>5 DEF Next, TickerStep, Sync, Start, SeeStop, Tick, fetchWork, dispatch, markResult,
                               Stop, Expire, Die, Offer

LEMMA EffectGrows ==
    ASSUME IInv, Next, NEW j \in Jobs, owed'[j] = owed[j], InEffect(j) PROVE InEffect(j)'
<1> SUFFICES ASSUME NEW x \in owed[j]
             PROVE  local'[x[1]] >= x[2] \/ missed'[x[1]] >= x[2]
  BY DEF InEffect
<1>1. x[1] \in Rows /\ x[2] \in Nat
  BY DEF IInv, Typed
<1>2. local[x[1]] >= x[2] \/ missed[x[1]] >= x[2]
  BY DEF InEffect
<1>3. IInv'
  BY NextIInv
<1>4. /\ local[x[1]] \in Nat /\ missed[x[1]] \in Nat /\ local'[x[1]] \in Nat /\ missed'[x[1]] \in Nat
      /\ local[x[1]] <= local'[x[1]] /\ missed[x[1]] <= missed'[x[1]]
  BY <1>1, <1>3, Grows DEF IInv, Typed
<1>5. QED
  BY <1>1, <1>2, <1>4

Statuses == [j \in Jobs |-> jobs[j].status]
Done     == {j \in Jobs : InEffect(j)}

LEMMA OfferIsOffer == ASSUME IInv, NEW j \in Jobs, Offer(j) PROVE Queue!Offer(j)
<1>1. Statuses' = [i \in Jobs |-> IF i \in {j} THEN "pending" ELSE Statuses[i]] /\ Statuses[j] = jobs[j].status
  BY DEF IInv, Typed, Offer, Statuses
<1>2. Done' = Done
  BY DEF Offer, Done, InEffect
<1>3. QED
  BY <1>1, <1>2 DEF Queue!Offer, Queue!Becomes, Offer, Statuses, Done

LEMMA fetchWorkIsClaim == ASSUME IInv, Next, fetchWork PROVE Queue!Next \/ UNCHANGED Queue!vars
<1>1. CASE UNCHANGED <<jobs, owed>>
  <2>1. Statuses' = Statuses /\ Done' = Done
    BY <1>1 DEF fetchWork, Statuses, Done, InEffect
  <2>2. QED
    BY <2>1 DEF Queue!vars, Statuses, Done
<1>2. ASSUME NEW J \in SUBSET Pending,
             jobs' = [j \in Jobs |-> IF j \in J THEN [jobs[j] EXCEPT !.status = "claimed"] ELSE jobs[j]],
             owed' = [j \in Jobs |-> IF j \in J THEN Asked(jobs[j].work) ELSE owed[j]]
      PROVE  Queue!Next
  <2>1. J \in SUBSET Jobs /\ \A j \in J : Statuses[j] = "pending"
    BY <1>2 DEF Pending, Statuses
  <2>2. Statuses' = [j \in Jobs |-> IF j \in J THEN "claimed" ELSE Statuses[j]]
    BY <1>2 DEF IInv, Typed, Statuses
  <2>3. \A j \in Jobs \ J : InEffect(j)' <=> InEffect(j)
    BY <1>2 DEF InEffect, fetchWork
  <2>4. Done' \subseteq Done \cup J /\ Done \ J \subseteq Done'
    BY <2>3 DEF Done
  <2>5. Queue!Claim(J)
    BY <2>1, <2>2, <2>4 DEF Queue!Claim, Queue!Becomes, Statuses, Done
  <2>6. QED
    BY <2>1, <2>5 DEF Queue!Next
<1>3. QED
  BY <1>1, <1>2 DEF fetchWork

LEMMA markResultIsAnswer == ASSUME IInv, Next, markResult PROVE Queue!Next \/ UNCHANGED Queue!vars
<1>1. PICK t \in Jobs : t = TheJob
  BY InHandFacts DEF IInv, markResult
<1>2. Done' = Done
  BY DEF markResult, Done, InEffect
<1>3. CASE UNCHANGED jobs
  <2>1. Statuses' = Statuses
    BY <1>3 DEF Statuses
  <2>2. QED
    BY <1>2, <2>1 DEF Queue!vars, Statuses, Done
<1>4. CASE jobs' = [jobs EXCEPT ![TheJob].status =
                       IF @ \in {"pending", "claimed"} THEN (IF wt.ok THEN "acked" ELSE "failed") ELSE @]
  <2>1. CASE jobs[t].status \notin {"pending", "claimed"}
    <3>1. Statuses' = Statuses
      BY <1>1, <1>4, <2>1 DEF Statuses, IInv, Typed
    <3>2. QED
      BY <1>2, <3>1 DEF Queue!vars, Statuses, Done
  <2>2. CASE jobs[t].status \in {"pending", "claimed"} /\ wt.ok
    <3>1. Statuses' = [i \in Jobs |-> IF i \in {t} THEN "acked" ELSE Statuses[i]] /\ Statuses[t] \in {"pending", "claimed"}
      BY <1>1, <1>4, <2>2 DEF Statuses, IInv, Typed
    <3>2. t \in Done
      BY <1>1, <2>2 DEF IInv, PromiseOK, Done, markResult
    <3>3. Queue!Ack(t)
      BY <1>2, <3>1, <3>2 DEF Queue!Ack, Queue!Becomes, Statuses, Done
    <3>4. QED
      BY <1>1, <3>3 DEF Queue!Next
  <2>3. CASE jobs[t].status \in {"pending", "claimed"} /\ ~wt.ok
    <3>1. Statuses' = [i \in Jobs |-> IF i \in {t} THEN "failed" ELSE Statuses[i]] /\ Statuses[t] \in {"pending", "claimed"}
      BY <1>1, <1>4, <2>3 DEF Statuses, IInv, Typed
    <3>2. Queue!Fail(t)
      BY <1>2, <3>1 DEF Queue!Fail, Queue!Becomes, Statuses, Done
    <3>3. QED
      BY <1>1, <3>2 DEF Queue!Next
  <2>4. QED
    BY <2>1, <2>2, <2>3
<1>5. QED
  BY <1>3, <1>4 DEF markResult

LEMMA OtherwiseWork == ASSUME IInv, Next, UNCHANGED <<jobs, owed>> PROVE Queue!Next
<1>1. Statuses' = Statuses
  BY DEF Statuses
<1>2. Done \subseteq Done' /\ Done' \subseteq Jobs
  BY EffectGrows DEF Done
<1>3. Queue!Work
  BY <1>1, <1>2 DEF Queue!Work, Statuses, Done
<1>4. QED
  BY <1>3 DEF Queue!Next

\* The work ticker implements the job queue: a job is acked only when every version
\* its claim asked for is in effect, through pages, partial upserts, lost replies, a
\* deadline in mid-tick, deaths and restarts, and what is in effect is not undone.
THEOREM TickerIsAJobQueue == Spec => ImplementsJobQueue
<1>1. Init => Queue!Init
  <2> SUFFICES ASSUME Init PROVE Queue!Init
    OBVIOUS
  <2>1. Statuses = [j \in Jobs |-> "idle"]
    BY DEF Init, Statuses
  <2>2. Done = Jobs
    BY DEF Init, Done, InEffect
  <2>3. QED
    BY <2>1, <2>2 DEF Queue!Init, Statuses, Done
<1>2. IInv /\ [Next]_vars => [Queue!Next]_Queue!vars
  <2> SUFFICES ASSUME IInv, [Next]_vars PROVE Queue!Next \/ UNCHANGED Queue!vars
    OBVIOUS
  <2>1. CASE UNCHANGED vars
    <3>1. Statuses' = Statuses /\ Done' = Done
      BY <2>1 DEF vars, Statuses, Done, InEffect
    <3>2. QED
      BY <3>1 DEF Queue!vars, Statuses, Done
  <2>2. ASSUME NEW j \in Jobs, Offer(j) PROVE Queue!Next
    BY <2>2, OfferIsOffer DEF Queue!Next
  <2>3. CASE Next /\ fetchWork
    BY <2>3, fetchWorkIsClaim
  <2>4. CASE Next /\ markResult
    BY <2>4, markResultIsAnswer
  <2>5. CASE Next /\ UNCHANGED <<jobs, owed>>
    BY <2>5, OtherwiseWork
  <2>6. QED
    BY <2>1, <2>2, <2>3, <2>4, <2>5
    DEF Next, TickerStep, Sync, Write, Start, SeeStop, Tick, dispatch, Stop, Expire, Die, Change
<1>3. QED
  BY <1>1, <1>2, Invariance, PTL DEF Spec, ImplementsJobQueue, Queue!Spec

\* A row here is never replaced by an older version of it.
THEOREM NeverOlder == Spec => [][\A r \in Rows : local'[r] >= local[r]]_vars
<1>1. IInv /\ [Next]_vars => (\A r \in Rows : local'[r] >= local[r]) \/ UNCHANGED vars
  <2> SUFFICES ASSUME IInv, Next, NEW r \in Rows PROVE local'[r] >= local[r]
    OBVIOUS
  <2>1. IInv'
    BY NextIInv
  <2>2. local[r] \in Nat /\ local'[r] \in Nat /\ local[r] <= local'[r]
    BY <2>1, Grows DEF IInv, Typed
  <2>3. QED
    BY <2>2
<1>2. QED
  BY <1>1, Invariance, PTL DEF Spec
=============================================================================
