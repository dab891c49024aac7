------------------------- MODULE ResultsReporterProofs -------------------------
(***************************************************************************)
(* Proofs about the results reporters, for any orgs, tables, page sizes    *)
(* and bounds on versions, faults and deaths.                              *)
(***************************************************************************)
EXTENDS ResultsReporter, TLAPS

\* The versions read by a fetch: a function on some rows.
Snapshots == UNION {[T -> Nat] : T \in SUBSET Rows}

Pcs == {"off", "wait", "fetch", "scores", "post", "mark", "markScores", "done"}
Reporters == [pc : Pcs, cat : 1..4, batch : Snapshots, scores : Snapshots, stop : BOOLEAN, final : BOOLEAN]

\* The parts of the inductive invariant, about the tables and about a reporter h.
DataOK ==
    /\ version \in [Rows -> Nat]
    /\ unsynced \subseteq {x \in Rows : version[x] # Absent}
    /\ seen \in [Rows -> SUBSET Nat]
    /\ raced \subseteq Rows
    /\ faults \in 0..MaxFaults
    /\ deaths \in 0..MaxDeaths

Typed(h) ==
    /\ h \in Reporters
    /\ DOMAIN h.batch \subseteq Table[h.cat]
    /\ DOMAIN h.scores \subseteq {s \in Scores : Parent(s) \in DOMAIN h.batch}
    /\ DOMAIN h.batch # {} <=> h.pc \in {"scores", "post", "mark", "markScores"}
    /\ h.pc = "scores" => Table[h.cat] = EvalResults

\* Of every row in hand the reporter has the last version, unless the row was raced.
Current(f) == \A x \in DOMAIN f : f[x] = version[x] \/ x \in raced
Fresh(h)   == Current(h.batch) /\ Current(h.scores)

\* What is about to be marked is at Butler in the version that was read.
AtButler(f) == \A x \in DOMAIN f : f[x] \in seen[x]
Acked(h) ==
    /\ h.pc = "mark" => AtButler(h.batch)
    /\ h.pc \in {"mark", "markScores"} => AtButler(h.scores)

Held(h) == Typed(h) /\ Fresh(h) /\ Acked(h)

IInv ==
    /\ DataOK
    /\ rr = [o \in Orgs |-> rr[o]]
    /\ \A o \in Orgs : Held(rr[o])
    /\ LostOnlyByRace
-----------------------------------------------------------------------------
LEMMA TableRows == Table \in [1..4 -> SUBSET Rows] /\ Scores \subseteq Rows
BY DEF Table, Rows, Runs, Results

\* What a reporter has in hand are rows.
LEMMA HandsHoldRows ==
    ASSUME NEW h, Typed(h) PROVE DOMAIN h.batch \subseteq Rows /\ DOMAIN h.scores \subseteq Rows
<1>1. h.cat \in 1..4
  BY DEF Typed, Reporters
<1> QED
  BY <1>1, TableRows DEF Typed

LEMMA NoneIsEmpty == None \in Snapshots /\ DOMAIN None = {}
<1>1. None \in [{} -> Nat]
  BY DEF None
<1>2. {} \in SUBSET Rows
  OBVIOUS
<1> QED
  BY <1>1, <1>2, Zenon DEF Snapshots, None

\* A reporter with nothing in hand.
LEMMA EmptyHanded ==
    ASSUME NEW o \in Orgs, NEW h \in Reporters, rr'[o] = h, h.batch = None, h.scores = None,
           h.pc \in {"off", "wait", "fetch", "done"}
    PROVE  Held(rr[o])'
<1>1. Typed(h)
  BY NoneIsEmpty DEF Typed
<1> QED
  BY <1>1, NoneIsEmpty DEF Held, Typed, Fresh, Acked, Current, AtButler

\* A step of the reporter of o, which may tell Butler something and mark rows.
LEMMA Moves ==
    ASSUME IInv, NEW o \in Orgs, NEW h, Set(o, h), Held(rr[o])',
           seen' \in [Rows -> SUBSET Nat], \A x \in Rows : seen[x] \subseteq seen'[x],
           unsynced' \subseteq unsynced,
           \A x \in unsynced \ unsynced' : version[x] \in seen[x] \/ x \in raced,
           faults' \in 0..MaxFaults
    PROVE  IInv'
<1> USE DEF IInv
<1>1. rr' = [rr EXCEPT ![o] = h] /\ UNCHANGED <<version, raced, deaths>>
  BY DEF Set
<1>2. \A p \in Orgs \ {o} : rr'[p] = rr[p]
  BY <1>1
<1>3. rr' = [p \in Orgs |-> rr'[p]]
  BY <1>1
<1>4. DataOK'
  BY <1>1 DEF DataOK
<1>5. ASSUME NEW p \in Orgs \ {o} PROVE Held(rr[p])'
  <2>1. rr'[p] = rr[p] /\ Held(rr[p])
    BY <1>2
  <2>2. Typed(rr[p])'
    BY <2>1 DEF Held, Typed
  <2>3. DOMAIN rr[p].batch \subseteq Rows /\ DOMAIN rr[p].scores \subseteq Rows
    BY <2>1, HandsHoldRows DEF Held
  <2>4. Fresh(rr[p])' /\ Acked(rr[p])'
    BY <1>1, <2>1, <2>3 DEF Held, Fresh, Current, Acked, AtButler
  <2> QED
    BY <2>2, <2>4 DEF Held
<1>6. LostOnlyByRace'
  BY <1>1 DEF LostOnlyByRace, DataOK
<1>7. \A p \in Orgs : Held(rr[p])'
  BY <1>5
<1> QED
  BY <1>3, <1>4, <1>6, <1>7

\* The same, when Butler is told nothing and nothing is marked.
LEMMA OnlyMoves ==
    ASSUME IInv, NEW o \in Orgs, NEW h, Set(o, h), Held(rr[o])', UNCHANGED <<unsynced, seen>>,
           faults' \in 0..MaxFaults
    PROVE  IInv'
<1>1. seen' \in [Rows -> SUBSET Nat] /\ (\A x \in Rows : seen[x] \subseteq seen'[x]) /\ unsynced' = unsynced
  BY DEF IInv, DataOK
<1> QED
  BY <1>1, Moves

LEMMA FaultsType == ASSUME DataOK, Fault \/ UNCHANGED faults PROVE faults' \in 0..MaxFaults
BY ResultsReporterAssumption DEF Fault, DataOK

\* After Set the reporter is what it was set to.
LEMMA SetSets == ASSUME IInv, NEW o \in Orgs, NEW h, Set(o, h) PROVE rr'[o] = h
BY DEF IInv, Set

\* Going on to the next table, a reporter has nothing in hand.
LEMMA NextTableHeld ==
    ASSUME IInv, NEW o \in Orgs, Set(o, NextTable(o)) PROVE Held(rr[o])'
<1> DEFINE h == rr[o]
           c == IF h.cat < 4 THEN h.cat + 1 ELSE 1
           n == [h EXCEPT !.pc = After(o), !.cat = c, !.batch = None, !.scores = None]
<1>1. h \in Reporters
  BY DEF IInv, Held, Typed
<1>2. After(o) \in {"off", "wait", "fetch", "done"} /\ c \in 1..4
  BY <1>1 DEF After, Reporters
<1>3. After(o) \in Pcs
  BY <1>2 DEF Pcs
<1>4. NextTable(o) = n
  BY Zenon DEF NextTable
<1>5. n \in Reporters /\ n.pc = After(o) /\ n.batch = None /\ n.scores = None
  <2> HIDE DEF h, c
  <2> QED
    BY <1>1, <1>2, <1>3, NoneIsEmpty DEF Reporters
<1>6. rr'[o] = n
  BY <1>4, SetSets
<1> HIDE DEF n
<1> QED
  BY <1>2, <1>5, <1>6, EmptyHanded
-----------------------------------------------------------------------------
\* A write leaves its row unsynced, and races it if it is in someone's hands.
LEMMA WriteKeeps ==
    ASSUME IInv, NEW x \in Rows, NEW v \in Nat \ {Absent}, Write(x, v) PROVE IInv'
<1> USE DEF IInv
<1>1. /\ version' = [version EXCEPT ![x] = v] /\ unsynced' = unsynced \cup {x}
      /\ raced' = IF InBatch(x) /\ v # version[x] THEN raced \cup {x} ELSE raced
      /\ UNCHANGED <<seen, rr, faults, deaths>>
  BY DEF Write
<1>2. DataOK'
  BY <1>1 DEF DataOK, Absent
<1>3. ASSUME NEW o \in Orgs PROVE Held(rr[o])'
  <2>1. Typed(rr[o])'
    BY <1>1 DEF Held, Typed
  <2>2. Acked(rr[o])'
    BY <1>1 DEF Held, Acked, AtButler
  <2>3. DOMAIN rr[o].batch \subseteq Rows /\ DOMAIN rr[o].scores \subseteq Rows
    BY HandsHoldRows DEF Held
  <2>4. x \in DOMAIN rr[o].batch \cup DOMAIN rr[o].scores => version'[x] = version[x] \/ x \in raced'
    BY <1>1 DEF DataOK, InBatch
  <2>5. \A y \in Rows \ {x} : version'[y] = version[y]
    BY <1>1 DEF DataOK
  <2>6. raced \subseteq raced'
    BY <1>1
  <2>7. Fresh(rr[o])'
    BY <1>1, <2>3, <2>4, <2>5, <2>6 DEF Held, Fresh, Current
  <2> QED
    BY <2>1, <2>2, <2>7 DEF Held
<1>4. LostOnlyByRace'
  BY <1>1 DEF LostOnlyByRace, DataOK
<1> QED
  BY <1>1, <1>2, <1>3, <1>4

\* Butler's jobs and the worker only write.
LEMMA WorkerKeeps ==
    ASSUME IInv, Worker \/ \E r \in Runs : UpsertRun(r) PROVE IInv'
<1> USE DEF Absent, Pending, Running, Summed, Ended
<1>1. \A x \in Rows : version[x] \in Nat
  BY DEF IInv, DataOK
<1>2. Runs \subseteq Rows /\ Results \subseteq Rows /\ Scores \subseteq Rows
  BY DEF Rows
<1>3. ASSUME NEW r \in Runs, UpsertRun(r) PROVE IInv'
  <2> DEFINE v == IF version[r] = Absent THEN Pending ELSE version[r]
  <2>1. v \in Nat \ {Absent} /\ Write(r, v)
    BY <1>1, <1>2, <1>3 DEF UpsertRun
  <2> QED
    BY <1>2, <2>1, WriteKeeps
<1>4. ASSUME NEW r \in Runs, ClaimPendingRun(r) \/ UpdateRunSummary(r) \/ EndRun(r) PROVE IInv'
  BY <1>2, <1>4, WriteKeeps DEF ClaimPendingRun, UpdateRunSummary, EndRun
<1>5. ASSUME NEW x \in Results, InsertResult(x) PROVE IInv'
  BY <1>2, <1>5, WriteKeeps DEF InsertResult
<1>6. ASSUME NEW s \in Scores, InsertEvalResultScore(s) PROVE IInv'
  <2>1. version[s] + 1 \in Nat \ {Absent}
    BY <1>1, <1>2
  <2> QED
    BY <1>2, <1>6, <2>1, WriteKeeps DEF InsertEvalResultScore
<1> QED
  BY <1>3, <1>4, <1>5, <1>6 DEF Worker
-----------------------------------------------------------------------------
\* A reporter takes in hand, or keeps, what is as last written or raced.
LEMMA TakesInHand ==
    ASSUME IInv, NEW o \in Orgs, NEW h, Set(o, h), Typed(h), Fresh(h),
           h.pc = "mark" => \A x \in DOMAIN h.batch : h.batch[x] \in seen'[x],
           h.pc \in {"mark", "markScores"} => \A x \in DOMAIN h.scores : h.scores[x] \in seen'[x]
    PROVE  Held(rr[o])'
<1>1. rr'[o] = h /\ UNCHANGED <<version, raced>>
  BY SetSets DEF Set
<1>2. Typed(rr[o])'
  BY <1>1 DEF Typed
<1>3. Fresh(rr[o])'
  BY <1>1 DEF Fresh, Current
<1>4. Acked(rr[o])'
  BY <1>1 DEF Acked, AtButler
<1> QED
  BY <1>2, <1>3, <1>4 DEF Held

\* A reporter starts, begins a flush or ends: it has nothing in hand.
LEMMA LifeKeeps ==
    ASSUME IInv, NEW o \in Orgs, Start(o) \/ FlushAll(o) \/ Stopped(o) PROVE IInv'
<1>1. rr[o] \in Reporters /\ Typed(rr[o]) /\ Held(rr[o])
  BY DEF IInv, Held, Typed
<1>2. UNCHANGED <<unsynced, seen, faults>> /\ faults' \in 0..MaxFaults
  BY DEF Start, FlushAll, Stopped, IInv, DataOK
<1>3. Off \in Reporters /\ Off.pc = "off" /\ Off.batch = None /\ Off.scores = None
  BY NoneIsEmpty DEF Off, Reporters, Pcs
<1>4. ASSUME Start(o) PROVE IInv'
  <2> DEFINE n == [Off EXCEPT !.pc = "wait"]
  <2>1. Set(o, n)
    BY <1>4 DEF Start
  <2>2. n \in Reporters /\ n.pc = "wait" /\ n.batch = None /\ n.scores = None
    BY <1>3 DEF Reporters, Pcs
  <2> HIDE DEF n
  <2>3. Held(rr[o])'
    BY <2>1, <2>2, SetSets, EmptyHanded
  <2> QED
    BY <1>2, <2>1, <2>3, OnlyMoves
<1>5. ASSUME Stopped(o) PROVE IInv'
  <2>1. Set(o, Off)
    BY <1>5 DEF Stopped
  <2>2. Held(rr[o])'
    BY <1>3, <2>1, SetSets, EmptyHanded
  <2> QED
    BY <1>2, <2>1, <2>2, OnlyMoves
<1>6. ASSUME FlushAll(o) PROVE IInv'
  <2>1. PICK last \in {FALSE, rr[o].stop} :
            Set(o, [rr[o] EXCEPT !.pc = "fetch", !.cat = 1, !.final = last]) /\ rr[o].pc = "wait"
    BY <1>6 DEF FlushAll
  <2> DEFINE n == [rr[o] EXCEPT !.pc = "fetch", !.cat = 1, !.final = last]
  <2>2. last \in BOOLEAN
    BY <1>1 DEF Reporters
  <2>3. n \in Reporters /\ n.pc = "fetch" /\ n.batch = rr[o].batch /\ n.scores = rr[o].scores
    <3>1. rr[o] \in Reporters /\ "fetch" \in Pcs /\ 1 \in 1..4
      BY <1>1 DEF Pcs
    <3> QED
      BY <2>2, <3>1 DEF Reporters
  <2>4. DOMAIN n.batch = {} /\ DOMAIN n.scores = {}
    BY <1>1, <2>1, <2>3 DEF Typed
  <2>5. Set(o, n)
    BY <2>1
  <2> HIDE DEF n
  <2>6. Held(rr[o])'
    <3>1. Typed(n)
      BY <2>3, <2>4 DEF Typed
    <3>2. Fresh(n)
      BY <2>4 DEF Fresh, Current
    <3> QED
      BY <2>3, <2>5, <3>1, <3>2, TakesInHand
  <2> QED
    BY <1>2, <2>5, <2>6, OnlyMoves
<1> QED
  BY <1>4, <1>5, <1>6

\* Stop changes nothing that a reporter has in hand.
LEMMA StopKeeps == ASSUME IInv, NEW o \in Orgs, Stop(o) PROVE IInv'
<1> DEFINE n == [rr[o] EXCEPT !.stop = TRUE]
<1>1. Held(rr[o]) /\ rr[o] \in Reporters
  BY DEF IInv, Held, Typed
<1>2. Set(o, n) /\ UNCHANGED <<unsynced, seen, faults>> /\ faults' \in 0..MaxFaults
  BY DEF Stop, IInv, DataOK
<1>3. n \in Reporters /\ n.pc = rr[o].pc /\ n.cat = rr[o].cat
      /\ n.batch = rr[o].batch /\ n.scores = rr[o].scores
  BY <1>1 DEF Reporters
<1> HIDE DEF n
<1>4. Typed(n)
  BY <1>1, <1>3 DEF Held, Typed
<1>5. Fresh(n)
  BY <1>1, <1>3 DEF Held, Fresh
<1>6. Held(rr[o])'
  BY <1>1, <1>2, <1>3, <1>4, <1>5, TakesInHand DEF Held, Acked, AtButler
<1> QED
  BY <1>2, <1>6, OnlyMoves
-----------------------------------------------------------------------------
\* What is read is what is there.
LEMMA ReadIsCurrent ==
    ASSUME IInv, NEW T \in SUBSET Rows
    PROVE  Read(T) \in Snapshots /\ DOMAIN Read(T) = T /\ Current(Read(T))
<1>1. Read(T) \in [T -> Nat]
  BY DEF Read, IInv, DataOK
<1>2. DOMAIN Read(T) = T /\ Current(Read(T))
  BY DEF Read, Current
<1> QED
  BY <1>1, <1>2 DEF Snapshots

\* A reporter goes on to the next table.
LEMMA GoesOn ==
    ASSUME IInv, NEW o \in Orgs, Set(o, NextTable(o)), UNCHANGED <<unsynced, seen>>,
           Fault \/ UNCHANGED faults
    PROVE  IInv'
<1>1. faults' \in 0..MaxFaults
  BY FaultsType DEF IInv
<1> QED
  BY <1>1, NextTableHeld, OnlyMoves

LEMMA FetchKeeps == ASSUME IInv, NEW o \in Orgs, FetchUnsynced(o) PROVE IInv'
<1> DEFINE rows == Table[rr[o].cat]
<1>1. Typed(rr[o]) /\ rr[o] \in Reporters /\ rr[o].pc = "fetch" /\ UNCHANGED <<unsynced, seen>>
  BY DEF FetchUnsynced, IInv, Held, Typed
<1>2. rows \subseteq Rows
  BY <1>1, TableRows DEF Reporters
<1>3. ASSUME NEW T \in Selected(rows, BatchSize), T # {}, UNCHANGED faults,
             Set(o, [rr[o] EXCEPT !.pc = IF rows = EvalResults THEN "scores" ELSE "post",
                                  !.batch = Read(T)])
      PROVE  IInv'
  <2> DEFINE pc == IF rows = EvalResults THEN "scores" ELSE "post"
             n  == [rr[o] EXCEPT !.pc = pc, !.batch = Read(T)]
  <2>1. T \subseteq rows /\ T \subseteq Rows
    BY <1>2 DEF Selected
  <2>2. Read(T) \in Snapshots /\ DOMAIN Read(T) = T /\ Current(Read(T))
    BY <2>1, ReadIsCurrent
  <2>3. pc \in Pcs /\ pc \in {"scores", "post"} /\ (pc = "scores" => rows = EvalResults)
    BY DEF Pcs
  <2>4. Set(o, n)
    BY <1>3
  <2>5. n \in Reporters /\ n.pc = pc /\ n.cat = rr[o].cat /\ n.batch = Read(T) /\ n.scores = rr[o].scores
    <3> HIDE DEF pc
    <3> QED
      BY <1>1, <2>2, <2>3 DEF Reporters
  <2>6. DOMAIN rr[o].batch = {} /\ DOMAIN rr[o].scores = {}
    BY <1>1 DEF Typed
  <2> HIDE DEF n, pc
  <2>7. Typed(n)
    BY <1>3, <2>1, <2>2, <2>3, <2>5, <2>6 DEF Typed
  <2>8. Fresh(n)
    BY <2>2, <2>5, <2>6 DEF Fresh, Current
  <2>9. Held(rr[o])'
    BY <2>3, <2>4, <2>5, <2>7, <2>8, TakesInHand
  <2>10. faults' \in 0..MaxFaults
    BY <1>3 DEF IInv, DataOK
  <2> QED
    BY <1>1, <2>4, <2>9, <2>10, OnlyMoves
<1>4. CASE Set(o, NextTable(o)) /\ (Fault \/ UNCHANGED faults)
  BY <1>1, <1>4, GoesOn
<1> QED
  BY <1>3, <1>4 DEF FetchUnsynced

LEMMA FetchScoresKeeps == ASSUME IInv, NEW o \in Orgs, FetchUnsyncedScores(o) PROVE IInv'
<1>1. Typed(rr[o]) /\ rr[o] \in Reporters /\ rr[o].pc = "scores" /\ Current(rr[o].batch)
      /\ UNCHANGED <<unsynced, seen>>
  BY DEF FetchUnsyncedScores, IInv, Held, Typed, Fresh
<1>2. ASSUME NEW T \in Selected(Scores, ScoreBatchSize), UNCHANGED faults,
             Set(o, [rr[o] EXCEPT !.pc = "post",
                                  !.scores = Read({s \in T : Parent(s) \in DOMAIN rr[o].batch})])
      PROVE  IInv'
  <2> DEFINE S == {s \in T : Parent(s) \in DOMAIN rr[o].batch}
             n == [rr[o] EXCEPT !.pc = "post", !.scores = Read(S)]
  <2>1. T \subseteq Scores /\ S \subseteq Rows /\ S \subseteq {s \in Scores : Parent(s) \in DOMAIN rr[o].batch}
    BY TableRows DEF Selected
  <2>2. Read(S) \in Snapshots /\ DOMAIN Read(S) = S /\ Current(Read(S))
    BY <2>1, ReadIsCurrent
  <2>3. Set(o, n) /\ "post" \in Pcs
    BY <1>2 DEF Pcs
  <2>4. n \in Reporters /\ n.pc = "post" /\ n.cat = rr[o].cat /\ n.batch = rr[o].batch /\ n.scores = Read(S)
    <3> HIDE DEF S
    <3> QED
      BY <1>1, <2>2, <2>3 DEF Reporters
  <2> HIDE DEF n, S
  <2>5. Typed(n)
    BY <1>1, <2>1, <2>2, <2>4 DEF Typed
  <2>6. Fresh(n)
    BY <1>1, <2>2, <2>4 DEF Fresh
  <2>7. Held(rr[o])'
    BY <2>3, <2>4, <2>5, <2>6, TakesInHand
  <2>8. faults' \in 0..MaxFaults
    BY <1>2 DEF IInv, DataOK
  <2> QED
    BY <1>1, <2>3, <2>7, <2>8, OnlyMoves
<1>3. CASE Set(o, ScoresFailed(o)) /\ Fault
  BY <1>1, <1>3, GoesOn DEF ScoresFailed
<1> QED
  BY <1>2, <1>3 DEF FetchUnsyncedScores

\* Butler gets to see the versions in hand, and forgets none.
LEMMA IngestShows ==
    ASSUME IInv, NEW o \in Orgs, Ingest(o)
    PROVE  /\ seen' \in [Rows -> SUBSET Nat] /\ \A x \in Rows : seen[x] \subseteq seen'[x]
           /\ \A x \in DOMAIN rr[o].batch : rr[o].batch[x] \in seen'[x]
           /\ \A x \in DOMAIN rr[o].scores : rr[o].scores[x] \in seen'[x]
<1> DEFINE b == rr[o].batch
           s == rr[o].scores
           what(x) == IF x \in DOMAIN b THEN b[x] ELSE s[x]
<1>1. Typed(rr[o]) /\ b \in Snapshots /\ s \in Snapshots
  BY DEF IInv, Held, Typed, Reporters
<1>2. b \in [DOMAIN b -> Nat] /\ s \in [DOMAIN s -> Nat]
  BY <1>1 DEF Snapshots
<1>3. DOMAIN b \subseteq Rows /\ DOMAIN s \subseteq Rows
  BY <1>1, HandsHoldRows
<1>4. DOMAIN b \cap DOMAIN s = {}
  <2>1. \A i \in 1..4 : Table[i] \subseteq Runs \cup Results
    BY DEF Table, Runs, Results
  <2>2. rr[o].cat \in 1..4
    BY DEF IInv, Held, Typed, Reporters
  <2>3. DOMAIN b \subseteq Runs \cup Results
    BY <1>1, <2>1, <2>2 DEF Typed
  <2> QED
    BY <1>1, <2>3, ResultsReporterAssumption DEF Typed
<1>5. seen' = [x \in Rows |-> IF x \in DOMAIN b \cup DOMAIN s THEN seen[x] \cup {what(x)} ELSE seen[x]]
  BY DEF Ingest
<1>6. \A x \in DOMAIN b \cup DOMAIN s : what(x) \in Nat
  BY <1>2
<1>7. seen \in [Rows -> SUBSET Nat]
  BY DEF IInv, DataOK
<1> HIDE DEF b, s
<1>8. seen' \in [Rows -> SUBSET Nat] /\ \A x \in Rows : seen[x] \subseteq seen'[x]
  <2> HIDE DEF what
  <2> QED
    BY <1>5, <1>6, <1>7
<1>9. ASSUME NEW x \in DOMAIN b PROVE b[x] \in seen'[x]
  <2>1. what(x) = b[x]
    BY <1>9
  <2> HIDE DEF what
  <2> QED
    BY <1>3, <1>5, <1>9, <2>1
<1>10. ASSUME NEW x \in DOMAIN s PROVE s[x] \in seen'[x]
  <2>1. what(x) = s[x]
    BY <1>4, <1>10
  <2> HIDE DEF what
  <2> QED
    BY <1>3, <1>5, <1>10, <2>1
<1> QED
  BY <1>8, <1>9, <1>10 DEF b, s

LEMMA PostKeeps == ASSUME IInv, NEW o \in Orgs, Post(o) PROVE IInv'
<1>1. Typed(rr[o]) /\ rr[o] \in Reporters /\ Fresh(rr[o]) /\ rr[o].pc = "post" /\ UNCHANGED unsynced
  BY DEF Post, IInv, Held, Typed
<1>2. CASE Ingest(o) /\ Set(o, [rr[o] EXCEPT !.pc = "mark"]) /\ UNCHANGED faults
  <2> DEFINE n == [rr[o] EXCEPT !.pc = "mark"]
  <2>1. Set(o, n) /\ "mark" \in Pcs
    BY <1>2 DEF Pcs
  <2>2. n \in Reporters /\ n.pc = "mark" /\ n.cat = rr[o].cat /\ n.batch = rr[o].batch /\ n.scores = rr[o].scores
    BY <1>1, <2>1 DEF Reporters
  <2> HIDE DEF n
  <2>3. Typed(n) /\ Fresh(n)
    BY <1>1, <2>2 DEF Typed, Fresh
  <2>4. Held(rr[o])'
    BY <1>2, <2>1, <2>2, <2>3, IngestShows, TakesInHand
  <2>5. faults' \in 0..MaxFaults
    BY <1>2 DEF IInv, DataOK
  <2> QED
    BY <1>1, <1>2, <2>1, <2>4, <2>5, IngestShows, Moves
<1>3. CASE Ingest(o) /\ Set(o, NextTable(o)) /\ Fault
  <2>1. faults' \in 0..MaxFaults
    BY <1>3, FaultsType DEF IInv
  <2> QED
    BY <1>1, <1>3, <2>1, NextTableHeld, IngestShows, Moves
<1>4. CASE Set(o, NextTable(o)) /\ Fault /\ UNCHANGED seen
  BY <1>1, <1>4, GoesOn
<1> QED
  BY <1>2, <1>3, <1>4 DEF Post
-----------------------------------------------------------------------------
\* A mark takes rows off the list that are at Butler, or raced.
LEMMA MarkKeeps == ASSUME IInv, NEW o \in Orgs, MarkSynced(o) PROVE IInv'
<1>1. Typed(rr[o]) /\ rr[o] \in Reporters /\ Fresh(rr[o]) /\ rr[o].pc = "mark"
      /\ AtButler(rr[o].batch) /\ AtButler(rr[o].scores) /\ UNCHANGED seen
  BY DEF MarkSynced, IInv, Held, Typed, Acked
<1>2. faults' \in 0..MaxFaults /\ seen' \in [Rows -> SUBSET Nat]
  BY FaultsType DEF MarkSynced, IInv, DataOK
<1>3. unsynced' \subseteq unsynced /\ \A x \in unsynced \ unsynced' : version[x] \in seen[x] \/ x \in raced
  <2>1. unsynced' \in {unsynced, unsynced \ DOMAIN rr[o].batch}
    BY DEF MarkSynced
  <2>2. \A x \in DOMAIN rr[o].batch : version[x] \in seen[x] \/ x \in raced
    BY <1>1 DEF Fresh, Current, AtButler
  <2> QED
    BY <2>1, <2>2
<1>4. CASE Set(o, NextTable(o))
  BY <1>1, <1>2, <1>3, <1>4, NextTableHeld, Moves
<1>5. CASE Set(o, [rr[o] EXCEPT !.pc = "markScores"])
  <2> DEFINE n == [rr[o] EXCEPT !.pc = "markScores"]
  <2>1. Set(o, n) /\ "markScores" \in Pcs
    BY <1>5 DEF Pcs
  <2>2. n \in Reporters /\ n.pc = "markScores" /\ n.cat = rr[o].cat /\ n.batch = rr[o].batch /\ n.scores = rr[o].scores
    BY <1>1, <2>1 DEF Reporters
  <2> HIDE DEF n
  <2>3. Typed(n) /\ Fresh(n)
    BY <1>1, <2>2 DEF Typed, Fresh
  <2>4. Held(rr[o])'
    BY <1>1, <2>1, <2>2, <2>3, TakesInHand DEF AtButler
  <2> QED
    BY <1>1, <1>2, <1>3, <2>1, <2>4, Moves
<1> QED
  BY <1>4, <1>5 DEF MarkSynced

LEMMA MarkScoresKeeps == ASSUME IInv, NEW o \in Orgs, MarkScoresSynced(o) PROVE IInv'
<1>1. Fresh(rr[o]) /\ AtButler(rr[o].scores) /\ Set(o, NextTable(o)) /\ UNCHANGED seen
  BY DEF MarkScoresSynced, IInv, Held, Acked
<1>2. faults' \in 0..MaxFaults /\ seen' \in [Rows -> SUBSET Nat]
  BY FaultsType DEF MarkScoresSynced, IInv, DataOK
<1>3. unsynced' \subseteq unsynced /\ \A x \in unsynced \ unsynced' : version[x] \in seen[x] \/ x \in raced
  <2>1. unsynced' \in {unsynced, unsynced \ DOMAIN rr[o].scores}
    BY DEF MarkScoresSynced
  <2>2. \A x \in DOMAIN rr[o].scores : version[x] \in seen[x] \/ x \in raced
    BY <1>1 DEF Fresh, Current, AtButler
  <2> QED
    BY <2>1, <2>2
<1> QED
  BY <1>1, <1>2, <1>3, NextTableHeld, Moves

\* All that a reporter had in hand is lost with the process.
LEMMA CrashKeeps == ASSUME IInv, Crash PROVE IInv'
<1>1. rr' = [o \in Orgs |-> Off] /\ UNCHANGED <<version, unsynced, seen, raced, faults>>
  BY DEF Crash
<1>2. DataOK'
  BY <1>1, ResultsReporterAssumption DEF Crash, IInv, DataOK
<1>3. Off \in Reporters /\ Off.pc = "off" /\ Off.batch = None /\ Off.scores = None
  BY NoneIsEmpty DEF Off, Reporters, Pcs
<1>4. ASSUME NEW o \in Orgs PROVE Held(rr[o])'
  BY <1>1, <1>3, EmptyHanded
<1>5. LostOnlyByRace'
  BY <1>1 DEF IInv, LostOnlyByRace
<1>6. rr' = [o \in Orgs |-> rr'[o]]
  BY <1>1
<1> QED
  BY <1>2, <1>4, <1>5, <1>6 DEF IInv
-----------------------------------------------------------------------------
LEMMA InitIsGood == Init => IInv
<1> SUFFICES ASSUME Init PROVE IInv
  OBVIOUS
<1>1. DataOK
  BY ResultsReporterAssumption DEF Init, DataOK, Absent
<1>2. Off \in Reporters /\ Off.pc = "off" /\ Off.batch = None /\ Off.scores = None
  BY NoneIsEmpty DEF Off, Reporters, Pcs
<1>3. ASSUME NEW o \in Orgs PROVE Held(rr[o])
  <2>1. rr[o] = Off
    BY DEF Init
  <2>2. Typed(Off)
    BY <1>2, NoneIsEmpty DEF Typed
  <2>3. Fresh(Off) /\ Acked(Off)
    BY <1>2, NoneIsEmpty DEF Fresh, Current, Acked
  <2> QED
    BY <2>1, <2>2, <2>3 DEF Held
<1>4. LostOnlyByRace
  BY DEF Init, LostOnlyByRace
<1> QED
  BY <1>1, <1>3, <1>4 DEF Init, IInv

LEMMA StepIsGood == IInv /\ [Next]_vars => IInv'
<1> SUFFICES ASSUME IInv, [Next]_vars PROVE IInv'
  OBVIOUS
<1>1. ASSUME NEW o \in Orgs, Reporter(o) \/ Stop(o) PROVE IInv'
  BY <1>1, LifeKeeps, StopKeeps, FetchKeeps, FetchScoresKeeps, PostKeeps, MarkKeeps, MarkScoresKeeps
  DEF Reporter
<1>2. CASE UNCHANGED vars
  <2>1. DataOK' /\ LostOnlyByRace' /\ rr' = rr
    BY <1>2 DEF vars, IInv, DataOK, LostOnlyByRace
  <2>2. ASSUME NEW o \in Orgs PROVE Held(rr[o])'
    BY <1>2 DEF vars, IInv, Held, Typed, Fresh, Current, Acked, AtButler
  <2> QED
    BY <2>1, <2>2 DEF IInv
<1> QED
  BY <1>1, <1>2, WorkerKeeps, CrashKeeps DEF Next

LEMMA Invariance == Spec => []IInv
  BY InitIsGood, StepIsGood, PTL DEF Spec

\* Every variable always has a value of its type, and a reporter has rows of one table
\* in hand, and scores of these rows only, exactly from its fetch to its last mark.
THEOREM TypeCorrect == Spec => []TypeOK
<1>1. IInv => TypeOK
  <2> SUFFICES ASSUME IInv PROVE TypeOK
    OBVIOUS
  <2>1. ASSUME NEW o \in Orgs PROVE Typed(rr[o]) /\ DOMAIN rr[o] = DOMAIN Off
    BY DEF IInv, Held, Typed, Reporters, Off
  <2>2. DOMAIN Table = 1..4
    BY DEF Table
  <2> QED
    BY <2>1, <2>2 DEF IInv, DataOK, TypeOK, Typed, Reporters, Pcs
<1> QED
  BY <1>1, Invariance, PTL

\* What is marked synced is at Butler in its last version, unless it was written to
\* while some reporter had it in hand.
THEOREM NothingIsLostUnraced == Spec => []LostOnlyByRace
<1>1. IInv => LostOnlyByRace
  BY DEF IInv
<1> QED
  BY <1>1, Invariance, PTL
=============================================================================
