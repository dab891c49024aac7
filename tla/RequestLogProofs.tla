-------------------------- MODULE RequestLogProofs --------------------------
(***************************************************************************)
(* Proofs about the request log and what is derived from it, for any       *)
(* requests, metadata, sessions, capacity of the channel and bounds on     *)
(* faults and deaths.                                                      *)
(***************************************************************************)
EXTENDS RequestLog, FiniteSetTheorems, SequenceTheorems, TLAPS

\* The counts a flush has still to write.
Counts == UNION {[S -> Nat] : S \in SUBSET Keys}

Working == {"count", "register", "detail", "stats"}

\* The parts of the inductive invariant.
Typed == TypeOK /\ toFlush \in Counts

FlushOK == flusher \in {"idle", "stopped"} => DOMAIN toFlush = {}

\* The log in hand is a stored one from its insertion on.
LoopOK ==
    /\ loop.log = None <=> loop.pc \in {"select", "exited"}
    /\ loop.pc \in Working => loop.log \in Stored
    /\ loop.pc \in {"count", "register"} => loop.todo \subseteq DOMAIN MetaOf(loop.log)
    /\ loop.pc \in {"detail", "stats"} => loop.log \in Claude
    /\ loop.pc = "stats" => SessionOf(loop.log) \in Sessions

Distinct(s) == \A i, j \in DOMAIN s : s[i] = s[j] => i = j

\* Every log is in one place, and its handler has returned.
OncePlaced ==
    /\ Distinct(logChan)
    /\ Distinct(rows)
    /\ Queued \cap Stored = {}
    /\ loop.pc = "insert" => loop.log \notin Queued \cup Stored /\ handler[loop.log] = "returned"
    /\ \A r \in Queued \cup Stored : handler[r] = "returned"

ProcOK ==
    /\ proc # "down" => deaths <= MaxDeaths
    /\ proc = "down" => deaths # 0 /\ loop = Idle /\ logChan = <<>>

\* Sketches in memory hold values of stored requests, and all of the persisted ones
\* once they have been loaded.
ValuesOf(k) == {MetaOf(r)[k] : r \in Stored \cap Uses(k)}
SketchOK(k) ==
    /\ keyRows[k].sketch \subseteq ValuesOf(k)
    /\ hlls[k].sketch \subseteq ValuesOf(k)
    /\ hllLoaded => keyRows[k].sketch \subseteq hlls[k].sketch

\* The stored request whose value of k the write loop has still to count.
ToCount(k) == IF loop.pc = "count" /\ k \in loop.todo THEN 1 ELSE 0
CountOK(k) == Counted(k) + ToCount(k) <= Cardinality(Stored \cap Uses(k))

SessionOK(s) ==
    LET counted == Cardinality(SessionRows(s) \ Uncounted(s)) IN
    /\ sessions[s] <= counted
    /\ (faults = 0 /\ deaths = 0 /\ DbOpen) => sessions[s] = counted

DerivedOK ==
    /\ IsFiniteSet(Stored)
    /\ \A k \in Keys : SketchOK(k) /\ CountOK(k)
    /\ \A s \in Sessions : SessionOK(s)

IInv ==
    /\ Typed
    /\ FlushOK
    /\ LoopOK
    /\ OncePlaced
    /\ ProcOK
    /\ NoSilentLoss
    /\ DerivedOK
-----------------------------------------------------------------------------
(***************************************************************************)
(* Sequences.                                                              *)
(***************************************************************************)
Elems(s) == {s[i] : i \in DOMAIN s}

LEMMA AppendElems ==
    ASSUME NEW S, NEW s \in Seq(S), NEW e \in S
    PROVE  /\ Append(s, e) \in Seq(S)
           /\ Elems(Append(s, e)) = Elems(s) \cup {e}
           /\ e \notin Elems(s) /\ Distinct(s) => Distinct(Append(s, e))
<1> DEFINE t == Append(s, e)
<1>1. /\ t \in Seq(S) /\ Len(s) \in Nat /\ DOMAIN s = 1..Len(s) /\ DOMAIN t = 1..(Len(s) + 1)
      /\ t[Len(s) + 1] = e /\ \A i \in 1..Len(s) : t[i] = s[i]
  OBVIOUS
<1> HIDE DEF t
<1>2. Elems(t) = Elems(s) \cup {e}
  BY <1>1 DEF Elems
<1>3. ASSUME e \notin Elems(s), Distinct(s), NEW i \in DOMAIN t, NEW j \in DOMAIN t, t[i] = t[j] PROVE i = j
  <2>1. i \in 1..Len(s) \/ i = Len(s) + 1
    BY <1>1
  <2>2. j \in 1..Len(s) \/ j = Len(s) + 1
    BY <1>1
  <2> QED
    BY <1>1, <1>3, <2>1, <2>2 DEF Elems, Distinct
<1>4. e \notin Elems(s) /\ Distinct(s) => Distinct(t)
  BY <1>3 DEF Distinct
<1> QED
  BY <1>1, <1>2, <1>4 DEF t

LEMMA HeadTailElems ==
    ASSUME NEW S, NEW s \in Seq(S), s # <<>>
    PROVE  /\ Head(s) \in S /\ Head(s) \in Elems(s)
           /\ Tail(s) \in Seq(S) /\ Len(Tail(s)) = Len(s) - 1
           /\ Elems(s) = Elems(Tail(s)) \cup {Head(s)}
           /\ Distinct(s) => Distinct(Tail(s)) /\ Head(s) \notin Elems(Tail(s))
<1> DEFINE t == Tail(s)
<1>1. /\ t \in Seq(S) /\ Len(s) \in Nat \ {0} /\ DOMAIN s = 1..Len(s) /\ DOMAIN t = 1..(Len(s) - 1)
      /\ Head(s) = s[1] /\ s[1] \in S /\ 1 \in DOMAIN s /\ Len(t) = Len(s) - 1
      /\ \A i \in 1..(Len(s) - 1) : t[i] = s[i + 1] /\ i + 1 \in DOMAIN s
  OBVIOUS
<1> HIDE DEF t
<1>2. \A i \in DOMAIN s : i = 1 \/ (i - 1 \in DOMAIN t /\ t[i - 1] = s[i])
  BY <1>1
<1>3. Elems(s) = Elems(t) \cup {s[1]}
  <2>1. Elems(s) \subseteq Elems(t) \cup {s[1]}
    BY <1>2 DEF Elems
  <2>2. Elems(t) \cup {s[1]} \subseteq Elems(s)
    BY <1>1 DEF Elems
  <2> QED
    BY <2>1, <2>2
<1>4. Distinct(s) => Distinct(t) /\ s[1] \notin Elems(t)
  <2> SUFFICES ASSUME Distinct(s) PROVE Distinct(t) /\ s[1] \notin Elems(t)
    OBVIOUS
  <2>1. Distinct(t)
    BY <1>1 DEF Distinct
  <2>2. ASSUME NEW i \in DOMAIN t PROVE t[i] # s[1]
    BY <1>1 DEF Distinct
  <2> QED
    BY <2>1, <2>2 DEF Elems
<1>5. Head(s) \in Elems(s)
  BY <1>1 DEF Elems
<1> QED
  BY <1>1, <1>3, <1>4, <1>5 DEF t

LEMMA EmptyElems == <<>> \in Seq(Requests) /\ Len(<<>>) = 0 /\ Elems(<<>>) = {} /\ Distinct(<<>>)
BY DEF Elems, Distinct
-----------------------------------------------------------------------------
(***************************************************************************)
(* The sketches.                                                           *)
(***************************************************************************)
LEMMA AddValueFacts ==
    ASSUME Typed, NEW k \in Keys, NEW v \in Values, AddValue(k, v)
    PROVE  /\ hlls' \in [Keys -> HllEntry]
           /\ hlls'[k].sketch = hlls[k].sketch \cup {v} /\ hlls'[k].count = hlls[k].count + 1
           /\ \A j \in Keys \ {k} : hlls'[j] = hlls[j]
<1> DEFINE e == [known |-> TRUE, sketch |-> hlls[k].sketch \cup {v}, dirty |-> TRUE, count |-> hlls[k].count + 1]
<1>1. hlls \in [Keys -> HllEntry] /\ hlls[k] \in HllEntry
  BY DEF Typed, TypeOK, HllTypeOK
<1>2. e \in HllEntry /\ e.sketch = hlls[k].sketch \cup {v} /\ e.count = hlls[k].count + 1
  BY <1>1 DEF HllEntry
<1>3. hlls' = [hlls EXCEPT ![k] = e]
  BY DEF AddValue
<1> HIDE DEF e
<1> QED
  BY <1>1, <1>2, <1>3

LEMMA RegisterKeyFacts ==
    ASSUME Typed, NEW k \in Keys, RegisterKey(k)
    PROVE  /\ keyRows' \in [Keys -> KeyRow]
           /\ \A j \in Keys : keyRows'[j].sketch = keyRows[j].sketch /\ keyRows'[j].count = keyRows[j].count
<1> DEFINE e == [keyRows[k] EXCEPT !.exists = TRUE]
<1>1. keyRows \in [Keys -> KeyRow] /\ keyRows[k] \in KeyRow
  BY DEF Typed, TypeOK, HllTypeOK
<1>2. e \in KeyRow /\ e.sketch = keyRows[k].sketch /\ e.count = keyRows[k].count
  BY <1>1 DEF KeyRow
<1>3. keyRows' = [keyRows EXCEPT ![k] = e]
  BY DEF RegisterKey
<1> HIDE DEF e
<1> QED
  BY <1>1, <1>2, <1>3

LEMMA TakeDirtyFacts ==
    ASSUME Typed, TakeDirty
    PROVE  /\ hlls' \in [Keys -> HllEntry] /\ toFlush' \in Counts /\ DOMAIN toFlush' = Dirty
           /\ \A k \in Keys : hlls'[k].sketch = hlls[k].sketch
           /\ \A k \in Dirty : toFlush'[k] = hlls[k].count /\ hlls'[k].count = 0
           /\ \A k \in Keys \ Dirty : hlls'[k].count = hlls[k].count
<1> DEFINE e(k) == [hlls[k] EXCEPT !.dirty = FALSE, !.count = IF k \in Dirty THEN 0 ELSE @]
<1>1. hlls \in [Keys -> HllEntry]
  BY DEF Typed, TypeOK, HllTypeOK
<1>2. ASSUME NEW k \in Keys
      PROVE e(k) \in HllEntry /\ e(k).sketch = hlls[k].sketch
            /\ e(k).count = IF k \in Dirty THEN 0 ELSE hlls[k].count
  <2>1. hlls[k] \in HllEntry
    BY <1>1
  <2> QED
    BY <2>1 DEF HllEntry
<1>3. hlls' = [k \in Keys |-> e(k)] /\ toFlush' = [k \in Dirty |-> hlls[k].count]
  BY DEF TakeDirty
<1> HIDE DEF e
<1>4. Dirty \in SUBSET Keys
  BY DEF Dirty
<1>5. \A k \in Dirty : hlls[k].count \in Nat
  BY <1>1, <1>4 DEF HllEntry
<1>6. toFlush' \in [Dirty -> Nat]
  BY <1>3, <1>5
<1>7. toFlush' \in Counts
  BY <1>4, <1>6 DEF Counts
<1> QED
  BY <1>2, <1>3, <1>4, <1>7

LEMMA FlushRowFacts ==
    ASSUME Typed, NEW k \in Keys, FlushRow(k)
    PROVE  /\ k \in DOMAIN toFlush /\ toFlush[k] \in Nat
           /\ toFlush' \in Counts /\ DOMAIN toFlush' = DOMAIN toFlush \ {k}
           /\ \A j \in DOMAIN toFlush' : toFlush'[j] = toFlush[j]
           /\ keyRows' \in [Keys -> KeyRow]
           /\ \A j \in Keys \ {k} : keyRows'[j] = keyRows[j]
           /\ \/ keyRows'[k] = keyRows[k]
              \/ keyRows'[k].sketch = hlls[k].sketch /\ keyRows'[k].count = keyRows[k].count + toFlush[k]
<1> DEFINE e == [exists |-> TRUE, sketch |-> hlls[k].sketch, count |-> keyRows[k].count + toFlush[k]]
<1>1. keyRows \in [Keys -> KeyRow] /\ keyRows[k] \in KeyRow /\ hlls[k] \in HllEntry
  BY DEF Typed, TypeOK, HllTypeOK
<1>2. k \in DOMAIN toFlush /\ toFlush[k] \in Nat /\ \A j \in DOMAIN toFlush : toFlush[j] \in Nat
  BY DEF Typed, TypeOK, HllTypeOK, FlushRow
<1>3. e \in KeyRow /\ e.sketch = hlls[k].sketch /\ e.count = keyRows[k].count + toFlush[k]
  BY <1>1, <1>2 DEF KeyRow, HllEntry
<1>4. keyRows' = keyRows \/ keyRows' = [keyRows EXCEPT ![k] = e]
  BY DEF FlushRow
<1> HIDE DEF e
<1>5. toFlush' = [j \in DOMAIN toFlush \ {k} |-> toFlush[j]]
  BY DEF FlushRow
<1>6. DOMAIN toFlush \ {k} \in SUBSET Keys
  BY DEF Typed, TypeOK, HllTypeOK
<1>7. toFlush' \in [DOMAIN toFlush \ {k} -> Nat]
  BY <1>2, <1>5
<1>8. toFlush' \in Counts
  BY <1>6, <1>7 DEF Counts
<1>9. keyRows' \in [Keys -> KeyRow]
  BY <1>1, <1>3, <1>4
<1> QED
  BY <1>1, <1>2, <1>3, <1>4, <1>5, <1>8, <1>9

LEMMA LoadedFacts ==
    ASSUME Typed, NEW S \in SUBSET Keys
    PROVE  /\ Loaded(S) \in [Keys -> HllEntry]
           /\ \A k \in Keys : Loaded(S)[k].count = 0 /\ Loaded(S)[k].sketch \subseteq keyRows[k].sketch
           /\ \A k \in S : Loaded(S)[k].sketch = keyRows[k].sketch
<1> DEFINE e(k) == [NoEntry EXCEPT !.known = keyRows[k].sketch # {}, !.sketch = keyRows[k].sketch]
           l(k) == IF k \in S THEN e(k) ELSE NoEntry
<1>1. keyRows \in [Keys -> KeyRow]
  BY DEF Typed, TypeOK, HllTypeOK
<1>2. NoEntry \in HllEntry /\ NoEntry.count = 0 /\ NoEntry.sketch = {}
  BY DEF NoEntry, HllEntry
<1>3. ASSUME NEW k \in Keys
      PROVE e(k) \in HllEntry /\ e(k).count = 0 /\ e(k).sketch = keyRows[k].sketch
  <2>1. keyRows[k] \in KeyRow
    BY <1>1
  <2>2. keyRows[k].sketch \in SUBSET Values
    BY <2>1 DEF KeyRow
  <2> QED
    BY <2>2 DEF HllEntry, NoEntry
<1> HIDE DEF e
<1>4. ASSUME NEW k \in Keys
      PROVE l(k) \in HllEntry /\ l(k).count = 0 /\ l(k).sketch \subseteq keyRows[k].sketch
            /\ (k \in S => l(k).sketch = keyRows[k].sketch)
  BY <1>2, <1>3
<1>5. Loaded(S) = [k \in Keys |-> l(k)]
  BY DEF Loaded, e
<1> HIDE DEF l
<1> QED
  BY <1>4, <1>5
-----------------------------------------------------------------------------
(***************************************************************************)
(* The write loop.                                                         *)
(***************************************************************************)
Loops == [pc       : {"select", "insert", "count", "register", "detail", "stats", "exited"},
          log      : Requests \cup {None},
          todo     : SUBSET Keys,
          draining : BOOLEAN]

LEMMA MetaFacts ==
    ASSUME NEW r \in Requests
    PROVE  /\ r # None /\ DOMAIN MetaOf(r) \subseteq Keys
           /\ \A k \in DOMAIN MetaOf(r) : MetaOf(r)[k] \in Values /\ r \in Uses(k)
           /\ \A k : r \in Uses(k) => k \in DOMAIN MetaOf(r)
BY RequestLogAssumption DEF Uses

LEMMA FinishedFacts ==
    ASSUME loop \in Loops
    PROVE  Finished \in Loops /\ Finished.pc = "select" /\ Finished.log = None
BY DEF Finished, Loops

LEMMA ToClaudeFacts ==
    ASSUME loop \in Loops
    PROVE  /\ ToClaude \in Loops
           /\ loop.log \in Claude => ToClaude.pc = "detail" /\ ToClaude.log = loop.log
           /\ loop.log \notin Claude => ToClaude = Finished
<1>1. CASE loop.log \in Claude
  <2> DEFINE n == [loop EXCEPT !.pc = "detail", !.todo = {}]
  <2>1. n \in Loops /\ n.pc = "detail" /\ n.log = loop.log
    BY DEF Loops
  <2>2. ToClaude = n
    BY <1>1 DEF ToClaude
  <2> HIDE DEF n
  <2> QED
    BY <1>1, <2>1, <2>2
<1>2. CASE loop.log \notin Claude
  BY <1>2, FinishedFacts DEF ToClaude
<1> QED
  BY <1>1, <1>2

LEMMA StepFacts ==
    ASSUME loop \in Loops, NEW next \in {"count", "register"}, NEW rest \in SUBSET Keys, NEW after \in Loops
    PROVE  /\ Step(next, rest, after) \in Loops
           /\ rest = {} => Step(next, rest, after) = after
           /\ rest # {} => /\ Step(next, rest, after).pc = next
                           /\ Step(next, rest, after).log = loop.log
                           /\ Step(next, rest, after).todo = rest
<1> DEFINE n == [loop EXCEPT !.pc = next, !.todo = rest]
<1>1. n \in Loops /\ n.pc = next /\ n.log = loop.log /\ n.todo = rest
  BY DEF Loops
<1>2. Step(next, rest, after) = IF rest = {} THEN after ELSE n
  BY DEF Step
<1> HIDE DEF n
<1> QED
  BY <1>1, <1>2

\* The values MetaOf gives a log of the write loop, and what the loop does with it.
LEMMA InLoop ==
    ASSUME Typed, LoopOK
    PROVE  /\ loop \in Loops
           /\ loop.pc \notin {"select", "exited"} => loop.log \in Requests /\ loop.log # None
BY RequestLogAssumption DEF Typed, TypeOK, LoopOK, Loops
-----------------------------------------------------------------------------
(***************************************************************************)
(* Steps that store nothing and count nothing.                             *)
(***************************************************************************)
\* A step leaves the process as healthy as it was, or less so.
NoCure == /\ faults' \in 0..MaxFaults
          /\ (faults' = 0 /\ deaths' = 0 /\ DbOpen') => (faults = 0 /\ deaths = 0 /\ DbOpen)

LEMMA FaultFacts ==
    ASSUME Typed, Fault PROVE faults' \in 0..MaxFaults /\ faults' # 0
BY MaxFaultsAssumption DEF Typed, TypeOK, Fault

\* A failing statement.
LEMMA FailureFacts ==
    ASSUME Typed, StatementFails \/ UNCHANGED faults, UNCHANGED <<proc, deaths>>
    PROVE  /\ NoCure
           /\ StatementFails => ~(faults' = 0 /\ deaths' = 0 /\ DbOpen')
BY FaultFacts DEF NoCure, StatementFails, DbOpen, Typed, TypeOK

LEMMA CountedType ==
    ASSUME Typed, NEW k \in Keys PROVE Counted(k) \in Nat /\ ToCount(k) \in {0, 1}
<1>1. keyRows[k].count \in Nat /\ hlls[k].count \in Nat
  BY DEF Typed, TypeOK, HllTypeOK, KeyRow, HllEntry
<1>2. k \in DOMAIN toFlush => toFlush[k] \in Nat
  BY DEF Typed, TypeOK, HllTypeOK
<1> QED
  BY <1>1, <1>2 DEF Counted, ToCount

\* The log in hand may change, the logs that are stored but not yet counted do not.
LEMMA DerivedKept ==
    ASSUME IInv, NoCure, UNCHANGED <<hlls, toFlush, hllLoaded, rows, sessions>>,
           proc' = "down" <=> proc = "down",
           \A k \in Keys : /\ keyRows'[k].sketch = keyRows[k].sketch
                           /\ keyRows'[k].count = keyRows[k].count
                           /\ ToCount(k)' = ToCount(k),
           \A s \in Sessions : Uncounted(s)' = Uncounted(s)
    PROVE  DerivedOK'
<1> USE DEF IInv
<1>1. Stored' = Stored
  BY DEF Stored
<1>2. ASSUME NEW k \in Keys PROVE SketchOK(k)' /\ CountOK(k)'
  <2>1. SketchOK(k) /\ CountOK(k)
    BY DEF DerivedOK
  <2>2. ValuesOf(k)' = ValuesOf(k) /\ SketchOK(k)'
    BY <1>1, <2>1 DEF SketchOK, ValuesOf
  <2>3. Counted(k)' = Counted(k)
    BY DEF Counted
  <2>4. Cardinality(Stored \cap Uses(k))' = Cardinality(Stored \cap Uses(k))
    BY <1>1
  <2> QED
    BY <2>1, <2>2, <2>3, <2>4 DEF CountOK
<1>3. ASSUME NEW s \in Sessions PROVE SessionOK(s)'
  <2>1. SessionRows(s)' = SessionRows(s)
    BY <1>1 DEF SessionRows
  <2>2. Cardinality(SessionRows(s) \ Uncounted(s))' = Cardinality(SessionRows(s) \ Uncounted(s))
    BY <2>1
  <2>3. SessionOK(s)
    BY DEF DerivedOK
  <2> QED
    BY <2>2, <2>3 DEF SessionOK, NoCure
<1> QED
  BY <1>1, <1>2, <1>3 DEF DerivedOK

\* Where the write loop is does not change what it has still to count.
LEMMA NothingInHand ==
    ASSUME UNCHANGED rows,
           \/ UNCHANGED loop
           \/ loop.pc \notin Working /\ loop'.pc \notin Working
    PROVE  /\ \A k \in Keys : ToCount(k)' = ToCount(k)
           /\ \A s \in Sessions : Uncounted(s)' = Uncounted(s)
BY DEF ToCount, Uncounted, SessionRows, Stored, Working

\* What does not concern the sketches, their flush or the tables.
LEMMA TypedKept ==
    ASSUME Typed, UNCHANGED <<hllVars, rows, details, sessions>>, faults' \in 0..MaxFaults,
           handler' \in [Requests -> {"new", "serving", "logging", "returned", "dropped", "gone"}],
           logChan' \in Seq(Requests), Len(logChan') <= ChanCap, loop' \in Loops,
           proc' \in ProcStates, deaths' \in 0..(MaxDeaths + 1)
    PROVE  Typed'
BY DEF Typed, TypeOK, HllTypeOK, hllVars, Loops

LEMMA HandlerSteps ==
    ASSUME IInv, NEW r \in Requests, Arrive(r) \/ LogAndFinish(r) PROVE IInv'
<1> USE DEF IInv
<1>1. PICK x \in {"serving", "logging"} : handler' = [handler EXCEPT ![r] = x]
  BY DEF Arrive, LogAndFinish
<1>2. /\ UNCHANGED <<hllVars, faults, logChan, loop, proc, rows, details, sessions, deaths>>
      /\ handler[r] \in {"new", "serving"}
  BY DEF Arrive, LogAndFinish
<1>3. Typed'
  BY <1>1, <1>2, TypedKept DEF Typed, TypeOK, Loops
<1>4. handler \in [Requests -> {"new", "serving", "logging", "returned", "dropped", "gone"}]
  BY DEF Typed, TypeOK
<1>5. \A q \in Requests : handler'[q] = "returned" <=> handler[q] = "returned"
  BY <1>1, <1>2, <1>4
<1>6. FlushOK' /\ LoopOK' /\ ProcOK'
  BY <1>2 DEF FlushOK, LoopOK, ProcOK, hllVars, Stored, Idle
<1>7. Queued \subseteq Requests /\ Stored \subseteq Requests /\ Queued' = Queued /\ Stored' = Stored
  BY <1>2 DEF Queued, Stored, Typed, TypeOK
<1>8. OncePlaced'
  BY <1>2, <1>5, <1>7, InLoop DEF OncePlaced
<1>9. NoSilentLoss'
  BY <1>2, <1>5, <1>7 DEF NoSilentLoss, DbOpen
<1>10. NoCure
  BY <1>2 DEF NoCure, DbOpen, Typed, TypeOK
<1>11. DerivedOK'
  BY <1>2, <1>10, NothingInHand, DerivedKept DEF hllVars
<1> QED
  BY <1>3, <1>6, <1>8, <1>9, <1>11

LEMMA WriteRequestLogStep ==
    ASSUME IInv, NEW r \in Requests, WriteRequestLog(r) PROVE IInv'
<1> USE DEF IInv
<1>1. PICK x \in {"returned", "dropped"} :
        /\ handler' = [handler EXCEPT ![r] = x]
        /\ \/ x = "returned" /\ logChan' = Append(logChan, r) /\ Len(logChan) < ChanCap
           \/ x = "dropped" /\ logChan' = logChan
  BY DEF WriteRequestLog, HasRoom, Enqueued
<1>2. /\ UNCHANGED <<hllVars, faults, loop, proc, rows, details, sessions, deaths>>
      /\ handler[r] = "logging" /\ proc # "down"
  BY DEF WriteRequestLog
<1>3. handler \in [Requests -> {"new", "serving", "logging", "returned", "dropped", "gone"}] /\ logChan \in Seq(Requests)
  BY DEF Typed, TypeOK
<1>4. Len(logChan') <= ChanCap /\ logChan' \in Seq(Requests)
  <2>1. Len(logChan) \in Nat /\ Len(logChan) <= ChanCap /\ ChanCap \in Nat
    BY <1>3, RequestLogAssumption DEF Typed, TypeOK
  <2>2. Append(logChan, r) \in Seq(Requests) /\ Len(Append(logChan, r)) = Len(logChan) + 1
    BY <1>3
  <2> QED
    BY <1>1, <1>3, <2>1, <2>2
<1>5. Typed'
  BY <1>1, <1>2, <1>4, TypedKept DEF Typed, TypeOK, Loops
<1>6. \A q \in Requests : (handler[q] = "returned" => handler'[q] = "returned")
                          /\ (handler'[q] = "returned" => handler[q] = "returned" \/ (q = r /\ x = "returned"))
  BY <1>1, <1>2, <1>3
<1>7. FlushOK' /\ LoopOK' /\ ProcOK'
  BY <1>2 DEF FlushOK, LoopOK, ProcOK, hllVars, Stored
<1>8. /\ Queued \subseteq Requests /\ Stored \subseteq Requests /\ Stored' = Stored
      /\ Queued = Elems(logChan) /\ Queued' = Elems(logChan')
  BY <1>2 DEF Queued, Stored, Typed, TypeOK, Elems
<1>9. r \notin Queued \cup Stored /\ (loop.pc = "insert" => loop.log # r)
  BY <1>2 DEF OncePlaced
<1>10. /\ Queued \subseteq Queued' /\ Queued' \subseteq Queued \cup {r}
       /\ x = "returned" => r \in Queued'
       /\ x = "dropped" => Queued' = Queued
       /\ Distinct(logChan')
  <2>1. CASE x = "returned"
    <3>1. logChan' = Append(logChan, r) /\ r \notin Elems(logChan) /\ Distinct(logChan)
      BY <1>1, <1>8, <1>9, <2>1 DEF OncePlaced
    <3>2. Elems(logChan') = Elems(logChan) \cup {r} /\ Distinct(logChan')
      BY <1>3, <3>1, AppendElems
    <3> QED
      BY <1>8, <2>1, <3>2
  <2>2. CASE x = "dropped"
    BY <1>1, <1>8, <2>2 DEF OncePlaced
  <2> QED
    BY <2>1, <2>2
<1>11. handler'[r] = x
  BY <1>1, <1>3
<1>12. OncePlaced'
  BY <1>2, <1>6, <1>8, <1>9, <1>10, <1>11, InLoop DEF OncePlaced
<1>13. NoSilentLoss'
  BY <1>2, <1>6, <1>8, <1>10 DEF NoSilentLoss, DbOpen
<1>14. NoCure
  BY <1>2 DEF NoCure, DbOpen, Typed, TypeOK
<1>15. DerivedOK'
  BY <1>2, <1>14, NothingInHand, DerivedKept DEF hllVars
<1> QED
  BY <1>5, <1>7, <1>12, <1>13, <1>15

LEMMA ReceiveStep == ASSUME IInv, Receive PROVE IInv'
<1> USE DEF IInv
<1> DEFINE n == [loop EXCEPT !.pc = "insert", !.log = Head(logChan)]
<1>1. /\ UNCHANGED <<hllVars, faults, handler, proc, rows, details, sessions, deaths>>
      /\ proc # "down" /\ loop.pc = "select" /\ logChan # <<>> /\ logChan' = Tail(logChan) /\ loop' = n
  BY DEF Receive, Taken
<1>2. logChan \in Seq(Requests) /\ Len(logChan) <= ChanCap /\ loop \in Loops /\ Len(logChan) \in Nat
  BY InLoop DEF Typed, TypeOK
<1>3. /\ Head(logChan) \in Requests /\ Head(logChan) \in Elems(logChan)
      /\ logChan' \in Seq(Requests) /\ Len(logChan') <= ChanCap
      /\ Elems(logChan) = Elems(logChan') \cup {Head(logChan)}
      /\ Distinct(logChan') /\ Head(logChan) \notin Elems(logChan')
  BY <1>1, <1>2, HeadTailElems, RequestLogAssumption DEF OncePlaced
<1>4. n \in Loops /\ n.pc = "insert" /\ n.log = Head(logChan)
  BY <1>2, <1>3 DEF Loops
<1> HIDE DEF n
<1>5. Typed'
  BY <1>1, <1>3, <1>4, TypedKept DEF Typed, TypeOK
<1>6. FlushOK' /\ LoopOK' /\ ProcOK'
  BY <1>1, <1>3, <1>4, RequestLogAssumption DEF FlushOK, LoopOK, ProcOK, hllVars, Working
<1>7. Stored' = Stored /\ Queued = Elems(logChan) /\ Queued' = Elems(logChan')
  BY <1>1 DEF Queued, Stored, Elems
<1>8. OncePlaced'
  BY <1>1, <1>3, <1>4, <1>7 DEF OncePlaced
<1>9. NoSilentLoss'
  BY <1>1, <1>3, <1>4, <1>7 DEF NoSilentLoss, DbOpen
<1>10. NoCure
  BY <1>1 DEF NoCure, DbOpen, Typed, TypeOK
<1>11. DerivedOK'
  BY <1>1, <1>4, <1>10, NothingInHand, DerivedKept DEF hllVars, Working
<1> QED
  BY <1>5, <1>6, <1>8, <1>9, <1>11

\* The loop goes on without a log in hand, after a log it had was stored or has failed.
LEMMA LoopMoves ==
    ASSUME IInv, UNCHANGED <<hlls, flusher, toFlush, hllLoaded, handler, logChan, proc, rows, deaths>>, NoCure,
           loop' \in Loops, proc # "down", loop'.pc # "insert", Typed', LoopOK', DerivedOK',
           loop.pc = "insert" => ~(faults' = 0 /\ deaths' = 0 /\ DbOpen')
    PROVE  IInv'
<1> USE DEF IInv
<1>1. Stored' = Stored /\ Queued' = Queued
  BY DEF Queued, Stored
<1>2. FlushOK' /\ ProcOK' /\ OncePlaced'
  BY <1>1 DEF FlushOK, ProcOK, OncePlaced
<1>3. NoSilentLoss'
  BY <1>1 DEF NoSilentLoss, NoCure
<1> QED
  BY <1>2, <1>3

LEMMA SelectSteps == ASSUME IInv, SeeDone \/ LoopReturn PROVE IInv'
<1> USE DEF IInv
<1> DEFINE n == [loop EXCEPT !.draining = TRUE]
           x == [loop EXCEPT !.pc = "exited"]
<1>1. /\ UNCHANGED <<hllVars, faults, handler, logChan, proc, rows, details, sessions, deaths>>
      /\ proc # "down" /\ loop.pc = "select" /\ loop \in Loops /\ (loop' = n \/ loop' = x)
  BY InLoop DEF SeeDone, LoopReturn, Done
<1>2. n \in Loops /\ n.pc = "select" /\ n.log = loop.log /\ x \in Loops /\ x.pc = "exited" /\ x.log = loop.log
  BY <1>1 DEF Loops
<1> HIDE DEF n, x
<1>3. loop' \in Loops /\ loop'.pc \in {"select", "exited"} /\ loop'.log = loop.log
  BY <1>1, <1>2
<1>4. Typed'
  BY <1>1, <1>3, TypedKept DEF Typed, TypeOK
<1>5. LoopOK'
  BY <1>1, <1>3 DEF LoopOK, Working
<1>6. NoCure
  BY <1>1 DEF NoCure, DbOpen, Typed, TypeOK
<1>7. DerivedOK'
  BY <1>1, <1>3, <1>6, NothingInHand, DerivedKept DEF hllVars, Working
<1> QED
  BY <1>1, <1>3, <1>4, <1>5, <1>6, <1>7, LoopMoves DEF hllVars

LEMMA InsertFails ==
    ASSUME IInv, Insert, StatementFails, loop' = Finished, UNCHANGED rows PROVE IInv'
<1> USE DEF IInv
<1>1. /\ UNCHANGED <<hllVars, handler, logChan, proc, details, sessions, deaths>>
      /\ proc # "down" /\ loop.pc = "insert" /\ loop \in Loops
  BY InLoop DEF Insert
<1>2. loop' \in Loops /\ loop'.pc = "select" /\ loop'.log = None
  BY <1>1, FinishedFacts
<1>3. NoCure /\ ~(faults' = 0 /\ deaths' = 0 /\ DbOpen')
  BY <1>1, FailureFacts
<1>4. Typed'
  BY <1>1, <1>2, <1>3, TypedKept DEF Typed, TypeOK, NoCure
<1>5. LoopOK'
  BY <1>2 DEF LoopOK, Working
<1>6. DerivedOK'
  BY <1>1, <1>2, <1>3, NothingInHand, DerivedKept DEF hllVars, Working
<1> QED
  BY <1>1, <1>2, <1>3, <1>4, <1>5, <1>6, LoopMoves DEF hllVars

LEMMA CreateDetailStep == ASSUME IInv, CreateDetail PROVE IInv'
<1> USE DEF IInv
<1> DEFINE n == [loop EXCEPT !.pc = "stats"]
<1>1. /\ UNCHANGED <<hllVars, handler, logChan, proc, rows, sessions, deaths>>
      /\ proc # "down" /\ loop.pc = "detail" /\ loop \in Loops /\ loop.log \in Requests \cap Stored \cap Claude
      /\ details' \subseteq Requests
  BY InLoop DEF CreateDetail, LoopOK, Working, Typed, TypeOK
<1>2. NoCure
  BY <1>1, FailureFacts DEF CreateDetail
<1>3. n \in Loops /\ n.pc = "stats" /\ n.log = loop.log
  BY <1>1 DEF Loops
<1>4. Finished \in Loops /\ Finished.pc = "select" /\ Finished.log = None
  BY <1>1, FinishedFacts
<1>5. \/ SessionOf(loop.log) = NoSession /\ loop' = Finished
      \/ SessionOf(loop.log) \in Sessions /\ loop' = n
  BY <1>1, RequestLogAssumption DEF CreateDetail
<1> HIDE DEF n
<1>6. Stored' = Stored
  BY <1>1 DEF Stored
<1>7. LoopOK'
  BY <1>1, <1>3, <1>4, <1>5, <1>6, RequestLogAssumption DEF LoopOK, Working
<1>8. Typed'
  BY <1>1, <1>2, <1>3, <1>4, <1>5 DEF Typed, TypeOK, HllTypeOK, hllVars, Loops, NoCure
<1>9. \A k \in Keys : ToCount(k)' = ToCount(k)
  BY <1>1, <1>3, <1>4, <1>5 DEF ToCount
<1>10. ASSUME NEW s \in Sessions PROVE Uncounted(s)' = Uncounted(s)
  <2>1. SessionRows(s)' = SessionRows(s)
    BY <1>6 DEF SessionRows
  <2>2. SessionOf(loop.log) = NoSession => loop.log \notin SessionRows(s)
    BY RequestLogAssumption DEF SessionRows
  <2> QED
    BY <1>1, <1>3, <1>4, <1>5, <2>1, <2>2 DEF Uncounted
<1>11. DerivedOK'
  BY <1>1, <1>2, <1>9, <1>10, DerivedKept DEF hllVars
<1> QED
  BY <1>1, <1>2, <1>3, <1>4, <1>5, <1>7, <1>8, <1>11, LoopMoves DEF hllVars
-----------------------------------------------------------------------------
(***************************************************************************)
(* Steps that store or count.                                              *)
(***************************************************************************)
LEMMA FiniteParts ==
    ASSUME IsFiniteSet(Stored), NEW T
    PROVE  /\ IsFiniteSet(Stored \cap T) /\ Cardinality(Stored \cap T) \in Nat
           /\ \A U \in SUBSET (Stored \cap T) : /\ IsFiniteSet(U)
                                                /\ Cardinality(U) \in Nat
                                                /\ Cardinality(U) <= Cardinality(Stored \cap T)
<1>1. IsFiniteSet(Stored \cap T)
  BY FS_Subset
<1> QED
  BY <1>1, FS_Subset, FS_CardinalityType

\* The log in hand is inserted.
LEMMA InsertStores ==
    ASSUME IInv, Insert, DbOpen, rows' = Append(rows, loop.log), UNCHANGED faults,
           loop' = Step("count", Meta, ToClaude)
    PROVE  IInv'
<1> USE DEF IInv
<1> DEFINE r == loop.log
<1>1. /\ UNCHANGED <<hllVars, handler, logChan, proc, details, sessions, deaths, faults>>
      /\ proc # "down" /\ loop.pc = "insert" /\ loop \in Loops /\ r \in Requests
      /\ r \notin Queued \cup Stored /\ handler[r] = "returned" /\ Distinct(rows)
  BY InLoop DEF Insert, OncePlaced
<1>2. rows \in Seq(Requests) /\ Stored = Elems(rows) /\ Stored' = Elems(rows')
  BY DEF Typed, TypeOK, Stored, Elems
<1>3. rows' \in Seq(Requests) /\ Stored' = Stored \cup {r} /\ Distinct(rows')
  BY <1>1, <1>2, AppendElems
<1>4. Meta \in SUBSET Keys /\ ToClaude \in Loops
  BY <1>1, MetaFacts, ToClaudeFacts DEF Meta
<1>5. /\ loop' \in Loops
      /\ \/ loop'.pc = "count" /\ loop'.log = r /\ loop'.todo = Meta
         \/ loop'.pc = "detail" /\ loop'.log = r /\ r \in Claude /\ Meta = {}
         \/ loop'.pc = "select" /\ loop'.log = None /\ r \notin Claude /\ Meta = {}
  BY <1>1, <1>4, StepFacts, ToClaudeFacts, FinishedFacts
<1>6. r # None
  BY <1>1, MetaFacts
<1>7. Typed'
  BY <1>1, <1>3, <1>5 DEF Typed, TypeOK, HllTypeOK, hllVars, Loops
<1>8. LoopOK'
  BY <1>3, <1>5, <1>6 DEF LoopOK, Working, Meta
<1>9. Queued' = Queued
  BY <1>1 DEF Queued
<1>10. FlushOK' /\ ProcOK' /\ OncePlaced'
  BY <1>1, <1>3, <1>5, <1>9 DEF FlushOK, ProcOK, OncePlaced, hllVars
<1>11. NoSilentLoss'
  BY <1>1, <1>3, <1>9 DEF NoSilentLoss, DbOpen
<1>12. IsFiniteSet(Stored) /\ IsFiniteSet(Stored')
  BY <1>3, FS_AddElement DEF DerivedOK
<1>13. ASSUME NEW k \in Keys PROVE SketchOK(k)' /\ CountOK(k)'
  <2>1. SketchOK(k) /\ CountOK(k) /\ Counted(k) \in Nat
    BY CountedType DEF DerivedOK
  <2>2. ValuesOf(k) \subseteq ValuesOf(k)'
    BY <1>3 DEF ValuesOf
  <2>3. SketchOK(k)'
    BY <1>1, <2>1, <2>2 DEF SketchOK, hllVars
  <2>4. Counted(k)' = Counted(k) /\ ToCount(k) = 0
    BY <1>1 DEF Counted, ToCount, hllVars
  <2>5. Cardinality(Stored \cap Uses(k)) \in Nat /\ IsFiniteSet(Stored \cap Uses(k))
    BY <1>12, FiniteParts
  <2>6. CASE r \in Uses(k)
    <3>1. (Stored \cap Uses(k))' = (Stored \cap Uses(k)) \cup {r} /\ r \notin Stored \cap Uses(k)
      BY <1>1, <1>3, <2>6
    <3>2. Cardinality(Stored \cap Uses(k))' = Cardinality(Stored \cap Uses(k)) + 1
      BY <2>5, <3>1, FS_AddElement
    <3>3. ToCount(k)' \in {0, 1}
      BY DEF ToCount
    <3> QED
      BY <2>1, <2>3, <2>4, <2>5, <3>2, <3>3 DEF CountOK
  <2>7. CASE r \notin Uses(k)
    <3>1. (Stored \cap Uses(k))' = Stored \cap Uses(k)
      BY <1>3, <2>7
    <3>2. k \notin Meta
      BY <1>1, <2>7, MetaFacts DEF Meta
    <3>3. ToCount(k)' = 0
      BY <1>5, <3>2 DEF ToCount
    <3> QED
      BY <2>1, <2>3, <2>4, <3>1, <3>3 DEF CountOK
  <2> QED
    BY <2>6, <2>7
<1>14. ASSUME NEW s \in Sessions PROVE SessionOK(s)'
  <2>1. SessionOK(s) /\ Uncounted(s) = {}
    BY <1>1 DEF DerivedOK, Uncounted
  <2>2. SessionRows(s)' \ Uncounted(s)' = SessionRows(s)
    <3>1. CASE r \in Claude /\ SessionOf(r) = s
      <4>1. SessionRows(s)' = SessionRows(s) \cup {r} /\ r \notin SessionRows(s)
        BY <1>1, <1>3, <3>1 DEF SessionRows
      <4>2. loop'.pc \in {"count", "register", "detail", "stats"} /\ loop'.log = r
        BY <1>5, <3>1
      <4>3. Uncounted(s)' = {r}
        BY <4>1, <4>2 DEF Uncounted
      <4> QED
        BY <4>1, <4>3
    <3>2. CASE r \notin Claude \/ SessionOf(r) # s
      <4>1. SessionRows(s)' = SessionRows(s) /\ r \notin SessionRows(s)
        BY <1>1, <1>3, <3>2 DEF SessionRows
      <4>2. None \notin SessionRows(s)
        BY RequestLogAssumption DEF SessionRows
      <4>3. Uncounted(s)' = {}
        BY <1>5, <4>1, <4>2 DEF Uncounted
      <4> QED
        BY <4>1, <4>3
    <3> QED
      BY <3>1, <3>2
  <2>3. Cardinality(SessionRows(s) \ Uncounted(s))' = Cardinality(SessionRows(s) \ Uncounted(s))
    BY <2>1, <2>2
  <2> QED
    BY <1>1, <2>1, <2>3 DEF SessionOK, DbOpen
<1>15. DerivedOK'
  BY <1>12, <1>13, <1>14 DEF DerivedOK
<1> QED
  BY <1>7, <1>8, <1>10, <1>11, <1>15

LEMMA InsertStep == ASSUME IInv, Insert PROVE IInv'
BY InsertStores, InsertFails DEF Insert, InsertFailed

\* One key of the log in hand is counted.
LEMMA CountKeyStep == ASSUME IInv, NEW k \in Keys, CountKey(k) PROVE IInv'
<1> USE DEF IInv
<1> DEFINE r == loop.log
           v == MetaOf(r)[k]
           rest == loop.todo \ {k}
           after == [loop EXCEPT !.pc = "register", !.todo = Meta]
<1>1. /\ UNCHANGED <<flusher, toFlush, keyRows, hllLoaded, faults, handler, logChan, proc, rows, details, sessions, deaths>>
      /\ proc # "down" /\ loop.pc = "count" /\ loop \in Loops /\ r \in Requests
      /\ k \in loop.todo /\ loop.todo \subseteq Meta /\ r \in Stored
      /\ AddValue(k, v) /\ loop' = Step("count", rest, after)
  BY InLoop DEF CountKey, LoopOK, Working, Meta
<1>2. Meta \in SUBSET Keys /\ k \in Meta /\ v \in Values /\ r \in Uses(k)
  BY <1>1, MetaFacts DEF Meta
<1>3. after \in Loops /\ after.pc = "register" /\ after.log = r /\ after.todo = Meta
  BY <1>1, <1>2 DEF Loops
<1>4. rest \in SUBSET Keys
  BY <1>1, <1>2
<1>5. /\ hlls' \in [Keys -> HllEntry]
      /\ hlls'[k].sketch = hlls[k].sketch \cup {v} /\ hlls'[k].count = hlls[k].count + 1
      /\ \A j \in Keys \ {k} : hlls'[j] = hlls[j]
  BY <1>1, <1>2, AddValueFacts
<1> HIDE DEF after
<1>6. /\ loop' \in Loops /\ loop'.log = r /\ loop'.todo \subseteq Meta
      /\ \/ loop'.pc = "count" /\ loop'.todo = rest
         \/ loop'.pc = "register" /\ rest = {}
  BY <1>1, <1>2, <1>3, <1>4, StepFacts
<1>7. Stored' = Stored
  BY <1>1 DEF Stored
<1>8. LoopOK'
  BY <1>1, <1>6, <1>7, MetaFacts DEF LoopOK, Working, Meta
<1>9. Typed'
  BY <1>1, <1>5, <1>6 DEF Typed, TypeOK, HllTypeOK, Loops
<1>10. NoCure
  BY <1>1 DEF NoCure, DbOpen, Typed, TypeOK
<1>11. ASSUME NEW j \in Keys PROVE SketchOK(j)' /\ CountOK(j)'
  <2>1. SketchOK(j) /\ CountOK(j) /\ Counted(j) \in Nat /\ ValuesOf(j)' = ValuesOf(j)
    BY <1>7, CountedType DEF DerivedOK, ValuesOf
  <2>2. (Stored \cap Uses(j))' = Stored \cap Uses(j)
    BY <1>7
  <2>3. CASE j = k
    <3>1. v \in ValuesOf(k)
      BY <1>1, <1>2 DEF ValuesOf
    <3>2. SketchOK(j)'
      BY <1>1, <1>5, <2>1, <2>3, <3>1 DEF SketchOK
    <3>3. ToCount(j) = 1 /\ ToCount(j)' = 0
      BY <1>1, <1>6, <2>3 DEF ToCount
    <3>4. Counted(j)' = Counted(j) + 1
      <4>1. hlls[k].count \in Nat /\ keyRows[k].count \in Nat /\ (k \in DOMAIN toFlush => toFlush[k] \in Nat)
        BY DEF Typed, TypeOK, HllTypeOK, HllEntry, KeyRow
      <4> QED
        BY <1>1, <1>5, <2>3, <4>1 DEF Counted
    <3> QED
      BY <2>1, <2>2, <3>2, <3>3, <3>4 DEF CountOK
  <2>4. CASE j # k
    <3>1. hlls'[j] = hlls[j]
      BY <1>5, <2>4
    <3>2. SketchOK(j)' /\ Counted(j)' = Counted(j)
      BY <1>1, <2>1, <3>1 DEF SketchOK, Counted
    <3>3. ToCount(j)' = ToCount(j)
      BY <1>1, <1>6, <2>4 DEF ToCount
    <3> QED
      BY <2>1, <2>2, <3>2, <3>3 DEF CountOK
  <2> QED
    BY <2>3, <2>4
<1>12. ASSUME NEW s \in Sessions PROVE SessionOK(s)'
  <2>1. SessionOK(s) /\ SessionRows(s)' = SessionRows(s)
    BY <1>7 DEF DerivedOK, SessionRows
  <2>2. Uncounted(s)' = Uncounted(s)
    BY <1>1, <1>6, <2>1 DEF Uncounted
  <2>3. Cardinality(SessionRows(s) \ Uncounted(s))' = Cardinality(SessionRows(s) \ Uncounted(s))
    BY <2>1, <2>2
  <2> QED
    BY <1>1, <2>1, <2>3 DEF SessionOK, DbOpen
<1>13. DerivedOK'
  BY <1>7, <1>11, <1>12 DEF DerivedOK
<1>14. FlushOK' /\ ProcOK' /\ OncePlaced' /\ NoSilentLoss'
  <2>1. Queued' = Queued
    BY <1>1 DEF Queued
  <2> QED
    BY <1>1, <1>6, <1>7, <2>1 DEF FlushOK, ProcOK, OncePlaced, NoSilentLoss, DbOpen
<1> QED
  BY <1>8, <1>9, <1>13, <1>14

LEMMA RegisterMetadataKeyStep ==
    ASSUME IInv, NEW k \in Keys, RegisterMetadataKey(k) PROVE IInv'
<1> USE DEF IInv
<1> DEFINE rest == loop.todo \ {k}
<1>1. /\ UNCHANGED <<hlls, flusher, toFlush, hllLoaded, handler, logChan, proc, rows, details, sessions, deaths>>
      /\ proc # "down" /\ loop.pc = "register" /\ loop \in Loops /\ loop.log \in Requests
      /\ k \in loop.todo /\ loop.todo \subseteq Meta /\ loop.log \in Stored
      /\ loop' = Step("register", rest, ToClaude)
  BY InLoop DEF RegisterMetadataKey, LoopOK, Working, Meta
<1>2. keyRows' \in [Keys -> KeyRow]
      /\ \A j \in Keys : keyRows'[j].sketch = keyRows[j].sketch /\ keyRows'[j].count = keyRows[j].count
  <2>1. CASE RegisterKey(k)
    BY <2>1, RegisterKeyFacts
  <2>2. CASE UNCHANGED keyRows
    BY <2>2 DEF Typed, TypeOK, HllTypeOK
  <2> QED
    BY <2>1, <2>2 DEF RegisterMetadataKey
<1>3. NoCure
  BY <1>1, FailureFacts DEF RegisterMetadataKey
<1>4. rest \in SUBSET Keys /\ rest \subseteq Meta /\ ToClaude \in Loops
  BY <1>1, MetaFacts, ToClaudeFacts DEF Meta
<1>5. /\ loop' \in Loops
      /\ \/ loop'.pc = "register" /\ loop'.log = loop.log /\ loop'.todo = rest
         \/ loop'.pc = "detail" /\ loop'.log = loop.log /\ loop.log \in Claude
         \/ loop'.pc = "select" /\ loop'.log = None /\ loop.log \notin Claude
  BY <1>1, <1>4, StepFacts, ToClaudeFacts, FinishedFacts
<1>6. Stored' = Stored /\ loop.log # None
  BY <1>1, MetaFacts DEF Stored
<1>7. LoopOK'
  BY <1>1, <1>4, <1>5, <1>6 DEF LoopOK, Working, Meta
<1>8. Typed'
  BY <1>1, <1>2, <1>3, <1>5 DEF Typed, TypeOK, HllTypeOK, Loops, NoCure
<1>9. \A j \in Keys : ToCount(j)' = ToCount(j)
  BY <1>1, <1>5 DEF ToCount
<1>10. ASSUME NEW s \in Sessions PROVE Uncounted(s)' = Uncounted(s)
  <2>1. SessionRows(s)' = SessionRows(s) /\ (loop.log \notin Claude => loop.log \notin SessionRows(s))
    BY <1>6 DEF SessionRows
  <2> QED
    BY <1>1, <1>5, <2>1 DEF Uncounted
<1>11. DerivedOK'
  BY <1>1, <1>2, <1>3, <1>9, <1>10, DerivedKept
<1> QED
  BY <1>1, <1>3, <1>5, <1>7, <1>8, <1>11, LoopMoves

LEMMA UpdateSessionStatsStep == ASSUME IInv, UpdateSessionStats PROVE IInv'
<1> USE DEF IInv
<1> DEFINE r == loop.log
           t == SessionOf(r)
<1>1. /\ UNCHANGED <<hllVars, handler, logChan, proc, rows, details, deaths>>
      /\ proc # "down" /\ loop.pc = "stats" /\ loop \in Loops /\ r \in Requests /\ r \in Stored \cap Claude
      /\ t \in Sessions /\ loop' = Finished
      /\ \/ DbOpen /\ sessions' = [sessions EXCEPT ![t] = @ + 1] /\ UNCHANGED faults
         \/ StatementFails /\ UNCHANGED sessions
  BY InLoop DEF UpdateSessionStats, LoopOK, Working
<1>2. NoCure /\ (StatementFails => ~(faults' = 0 /\ deaths' = 0 /\ DbOpen'))
  BY <1>1, FailureFacts
<1>3. loop' \in Loops /\ loop'.pc = "select" /\ loop'.log = None
  BY <1>1, FinishedFacts
<1>4. Stored' = Stored
  BY <1>1 DEF Stored
<1>5. LoopOK'
  BY <1>3 DEF LoopOK, Working
<1>6. sessions \in [Sessions -> Nat] /\ sessions' \in [Sessions -> Nat]
  BY <1>1 DEF Typed, TypeOK
<1>7. Typed'
  BY <1>1, <1>2, <1>3, <1>6 DEF Typed, TypeOK, HllTypeOK, hllVars, Loops, NoCure
<1>8. ASSUME NEW k \in Keys PROVE SketchOK(k)' /\ CountOK(k)'
  <2>1. SketchOK(k) /\ CountOK(k) /\ ValuesOf(k)' = ValuesOf(k) /\ (Stored \cap Uses(k))' = Stored \cap Uses(k)
    BY <1>4 DEF DerivedOK, ValuesOf
  <2>2. Counted(k)' = Counted(k) /\ ToCount(k)' = ToCount(k)
    BY <1>1, <1>3 DEF Counted, ToCount, hllVars
  <2> QED
    BY <1>1, <2>1, <2>2 DEF SketchOK, CountOK, hllVars
<1>9. IsFiniteSet(Stored)
  BY DEF DerivedOK
<1>10. ASSUME NEW s \in Sessions PROVE SessionOK(s)'
  <2> DEFINE old == SessionRows(s) \ Uncounted(s)
  <2>1. SessionOK(s) /\ SessionRows(s)' = SessionRows(s) /\ Uncounted(s)' = {}
    BY <1>3, <1>4 DEF DerivedOK, SessionRows, Uncounted
  <2>2. IsFiniteSet(SessionRows(s)) /\ IsFiniteSet(old) /\ Cardinality(old) \in Nat
    <3>1. SessionRows(s) \in SUBSET (Stored \cap Claude)
      BY DEF SessionRows
    <3>2. old \in SUBSET (Stored \cap Claude)
      BY <3>1
    <3> HIDE DEF old
    <3> QED
      BY <1>9, <3>1, <3>2, FiniteParts
  <2>3. CASE s = t
    <3>1. r \in SessionRows(s) /\ Uncounted(s) = {r}
      BY <1>1, <2>3 DEF SessionRows, Uncounted
    <3>2. SessionRows(s) = old \cup {r} /\ r \notin old
      BY <3>1
    <3>3. Cardinality(SessionRows(s)) = Cardinality(old) + 1
      <4> HIDE DEF old
      <4> QED
        BY <2>2, <3>2, FS_AddElement
    <3>4. Cardinality(SessionRows(s) \ Uncounted(s))' = Cardinality(old) + 1
      <4>1. (SessionRows(s) \ Uncounted(s))' = SessionRows(s)
        BY <2>1
      <4> QED
        BY <3>3, <4>1
    <3>5. \/ sessions'[s] = sessions[s] + 1 /\ UNCHANGED faults /\ DbOpen
          \/ sessions'[s] = sessions[s] /\ StatementFails
      BY <1>1, <1>6, <2>3
    <3> QED
      BY <1>1, <1>2, <1>6, <2>1, <2>2, <3>4, <3>5 DEF SessionOK, DbOpen
  <2>4. CASE s # t
    <3>1. r \notin SessionRows(s) /\ Uncounted(s) = {}
      BY <2>4 DEF SessionRows, Uncounted
    <3>2. Cardinality(SessionRows(s) \ Uncounted(s))' = Cardinality(old)
      BY <2>1, <3>1
    <3>3. sessions'[s] = sessions[s]
      BY <1>1, <1>6, <2>4
    <3> QED
      BY <1>1, <1>2, <2>1, <3>2, <3>3 DEF SessionOK, NoCure
  <2> QED
    BY <2>3, <2>4
<1>11. DerivedOK'
  BY <1>4, <1>8, <1>9, <1>10 DEF DerivedOK
<1> QED
  BY <1>1, <1>2, <1>3, <1>5, <1>7, <1>11, LoopMoves DEF hllVars
-----------------------------------------------------------------------------
(***************************************************************************)
(* The flush loop.                                                         *)
(***************************************************************************)
\* A step of the flush loop or of the start of a process, which concerns the sketches.
LEMMA SketchesMove ==
    ASSUME IInv, UNCHANGED <<handler, logChan, loop, rows, details, sessions, deaths>>, NoCure,
           proc' = proc \/ (proc = "down" /\ proc' = "running" /\ deaths <= MaxDeaths),
           hlls' \in [Keys -> HllEntry], keyRows' \in [Keys -> KeyRow], toFlush' \in Counts,
           flusher' \in {"idle", "writing", "last", "stopped"}, hllLoaded' \in BOOLEAN,
           flusher' \in {"idle", "stopped"} => DOMAIN toFlush' = {},
           \A k \in Keys :
              /\ keyRows'[k].sketch \subseteq keyRows[k].sketch \cup hlls[k].sketch
              /\ hlls'[k].sketch \subseteq keyRows[k].sketch \cup hlls[k].sketch
              /\ hllLoaded' => keyRows'[k].sketch \subseteq hlls'[k].sketch
              /\ Counted(k)' <= Counted(k) /\ Counted(k)' \in Nat
    PROVE  IInv'
<1> USE DEF IInv
<1>1. Stored' = Stored /\ Queued' = Queued
  BY DEF Stored, Queued
<1>2. DOMAIN toFlush' \subseteq Keys /\ \A k \in DOMAIN toFlush' : toFlush'[k] \in Nat
  BY DEF Counts
<1>3. proc' \in ProcStates
  BY DEF Typed, TypeOK, ProcStates
<1>4. Typed'
  BY <1>2, <1>3 DEF Typed, TypeOK, HllTypeOK, NoCure
<1>5. FlushOK' /\ LoopOK' /\ OncePlaced'
  BY <1>1 DEF FlushOK, LoopOK, OncePlaced
<1>6. ProcOK'
  BY DEF ProcOK
<1>7. NoSilentLoss'
  BY <1>1 DEF NoSilentLoss, NoCure
<1>8. ASSUME NEW k \in Keys PROVE SketchOK(k)' /\ CountOK(k)'
  <2>1. SketchOK(k) /\ CountOK(k) /\ ValuesOf(k)' = ValuesOf(k) /\ (Stored \cap Uses(k))' = Stored \cap Uses(k)
    BY <1>1 DEF DerivedOK, ValuesOf
  <2>2. ToCount(k)' = ToCount(k) /\ Counted(k) \in Nat /\ ToCount(k) \in Nat
    BY CountedType DEF ToCount
  <2>3. Cardinality(Stored \cap Uses(k)) \in Nat
    BY FiniteParts DEF DerivedOK
  <2>4. CountOK(k)'
    <3>1. Counted(k)' <= Counted(k) /\ Counted(k)' \in Nat
      OBVIOUS
    <3>2. Cardinality(Stored \cap Uses(k))' = Cardinality(Stored \cap Uses(k))
      BY <2>1
    <3> QED
      BY <2>1, <2>2, <2>3, <3>1, <3>2 DEF CountOK
  <2> QED
    BY <2>1, <2>4 DEF SketchOK
<1>9. ASSUME NEW s \in Sessions PROVE SessionOK(s)'
  <2>1. SessionOK(s) /\ SessionRows(s)' = SessionRows(s) /\ Uncounted(s)' = Uncounted(s)
    BY <1>1 DEF DerivedOK, SessionRows, Uncounted
  <2>2. Cardinality(SessionRows(s) \ Uncounted(s))' = Cardinality(SessionRows(s) \ Uncounted(s))
    BY <2>1
  <2> QED
    BY <2>1, <2>2 DEF SessionOK, NoCure
<1>10. DerivedOK'
  BY <1>1, <1>8, <1>9 DEF DerivedOK
<1> QED
  BY <1>4, <1>5, <1>6, <1>7, <1>10

LEMMA TakeDirtyStep == ASSUME IInv, Flusher, FlushTick \/ FlushLast PROVE IInv'
<1> USE DEF IInv
<1>1. /\ UNCHANGED <<handler, logChan, loop, proc, rows, details, sessions, deaths, keyRows, hllLoaded, faults>>
      /\ proc # "down" /\ flusher = "idle" /\ TakeDirty /\ DOMAIN toFlush = {}
      /\ flusher' \in {"writing", "last", "stopped"} /\ (flusher' = "stopped" => Dirty = {})
  BY DEF Flusher, FlushTick, FlushLast, AfterDone, FlushOK
<1>2. /\ hlls' \in [Keys -> HllEntry] /\ toFlush' \in Counts /\ DOMAIN toFlush' = Dirty
      /\ \A k \in Keys : hlls'[k].sketch = hlls[k].sketch
      /\ \A k \in Dirty : toFlush'[k] = hlls[k].count /\ hlls'[k].count = 0
      /\ \A k \in Keys \ Dirty : hlls'[k].count = hlls[k].count
  BY <1>1, TakeDirtyFacts
<1>3. NoCure
  BY <1>1 DEF NoCure, DbOpen, Typed, TypeOK
<1>4. keyRows \in [Keys -> KeyRow] /\ hlls \in [Keys -> HllEntry] /\ hllLoaded \in BOOLEAN
  BY DEF Typed, TypeOK, HllTypeOK
<1>5. ASSUME NEW k \in Keys
      PROVE  /\ keyRows'[k].sketch \subseteq keyRows[k].sketch \cup hlls[k].sketch
             /\ hlls'[k].sketch \subseteq keyRows[k].sketch \cup hlls[k].sketch
             /\ hllLoaded' => keyRows'[k].sketch \subseteq hlls'[k].sketch
             /\ Counted(k)' <= Counted(k) /\ Counted(k)' \in Nat
  <2>1. SketchOK(k)
    BY DEF DerivedOK
  <2>2. hlls[k].count \in Nat /\ keyRows[k].count \in Nat
    BY <1>4 DEF HllEntry, KeyRow
  <2>3. Counted(k)' = Counted(k)
    BY <1>1, <1>2, <2>2 DEF Counted
  <2> QED
    BY <1>1, <1>2, <2>1, <2>3, CountedType DEF SketchOK
<1>6. flusher' \in {"idle", "stopped"} => DOMAIN toFlush' = {}
  BY <1>1, <1>2
<1>7. keyRows' \in [Keys -> KeyRow] /\ hllLoaded' \in BOOLEAN /\ flusher' \in {"idle", "writing", "last", "stopped"}
  BY <1>1, <1>4, Zenon
<1> QED
  BY <1>1, <1>2, <1>3, <1>5, <1>6, <1>7, SketchesMove

LEMMA FlushRowStep == ASSUME IInv, Flusher, NEW k \in Keys, FlushRow(k) PROVE IInv'
<1> USE DEF IInv
<1>1. /\ UNCHANGED <<handler, logChan, loop, proc, rows, details, sessions, deaths, hlls, hllLoaded>>
      /\ proc # "down" /\ (UNCHANGED faults \/ Fault)
  BY DEF Flusher, FlushRow, FlushTick, FlushLast
<1>2. /\ k \in DOMAIN toFlush /\ toFlush[k] \in Nat
      /\ toFlush' \in Counts /\ DOMAIN toFlush' = DOMAIN toFlush \ {k}
      /\ \A j \in DOMAIN toFlush' : toFlush'[j] = toFlush[j]
      /\ keyRows' \in [Keys -> KeyRow]
      /\ \A j \in Keys \ {k} : keyRows'[j] = keyRows[j]
      /\ \/ keyRows'[k] = keyRows[k]
         \/ keyRows'[k].sketch = hlls[k].sketch /\ keyRows'[k].count = keyRows[k].count + toFlush[k]
  BY FlushRowFacts
<1>3. NoCure
  BY <1>1, FaultFacts DEF NoCure, DbOpen, Typed, TypeOK
<1>4. keyRows \in [Keys -> KeyRow] /\ hlls \in [Keys -> HllEntry] /\ hllLoaded \in BOOLEAN
  BY DEF Typed, TypeOK, HllTypeOK
<1>5. /\ flusher' \in {"idle", "writing", "last", "stopped"}
      /\ flusher' \in {"idle", "stopped"} => DOMAIN toFlush' = {}
  <2>1. flusher \in {"writing", "last"}
    BY <1>2 DEF FlushOK, Typed, TypeOK, HllTypeOK
  <2>2. flusher' = flusher \/ (flusher' \in {"idle", "stopped"} /\ DOMAIN toFlush = {k})
    BY DEF FlushRow
  <2> QED
    BY <1>2, <2>1, <2>2
<1>6. ASSUME NEW j \in Keys
      PROVE  /\ keyRows'[j].sketch \subseteq keyRows[j].sketch \cup hlls[j].sketch
             /\ hlls'[j].sketch \subseteq keyRows[j].sketch \cup hlls[j].sketch
             /\ hllLoaded' => keyRows'[j].sketch \subseteq hlls'[j].sketch
             /\ Counted(j)' <= Counted(j) /\ Counted(j)' \in Nat
  <2>1. SketchOK(j)
    BY DEF DerivedOK
  <2>2. /\ hlls[j].count \in Nat /\ keyRows[j].count \in Nat
        /\ j \in DOMAIN toFlush => toFlush[j] \in Nat
    BY <1>4 DEF HllEntry, KeyRow, Typed, TypeOK, HllTypeOK
  <2>3. Counted(j)' <= Counted(j) /\ Counted(j)' \in Nat
    <3>1. CASE j = k
      <4>1. Counted(j) = keyRows[j].count + toFlush[k] + hlls[j].count
        BY <1>1, <1>2, <3>1 DEF Counted
      <4>2. Counted(j)' = keyRows'[j].count + 0 + hlls[j].count
        BY <1>1, <1>2, <3>1 DEF Counted
      <4>3. keyRows'[j].count = keyRows[j].count \/ keyRows'[j].count = keyRows[j].count + toFlush[k]
        BY <1>2, <3>1
      <4> QED
        BY <1>2, <2>2, <4>1, <4>2, <4>3
    <3>2. CASE j # k
      <4>1. Counted(j)' = Counted(j)
        BY <1>1, <1>2, <3>2 DEF Counted
      <4> QED
        BY <4>1, CountedType
    <3> QED
      BY <3>1, <3>2
  <2>4. keyRows'[j] = keyRows[j] \/ keyRows'[j].sketch = hlls[j].sketch
    BY <1>2
  <2> QED
    BY <1>1, <2>1, <2>3, <2>4 DEF SketchOK
<1>7. hlls' \in [Keys -> HllEntry] /\ hllLoaded' \in BOOLEAN
  BY <1>1, <1>4, Zenon
<1> QED
  BY <1>1, <1>2, <1>3, <1>5, <1>6, <1>7, SketchesMove
-----------------------------------------------------------------------------
(***************************************************************************)
(* The process.                                                            *)
(***************************************************************************)
LEMMA AdvanceSteps ==
    ASSUME IInv, Shutdown \/ HttpDrained \/ CloseDone \/ HllStopped \/ CloseDb PROVE IInv'
<1> USE DEF IInv
<1>1. /\ UNCHANGED <<hllVars, handler, logChan, loop, rows, details, sessions, deaths>>
      /\ proc # "down" /\ proc' # "down" /\ proc' \in ProcStates /\ (DbOpen' => DbOpen)
      /\ UNCHANGED faults \/ Fault
  BY DEF Shutdown, HttpDrained, CloseDone, HllStopped, CloseDb, Advance, ProcStates, DbOpen
<1>2. NoCure
  BY <1>1, FaultFacts DEF NoCure, Typed, TypeOK
<1>3. Typed'
  BY <1>1, <1>2, TypedKept, InLoop DEF Typed, TypeOK, NoCure
<1>4. Stored' = Stored /\ Queued' = Queued
  BY <1>1 DEF Stored, Queued
<1>5. FlushOK' /\ LoopOK' /\ OncePlaced' /\ ProcOK'
  BY <1>1, <1>4 DEF FlushOK, LoopOK, OncePlaced, ProcOK, hllVars
<1>6. NoSilentLoss'
  BY <1>1, <1>2, <1>4 DEF NoSilentLoss, NoCure
<1>7. DerivedOK'
  BY <1>1, <1>2, NothingInHand, DerivedKept DEF hllVars
<1> QED
  BY <1>3, <1>5, <1>6, <1>7

LEMMA DieStep == ASSUME IInv, Exit \/ Crash PROVE IInv'
<1> USE DEF IInv
<1>1. Die /\ proc # "down" /\ deaths \in 0..MaxDeaths /\ deaths' = deaths + 1 /\ MaxDeaths \in Nat
  BY RequestLogAssumption DEF Exit, Crash, Die, ProcOK, Typed, TypeOK
<1>2. /\ UNCHANGED <<hllVars, faults, rows, details, sessions>>
      /\ proc' = "down" /\ logChan' = <<>> /\ loop' = Idle
      /\ handler' = [r \in Requests |-> IF handler[r] \in {"serving", "logging"} THEN "gone" ELSE handler[r]]
  BY <1>1 DEF Die
<1>3. Idle \in Loops /\ Idle.pc = "select" /\ Idle.log = None
  BY DEF Idle, Loops
<1>4. deaths' \in 0..(MaxDeaths + 1) /\ deaths' # 0
  BY <1>1
<1>5. logChan' \in Seq(Requests) /\ Len(logChan') <= ChanCap /\ Elems(logChan') = {} /\ Distinct(logChan')
  BY <1>2, EmptyElems, RequestLogAssumption
<1>6. /\ handler' \in [Requests -> {"new", "serving", "logging", "returned", "dropped", "gone"}]
      /\ \A r \in Requests : handler[r] = "returned" => handler'[r] = "returned"
  BY <1>2 DEF Typed, TypeOK
<1>7. Typed'
  BY <1>2, <1>3, <1>4, <1>5, <1>6, TypedKept DEF Typed, TypeOK, ProcStates
<1>8. Stored' = Stored /\ Stored \subseteq Requests /\ Queued' = {}
  BY <1>2, <1>5 DEF Stored, Queued, Elems, Typed, TypeOK
<1>9. FlushOK' /\ LoopOK' /\ ProcOK'
  BY <1>2, <1>3, <1>4, RequestLogAssumption DEF FlushOK, LoopOK, ProcOK, hllVars, Working
<1>10. OncePlaced'
  BY <1>2, <1>3, <1>5, <1>6, <1>8 DEF OncePlaced
<1>11. NoSilentLoss' /\ ~(faults' = 0 /\ deaths' = 0 /\ DbOpen')
  BY <1>4 DEF NoSilentLoss
<1>12. ASSUME NEW k \in Keys PROVE SketchOK(k)' /\ CountOK(k)'
  <2>1. SketchOK(k) /\ CountOK(k) /\ ValuesOf(k)' = ValuesOf(k) /\ (Stored \cap Uses(k))' = Stored \cap Uses(k)
    BY <1>8 DEF DerivedOK, ValuesOf
  <2>2. /\ hlls[k].count \in Nat /\ keyRows[k].count \in Nat
        /\ k \in DOMAIN toFlush => toFlush[k] \in Nat
    BY DEF HllEntry, KeyRow, Typed, TypeOK, HllTypeOK
  <2>3. Counted(k)' = keyRows[k].count /\ ToCount(k)' = 0
    BY <1>2, <1>3, <2>2 DEF Counted, ToCount, hllVars
  <2>4. keyRows[k].count <= Counted(k) /\ Counted(k) \in Nat /\ ToCount(k) \in Nat
    BY <2>2, CountedType DEF Counted, ToCount
  <2>5. Cardinality(Stored \cap Uses(k))' = Cardinality(Stored \cap Uses(k)) /\ Cardinality(Stored \cap Uses(k)) \in Nat
    BY <2>1, FiniteParts DEF DerivedOK
  <2>6. CountOK(k)'
    BY <2>1, <2>2, <2>3, <2>4, <2>5 DEF CountOK
  <2> QED
    BY <1>2, <2>1, <2>6 DEF SketchOK, hllVars
<1>13. ASSUME NEW s \in Sessions PROVE SessionOK(s)'
  <2> DEFINE old == SessionRows(s) \ Uncounted(s)
  <2>1. SessionOK(s) /\ SessionRows(s)' = SessionRows(s) /\ Uncounted(s)' = {} /\ sessions'[s] = sessions[s]
    BY <1>2, <1>3, <1>8 DEF DerivedOK, SessionRows, Uncounted
  <2>2. SessionRows(s) \in SUBSET (Stored \cap Claude)
    BY DEF SessionRows
  <2>3. IsFiniteSet(SessionRows(s)) /\ Cardinality(SessionRows(s)) \in Nat
    BY <2>2, FiniteParts DEF DerivedOK
  <2>4. Cardinality(old) <= Cardinality(SessionRows(s)) /\ Cardinality(old) \in Nat
    BY <2>3, FS_Subset, FS_CardinalityType
  <2>5. Cardinality(SessionRows(s) \ Uncounted(s))' = Cardinality(SessionRows(s))
    <3>1. (SessionRows(s) \ Uncounted(s))' = SessionRows(s)
      BY <2>1
    <3> QED
      BY <3>1
  <2>6. sessions[s] \in Nat
    BY DEF Typed, TypeOK
  <2> QED
    BY <1>11, <2>1, <2>3, <2>4, <2>5, <2>6 DEF SessionOK
<1>14. DerivedOK'
  BY <1>8, <1>12, <1>13 DEF DerivedOK
<1> QED
  BY <1>7, <1>9, <1>10, <1>11, <1>14

LEMMA RestartStep == ASSUME IInv, Restart PROVE IInv'
<1> USE DEF IInv
<1>1. /\ UNCHANGED <<handler, logChan, loop, rows, details, sessions, deaths, keyRows>>
      /\ proc = "down" /\ proc' = "running" /\ deaths <= MaxDeaths /\ deaths # 0
      /\ UNCHANGED faults \/ Fault
      /\ flusher' = "idle" /\ toFlush' = <<>>
  BY DEF Restart, HllStart, ProcOK
<1>2. NoCure
  BY <1>1, FaultFacts DEF NoCure, Typed, TypeOK
<1>3. toFlush' \in Counts /\ DOMAIN toFlush' = {}
  <2>1. toFlush' \in [{} -> Nat] /\ DOMAIN toFlush' = {}
    BY <1>1
  <2>2. {} \in SUBSET Keys
    OBVIOUS
  <2> QED
    BY <2>1, <2>2 DEF Counts
<1>4. PICK S \in SUBSET Keys : hlls' = Loaded(S) /\ hllLoaded' \in BOOLEAN /\ (hllLoaded' => S = Keys)
  <2>1. Keys \in SUBSET Keys /\ TRUE \in BOOLEAN /\ FALSE \in BOOLEAN
    OBVIOUS
  <2>2. CASE hlls' = Loaded(Keys) /\ hllLoaded' = TRUE
    BY <2>1, <2>2
  <2>3. CASE (\E S \in SUBSET Keys : hlls' = Loaded(S)) /\ hllLoaded' = FALSE
    BY <2>1, <2>3
  <2> QED
    BY <2>2, <2>3, Zenon DEF Restart, HllStart
<1>5. /\ hlls' \in [Keys -> HllEntry]
      /\ \A k \in Keys : hlls'[k].count = 0 /\ hlls'[k].sketch \subseteq keyRows[k].sketch
      /\ \A k \in S : hlls'[k].sketch = keyRows[k].sketch
  BY <1>4, LoadedFacts
<1>6. keyRows \in [Keys -> KeyRow]
  BY DEF Typed, TypeOK, HllTypeOK
<1>7. ASSUME NEW k \in Keys
      PROVE  /\ keyRows'[k].sketch \subseteq keyRows[k].sketch \cup hlls[k].sketch
             /\ hlls'[k].sketch \subseteq keyRows[k].sketch \cup hlls[k].sketch
             /\ hllLoaded' => keyRows'[k].sketch \subseteq hlls'[k].sketch
             /\ Counted(k)' <= Counted(k) /\ Counted(k)' \in Nat
  <2>1. keyRows[k].count \in Nat
    BY <1>6 DEF KeyRow
  <2>2. Counted(k) = keyRows[k].count
    BY <1>1, <2>1 DEF Counted
  <2>3. Counted(k)' = keyRows[k].count
    BY <1>1, <1>3, <1>5, <2>1 DEF Counted
  <2> QED
    BY <1>1, <1>4, <1>5, <2>1, <2>2, <2>3
<1>8. keyRows' \in [Keys -> KeyRow]
  BY <1>1, <1>6
<1>9. hllLoaded' \in BOOLEAN
  BY <1>4
<1> QED
  BY <1>1, <1>2, <1>3, <1>5, <1>7, <1>8, <1>9, SketchesMove
-----------------------------------------------------------------------------
LEMMA StutterStep == ASSUME IInv, UNCHANGED vars PROVE IInv'
<1> USE DEF IInv, vars, logVars
<1>1. NoCure
  BY DEF NoCure, DbOpen, Typed, TypeOK
<1>2. Typed'
  BY TypedKept, InLoop DEF Typed, TypeOK
<1>3. Stored' = Stored /\ Queued' = Queued
  BY DEF Stored, Queued
<1>4. FlushOK' /\ LoopOK' /\ OncePlaced' /\ ProcOK' /\ NoSilentLoss'
  BY <1>1, <1>3 DEF FlushOK, LoopOK, OncePlaced, ProcOK, NoSilentLoss, NoCure, hllVars
<1>5. DerivedOK'
  BY <1>1, NothingInHand, DerivedKept DEF hllVars
<1> QED
  BY <1>2, <1>4, <1>5

\* The invariant holds at the start, when nothing is stored.
THEOREM InitIInv == Init => IInv
<1> SUFFICES ASSUME Init PROVE IInv
  OBVIOUS
<1> USE RequestLogAssumption, MaxFaultsAssumption DEF Init, HllInit
<1>1. NoEntry \in HllEntry /\ NoEntry.count = 0 /\ NoEntry.sketch = {}
  BY DEF NoEntry, HllEntry
<1>2. NoRow \in KeyRow /\ NoRow.count = 0 /\ NoRow.sketch = {}
  BY DEF NoRow, KeyRow
<1>3. Idle \in Loops /\ Idle.pc = "select" /\ Idle.log = None
  BY DEF Idle, Loops
<1>4. toFlush \in Counts /\ DOMAIN toFlush = {}
  <2>1. toFlush \in [{} -> Nat] /\ DOMAIN toFlush = {}
    OBVIOUS
  <2>2. {} \in SUBSET Keys
    OBVIOUS
  <2> QED
    BY <2>1, <2>2 DEF Counts
<1>5. Typed
  BY <1>1, <1>2, <1>3, <1>4, EmptyElems DEF Typed, TypeOK, HllTypeOK, ProcStates, Loops
<1>6. Stored = {} /\ Queued = {} /\ Distinct(rows) /\ Distinct(logChan)
  BY EmptyElems DEF Stored, Queued, Elems
<1>7. FlushOK /\ LoopOK /\ OncePlaced /\ ProcOK /\ NoSilentLoss
  BY <1>3, <1>4, <1>6 DEF FlushOK, LoopOK, OncePlaced, ProcOK, NoSilentLoss, Working
<1>8. \A k \in Keys : SketchOK(k) /\ CountOK(k)
  <2> TAKE k \in Keys
  <2>1. Stored \cap Uses(k) = {} /\ Cardinality(Stored \cap Uses(k)) = 0
    BY <1>6, FS_EmptySet
  <2>2. Counted(k) = 0 /\ ToCount(k) = 0
    BY <1>1, <1>2, <1>3, <1>4 DEF Counted, ToCount
  <2> QED
    BY <1>1, <1>2, <2>1, <2>2 DEF SketchOK, CountOK
<1>9. \A s \in Sessions : SessionOK(s)
  <2> TAKE s \in Sessions
  <2>1. SessionRows(s) \ Uncounted(s) = {}
    BY <1>6 DEF SessionRows
  <2>2. Cardinality(SessionRows(s) \ Uncounted(s)) = 0
    BY <2>1, FS_EmptySet
  <2> QED
    BY <2>2 DEF SessionOK
<1>10. DerivedOK
  BY <1>6, <1>8, <1>9, FS_EmptySet DEF DerivedOK
<1> QED
  BY <1>5, <1>7, <1>10 DEF IInv

\* Every step preserves it.
THEOREM NextIInv == IInv /\ [Next]_vars => IInv'
<1> SUFFICES ASSUME IInv, [Next]_vars PROVE IInv'
  OBVIOUS
<1>1. CASE \E r \in Requests : Arrive(r) \/ LogAndFinish(r) \/ WriteRequestLog(r)
  BY <1>1, HandlerSteps, WriteRequestLogStep
<1>2. CASE WriteLoop
  BY <1>2, ReceiveStep, SelectSteps, InsertStep, CreateDetailStep, UpdateSessionStatsStep,
     CountKeyStep, RegisterMetadataKeyStep DEF WriteLoop
<1>3. CASE Flusher
  BY <1>3, TakeDirtyStep, FlushRowStep DEF Flusher
<1>4. CASE Shutdown \/ Closing \/ Crash \/ Restart
  BY <1>4, AdvanceSteps, DieStep, RestartStep DEF Closing
<1>5. CASE UNCHANGED vars
  BY <1>5, StutterStep
<1> QED
  BY <1>1, <1>2, <1>3, <1>4, <1>5 DEF Next

\* It implies the invariants that the runs check.
THEOREM IInvImplies == IInv => TypeOK /\ NoSilentLoss /\ DerivedMatchesLog /\ Distinct(rows)
<1> SUFFICES ASSUME IInv PROVE TypeOK /\ NoSilentLoss /\ DerivedMatchesLog /\ Distinct(rows)
  OBVIOUS
<1> USE DEF IInv
<1>1. ASSUME NEW k \in Keys PROVE Counted(k) <= Cardinality(Stored \cap Uses(k))
  <2>1. CountOK(k) /\ Counted(k) \in Nat /\ ToCount(k) \in {0, 1} /\ Cardinality(Stored \cap Uses(k)) \in Nat
    BY CountedType, FiniteParts DEF DerivedOK
  <2> QED
    BY <2>1 DEF CountOK
<1>2. DerivedMatchesLog
  BY <1>1 DEF DerivedMatchesLog, DerivedOK, SessionOK, SketchOK, ValuesOf
<1> QED
  BY <1>2 DEF Typed, OncePlaced
-----------------------------------------------------------------------------
(***************************************************************************)
(* The request log implements a first-in first-out log.                    *)
(***************************************************************************)
LEMMA ConcatFacts ==
    ASSUME NEW e \in Requests, NEW s \in Seq(Requests)
    PROVE  /\ <<e>> \o s # <<>> /\ Head(<<e>> \o s) = e /\ Tail(<<e>> \o s) = s
           /\ <<>> \o s = s
           /\ \A f \in Requests : Append(<<e>> \o s, f) = <<e>> \o Append(s, f)
           /\ s # <<>> => <<Head(s)>> \o Tail(s) = s
           /\ Elems(<<e>> \o s) = {e} \cup Elems(s)
<1> DEFINE t == <<e>> \o s
<1>1. /\ t \in Seq(Requests) /\ Len(t) = Len(s) + 1 /\ t # <<>> /\ t[1] = e /\ Len(s) \in Nat
      /\ \A i \in 1..Len(s) : t[i + 1] = s[i]
  OBVIOUS
<1>2. Head(t) = e
  BY <1>1
<1>3. Tail(t) = s
  <2>1. Tail(t) \in Seq(Requests) /\ Len(Tail(t)) = Len(s) /\ \A i \in 1..Len(s) : Tail(t)[i] = t[i + 1]
    BY <1>1, HeadTailProperties
  <2> QED
    BY <1>1, <2>1, SeqEqual
<1>4. <<>> \o s = s
  BY ConcatEmptySeq
<1>5. ASSUME NEW f \in Requests PROVE Append(t, f) = <<e>> \o Append(s, f)
  <2>1. <<e>> \in Seq(Requests) /\ <<f>> \in Seq(Requests)
    OBVIOUS
  <2>2. Append(t, f) = t \o <<f>> /\ Append(s, f) = s \o <<f>>
    BY <1>1, AppendIsConcat
  <2> QED
    BY <2>1, <2>2, ConcatAssociative
<1>6. ASSUME s # <<>> PROVE <<Head(s)>> \o Tail(s) = s
  <2> DEFINE u == <<Head(s)>> \o Tail(s)
  <2>1. /\ Head(s) \in Requests /\ Head(s) = s[1] /\ Tail(s) \in Seq(Requests) /\ Len(Tail(s)) = Len(s) - 1
        /\ \A i \in 1..(Len(s) - 1) : Tail(s)[i] = s[i + 1]
    BY <1>6, HeadTailProperties
  <2>2. /\ u \in Seq(Requests) /\ Len(u) = 1 + Len(Tail(s))
        /\ \A i \in 1..(1 + Len(Tail(s))) : u[i] = IF i <= 1 THEN Head(s) ELSE Tail(s)[i - 1]
    <3>1. <<Head(s)>> \in Seq(Requests) /\ Len(<<Head(s)>>) = 1 /\ <<Head(s)>>[1] = Head(s)
      BY <2>1
    <3> HIDE DEF u
    <3> QED
      BY <2>1, <3>1, ConcatProperties DEF u
  <2> HIDE DEF u
  <2>3. Len(s) \in Nat
    BY <1>1
  <2>4. ASSUME NEW i \in 1..Len(u) PROVE u[i] = s[i]
    <3>1. i = 1 \/ (i - 1 \in 1..(Len(s) - 1) /\ (i - 1) + 1 = i)
      BY <2>1, <2>2, <2>3
    <3> QED
      BY <2>1, <2>2, <2>3, <3>1
  <2>5. Len(u) = Len(s)
    BY <2>1, <2>2, <2>3
  <2>6. u = s
    BY <2>2, <2>4, <2>5, SeqEqual
  <2> QED
    BY <2>6 DEF u
<1>7. Elems(t) = {e} \cup Elems(s)
  <2>1. DOMAIN t = 1..(Len(s) + 1) /\ DOMAIN s = 1..Len(s)
    BY <1>1
  <2>2. ASSUME NEW i \in DOMAIN t PROVE t[i] \in {e} \cup Elems(s)
    <3>1. i = 1 \/ (i - 1 \in DOMAIN s /\ t[i] = s[i - 1])
      BY <1>1, <2>1
    <3> QED
      BY <1>1, <3>1 DEF Elems
  <2>3. ASSUME NEW i \in DOMAIN s PROVE s[i] \in Elems(t)
    <3>1. i + 1 \in DOMAIN t /\ t[i + 1] = s[i]
      BY <1>1, <2>1
    <3> QED
      BY <3>1 DEF Elems
  <2>4. e \in Elems(t)
    BY <1>1, <2>1 DEF Elems
  <2> HIDE DEF t
  <2> QED
    BY <2>2, <2>3, <2>4 DEF Elems
<1> QED
  BY <1>1, <1>2, <1>3, <1>4, <1>5, <1>6, <1>7

InMemory == InHand \o logChan

\* What is in memory is the channel, behind the log that is being inserted.
LEMMA InMemoryFacts ==
    ASSUME Typed, LoopOK
    PROVE  /\ logChan \in Seq(Requests)
           /\ loop.pc # "insert" => InMemory = logChan
           /\ loop.pc = "insert" => loop.log \in Requests /\ InMemory = <<loop.log>> \o logChan
<1>1. logChan \in Seq(Requests)
  BY DEF Typed, TypeOK
<1>2. loop.pc = "insert" => loop.log \in Requests
  BY InLoop
<1>3. <<>> \o logChan = logChan
  BY <1>1, ConcatEmptySeq
<1> QED
  BY <1>1, <1>2, <1>3 DEF InMemory, InHand

LEMMA InMemoryElems ==
    ASSUME Typed, LoopOK
    PROVE  Elems(InMemory) = Queued \cup (IF loop.pc = "insert" THEN {loop.log} ELSE {})
<1>1. Elems(logChan) = Queued
  BY DEF Elems, Queued
<1>2. CASE loop.pc = "insert"
  <2>1. logChan \in Seq(Requests) /\ loop.log \in Requests /\ InMemory = <<loop.log>> \o logChan
    BY <1>2, InMemoryFacts
  <2>2. Elems(<<loop.log>> \o logChan) = {loop.log} \cup Elems(logChan)
    BY <2>1, ConcatFacts
  <2> QED
    BY <1>1, <1>2, <2>1, <2>2
<1>3. CASE loop.pc # "insert"
  BY <1>1, <1>3, InMemoryFacts
<1> QED
  BY <1>2, <1>3

LEMMA Accepts ==
    ASSUME IInv, IInv', NEW r \in Requests, WriteRequestLog(r)
    PROVE  Log!Accept(r) \/ UNCHANGED <<InMemory, rows>>
<1> USE DEF IInv
<1>1. UNCHANGED <<loop, rows>> /\ handler[r] = "logging"
  BY DEF WriteRequestLog
<1>2. CASE logChan' = logChan
  BY <1>1, <1>2 DEF InMemory, InHand
<1>3. CASE logChan' = Append(logChan, r)
  <2>1. InMemory' = Append(InMemory, r)
    <3>1. CASE loop.pc = "insert"
      <4>1. loop.log \in Requests /\ InMemory = <<loop.log>> \o logChan /\ logChan \in Seq(Requests)
        BY <3>1, InMemoryFacts
      <4>2. InMemory' = <<loop.log>> \o logChan'
        BY <1>1, <3>1 DEF InMemory, InHand
      <4>3. Append(<<loop.log>> \o logChan, r) = <<loop.log>> \o Append(logChan, r)
        BY <4>1, ConcatFacts
      <4> QED
        BY <1>3, <4>1, <4>2, <4>3
    <3>2. CASE loop.pc # "insert"
      <4>1. InMemory = logChan
        BY <3>2, InMemoryFacts
      <4>2. InMemory' = logChan'
        <5>1. logChan' \in Seq(Requests)
          BY DEF Typed, TypeOK
        <5> QED
          BY <1>1, <3>2, <5>1, ConcatEmptySeq DEF InMemory, InHand
      <4> QED
        BY <1>3, <4>1, <4>2
    <3> QED
      BY <3>1, <3>2
  <2>2. r \notin Elems(InMemory) /\ r \notin Stored
    BY <1>1, InMemoryElems DEF OncePlaced
  <2>3. r \notin Log!Entries(InMemory) \cup Log!Entries(rows)
    BY <2>2 DEF Log!Entries, Elems, Stored
  <2> QED
    BY <1>1, <2>1, <2>3 DEF Log!Accept, InMemory
<1> QED
  BY <1>2, <1>3 DEF WriteRequestLog, Enqueued

LEMMA Receives == ASSUME IInv, Receive PROVE UNCHANGED <<InMemory, rows>>
<1> USE DEF IInv
<1> DEFINE n == [loop EXCEPT !.pc = "insert", !.log = Head(logChan)]
<1>1. loop.pc = "select" /\ logChan # <<>> /\ logChan' = Tail(logChan) /\ loop' = n /\ UNCHANGED rows
  BY DEF Receive, Taken
<1>2. loop \in Loops /\ logChan \in Seq(Requests) /\ InMemory = logChan
  BY <1>1, InLoop, InMemoryFacts
<1>3. Head(logChan) \in Requests
  BY <1>1, <1>2, HeadTailProperties
<1>4. n.pc = "insert" /\ n.log = Head(logChan)
  BY <1>2 DEF Loops
<1> HIDE DEF n
<1>5. InMemory' = <<Head(logChan)>> \o Tail(logChan)
  BY <1>1, <1>4 DEF InMemory, InHand
<1> QED
  BY <1>1, <1>2, <1>3, <1>5, ConcatFacts

LEMMA Inserts == ASSUME IInv, IInv', Insert PROVE Log!Store \/ Log!LoseOldest
<1> USE DEF IInv
<1>1. loop.pc = "insert" /\ loop \in Loops /\ loop.log \in Requests /\ UNCHANGED logChan
      /\ logChan \in Seq(Requests) /\ InMemory = <<loop.log>> \o logChan
  BY InLoop, InMemoryFacts DEF Insert
<1>2. InMemory # <<>> /\ Head(InMemory) = loop.log /\ Tail(InMemory) = logChan
  BY <1>1, ConcatFacts
<1>3. Meta \in SUBSET Keys /\ ToClaude \in Loops /\ Finished.pc = "select"
  BY <1>1, MetaFacts, ToClaudeFacts, FinishedFacts DEF Meta
<1>4. loop'.pc # "insert"
  <2>1. ToClaude.pc # "insert"
    BY <1>1, <1>3, ToClaudeFacts
  <2>2. Step("count", Meta, ToClaude).pc # "insert"
    <3>1. "count" \in {"count", "register"}
      OBVIOUS
    <3> QED
      BY <1>1, <1>3, <2>1, <3>1, StepFacts
  <2> QED
    BY <1>3, <2>2 DEF Insert, InsertFailed
<1>5. InMemory' = logChan
  BY <1>1, <1>4, ConcatEmptySeq DEF InMemory, InHand
<1>6. rows' = Append(rows, loop.log) \/ rows' = rows
  BY DEF Insert
<1> QED
  BY <1>2, <1>5, <1>6 DEF Log!Store, Log!LoseOldest, InMemory

\* The other steps of the loop have no log to insert, before or after.
LEMMA KeepsMemory ==
    ASSUME IInv, UNCHANGED <<logChan, rows>>,
           UNCHANGED loop \/ (loop.pc # "insert" /\ loop'.pc # "insert")
    PROVE  UNCHANGED <<InMemory, rows>>
BY DEF InMemory, InHand

LEMMA LoopKeepsMemory ==
    ASSUME IInv,
           \/ SeeDone \/ LoopReturn \/ CreateDetail \/ UpdateSessionStats
           \/ \E k \in Keys : CountKey(k) \/ RegisterMetadataKey(k)
    PROVE  UNCHANGED <<InMemory, rows>>
<1> USE DEF IInv
<1>1. loop \in Loops /\ UNCHANGED <<logChan, rows>> /\ loop.pc # "insert"
  BY InLoop DEF SeeDone, LoopReturn, CreateDetail, UpdateSessionStats, CountKey, RegisterMetadataKey
<1>2. ASSUME SeeDone \/ LoopReturn \/ CreateDetail \/ UpdateSessionStats PROVE loop'.pc # "insert"
  BY <1>1, <1>2, FinishedFacts DEF SeeDone, LoopReturn, CreateDetail, UpdateSessionStats, Loops
<1>3. ASSUME NEW k \in Keys, CountKey(k) \/ RegisterMetadataKey(k) PROVE loop'.pc # "insert"
  <2> DEFINE after == [loop EXCEPT !.pc = "register", !.todo = Meta]
  <2>1. loop.log \in Requests
    BY <1>3, InLoop DEF CountKey, RegisterMetadataKey
  <2>2. Meta \in SUBSET Keys
    BY <2>1, MetaFacts DEF Meta
  <2>3. after \in Loops /\ after.pc = "register" /\ loop.todo \ {k} \in SUBSET Keys
    BY <1>1, <2>2 DEF Loops
  <2>4. ToClaude \in Loops /\ ToClaude.pc # "insert"
    BY <1>1, ToClaudeFacts, FinishedFacts
  <2>5. loop' = Step("count", loop.todo \ {k}, after) \/ loop' = Step("register", loop.todo \ {k}, ToClaude)
    BY <1>3 DEF CountKey, RegisterMetadataKey
  <2> HIDE DEF after
  <2> QED
    BY <1>1, <2>3, <2>4, <2>5, StepFacts
<1> QED
  BY <1>1, <1>2, <1>3, KeepsMemory

LEMMA Dies == ASSUME Die PROVE Log!LoseAll
<1>1. logChan' = <<>> /\ loop' = Idle /\ UNCHANGED rows
  BY DEF Die
<1>2. InHand' = <<>>
  BY <1>1 DEF InHand, Idle
<1>3. <<>> \o <<>> = <<>>
  BY EmptyElems, ConcatEmptySeq
<1> QED
  BY <1>1, <1>2, <1>3 DEF Log!LoseAll

\* Every step is one of the log of usage, or one it does not see.
LEMMA StepsOfTheLog == IInv /\ IInv' /\ [Next]_vars => [Log!Next]_<<InMemory, rows>>
<1> SUFFICES ASSUME IInv, IInv', [Next]_vars PROVE Log!Next \/ UNCHANGED <<InMemory, rows>>
  OBVIOUS
<1>1. CASE \E r \in Requests : Arrive(r) \/ LogAndFinish(r)
  BY <1>1, KeepsMemory DEF Arrive, LogAndFinish
<1>2. CASE \E r \in Requests : WriteRequestLog(r)
  BY <1>2, Accepts DEF Log!Next
<1>3. CASE Receive
  BY <1>3, Receives
<1>4. CASE Insert
  BY <1>4, Inserts DEF Log!Next
<1>5. CASE \/ SeeDone \/ LoopReturn \/ CreateDetail \/ UpdateSessionStats
           \/ \E k \in Keys : CountKey(k) \/ RegisterMetadataKey(k)
  BY <1>5, LoopKeepsMemory
<1>6. CASE Flusher \/ Shutdown \/ HttpDrained \/ CloseDone \/ HllStopped \/ CloseDb \/ Restart
  BY <1>6, KeepsMemory DEF Flusher, Shutdown, HttpDrained, CloseDone, HllStopped, CloseDb, Restart, Advance
<1>7. CASE Exit \/ Crash
  BY <1>7, Dies DEF Exit, Crash, Log!Next
<1>8. CASE UNCHANGED vars
  BY <1>8, KeepsMemory DEF vars, logVars
<1> QED
  BY <1>1, <1>2, <1>3, <1>4, <1>5, <1>6, <1>7, <1>8 DEF Next, WriteLoop, Closing
-----------------------------------------------------------------------------
LEMMA Invariance == Spec => []IInv
<1> QED
  BY InitIInv, NextIInv, PTL DEF Spec

\* In every reachable state the variables have their types.
THEOREM TypeCorrect == Spec => []TypeOK
<1> QED
  BY Invariance, IInvImplies, PTL

\* A log the writer took without a warning stays in memory or is stored, while nothing
\* fails and the database is open.
THEOREM LogsAreNotLostSilently == Spec => []NoSilentLoss
<1> QED
  BY Invariance, IInvImplies, PTL

\* Session totals, counts and sketches of metadata keys never run ahead of the rows of
\* the request log, whatever fails or dies between the statements of writeLog.
THEOREM DerivedNeverRunsAhead == Spec => []DerivedMatchesLog
<1> QED
  BY Invariance, IInvImplies, PTL

\* The writer implements a first-in first-out log that stores each entry at most once.
THEOREM WriterIsAUsageLog == Spec => ImplementsUsageLog
<1>1. Init => Log!Init
  <2>1. <<>> \o <<>> = <<>>
    BY EmptyElems, ConcatEmptySeq
  <2> QED
    BY <2>1 DEF Init, Idle, Log!Init, InHand
<1>2. IInv /\ IInv' /\ [Next]_vars => [Log!Next]_<<InHand \o logChan, rows>>
  BY StepsOfTheLog DEF InMemory
<1> QED
  BY <1>1, <1>2, Invariance, PTL DEF Spec, Log!Spec, ImplementsUsageLog

\* No request is stored under two rows.
THEOREM StoredAtMostOnce == Spec => []Distinct(rows)
<1> QED
  BY Invariance, IInvImplies, PTL

\* A flush only ever adds to a persisted sketch, in a process that has loaded them.
THEOREM FlushesNeverForget == Spec => SketchesOnlyGrow
<1>1. IInv /\ [Next]_vars => [hllLoaded => \A k \in Keys : keyRows[k].sketch \subseteq keyRows'[k].sketch]_vars
  <2> SUFFICES ASSUME IInv, Next, hllLoaded, NEW k \in Keys PROVE keyRows[k].sketch \subseteq keyRows'[k].sketch
    OBVIOUS
  <2>1. Typed /\ keyRows[k].sketch \subseteq hlls[k].sketch
    BY DEF IInv, DerivedOK, SketchOK
  <2>2. CASE UNCHANGED keyRows
    BY <2>2
  <2>3. ASSUME NEW j \in Keys, RegisterMetadataKey(j) PROVE keyRows[k].sketch \subseteq keyRows'[k].sketch
    BY <2>1, <2>3, RegisterKeyFacts DEF RegisterMetadataKey
  <2>4. ASSUME NEW j \in Keys, FlushRow(j) PROVE keyRows[k].sketch \subseteq keyRows'[k].sketch
    BY <2>1, <2>4, FlushRowFacts
  <2>5. CASE \/ \E r \in Requests : Arrive(r) \/ LogAndFinish(r) \/ WriteRequestLog(r)
             \/ Receive \/ SeeDone \/ LoopReturn \/ Insert \/ CreateDetail \/ UpdateSessionStats
             \/ \E j \in Keys : CountKey(j)
             \/ Shutdown \/ Closing \/ Crash \/ Restart
    <3>1. UNCHANGED keyRows
      BY <2>5 DEF Arrive, LogAndFinish, WriteRequestLog, Receive, SeeDone, LoopReturn, Insert, CreateDetail,
         UpdateSessionStats, CountKey, Shutdown, Closing, HttpDrained, CloseDone, HllStopped, CloseDb, Exit,
         Crash, Restart, Advance, Die, HllStart, hllVars
    <3> QED
      BY <2>2, <3>1
  <2>6. CASE Flusher
    BY <2>2, <2>4, <2>6 DEF Flusher, FlushTick, FlushLast
  <2> QED
    BY <2>3, <2>5, <2>6 DEF Next, WriteLoop
<1> QED
  BY <1>1, Invariance, PTL DEF Spec, SketchesOnlyGrow
=============================================================================
