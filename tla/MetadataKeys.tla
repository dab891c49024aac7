---------------------------- MODULE MetadataKeys ----------------------------
(***************************************************************************)
(* HLLManager: the in-memory cardinality sketches of the metadata keys and *)
(* the goroutine that flushes them to llm_requests_metadata_keys.          *)
(* Two goroutines share the sketches: the write loop of the request log    *)
(* calls AddValue and RegisterKey, the flush loop calls Flush.             *)
(*                                                                         *)
(* A HyperLogLog sketch is the set of values it has seen: the estimate it  *)
(* gives is abstracted to that set, so approx_cardinality is its size.     *)
(* An empty sketch in a row stands for hll_state IS NULL, which is what a  *)
(* row holds until its first flush.                                        *)
(***************************************************************************)
EXTENDS Naturals, FiniteSets

CONSTANTS
    Keys,       \* (Majordomo API key, metadata key) pairs: hllKey
    Values,     \* metadata values
    MaxFaults   \* bound on failing database statements and network calls

ASSUME MaxFaultsAssumption == MaxFaults \in Nat

VARIABLES
    hlls,       \* HLLManager.hlls: the sketches in memory
    flusher,    \* where flushLoop is
    toFlush,    \* the local map of Flush: key -> count still to be written
    keyRows,    \* table llm_requests_metadata_keys
    hllLoaded,  \* did LoadFromDB load every sketch in this process?
    faults      \* statements and calls that have failed so far

hllVars == <<hlls, flusher, toFlush, keyRows, hllLoaded>>

HllEntry == [known : BOOLEAN, sketch : SUBSET Values, dirty : BOOLEAN, count : Nat]
KeyRow   == [exists : BOOLEAN, sketch : SUBSET Values, count : Nat]

NoEntry == [known |-> FALSE, sketch |-> {}, dirty |-> FALSE, count |-> 0]
NoRow   == [exists |-> FALSE, sketch |-> {}, count |-> 0]

HllTypeOK ==
    /\ hlls \in [Keys -> HllEntry]
    /\ flusher \in {"idle", "writing", "last", "stopped"}
    /\ DOMAIN toFlush \subseteq Keys
    /\ \A k \in DOMAIN toFlush : toFlush[k] \in Nat
    /\ keyRows \in [Keys -> KeyRow]
    /\ hllLoaded \in BOOLEAN

HllInit ==
    /\ hlls = [k \in Keys |-> NoEntry]
    /\ flusher = "idle"
    /\ toFlush = <<>>
    /\ keyRows = [k \in Keys |-> NoRow]
    /\ hllLoaded = TRUE

\* A statement or a call fails; the budget keeps the state space finite.
Fault == faults < MaxFaults /\ faults' = faults + 1

(***************************************************************************)
(* The write loop's side.                                                  *)
(***************************************************************************)
AddValue(k, v) ==
    hlls' = [hlls EXCEPT ![k] = [known  |-> TRUE,
                                 sketch |-> @.sketch \cup {v},
                                 dirty  |-> TRUE,
                                 count  |-> @.count + 1]]

\* INSERT ... ON CONFLICT DO NOTHING
RegisterKey(k) ==
    keyRows' = [keyRows EXCEPT ![k] = [@ EXCEPT !.exists = TRUE]]

(***************************************************************************)
(* The flush loop's side.  Flush takes the dirty entries under the mutex,  *)
(* clears them, and writes them one by one after unlocking.                *)
(***************************************************************************)
Dirty == {k \in Keys : hlls[k].dirty}

TakeDirty ==
    /\ toFlush' = [k \in Dirty |-> hlls[k].count]
    /\ hlls' = [k \in Keys |-> [hlls[k] EXCEPT !.dirty = FALSE,
                                               !.count = IF k \in Dirty THEN 0 ELSE @]]

\* The ticker fires.
FlushTick ==
    /\ flusher = "idle"
    /\ Dirty # {}
    /\ TakeDirty
    /\ flusher' = "writing"
    /\ UNCHANGED <<keyRows, hllLoaded, faults>>

StoppedOnlyByAFlush ==      \* mutant: the goroutine returns only if it had something to flush
    IF Dirty = {} THEN "idle" ELSE "last"
AfterDone == IF Dirty = {} THEN "stopped" ELSE "last"

\* done is closed: a last Flush, then the goroutine returns.
FlushLast ==
    /\ flusher = "idle"
    /\ TakeDirty
    /\ flusher' = AfterDone
    /\ UNCHANGED <<keyRows, hllLoaded, faults>>

\* The sketch written is the one the entry points at now: toFlush shares the
\* pointer with hlls, so values added since TakeDirty are included.  (They may be
\* added while MarshalBinary reads, a data race: both orders are behaviours
\* here, and the process dying in it is a crash of the module that uses this.)
FlushRow(k) ==
    /\ k \in DOMAIN toFlush
    /\ \/ /\ keyRows' = IF keyRows[k].exists
                        THEN [keyRows EXCEPT ![k] = [exists |-> TRUE,
                                                     sketch |-> hlls[k].sketch,
                                                     count  |-> @.count + toFlush[k]]]
                        ELSE keyRows
          /\ UNCHANGED faults
       \/ Fault /\ UNCHANGED keyRows
    /\ toFlush' = [j \in DOMAIN toFlush \ {k} |-> toFlush[j]]
    /\ flusher' = IF DOMAIN toFlush # {k} THEN flusher
                  ELSE IF flusher = "last" THEN "stopped" ELSE "idle"
    /\ UNCHANGED <<hlls, hllLoaded>>

(***************************************************************************)
(* Process start: LoadFromDB, whose failure Build only logs, then Start.   *)
(***************************************************************************)
LoadedNothing(S) ==         \* mutant: rows are scanned, sketches are not kept
    [k \in Keys |-> NoEntry]
Loaded(S) == [k \in Keys |-> IF k \in S
                              THEN [NoEntry EXCEPT !.known  = keyRows[k].sketch # {},
                                                   !.sketch = keyRows[k].sketch]
                              ELSE NoEntry]

HllStart ==
    /\ \/ /\ hlls' = Loaded(Keys)
          /\ hllLoaded' = TRUE
          /\ UNCHANGED faults
       \/ /\ Fault
          /\ \E S \in SUBSET Keys : hlls' = Loaded(S)   \* the rows read before the error
          /\ hllLoaded' = FALSE
    /\ flusher' = "idle"
    /\ toFlush' = <<>>
    /\ UNCHANGED keyRows
=============================================================================
