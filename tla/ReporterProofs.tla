--------------------------- MODULE ReporterProofs ---------------------------
(***************************************************************************)
(* Proofs about the reporters, for any requests, orgs, page size, bound on *)
(* faults and bound on deaths.                                             *)
(***************************************************************************)
EXTENDS Reporter, FiniteSetTheorems, TLAPS

\* The parts of the inductive invariant.  What a reporter has in hand, and what is
\* still on its way from it, are stored rows of its own org.
OwnRows(o, S) == \A r \in S : r \in Stored /\ OrgOf(r) = o

BatchIsOwn == \A o \in Orgs : OwnRows(o, rep[o].batch)
LateIsOwn  == \A m \in late : OwnRows(m.org, m.ids)

\* A reply of 200 says that the batch in hand has been ingested.
AckedWasIngested ==
    \A o \in Orgs : (post[o].state = "ok" \/ rep[o].pc = "mark")
                    => \A r \in rep[o].batch : butler[o][r] > 0

\* Butler holds stored rows only, each under the org it belongs to.
IngestedIsOwn == \A o \in Orgs, r \in Requests : butler[o][r] > 0 => r \in Stored /\ OrgOf(r) = o

IInv == TypeOK /\ BatchIsOwn /\ LateIsOwn /\ AckedWasIngested /\ IngestedIsOwn /\ SyncedWasIngested
-----------------------------------------------------------------------------
\* Inserting a row adds it to the stored requests and removes none.
LEMMA StoredGrows ==
    ASSUME rows \in Seq(Requests), NEW r \in Requests, rows' = Append(rows, r)
    PROVE  Stored' = Stored \cup {r} /\ rows' \in Seq(Requests)
<1>1. rows' \in Seq(Requests) /\ DOMAIN rows = 1..Len(rows) /\ DOMAIN rows' = 1..(Len(rows) + 1)
  OBVIOUS
<1>2. \A i \in 1..Len(rows) : rows'[i] = rows[i]
  OBVIOUS
<1>3. rows'[Len(rows) + 1] = r
  OBVIOUS
<1>4. Len(rows) \in Nat
  OBVIOUS
<1>5. 1..(Len(rows) + 1) = (1..Len(rows)) \cup {Len(rows) + 1}
  BY <1>4
<1> QED
  BY <1>1, <1>2, <1>3, <1>5 DEF Stored

\* A page holds stored rows of the org it is fetched for.
LEMMA PageIsOwn ==
    ASSUME rows \in Seq(Requests), NEW o \in Orgs
    PROVE  Page(o) \subseteq Requests /\ OwnRows(o, Page(o))
<1> SUFFICES ASSUME NEW r \in Page(o) PROVE r \in Requests /\ r \in Stored /\ OrgOf(r) = o
  BY DEF OwnRows
<1>1. PICK i \in Unsynced(o) : r = rows[i]
  BY Zenon DEF Page
<1>2. i \in DOMAIN rows /\ OrgOf(rows[i]) = o
  BY Zenon DEF Unsynced
<1>3. rows[i] \in Requests
  BY <1>2
<1> QED
  BY <1>1, <1>2, <1>3, Zenon DEF Stored

\* One reporter and its POST change.
LEMMA ReporterChanges ==
    ASSUME RepTypeOK, NEW o \in Orgs, NEW r \in RepState, NEW p \in PostState,
           rep' = [rep EXCEPT ![o] = r], post' = [post EXCEPT ![o] = p],
           r.batch # {} <=> r.pc \in {"send", "sent", "mark"},
           p.state # "none" <=> r.pc = "sent",
           p.state # "none" => p.ids = r.batch
    PROVE  RepTypeOK'
<1>1. rep' \in [Orgs -> RepState] /\ post' \in [Orgs -> PostState]
  BY DEF RepTypeOK
<1>2. rep'[o] = r /\ post'[o] = p
  BY DEF RepTypeOK
<1>3. \A q \in Orgs \ {o} : rep'[q] = rep[q] /\ post'[q] = post[q]
  BY DEF RepTypeOK
<1>4. InHand(o)'
  BY <1>2 DEF InHand
<1>5. \A q \in Orgs \ {o} : InHand(q)'
  BY <1>3 DEF InHand, RepTypeOK
<1> QED
  BY <1>1, <1>4, <1>5 DEF RepTypeOK

\* The same, when the POST does not change.
LEMMA OnlyReporterChanges ==
    ASSUME RepTypeOK, NEW o \in Orgs, NEW r \in RepState,
           rep' = [rep EXCEPT ![o] = r], UNCHANGED post, rep[o].pc # "sent", r.pc # "sent",
           r.batch # {} <=> r.pc \in {"send", "mark"}
    PROVE  RepTypeOK'
<1>1. post[o] \in PostState /\ post' = [post EXCEPT ![o] = post[o]] /\ post[o].state = "none"
  BY DEF RepTypeOK, InHand
<1> QED
  BY <1>1, ReporterChanges

\* Ending a flush leaves a reporter that waits or is done, with nothing in hand.
LEMMA FlushEndsType ==
    ASSUME RepTypeOK, NEW o \in Orgs, NEW fault \in BOOLEAN, FlushEnds(o, fault)
    PROVE  \E r \in RepState : /\ rep' = [rep EXCEPT ![o] = r]
                               /\ r.pc \in {"wait", "done"} /\ r.batch = {}
<1> DEFINE r == [rep[o] EXCEPT !.pc    = IF rep[o].final THEN "done" ELSE "wait",
                               !.batch = {},
                               !.clean = IF fault /\ rep[o].final THEN FALSE ELSE @]
<1>1. rep[o] \in RepState
  BY DEF RepTypeOK
<1>2. rep' = [rep EXCEPT ![o] = r]
  BY DEF FlushEnds
<1>3. r \in RepState /\ r.pc \in {"wait", "done"} /\ r.batch = {}
  BY <1>1 DEF RepState
<1> QED
  BY <1>2, <1>3

\* Every step keeps the reporters' part of the types.
LEMMA RepTypeOKStep == RepTypeOK /\ DataTypeOK /\ [Next]_vars => RepTypeOK'
<1> SUFFICES ASSUME RepTypeOK, DataTypeOK, [Next]_vars PROVE RepTypeOK'
  OBVIOUS
<1> USE DEF RepState, PostState
<1>1. ASSUME NEW o \in Orgs PROVE rep[o] \in RepState /\ post[o] \in PostState /\ InHand(o)
  BY <1>1 DEF RepTypeOK
<1>2. ASSUME NEW o \in Orgs, UNCHANGED post PROVE post' = [post EXCEPT ![o] = post[o]]
  BY <1>2 DEF RepTypeOK
<1>3. ASSUME NEW o \in Orgs, Start(o) PROVE RepTypeOK'
  <2> DEFINE r == [Off EXCEPT !.pc = "wait"]
  <2>1. rep' = [rep EXCEPT ![o] = r] /\ UNCHANGED post
    BY <1>3 DEF Start
  <2>2. r \in RepState /\ r.pc = "wait" /\ r.batch = {}
    BY DEF Off
  <2> HIDE DEF r
  <2> QED
    BY <1>3, <2>1, <2>2, OnlyReporterChanges DEF Start
<1>4. ASSUME NEW o \in Orgs, Stop(o) PROVE RepTypeOK'
  <2> DEFINE r == [rep[o] EXCEPT !.stop = TRUE]
  <2>1. rep' = [rep EXCEPT ![o] = r] /\ UNCHANGED post
    BY <1>4 DEF Stop
  <2>2. r \in RepState /\ r.pc = rep[o].pc /\ r.batch = rep[o].batch
    BY <1>1
  <2>3. /\ r.batch # {} <=> r.pc \in {"send", "sent", "mark"}
        /\ post[o].state # "none" <=> r.pc = "sent"
        /\ post[o].state # "none" => post[o].ids = r.batch
    BY <1>1, <2>2 DEF InHand
  <2>4. post[o] \in PostState /\ post' = [post EXCEPT ![o] = post[o]]
    BY <1>1, <1>2, <2>1
  <2> HIDE DEF r
  <2> QED
    BY <2>1, <2>2, <2>3, <2>4, ReporterChanges
<1>5. ASSUME NEW o \in Orgs, Tick(o) PROVE RepTypeOK'
  <2> DEFINE r == [rep[o] EXCEPT !.pc = "fetch"]
  <2>1. rep' = [rep EXCEPT ![o] = r] /\ UNCHANGED post
    BY <1>5 DEF Tick
  <2>2. r \in RepState /\ r.pc = "fetch" /\ r.batch = {}
    BY <1>1, <1>5 DEF Tick, InHand
  <2> HIDE DEF r
  <2> QED
    BY <1>5, <2>1, <2>2, OnlyReporterChanges DEF Tick
<1>6. ASSUME NEW o \in Orgs, SeeStop(o) PROVE RepTypeOK'
  <2> DEFINE r == [rep[o] EXCEPT !.pc = "fetch", !.final = TRUE, !.owed = Pending(o)]
  <2>1. rep' = [rep EXCEPT ![o] = r] /\ UNCHANGED post
    BY <1>6 DEF SeeStop
  <2>2. Pending(o) \subseteq Requests
    BY DEF Pending, Unsynced, DataTypeOK
  <2>3. r \in RepState /\ r.pc = "fetch" /\ r.batch = {}
    BY <1>1, <1>6, <2>2 DEF SeeStop, InHand
  <2> HIDE DEF r
  <2> QED
    BY <1>6, <2>1, <2>3, OnlyReporterChanges DEF SeeStop
<1>7. ASSUME NEW o \in Orgs, Stopped(o) PROVE RepTypeOK'
  <2>1. rep[o].pc = "done" /\ rep' = [rep EXCEPT ![o] = Off] /\ UNCHANGED post
    BY <1>7 DEF Stopped
  <2>2. Off \in RepState /\ Off.pc = "off" /\ Off.batch = {}
    BY DEF Off
  <2> QED
    BY <2>1, <2>2, OnlyReporterChanges
<1>8. ASSUME NEW o \in Orgs, NEW f \in BOOLEAN, rep[o].pc # "sent", FlushEnds(o, f), UNCHANGED post
      PROVE  RepTypeOK'
  <2>1. PICK r \in RepState : /\ rep' = [rep EXCEPT ![o] = r]
                              /\ r.pc \in {"wait", "done"} /\ r.batch = {}
    BY <1>8, FlushEndsType
  <2> QED
    BY <1>8, <2>1, OnlyReporterChanges
<1>9. ASSUME NEW o \in Orgs, FetchUnsyncedRecords(o) PROVE RepTypeOK'
  <2>1. rep[o].pc = "fetch" /\ UNCHANGED post
    BY <1>9 DEF FetchUnsyncedRecords
  <2>2. ASSUME ~NothingToSend(o), rep' = [rep EXCEPT ![o].pc = "send", ![o].batch = Page(o)]
        PROVE  RepTypeOK'
    <3> DEFINE r == [rep[o] EXCEPT !.pc = "send", !.batch = Page(o)]
    <3>1. rep' = [rep EXCEPT ![o] = r]
      BY <2>2
    <3>2. Page(o) # {} /\ Page(o) \subseteq Requests
      BY <2>2, PageIsOwn DEF NothingToSend, DataTypeOK
    <3>3. r \in RepState /\ r.pc = "send" /\ r.batch # {}
      BY <1>1, <3>2
    <3> HIDE DEF r
    <3> QED
      BY <2>1, <3>1, <3>3, OnlyReporterChanges
  <2> QED
    BY <1>8, <1>9, <2>1, <2>2 DEF FetchUnsyncedRecords
<1>10. ASSUME NEW o \in Orgs, Send(o) PROVE RepTypeOK'
  <2> DEFINE r == [rep[o] EXCEPT !.pc = "sent"]
             p == [state |-> "open", ids |-> rep[o].batch]
  <2>1. rep' = [rep EXCEPT ![o] = r] /\ post' = [post EXCEPT ![o] = p]
    BY <1>10 DEF Send
  <2>2. r \in RepState /\ r.pc = "sent" /\ r.batch # {} /\ r.batch = rep[o].batch
    BY <1>1, <1>10 DEF Send, InHand
  <2>3. p \in PostState /\ p.state = "open" /\ p.ids = rep[o].batch
    BY <1>1
  <2> HIDE DEF r, p
  <2> QED
    BY <2>1, <2>2, <2>3, ReporterChanges
<1>11. ASSUME NEW o \in Orgs, SendReturns(o) PROVE RepTypeOK'
  <2>1. rep[o].pc = "sent" /\ post' = [post EXCEPT ![o] = NoPost]
    BY <1>11 DEF SendReturns
  <2>2. NoPost \in PostState /\ NoPost.state = "none"
    BY DEF NoPost
  <2>3. ASSUME rep' = [rep EXCEPT ![o].pc = "mark"] PROVE RepTypeOK'
    <3> DEFINE r == [rep[o] EXCEPT !.pc = "mark"]
    <3>1. rep' = [rep EXCEPT ![o] = r]
      BY <2>3
    <3>2. r \in RepState /\ r.pc = "mark" /\ r.batch # {}
      BY <1>1, <2>1 DEF InHand
    <3> HIDE DEF r
    <3> QED
      BY <2>1, <2>2, <3>1, <3>2, ReporterChanges
  <2>4. ASSUME FlushEnds(o, TRUE) PROVE RepTypeOK'
    <3>1. PICK r \in RepState : /\ rep' = [rep EXCEPT ![o] = r]
                                /\ r.pc \in {"wait", "done"} /\ r.batch = {}
      BY <2>4, FlushEndsType
    <3> QED
      BY <2>1, <2>2, <3>1, ReporterChanges
  <2> QED
    BY <1>11, <2>3, <2>4 DEF SendReturns
<1>12. ASSUME NEW o \in Orgs, MarkSynced(o) PROVE RepTypeOK'
  <2>1. rep[o].pc = "mark" /\ UNCHANGED post
    BY <1>12 DEF MarkSynced
  <2>2. ASSUME rep' = [rep EXCEPT ![o].pc = "fetch", ![o].batch = {}] PROVE RepTypeOK'
    <3> DEFINE r == [rep[o] EXCEPT !.pc = "fetch", !.batch = {}]
    <3>1. rep' = [rep EXCEPT ![o] = r]
      BY <2>2
    <3>2. r \in RepState /\ r.pc = "fetch" /\ r.batch = {}
      BY <1>1
    <3> HIDE DEF r
    <3> QED
      BY <2>1, <3>1, <3>2, OnlyReporterChanges
  <2> QED
    BY <1>8, <1>12, <2>1, <2>2 DEF MarkSynced
<1>13. ASSUME NEW o \in Orgs, Ingest(o) PROVE RepTypeOK'
  <2> DEFINE p == [post[o] EXCEPT !.state = "ok"]
  <2>1. rep' = [rep EXCEPT ![o] = rep[o]] /\ post' = [post EXCEPT ![o] = p]
    BY <1>13 DEF Ingest, RepTypeOK
  <2>2. p \in PostState /\ p.state = "ok" /\ p.ids = rep[o].batch
    BY <1>1, <1>13 DEF Ingest, InHand
  <2>3. rep[o].pc = "sent"
    BY <1>1, <1>13 DEF Ingest, InHand
  <2> HIDE DEF p
  <2> QED
    BY <1>1, <2>1, <2>2, <2>3, ReporterChanges DEF InHand
<1>14. CASE Crash
  BY <1>14 DEF Crash, Die, RepTypeOK, InHand, Off, NoPost
<1>15. CASE UNCHANGED <<rep, post>>
  BY <1>15 DEF RepTypeOK, InHand
<1>16. ASSUME NEW r \in Requests, NewRow(r) PROVE RepTypeOK'
  BY <1>15, <1>16 DEF NewRow, repVars
<1>17. ASSUME NEW m \in late, IngestLate(m) PROVE RepTypeOK'
  BY <1>15, <1>17 DEF IngestLate
<1>18. CASE UNCHANGED vars
  BY <1>15, <1>18 DEF vars, repVars
<1> QED
  BY <1>3, <1>4, <1>5, <1>6, <1>7, <1>9, <1>10, <1>11, <1>12, <1>13, <1>14, <1>16, <1>17, <1>18
  DEF Next, ReporterStep
-----------------------------------------------------------------------------
\* An ingestion adds one to the counts of the rows it holds, for one org.
LEMMA IngestedType ==
    ASSUME butler \in [Orgs -> [Requests -> Nat]], NEW o \in Orgs, NEW ids, Ingested(o, ids)
    PROVE  /\ butler' \in [Orgs -> [Requests -> Nat]]
           /\ \A p \in Orgs, r \in Requests :
                 butler'[p][r] = IF p = o /\ r \in ids THEN butler[p][r] + 1 ELSE butler[p][r]
BY DEF Ingested

\* The count of faults stays a number.
LEMMA FaultsType == ASSUME faults \in Nat, Fault \/ UNCHANGED faults PROVE faults' \in Nat
BY DEF Fault

\* Every step keeps the types of the tables, of the network and of the counters.
LEMMA DataTypeOKStep == TypeOK /\ [Next]_vars => DataTypeOK'
<1> SUFFICES ASSUME DataTypeOK, RepTypeOK, [Next]_vars PROVE DataTypeOK'
  BY DEF TypeOK
<1>1. ASSUME NEW r \in Requests, NewRow(r) PROVE DataTypeOK'
  BY <1>1, StoredGrows DEF DataTypeOK, NewRow, repVars
<1>2. CASE UNCHANGED <<rows, synced, late, butler, faults, deaths>>
  BY <1>2 DEF DataTypeOK
<1>3. ASSUME NEW o \in Orgs, Start(o) \/ Stop(o) \/ Tick(o) \/ SeeStop(o) \/ Stopped(o) \/ Send(o)
      PROVE  DataTypeOK'
  BY <1>2, <1>3 DEF Start, Stop, Tick, SeeStop, Stopped, Send
<1>4. ASSUME NEW o \in Orgs, FetchUnsyncedRecords(o) PROVE DataTypeOK'
  BY <1>4, FaultsType DEF FetchUnsyncedRecords, DataTypeOK
<1>5. ASSUME NEW o \in Orgs, SendReturns(o) PROVE DataTypeOK'
  <2>1. post[o].ids \in SUBSET Requests
    BY DEF RepTypeOK, PostState
  <2>2. late' \subseteq late \cup {[org |-> o, ids |-> post[o].ids]}
    BY <1>5 DEF SendReturns
  <2>3. late' \subseteq [org : Orgs, ids : SUBSET Requests]
    BY <2>1, <2>2 DEF DataTypeOK
  <2> QED
    BY <1>5, <2>3, FaultsType DEF SendReturns, DataTypeOK
<1>6. ASSUME NEW o \in Orgs, MarkSynced(o) PROVE DataTypeOK'
  <2>1. rep[o].batch \subseteq Requests
    BY DEF RepTypeOK, RepState
  <2>2. synced' \subseteq synced \cup rep[o].batch /\ (Fault \/ UNCHANGED faults)
    BY <1>6 DEF MarkSynced
  <2> QED
    BY <1>6, <2>1, <2>2, FaultsType DEF MarkSynced, DataTypeOK
<1>7. ASSUME NEW o \in Orgs, Ingest(o) PROVE DataTypeOK'
  BY <1>7, IngestedType DEF Ingest, DataTypeOK
<1>8. ASSUME NEW m \in late, IngestLate(m) PROVE DataTypeOK'
  <2>1. m.org \in Orgs
    BY DEF DataTypeOK
  <2>2. butler' \in [Orgs -> [Requests -> Nat]]
    BY <1>8, <2>1, IngestedType DEF IngestLate, DataTypeOK
  <2> QED
    BY <1>8, <2>2 DEF IngestLate, DataTypeOK
<1>9. CASE Crash
  <2>1. \A o \in Orgs : post[o].ids \in SUBSET Requests
    BY DEF RepTypeOK, PostState
  <2>2. late' \subseteq [org : Orgs, ids : SUBSET Requests]
    BY <1>9, <2>1 DEF Crash, Die, DataTypeOK
  <2> QED
    BY <1>9, <2>2 DEF Crash, Die, DataTypeOK
<1>10. CASE UNCHANGED vars
  BY <1>2, <1>10 DEF vars, repVars
<1> QED
  BY <1>1, <1>3, <1>4, <1>5, <1>6, <1>7, <1>8, <1>9, <1>10 DEF Next, ReporterStep

\* Every variable always has a value of its type, and a reporter has a batch in
\* hand, and a POST open for it, exactly while it sends or marks it.
THEOREM TypeCorrect == Spec => []TypeOK
<1>1. Init => TypeOK
  BY DEF Init, TypeOK, DataTypeOK, RepTypeOK, InHand, RepState, PostState, Off, NoPost
<1>2. TypeOK /\ [Next]_vars => TypeOK'
  BY DataTypeOKStep, RepTypeOKStep DEF TypeOK
<1> QED
  BY <1>1, <1>2, PTL DEF Spec
-----------------------------------------------------------------------------
\* Rows are only ever added.
LEMMA StoredNeverShrinks == DataTypeOK /\ [Next]_vars => Stored \subseteq Stored'
<1> SUFFICES ASSUME DataTypeOK, [Next]_vars PROVE Stored \subseteq Stored'
  OBVIOUS
<1>1. ASSUME NEW r \in Requests, NewRow(r) PROVE Stored \subseteq Stored'
  BY <1>1, StoredGrows DEF NewRow, DataTypeOK
<1>2. CASE UNCHANGED rows
  BY <1>2 DEF Stored
<1> QED
  BY <1>1, <1>2 DEF Next, ReporterStep, Start, Stop, Tick, SeeStop, Stopped, FetchUnsyncedRecords,
     Send, SendReturns, MarkSynced, Ingest, IngestLate, Crash, Die, vars

\* Where a reporter's batch comes from: it keeps it, drops it or fetches a page.
LEMMA BatchOrigin ==
    ASSUME TypeOK, [Next]_vars, NEW o \in Orgs
    PROVE  rep'[o].batch \in {rep[o].batch, {}, Page(o)}
<1> USE DEF TypeOK, RepTypeOK, RepState
<1>1. ASSUME NEW p \in Orgs, Start(p) \/ Stopped(p) PROVE rep'[o].batch \in {rep[o].batch, {}}
  BY <1>1 DEF Start, Stopped, Off
<1>2. ASSUME NEW p \in Orgs, Stop(p) \/ Tick(p) \/ SeeStop(p) \/ Send(p)
      PROVE  rep'[o].batch = rep[o].batch
  BY <1>2 DEF Stop, Tick, SeeStop, Send
<1>3. ASSUME NEW p \in Orgs, NEW f \in BOOLEAN, FlushEnds(p, f)
      PROVE  rep'[o].batch \in {rep[o].batch, {}}
  <2>1. PICK r \in RepState : rep' = [rep EXCEPT ![p] = r] /\ r.batch = {}
    BY <1>3, FlushEndsType
  <2> QED
    BY <2>1
<1>4. ASSUME NEW p \in Orgs, FetchUnsyncedRecords(p)
      PROVE  rep'[o].batch \in {rep[o].batch, {}, Page(o)}
  <2>1. ASSUME rep' = [rep EXCEPT ![p].pc = "send", ![p].batch = Page(p)]
        PROVE  rep'[o].batch \in {rep[o].batch, Page(o)}
    BY <2>1
  <2>2. \/ rep' = [rep EXCEPT ![p].pc = "send", ![p].batch = Page(p)]
        \/ FlushEnds(p, FALSE) \/ FlushEnds(p, TRUE)
    BY <1>4, Zenon DEF FetchUnsyncedRecords
  <2>3. FlushEnds(p, FALSE) \/ FlushEnds(p, TRUE) => rep'[o].batch \in {rep[o].batch, {}}
    BY <1>3
  <2> QED
    BY <2>1, <2>2, <2>3, Zenon
<1>5. ASSUME NEW p \in Orgs, SendReturns(p) PROVE rep'[o].batch \in {rep[o].batch, {}}
  <2>1. rep' = [rep EXCEPT ![p].pc = "mark"] => rep'[o].batch = rep[o].batch
    OBVIOUS
  <2>2. rep' = [rep EXCEPT ![p].pc = "mark"] \/ FlushEnds(p, TRUE)
    BY <1>5 DEF SendReturns
  <2> QED
    BY <1>3, <2>1, <2>2
<1>6. ASSUME NEW p \in Orgs, MarkSynced(p) PROVE rep'[o].batch \in {rep[o].batch, {}}
  BY <1>3, <1>6 DEF MarkSynced
<1>7. CASE Crash
  BY <1>7 DEF Crash, Die, Off
<1>8. CASE UNCHANGED rep
  BY <1>8
<1> QED
  BY <1>1, <1>2, <1>4, <1>5, <1>6, <1>7, <1>8
  DEF Next, ReporterStep, NewRow, Ingest, IngestLate, vars, repVars

\* A reporter's batch never holds a row of another org.
LEMMA BatchIsOwnStep == TypeOK /\ BatchIsOwn /\ [Next]_vars => BatchIsOwn'
<1> SUFFICES ASSUME TypeOK, BatchIsOwn, [Next]_vars, NEW o \in Orgs, NEW r \in rep'[o].batch
             PROVE  r \in Stored' /\ OrgOf(r) = o
  BY DEF BatchIsOwn, OwnRows
<1>1. rep'[o].batch \in {rep[o].batch, {}, Page(o)}
  BY BatchOrigin
<1>2. r \in Stored /\ OrgOf(r) = o
  BY <1>1, PageIsOwn DEF BatchIsOwn, OwnRows, TypeOK, DataTypeOK
<1> QED
  BY <1>2, StoredNeverShrinks DEF TypeOK

\* A POST on the loose is the batch of a reporter that gave up on it or died.
LEMMA LateIsOwnStep == TypeOK /\ BatchIsOwn /\ LateIsOwn /\ [Next]_vars => LateIsOwn'
<1> SUFFICES ASSUME TypeOK, BatchIsOwn, LateIsOwn, [Next]_vars,
                    NEW m \in late', NEW r \in m.ids
             PROVE  r \in Stored' /\ OrgOf(r) = m.org
  BY DEF LateIsOwn, OwnRows
<1>1. m \in late \/ (m.org \in Orgs /\ post[m.org].state # "none" /\ m.ids = post[m.org].ids)
  <2> DEFINE GivenUp == m.org \in Orgs /\ post[m.org].state # "none" /\ m.ids = post[m.org].ids
  <2>1. ASSUME NEW o \in Orgs, SendReturns(o) PROVE m \in late \/ GivenUp
    <3>1. m \in late \/ (post[o].state = "open" /\ m = [org |-> o, ids |-> post[o].ids])
      BY <2>1 DEF SendReturns
    <3> QED
      BY <3>1
  <2>2. CASE Crash
    BY <2>2 DEF Crash, Die
  <2>3. CASE late' \subseteq late
    BY <2>3
  <2> QED
    BY <2>1, <2>2, <2>3 DEF Next, ReporterStep, NewRow, Start, Stop, Tick, SeeStop, Stopped,
       FetchUnsyncedRecords, Send, MarkSynced, Ingest, IngestLate, vars, repVars
<1>2. r \in Stored /\ OrgOf(r) = m.org
  <2>1. CASE m \in late
    BY <2>1 DEF LateIsOwn, OwnRows
  <2>2. CASE m.org \in Orgs /\ post[m.org].state # "none" /\ m.ids = post[m.org].ids
    BY <2>2 DEF BatchIsOwn, OwnRows, TypeOK, RepTypeOK, InHand
  <2> QED
    BY <1>1, <2>1, <2>2
<1> QED
  BY <1>2, StoredNeverShrinks DEF TypeOK

\* Butler's counts only grow, and grow only by a POST that is open or on the loose.
LEMMA ButlerGrows ==
    ASSUME TypeOK, [Next]_vars, NEW o \in Orgs, NEW r \in Requests
    PROVE  /\ butler[o][r] > 0 => butler'[o][r] > 0
           /\ butler'[o][r] > 0 => \/ butler[o][r] > 0
                                   \/ r \in rep[o].batch
                                   \/ \E m \in late : m.org = o /\ r \in m.ids
<1> USE DEF TypeOK, DataTypeOK
<1>1. butler[o][r] \in Nat
  OBVIOUS
<1>2. CASE UNCHANGED butler
  BY <1>2
<1>3. ASSUME NEW p \in Orgs, NEW ids, Ingested(p, ids)
      PROVE  /\ butler[o][r] > 0 => butler'[o][r] > 0
             /\ butler'[o][r] > 0 => butler[o][r] > 0 \/ (p = o /\ r \in ids)
  <2>1. butler'[o][r] = IF o = p /\ r \in ids THEN butler[o][r] + 1 ELSE butler[o][r]
    BY <1>3, IngestedType
  <2> QED
    BY <1>1, <2>1
<1>4. ASSUME NEW p \in Orgs, Ingest(p)
      PROVE  /\ butler[o][r] > 0 => butler'[o][r] > 0
             /\ butler'[o][r] > 0 => butler[o][r] > 0 \/ r \in rep[o].batch
  <2>1. Ingested(p, rep[p].batch)
    BY <1>4 DEF Ingest, RepTypeOK, InHand
  <2> QED
    BY <1>3, <2>1
<1>5. ASSUME NEW m \in late, IngestLate(m)
      PROVE  /\ butler[o][r] > 0 => butler'[o][r] > 0
             /\ butler'[o][r] > 0 => butler[o][r] > 0 \/ (m.org = o /\ r \in m.ids)
  <2>1. m.org \in Orgs /\ (Ingested(m.org, m.ids) \/ UNCHANGED butler)
    BY <1>5 DEF IngestLate
  <2> QED
    BY <1>3, <2>1
<1> QED
  BY <1>2, <1>4, <1>5 DEF Next, ReporterStep, NewRow, Start, Stop, Tick, SeeStop, Stopped,
     FetchUnsyncedRecords, Send, SendReturns, MarkSynced, Crash, Die, vars, repVars

\* Only a reporter that has come as far as marking its batch marks rows.
LEMMA SyncedOrigin ==
    ASSUME TypeOK, [Next]_vars, NEW r \in synced'
    PROVE  r \in synced \/ \E o \in Orgs : rep[o].pc = "mark" /\ r \in rep[o].batch
<1>1. ASSUME NEW o \in Orgs, MarkSynced(o)
      PROVE  r \in synced \/ (rep[o].pc = "mark" /\ r \in rep[o].batch)
  BY <1>1 DEF MarkSynced
<1>2. CASE UNCHANGED synced
  BY <1>2
<1> QED
  BY <1>1, <1>2 DEF Next, ReporterStep, NewRow, Start, Stop, Tick, SeeStop, Stopped,
     FetchUnsyncedRecords, Send, SendReturns, Ingest, IngestLate, Crash, Die, vars, repVars

\* Butler's answer to the batch in hand is on its way, or has arrived.
Acked(o) == post[o].state = "ok" \/ rep[o].pc = "mark"

\* A batch comes to be acknowledged only by Butler ingesting it.
LEMMA AckOrigin ==
    ASSUME TypeOK, [Next]_vars, NEW o \in Orgs, Acked(o)'
    PROVE  \/ Acked(o) /\ rep'[o].batch = rep[o].batch
           \/ Ingest(o) /\ rep'[o].batch = rep[o].batch
<1> USE DEF TypeOK, RepTypeOK, RepState, PostState
<1>1. CASE UNCHANGED <<rep[o], post[o]>>
  BY <1>1 DEF Acked
<1>2. ASSUME NEW p \in Orgs \ {o}, ReporterStep(p) \/ Stop(p) \/ Ingest(p)
      PROVE  UNCHANGED <<rep[o], post[o]>>
  BY <1>2 DEF ReporterStep, Start, Stop, Tick, SeeStop, Stopped, FetchUnsyncedRecords, FlushEnds,
     Send, SendReturns, MarkSynced, Ingest
<1>3. ASSUME NEW f \in BOOLEAN, FlushEnds(o, f) PROVE rep'[o].pc # "mark"
  BY <1>3, FlushEndsType
<1>4. CASE ReporterStep(o) /\ ~SendReturns(o)
  <2>1. ~Start(o) /\ ~Tick(o) /\ ~SeeStop(o) /\ ~Stopped(o) /\ ~Send(o)
    BY DEF Start, Tick, SeeStop, Stopped, Send, Acked, InHand, Off
  <2>2. ~FetchUnsyncedRecords(o)
    <3> SUFFICES ASSUME FetchUnsyncedRecords(o) PROVE FALSE
      OBVIOUS
    <3>1. rep[o].pc = "fetch" /\ post[o].state = "none" /\ UNCHANGED post
      BY DEF FetchUnsyncedRecords, InHand
    <3>2. rep' = [rep EXCEPT ![o].pc = "send", ![o].batch = Page(o)] => rep'[o].pc = "send"
      OBVIOUS
    <3>3. rep'[o].pc # "mark"
      BY <1>3, <3>2 DEF FetchUnsyncedRecords
    <3> QED
      BY <3>1, <3>3 DEF Acked
  <2>3. ~MarkSynced(o)
    <3> SUFFICES ASSUME MarkSynced(o) PROVE FALSE
      OBVIOUS
    <3>1. rep[o].pc = "mark" /\ post[o].state = "none" /\ UNCHANGED post
      BY DEF MarkSynced, InHand
    <3>2. rep' = [rep EXCEPT ![o].pc = "fetch", ![o].batch = {}] => rep'[o].pc = "fetch"
      OBVIOUS
    <3>3. rep'[o].pc # "mark"
      BY <1>3, <3>2 DEF MarkSynced
    <3> QED
      BY <3>1, <3>3 DEF Acked
  <2> QED
    BY <1>4, <2>1, <2>2, <2>3 DEF ReporterStep
<1>5. CASE Stop(o)
  BY <1>5 DEF Stop, Acked
<1>6. CASE SendReturns(o)
  <2>1. post'[o].state = "none"
    BY <1>6 DEF SendReturns, NoPost
  <2>2. Accepted(o) /\ rep' = [rep EXCEPT ![o].pc = "mark"]
    BY <1>3, <1>6, <2>1 DEF SendReturns, Acked
  <2> QED
    BY <2>2 DEF Accepted, Acked
<1>7. CASE Ingest(o)
  BY <1>7 DEF Ingest
<1>8. CASE Crash
  BY <1>8 DEF Crash, Die, Acked, Off, NoPost
<1> QED
  BY <1>1, <1>2, <1>4, <1>5, <1>6, <1>7, <1>8
  DEF Next, ReporterStep, NewRow, IngestLate, vars, repVars

\* Butler comes to hold a row only as part of a batch or of a POST on the loose.
LEMMA IngestedIsOwnStep == TypeOK /\ BatchIsOwn /\ LateIsOwn /\ IngestedIsOwn /\ [Next]_vars => IngestedIsOwn'
<1> SUFFICES ASSUME TypeOK, BatchIsOwn, LateIsOwn, IngestedIsOwn, [Next]_vars,
                    NEW o \in Orgs, NEW r \in Requests, butler'[o][r] > 0
             PROVE  r \in Stored' /\ OrgOf(r) = o
  BY DEF IngestedIsOwn
<1>1. r \in Stored /\ OrgOf(r) = o
  <2>1. CASE butler[o][r] > 0
    BY <2>1 DEF IngestedIsOwn
  <2>2. CASE r \in rep[o].batch
    BY <2>2 DEF BatchIsOwn, OwnRows
  <2>3. CASE \E m \in late : m.org = o /\ r \in m.ids
    BY <2>3 DEF LateIsOwn, OwnRows
  <2> QED
    BY <2>1, <2>2, <2>3, ButlerGrows
<1> QED
  BY <1>1, StoredNeverShrinks DEF TypeOK

\* A batch that is acknowledged after a step has been ingested.
LEMMA AckedWasIngestedStep == TypeOK /\ AckedWasIngested /\ [Next]_vars => AckedWasIngested'
<1> SUFFICES ASSUME TypeOK, AckedWasIngested, [Next]_vars,
                    NEW o \in Orgs, Acked(o)', NEW r \in rep'[o].batch
             PROVE  butler'[o][r] > 0
  BY DEF AckedWasIngested, Acked
<1>1. rep'[o].batch = rep[o].batch /\ r \in Requests
  BY AckOrigin DEF TypeOK, RepTypeOK, RepState
<1>2. CASE Acked(o)
  BY <1>1, <1>2, ButlerGrows DEF AckedWasIngested, Acked
<1>3. CASE Ingest(o)
  <2>1. Ingested(o, rep[o].batch)
    BY <1>3 DEF Ingest, TypeOK, RepTypeOK, InHand
  <2>2. butler'[o][r] = butler[o][r] + 1 /\ butler[o][r] \in Nat
    BY <1>1, <2>1, IngestedType DEF TypeOK, DataTypeOK
  <2> QED
    BY <2>2
<1> QED
  BY <1>2, <1>3, AckOrigin

\* A row that is marked was in an acknowledged batch of its own org.
LEMMA SyncedWasIngestedStep ==
    TypeOK /\ BatchIsOwn /\ AckedWasIngested /\ SyncedWasIngested /\ [Next]_vars => SyncedWasIngested'
<1> SUFFICES ASSUME TypeOK, BatchIsOwn, AckedWasIngested, SyncedWasIngested, [Next]_vars,
                    NEW r \in synced'
             PROVE  OrgOf(r) \in Orgs /\ butler'[OrgOf(r)][r] > 0
  BY DEF SyncedWasIngested
<1>1. OrgOf(r) \in Orgs /\ butler[OrgOf(r)][r] > 0
  <2>1. CASE r \in synced
    BY <2>1 DEF SyncedWasIngested
  <2>2. ASSUME NEW o \in Orgs, rep[o].pc = "mark", r \in rep[o].batch
        PROVE  OrgOf(r) \in Orgs /\ butler[OrgOf(r)][r] > 0
    BY <2>2 DEF AckedWasIngested, BatchIsOwn, OwnRows
  <2> QED
    BY <2>1, <2>2, SyncedOrigin
<1>2. r \in Requests
  <2>1. synced' \subseteq Requests
    BY DataTypeOKStep DEF DataTypeOK
  <2> QED
    BY <2>1
<1> QED
  BY <1>1, <1>2, ButlerGrows

\* The conjunction is an inductive invariant.
LEMMA Invariance == Spec => []IInv
<1>1. Init => IInv
  <2> SUFFICES ASSUME Init PROVE IInv
    OBVIOUS
  <2>1. TypeOK
    BY DEF Init, TypeOK, DataTypeOK, RepTypeOK, InHand, RepState, PostState, Off, NoPost
  <2>2. BatchIsOwn /\ LateIsOwn /\ AckedWasIngested /\ IngestedIsOwn /\ SyncedWasIngested
    BY DEF Init, BatchIsOwn, LateIsOwn, AckedWasIngested, IngestedIsOwn, SyncedWasIngested,
           OwnRows, Off, NoPost
  <2> QED
    BY <2>1, <2>2 DEF IInv
<1>2. IInv /\ [Next]_vars => IInv'
  <2> SUFFICES ASSUME IInv, [Next]_vars PROVE IInv'
    OBVIOUS
  <2>1. TypeOK'
    BY DataTypeOKStep, RepTypeOKStep DEF IInv, TypeOK
  <2>2. BatchIsOwn' /\ LateIsOwn'
    BY BatchIsOwnStep, LateIsOwnStep DEF IInv
  <2>3. AckedWasIngested' /\ IngestedIsOwn' /\ SyncedWasIngested'
    BY AckedWasIngestedStep, IngestedIsOwnStep, SyncedWasIngestedStep DEF IInv
  <2> QED
    BY <2>1, <2>2, <2>3 DEF IInv
<1> QED
  BY <1>1, <1>2, PTL DEF Spec

\* A row is marked synced only if Butler has ingested it for the row's own org.
THEOREM SyncedRowsAreAtButler == Spec => []SyncedWasIngested
<1>1. IInv => SyncedWasIngested
  BY DEF IInv
<1> QED
  BY <1>1, Invariance, PTL

\* No reporter ever hands Butler a row of another org.
THEOREM NoRowOfAnotherOrg == Spec => []OwnOrgOnly
<1>1. IInv => OwnOrgOnly
  BY DEF IInv, IngestedIsOwn, OwnOrgOnly
<1> QED
  BY <1>1, Invariance, PTL
-----------------------------------------------------------------------------
\* Delivery is at least once: every step stores a row, delivers stored rows of
\* registered orgs, marks delivered rows, or does none of these.
THEOREM AtLeastOnce == Spec => ImplementsReliableDelivery
<1> USE DEF Reliable!dvars
<1>1. Init => Reliable!Init
  BY DEF Init, Reliable!Init, Stored, Delivered
<1>2. IInv /\ IInv' /\ [Next]_vars => [Reliable!Next]_(Reliable!dvars)
  <2> SUFFICES ASSUME IInv, IInv', [Next]_vars PROVE [Reliable!Next]_(Reliable!dvars)
    OBVIOUS
  <2>1. Delivered \subseteq Delivered'
    BY ButlerGrows DEF Delivered, IInv
  <2>2. Delivered' \subseteq Stored' \cap {r \in Requests : OrgOf(r) \in Orgs}
    BY DEF Delivered, IInv, IngestedIsOwn
  <2>3. ASSUME NEW r \in Requests, NewRow(r) PROVE Reliable!Store(r)
    BY <2>3, StoredGrows DEF NewRow, repVars, Reliable!Store, IInv, TypeOK, DataTypeOK, Delivered
  <2>4. CASE UNCHANGED <<rows, synced>>
    <3>1. Stored' = Stored
      BY <2>4 DEF Stored
    <3>2. Delivered' = Delivered \cup Delivered' /\ Delivered' \in SUBSET (Stored \cap {r \in Requests : OrgOf(r) \in Orgs})
      BY <2>1, <2>2, <3>1
    <3>3. Reliable!Deliver
      BY <2>4, <3>1, <3>2 DEF Reliable!Deliver
    <3> QED
      BY <3>3 DEF Reliable!Next
  <2>5. ASSUME NEW o \in Orgs, MarkSynced(o) PROVE [Reliable!Next]_(Reliable!dvars)
    <3>1. Stored' = Stored /\ Delivered' = Delivered
      BY <2>5 DEF MarkSynced, Stored, Delivered
    <3>2. synced' \in {synced, synced \cup rep[o].batch} /\ rep[o].pc = "mark"
      BY <2>5 DEF MarkSynced
    <3>3. rep[o].batch \subseteq Delivered
      BY <3>2 DEF IInv, TypeOK, RepTypeOK, RepState, AckedWasIngested, BatchIsOwn, OwnRows, Delivered
    <3>4. Reliable!MarkSynced \/ UNCHANGED Reliable!dvars
      BY <3>1, <3>2, <3>3 DEF Reliable!MarkSynced
    <3> QED
      BY <3>4 DEF Reliable!Next
  <2> QED
    BY <2>3, <2>4, <2>5 DEF Next, ReporterStep, Start, Stop, Tick, SeeStop, Stopped,
       FetchUnsyncedRecords, Send, SendReturns, Ingest, IngestLate, Crash, Die, vars, repVars,
       Reliable!Next
<1> QED
  BY <1>1, <1>2, Invariance, PTL DEF Spec, ImplementsReliableDelivery, Reliable!Spec
-----------------------------------------------------------------------------
(***************************************************************************)
(* Order, final flush and repetition.                                      *)
(***************************************************************************)
\* A row is stored once.
RowsDistinct == \A i, j \in DOMAIN rows : rows[i] = rows[j] => i = j

\* A batch holds rows that are not marked, and none before them is left out.
BatchIsUnsynced == \A o \in Orgs : rep[o].batch \cap synced = {}

BatchIsPrefix ==
    \A o \in Orgs : \A i, j \in DOMAIN rows :
        i < j /\ OrgOf(rows[i]) = o /\ rows[j] \in rep[o].batch => rows[i] \in synced \cup rep[o].batch

\* From its last page on, what the final flush owes is marked or in hand.
FlushOK(o) ==
    /\ rep[o].final => rep[o].pc \notin {"off", "wait"}
    /\ rep[o].pc = "done" => rep[o].final
    /\ OwnRows(o, rep[o].owed)
    /\ rep[o].pc \in {"send", "sent", "mark"} /\ Cardinality(rep[o].batch) < BatchMaxSize
          => rep[o].owed \subseteq synced \cup rep[o].batch
DrainOK(o) == (rep[o].pc = "done" /\ rep[o].clean) => rep[o].owed \subseteq synced

FinalFlush == \A o \in Orgs : FlushOK(o)

\* The POSTs on the loose that would have Butler ingest the record once more.
OnTheWay(o, r) == {m \in late : m.org = o /\ r \in m.ids}

\* The POSTs of an org that are on the loose are finitely many.
LateOf(o) == {m \in late : m.org = o}

LateIsFinite == \A o \in Orgs : IsFiniteSet(LateOf(o))

\* The ingestion of a record that counts as the one it is due.
Due(o, r) == r \in synced \/ (Acked(o) /\ r \in rep[o].batch)

\* Ingestions of a record, made or still to come: all but the one that is due are paid for.
PaidFor ==
    \A o \in Orgs, r \in Requests :
        /\ butler[o][r] + Cardinality(OnTheWay(o, r)) <= faults + deaths + 1
        /\ ~Due(o, r) => butler[o][r] + Cardinality(OnTheWay(o, r)) <= faults + deaths

\* The second inductive invariant, on top of IInv.
OInv == RowsDistinct /\ BatchIsUnsynced /\ BatchIsPrefix /\ SyncedIsPrefix /\ FinalFlush /\ FinalFlushDrains
        /\ LateIsFinite /\ PaidFor

-----------------------------------------------------------------------------
\* A set of numbers that is not empty has a least one: inclusion is well-founded on the
\* finite sets of the numbers below each of its members.
LEMMA Minimum ==
    ASSUME NEW T \in SUBSET Nat, T # {}
    PROVE  \E m \in T : \A t \in T : m <= t
<1> DEFINE Below(t) == 0..(t - 1)
           Heads    == {Below(t) : t \in T}
           R        == StrictSubsetOrdering(Nat)
           F        == FiniteSubsetsOf(Nat)
<1>1. ASSUME NEW t \in T PROVE Below(t) \in F
  <2>1. Below(t) \in SUBSET Nat
    OBVIOUS
  <2>2. IsFiniteSet(Below(t))
    BY FS_Interval
  <2>3. QED
    BY <2>1, <2>2 DEF FiniteSubsetsOf
<1>2. Heads \subseteq F /\ Heads # {}
  BY <1>1
<1>3. IsWellFoundedOn(R, F)
  BY FS_StrictSubsetOrderingWellFounded
<1>4. PICK S \in Heads : \A U \in Heads : ~(<<U, S>> \in R)
  <2> HIDE DEF Heads, R, F
  <2>1. QED
    BY <1>2, <1>3, WFMin
<1>5. PICK m \in T : S = Below(m)
  OBVIOUS
<1>6. ASSUME NEW t \in T, ~(m <= t) PROVE FALSE
  <2>1. t \in Nat /\ m \in Nat /\ t < m
    BY <1>6
  <2>2. Below(t) \subseteq Below(m) /\ t \in Below(m) /\ t \notin Below(t)
    BY <2>1
  <2>3. Below(t) \in SUBSET Nat /\ Below(m) \in SUBSET Nat
    BY <2>1
  <2>4. <<Below(t), Below(m)>> \in R
    BY <2>2, <2>3 DEF StrictSubsetOrdering
  <2>5. QED
    BY <1>4, <1>5, <2>4
<1>7. QED
  BY <1>6

\* The rows that are there stay where they are; a new one comes after them.
LEMMA RowsStay ==
    ASSUME DataTypeOK, [Next]_vars
    PROVE  /\ DOMAIN rows \subseteq Nat /\ DOMAIN rows' \subseteq Nat
           /\ \A i \in DOMAIN rows : i \in DOMAIN rows' /\ rows'[i] = rows[i]
           /\ \A i \in DOMAIN rows' \ DOMAIN rows : rows'[i] \notin Stored
           /\ \A i, j \in DOMAIN rows' : i < j /\ j \in DOMAIN rows => i \in DOMAIN rows
           /\ \A i, j \in DOMAIN rows' \ DOMAIN rows : i = j
<1>1. Len(rows) \in Nat /\ DOMAIN rows = 1..Len(rows) /\ rows \in Seq(Requests)
  BY DEF DataTypeOK
<1>2. CASE UNCHANGED rows
  BY <1>1, <1>2
<1>3. ASSUME NEW r \in Requests, NewRow(r)
      PROVE  /\ DOMAIN rows' = 1..(Len(rows) + 1) /\ rows'[Len(rows) + 1] = r /\ r \notin Stored
             /\ \A i \in DOMAIN rows : rows'[i] = rows[i]
  BY <1>1, <1>3 DEF NewRow
<1>4. ASSUME NEW r \in Requests, NewRow(r)
      PROVE  /\ DOMAIN rows \subseteq Nat /\ DOMAIN rows' \subseteq Nat
             /\ \A i \in DOMAIN rows : i \in DOMAIN rows' /\ rows'[i] = rows[i]
             /\ \A i \in DOMAIN rows' \ DOMAIN rows : rows'[i] \notin Stored
             /\ \A i, j \in DOMAIN rows' : i < j /\ j \in DOMAIN rows => i \in DOMAIN rows
             /\ \A i, j \in DOMAIN rows' \ DOMAIN rows : i = j
  <2>1. \A i \in DOMAIN rows' \ DOMAIN rows : i = Len(rows) + 1
    BY <1>1, <1>3, <1>4
  <2>2. QED
    BY <1>1, <1>3, <1>4, <2>1
<1>5. QED
  BY <1>2, <1>4 DEF Next, ReporterStep, Start, Stop, Tick, SeeStop, Stopped, FetchUnsyncedRecords,
     Send, SendReturns, MarkSynced, Ingest, IngestLate, Crash, Die, vars

\* A row is inserted only if it is not there.
LEMMA RowsDistinctStep == DataTypeOK /\ RowsDistinct /\ [Next]_vars => RowsDistinct'
<1> SUFFICES ASSUME DataTypeOK, RowsDistinct, [Next]_vars,
                    NEW i \in DOMAIN rows', NEW j \in DOMAIN rows', rows'[i] = rows'[j]
             PROVE  i = j
  BY DEF RowsDistinct
<1>1. CASE i \in DOMAIN rows /\ j \in DOMAIN rows
  BY <1>1, RowsStay DEF RowsDistinct
<1>2. CASE i \in DOMAIN rows /\ j \notin DOMAIN rows
  BY <1>2, RowsStay DEF Stored
<1>3. CASE i \notin DOMAIN rows /\ j \in DOMAIN rows
  BY <1>3, RowsStay DEF Stored
<1>4. CASE i \notin DOMAIN rows /\ j \notin DOMAIN rows
  BY <1>4, RowsStay
<1>5. QED
  BY <1>1, <1>2, <1>3, <1>4

\* Rows come to be marked a batch at a time, by the reporter that then drops it.
LEMMA MarkedByBatch ==
    ASSUME TypeOK, [Next]_vars
    PROVE  /\ synced \subseteq synced'
           /\ synced' # synced => \E o \in Orgs : /\ synced' = synced \cup rep[o].batch
                                                  /\ rep'[o].batch = {}
<1> USE DEF TypeOK, RepTypeOK, RepState
<1>1. ASSUME NEW o \in Orgs, MarkSynced(o)
      PROVE  synced' = synced \/ (synced' = synced \cup rep[o].batch /\ rep'[o].batch = {})
  <2>1. FlushEnds(o, FALSE) => rep'[o].batch = {}
    BY DEF FlushEnds
  <2>2. QED
    BY <1>1, <2>1 DEF MarkSynced
<1>2. CASE UNCHANGED synced
  BY <1>2
<1>3. QED
  BY <1>1, <1>2 DEF Next, ReporterStep, NewRow, Start, Stop, Tick, SeeStop, Stopped,
     FetchUnsyncedRecords, Send, SendReturns, Ingest, IngestLate, Crash, Die, vars, repVars

\* What is marked is stored.
LEMMA SyncedIsStored == IInv => synced \subseteq Stored
  BY DEF IInv, SyncedWasIngested, IngestedIsOwn, TypeOK, DataTypeOK

\* No other reporter marks the rows a reporter has in hand, and it marks them last.
LEMMA BatchIsUnsyncedStep == IInv /\ IInv' /\ BatchIsUnsynced /\ [Next]_vars => BatchIsUnsynced'
<1> SUFFICES ASSUME IInv, IInv', BatchIsUnsynced, [Next]_vars,
                    NEW o \in Orgs, NEW r \in rep'[o].batch, r \in synced'
             PROVE  FALSE
  BY DEF BatchIsUnsynced
<1> USE DEF IInv
<1>1. r \notin synced
  <2>1. CASE r \in rep[o].batch
    BY <2>1 DEF BatchIsUnsynced
  <2>2. CASE r \in Page(o)
    BY <2>2 DEF Page, Unsynced
  <2>3. QED
    BY <2>1, <2>2, BatchOrigin
<1>2. PICK p \in Orgs : r \in rep[p].batch /\ rep'[p].batch = {}
  BY <1>1, MarkedByBatch
<1>3. OrgOf(r) = p /\ OrgOf(r) = o
  BY <1>2 DEF BatchIsOwn, OwnRows
<1>4. QED
  BY <1>2, <1>3

\* A page leaves out no row before the ones it holds.
LEMMA PageIsPrefix ==
    ASSUME DataTypeOK, RowsDistinct, NEW o \in Orgs, NEW i \in DOMAIN rows, NEW j \in DOMAIN rows,
           i < j, OrgOf(rows[i]) = o, rows[j] \in Page(o)
    PROVE  rows[i] \in synced \cup Page(o)
<1> DEFINE Before(n) == {k \in Unsynced(o) : k < n}
<1> SUFFICES ASSUME rows[i] \notin synced PROVE rows[i] \in Page(o)
  OBVIOUS
<1>1. Len(rows) \in Nat /\ DOMAIN rows = 1..Len(rows) /\ Unsynced(o) \subseteq 1..Len(rows)
  BY DEF DataTypeOK, Unsynced
<1>2. PICK n \in Unsynced(o) : Cardinality(Before(n)) < BatchMaxSize /\ rows[n] = rows[j]
  BY DEF Page
<1>3. n = j
  BY <1>2 DEF RowsDistinct, Unsynced
<1>4. Before(i) \subseteq Before(j)
  BY <1>1
<1>5. IsFiniteSet(1..Len(rows)) /\ Before(j) \in SUBSET (1..Len(rows))
  BY <1>1, FS_Interval
<1>6. IsFiniteSet(Before(j))
  BY <1>5, FS_Subset
<1>7. /\ Cardinality(Before(i)) <= Cardinality(Before(j)) /\ IsFiniteSet(Before(i))
  BY <1>4, <1>6, FS_Subset
<1>8. Cardinality(Before(i)) \in Nat /\ Cardinality(Before(j)) \in Nat
  BY <1>6, <1>7, FS_CardinalityType
<1>9. Cardinality(Before(i)) < BatchMaxSize
  BY <1>2, <1>3, <1>7, <1>8, ReporterAssumption
<1>10. i \in Unsynced(o)
  BY DEF Unsynced
<1>11. QED
  BY <1>9, <1>10 DEF Page

\* New rows come after the batch, and a fetched page leaves none out.
LEMMA BatchIsPrefixStep ==
    IInv /\ RowsDistinct /\ BatchIsPrefix /\ [Next]_vars => BatchIsPrefix'
<1> SUFFICES ASSUME IInv, RowsDistinct, BatchIsPrefix, [Next]_vars, NEW o \in Orgs,
                    NEW i \in DOMAIN rows', NEW j \in DOMAIN rows',
                    i < j, OrgOf(rows'[i]) = o, rows'[j] \in rep'[o].batch
             PROVE  rows'[i] \in synced' \cup rep'[o].batch
  BY DEF BatchIsPrefix
<1> USE DEF IInv, TypeOK
<1>1. rep'[o].batch \in {rep[o].batch, {}, Page(o)}
  BY BatchOrigin
<1>2. rows'[j] \in Stored
  BY <1>1, PageIsOwn DEF BatchIsOwn, OwnRows, DataTypeOK
<1>3. i \in DOMAIN rows /\ j \in DOMAIN rows /\ rows'[i] = rows[i] /\ rows'[j] = rows[j]
  BY <1>2, RowsStay
<1>4. rows[i] \in synced \cup rep'[o].batch
  <2>1. CASE rep'[o].batch = rep[o].batch
    BY <1>3, <2>1 DEF BatchIsPrefix
  <2>2. CASE rep'[o].batch = Page(o)
    BY <1>3, <2>2, PageIsPrefix
  <2>3. QED
    BY <1>1, <2>1, <2>2
<1>5. QED
  BY <1>3, <1>4, MarkedByBatch

\* Marking a batch that leaves no older row out keeps the marked rows a prefix.
LEMMA SyncedIsPrefixStep ==
    IInv /\ BatchIsPrefix /\ SyncedIsPrefix /\ [Next]_vars => SyncedIsPrefix'
<1> SUFFICES ASSUME IInv, BatchIsPrefix, SyncedIsPrefix, [Next]_vars,
                    NEW i \in DOMAIN rows', NEW j \in DOMAIN rows',
                    i < j, OrgOf(rows'[i]) = OrgOf(rows'[j]), rows'[j] \in synced'
             PROVE  rows'[i] \in synced'
  BY DEF SyncedIsPrefix
<1> USE DEF IInv
<1>1. rows'[j] \in Stored
  BY MarkedByBatch, SyncedIsStored DEF BatchIsOwn, OwnRows
<1>2. i \in DOMAIN rows /\ j \in DOMAIN rows /\ rows'[i] = rows[i] /\ rows'[j] = rows[j]
  BY <1>1, RowsStay DEF TypeOK
<1>3. CASE rows[j] \in synced
  BY <1>2, <1>3, MarkedByBatch DEF SyncedIsPrefix
<1>4. CASE rows[j] \notin synced
  <2>1. PICK o \in Orgs : synced' = synced \cup rep[o].batch
    BY <1>2, <1>4, MarkedByBatch
  <2>2. rows[j] \in rep[o].batch /\ OrgOf(rows[j]) = o
    BY <1>2, <1>4, <2>1 DEF BatchIsOwn, OwnRows
  <2>3. QED
    BY <1>2, <2>1, <2>2 DEF BatchIsPrefix
<1>5. QED
  BY <1>3, <1>4

\* A page that is not full is everything that is pending.
LEMMA PageIsAll ==
    ASSUME DataTypeOK, RowsDistinct, NEW o \in Orgs, Cardinality(Page(o)) < BatchMaxSize
    PROVE  Pending(o) = Page(o)
<1> DEFINE U         == Unsynced(o)
           Before(n) == {k \in U : k < n}
           I         == {n \in U : Cardinality(Before(n)) < BatchMaxSize}
           f         == [n \in I |-> rows[n]]
<1>1. Len(rows) \in Nat /\ DOMAIN rows = 1..Len(rows) /\ U \in SUBSET (1..Len(rows))
  BY DEF DataTypeOK, Unsynced
<1>2. Page(o) = {rows[n] : n \in I} /\ Pending(o) = {rows[n] : n \in U}
  BY DEF Page, Pending
<1>3. IsFiniteSet(1..Len(rows)) /\ I \in SUBSET (1..Len(rows))
  BY <1>1, FS_Interval
<1>4. IsFiniteSet(I)
  BY <1>3, FS_Subset
<1>5. f \in Surjection(I, Page(o))
  BY <1>2 DEF Surjection
<1>6. f \in Injection(I, Page(o))
  BY <1>1, <1>2, <1>3 DEF Injection, IsInjective, RowsDistinct
<1>7. Cardinality(Page(o)) = Cardinality(I)
  <2> HIDE DEF f, I
  <2>1. QED
    BY <1>4, <1>5, <1>6, FS_Surjection
<1>8. ASSUME U # I PROVE FALSE
  <2>0. I \in SUBSET U /\ U \in SUBSET Nat
    BY <1>1
  <2>1. U \ I \in SUBSET Nat /\ U \ I # {}
    <3> HIDE DEF I, U
    <3>1. QED
      BY <1>8, <2>0
  <2>2. PICK m \in U \ I : \A t \in U \ I : m <= t
    <3> HIDE DEF I, U
    <3>1. QED
      BY <2>1, Minimum
  <2>3. Before(m) \in SUBSET I
    <3>1. ASSUME NEW t \in U, t < m PROVE t \in I
      <4>1. t \in Nat /\ m \in Nat /\ ~(m <= t)
        BY <2>0, <2>2, <3>1
      <4>2. t \notin U \ I
        BY <2>2, <4>1
      <4>3. QED
        BY <3>1, <4>2
    <3>2. QED
      BY <3>1
  <2>4. Cardinality(Before(m)) <= Cardinality(I) /\ IsFiniteSet(Before(m))
    <3> HIDE DEF I, Before
    <3>1. QED
      BY <1>4, <2>3, FS_Subset
  <2>5. Cardinality(Before(m)) \in Nat /\ Cardinality(I) \in Nat
    <3> HIDE DEF I, Before
    <3>1. QED
      BY <1>4, <2>4, FS_CardinalityType
  <2>6. ~(Cardinality(Before(m)) < BatchMaxSize)
    BY <2>2
  <2>7. QED
    BY <1>7, <2>4, <2>5, <2>6, ReporterAssumption
<1>9. QED
  BY <1>2, <1>8

\* What ending a flush leaves of the reporter.
LEMMA FlushEndsWith ==
    ASSUME RepTypeOK, NEW o \in Orgs, NEW fault \in BOOLEAN, FlushEnds(o, fault)
    PROVE  /\ rep'[o].pc = IF rep[o].final THEN "done" ELSE "wait"
           /\ rep'[o].batch = {}
           /\ rep'[o].owed = rep[o].owed
           /\ rep'[o].final <=> rep[o].final
           /\ rep'[o].clean /\ rep[o].final => ~fault /\ rep[o].clean
<1>1. rep[o] \in RepState /\ rep \in [Orgs -> RepState]
  BY DEF RepTypeOK
<1>2. QED
  BY <1>1 DEF FlushEnds, RepState

\* A reporter keeps to what its final flush owes: a page that is not full is all there is.
LEMMA FlushStep ==
    ASSUME IInv, RowsDistinct, FinalFlush, FinalFlushDrains, [Next]_vars, NEW o \in Orgs
    PROVE  FlushOK(o)' /\ DrainOK(o)'
<1> USE DEF IInv, TypeOK, RepTypeOK
<1> DEFINE Same == /\ rep'[o].pc = rep[o].pc /\ rep'[o].batch = rep[o].batch
                   /\ rep'[o].final = rep[o].final /\ rep'[o].clean = rep[o].clean
                   /\ rep'[o].owed = rep[o].owed
<1>1. FlushOK(o) /\ DrainOK(o) /\ rep[o] \in RepState
  BY DEF FinalFlush, FinalFlushDrains, DrainOK
<1>2. synced \subseteq synced' /\ Stored \subseteq Stored'
  BY MarkedByBatch, StoredNeverShrinks
<1>3. ASSUME Same PROVE FlushOK(o)' /\ DrainOK(o)'
  BY <1>1, <1>2, <1>3 DEF FlushOK, DrainOK, OwnRows
<1>4. ASSUME rep'[o].pc \in {"off", "wait"}, rep'[o].owed = {}, ~rep'[o].final
      PROVE  FlushOK(o)' /\ DrainOK(o)'
  BY <1>4 DEF FlushOK, DrainOK, OwnRows
<1>5. ASSUME rep[o].owed \subseteq synced' \/ ~rep[o].final, FlushEnds(o, FALSE)
      PROVE  FlushOK(o)' /\ DrainOK(o)'
  BY <1>1, <1>2, <1>5, FlushEndsWith DEF FlushOK, DrainOK, OwnRows
<1>6. ASSUME FlushEnds(o, TRUE) PROVE FlushOK(o)' /\ DrainOK(o)'
  BY <1>1, <1>2, <1>6, FlushEndsWith DEF FlushOK, DrainOK, OwnRows
<1>7. ASSUME NEW S, OwnRows(o, S), Page(o) = {} \/ Cardinality(Page(o)) < BatchMaxSize
      PROVE  S \subseteq synced \cup Page(o)
  <2>1. Cardinality(Page(o)) < BatchMaxSize
    BY <1>7, FS_EmptySet, ReporterAssumption
  <2>2. Pending(o) = Page(o)
    BY <2>1, PageIsAll
  <2>3. QED
    BY <1>7, <2>2 DEF Pending, Unsynced, OwnRows, Stored
<1>8. CASE Start(o) \/ Stopped(o)
  BY <1>4, <1>8 DEF Start, Stopped, Off
<1>9. CASE Stop(o)
  BY <1>3, <1>9 DEF Stop
<1>10. CASE Tick(o)
  <2>1. rep' = [rep EXCEPT ![o].pc = "fetch"] /\ rep[o].pc = "wait"
    BY <1>10 DEF Tick
  <2>2. rep'[o].pc = "fetch" /\ rep'[o].owed = rep[o].owed /\ (rep'[o].final <=> rep[o].final)
    BY <2>1
  <2>3. QED
    BY <1>1, <1>2, <2>2 DEF FlushOK, DrainOK, OwnRows
<1>11. CASE SeeStop(o)
  <2>1. rep'[o].pc = "fetch" /\ rep'[o].owed = Pending(o)
    BY <1>11 DEF SeeStop
  <2>2. OwnRows(o, Pending(o))
    BY DEF OwnRows, Pending, Unsynced, Stored
  <2>3. QED
    BY <1>2, <2>1, <2>2 DEF FlushOK, DrainOK, OwnRows
<1>12. CASE FetchUnsyncedRecords(o)
  <2>1. CASE rep' = [rep EXCEPT ![o].pc = "send", ![o].batch = Page(o)]
    <3>1. /\ rep'[o].pc = "send" /\ rep'[o].batch = Page(o)
          /\ rep'[o].owed = rep[o].owed /\ (rep'[o].final <=> rep[o].final)
      BY <2>1, <1>1 DEF RepState
    <3>2. OwnRows(o, rep[o].owed)
      BY <1>1 DEF FlushOK
    <3>3. Cardinality(Page(o)) < BatchMaxSize => rep[o].owed \subseteq synced' \cup Page(o)
      BY <1>2, <1>7, <3>2
    <3>4. QED
      BY <1>1, <1>2, <3>1, <3>2, <3>3 DEF FlushOK, DrainOK, OwnRows
  <2>2. CASE Page(o) = {} /\ FlushEnds(o, FALSE)
    <3>1. rep[o].owed \subseteq synced'
      BY <1>1, <1>2, <1>7, <2>2 DEF FlushOK
    <3>2. QED
      BY <1>5, <2>2, <3>1
  <2>3. QED
    BY <1>6, <1>12, <2>1, <2>2 DEF FetchUnsyncedRecords, NothingToSend
<1>13. CASE Send(o)
  <2>1. /\ rep[o].pc = "send" /\ rep'[o].pc = "sent" /\ rep'[o].batch = rep[o].batch
        /\ rep'[o].owed = rep[o].owed /\ (rep'[o].final <=> rep[o].final)
    BY <1>13 DEF Send
  <2>2. QED
    BY <1>1, <1>2, <2>1 DEF FlushOK, DrainOK, OwnRows
<1>14. CASE SendReturns(o)
  <2>1. CASE rep[o].pc = "sent" /\ rep' = [rep EXCEPT ![o].pc = "mark"]
    <3>1. /\ rep'[o].pc = "mark" /\ rep'[o].batch = rep[o].batch
          /\ rep'[o].owed = rep[o].owed /\ (rep'[o].final <=> rep[o].final)
      BY <2>1
    <3>2. QED
      BY <1>1, <1>2, <2>1, <3>1 DEF FlushOK, DrainOK, OwnRows
  <2>2. QED
    BY <1>6, <1>14, <2>1 DEF SendReturns
<1>15. CASE MarkSynced(o)
  <2>1. CASE LastPage(o) /\ synced' = synced \cup rep[o].batch /\ rep[o].pc = "mark" /\ FlushEnds(o, FALSE)
    BY <1>1, <1>5, <2>1 DEF LastPage, FlushOK
  <2>2. CASE rep' = [rep EXCEPT ![o].pc = "fetch", ![o].batch = {}] /\ rep[o].pc = "mark"
    <3>1. rep'[o].pc = "fetch" /\ rep'[o].owed = rep[o].owed /\ (rep'[o].final <=> rep[o].final)
      BY <2>2, <1>1 DEF RepState
    <3>2. QED
      BY <1>1, <1>2, <3>1 DEF FlushOK, DrainOK, OwnRows
  <2>3. QED
    BY <1>6, <1>15, <2>1, <2>2 DEF MarkSynced
<1>16. CASE Crash
  BY <1>4, <1>16 DEF Crash, Die, Off
<1>17. CASE UNCHANGED rep
  BY <1>3, <1>17
<1>18. ASSUME NEW p \in Orgs \ {o}, ReporterStep(p) \/ Stop(p)
       PROVE  FlushOK(o)' /\ DrainOK(o)'
  <2>1. rep'[o] = rep[o]
    BY <1>18 DEF ReporterStep, Start, Stop, Tick, SeeStop, Stopped, FetchUnsyncedRecords, FlushEnds,
       Send, SendReturns, MarkSynced
  <2>2. QED
    BY <1>3, <2>1
<1>19. QED
  BY <1>8, <1>9, <1>10, <1>11, <1>12, <1>13, <1>14, <1>15, <1>16, <1>17, <1>18
  DEF Next, ReporterStep, NewRow, Ingest, IngestLate, vars, repVars

\* The same for every org.
LEMMA FinalFlushStep ==
    IInv /\ RowsDistinct /\ FinalFlush /\ FinalFlushDrains /\ [Next]_vars => FinalFlush' /\ FinalFlushDrains'
  BY FlushStep DEF FinalFlush, FinalFlushDrains, DrainOK

-----------------------------------------------------------------------------
\* A step costs at most one fault or one death.
OneMore == faults' + deaths' = faults + deaths + 1

LEMMA Costs ==
    ASSUME DataTypeOK, [Next]_vars
    PROVE  OneMore \/ faults' + deaths' = faults + deaths
<1> USE DEF DataTypeOK, OneMore, Fault
<1>1. CASE Crash
  BY <1>1 DEF Crash, Die
<1>2. CASE UNCHANGED <<faults, deaths>>
  BY <1>2
<1>3. ASSUME Fault \/ UNCHANGED faults, UNCHANGED deaths
      PROVE  OneMore \/ faults' + deaths' = faults + deaths
  BY <1>3
<1>4. QED
  BY <1>1, <1>2, <1>3 DEF Next, ReporterStep, NewRow, Start, Stop, Tick, SeeStop, Stopped,
     FetchUnsyncedRecords, Send, SendReturns, MarkSynced, Ingest, IngestLate, vars, repVars

\* A POST comes to be on the loose only while its reporter waits on it, at the cost of a
\* fault or of a death.
LEMMA LateOrigin ==
    ASSUME TypeOK, [Next]_vars, NEW m \in late', m \notin late
    PROVE  /\ m.org \in Orgs /\ post[m.org].state = "open"
           /\ m = [org |-> m.org, ids |-> post[m.org].ids]
           /\ OneMore /\ UNCHANGED butler
<1> USE DEF TypeOK, DataTypeOK
<1>1. ASSUME NEW o \in Orgs, SendReturns(o)
      PROVE  /\ m.org \in Orgs /\ post[m.org].state = "open"
             /\ m = [org |-> m.org, ids |-> post[m.org].ids]
             /\ OneMore /\ UNCHANGED butler
  <2>1. m = [org |-> o, ids |-> post[o].ids] /\ post[o].state = "open" /\ Fault /\ UNCHANGED <<deaths, butler>>
    BY <1>1 DEF SendReturns
  <2>2. OneMore
    BY <2>1 DEF Fault, OneMore
  <2>3. QED
    BY <2>1, <2>2
<1>2. ASSUME Crash
      PROVE  /\ m.org \in Orgs /\ post[m.org].state = "open"
             /\ m = [org |-> m.org, ids |-> post[m.org].ids]
             /\ OneMore /\ UNCHANGED butler
  <2>1. PICK o \in Orgs : m = [org |-> o, ids |-> post[o].ids] /\ post[o].state = "open"
    BY <1>2 DEF Crash, Die
  <2>2. OneMore /\ UNCHANGED butler
    BY <1>2 DEF Crash, Die, OneMore
  <2>3. QED
    BY <2>1, <2>2
<1>3. late' \subseteq late \/ Crash \/ \E o \in Orgs : SendReturns(o)
  BY DEF Next, ReporterStep, NewRow, Start, Stop, Tick, SeeStop, Stopped,
     FetchUnsyncedRecords, Send, MarkSynced, Ingest, IngestLate, vars, repVars
<1>4. QED
  BY <1>1, <1>2, <1>3

\* At most one POST of an org gets loose in a step.
LEMMA LateIsFiniteStep == TypeOK /\ LateIsFinite /\ [Next]_vars => LateIsFinite'
<1> SUFFICES ASSUME TypeOK, LateIsFinite, [Next]_vars, NEW o \in Orgs
             PROVE  IsFiniteSet(LateOf(o)')
  BY DEF LateIsFinite
<1> DEFINE m == [org |-> o, ids |-> post[o].ids]
<1>1. LateOf(o)' \in SUBSET (LateOf(o) \cup {m})
  BY LateOrigin DEF LateOf
<1>2. IsFiniteSet(LateOf(o) \cup {m})
  BY FS_AddElement DEF LateIsFinite
<1>3. QED
  <2> HIDE DEF m
  <2>1. QED
    BY <1>1, <1>2, FS_Subset

\* What a step does to the POSTs on the loose that hold a record.
LEMMA OnTheWayStep ==
    ASSUME TypeOK, LateIsFinite, [Next]_vars, NEW o \in Orgs, NEW r \in Requests
    PROVE  /\ Cardinality(OnTheWay(o, r)) \in Nat
           /\ Cardinality(OnTheWay(o, r)') \in Nat
           /\ \/ Cardinality(OnTheWay(o, r)') <= Cardinality(OnTheWay(o, r))
              \/ /\ Cardinality(OnTheWay(o, r)') <= Cardinality(OnTheWay(o, r)) + 1
                 /\ post[o].state = "open" /\ OneMore /\ UNCHANGED butler
<1> DEFINE W  == OnTheWay(o, r)
           X  == OnTheWay(o, r)'
           m  == [org |-> o, ids |-> post[o].ids]
<1>1. W \in SUBSET LateOf(o) /\ X \in SUBSET LateOf(o)'
  BY DEF OnTheWay, LateOf
<1>2. IsFiniteSet(LateOf(o)) /\ IsFiniteSet(LateOf(o)')
  BY LateIsFiniteStep DEF LateIsFinite
<1>3. IsFiniteSet(W) /\ IsFiniteSet(X)
  <2> HIDE DEF W, X
  <2>1. QED
    BY <1>1, <1>2, FS_Subset
<1>4. X \in SUBSET W \/ (X \in SUBSET (W \cup {m}) /\ post[o].state = "open" /\ OneMore /\ UNCHANGED butler)
  <2>1. ASSUME NEW x \in X, x \notin W
        PROVE  x = m /\ post[o].state = "open" /\ OneMore /\ UNCHANGED butler
    <3>1. x \in late' /\ x \notin late /\ x.org = o
      BY <2>1 DEF OnTheWay
    <3>2. QED
      BY <3>1, LateOrigin
  <2>2. QED
    BY <2>1
<1> HIDE DEF W, X, m
<1>5. Cardinality(W) \in Nat /\ Cardinality(X) \in Nat
  BY <1>3, FS_CardinalityType
<1>6. ASSUME X \in SUBSET W PROVE Cardinality(X) <= Cardinality(W)
  BY <1>3, <1>6, FS_Subset
<1>7. ASSUME X \in SUBSET (W \cup {m}) PROVE Cardinality(X) <= Cardinality(W) + 1
  <2>1. IsFiniteSet(W \cup {m}) /\ Cardinality(W \cup {m}) \in {Cardinality(W), Cardinality(W) + 1}
    BY <1>3, FS_AddElement
  <2>2. Cardinality(X) <= Cardinality(W \cup {m})
    BY <1>7, <2>1, FS_Subset
  <2>3. QED
    BY <1>5, <2>1, <2>2
<1>8. QED
  BY <1>4, <1>5, <1>6, <1>7 DEF W, X

\* An ingestion that is due stays due, or a fault or a death pays for it.
LEMMA DueStep ==
    ASSUME IInv, [Next]_vars, NEW o \in Orgs, NEW r \in Requests, Due(o, r)
    PROVE  Due(o, r)' \/ (OneMore /\ Acked(o))
<1> USE DEF IInv, TypeOK, RepTypeOK, DataTypeOK
<1>1. CASE r \in synced
  BY <1>1, MarkedByBatch DEF Due
<1>2. CASE Acked(o) /\ r \in rep[o].batch
  <2>1. rep[o].pc = "mark" \/ (rep[o].pc = "sent" /\ post[o].state = "ok")
    BY <1>2 DEF Acked, InHand
  <2>2. CASE rep'[o].pc = rep[o].pc /\ rep'[o].batch = rep[o].batch /\ post'[o] = post[o]
    BY <1>2, <2>2 DEF Due, Acked
  <2>3. ASSUME Fault, UNCHANGED deaths PROVE OneMore
    BY <2>3 DEF Fault, OneMore
  <2>4. CASE SendReturns(o)
    <3>1. rep[o].pc = "sent" /\ post[o].state = "ok" /\ UNCHANGED deaths
      BY <2>1, <2>4 DEF SendReturns
    <3>2. CASE rep' = [rep EXCEPT ![o].pc = "mark"]
      <4>1. rep'[o].pc = "mark" /\ rep'[o].batch = rep[o].batch
        BY <3>2
      <4>2. QED
        BY <1>2, <4>1 DEF Due, Acked
    <3>3. QED
      BY <1>2, <2>3, <2>4, <3>1, <3>2 DEF SendReturns
  <2>5. CASE MarkSynced(o)
    BY <1>2, <2>3, <2>5 DEF MarkSynced, Due
  <2>6. CASE Crash
    BY <1>2, <2>6 DEF Crash, Die, OneMore
  <2>7. CASE Stop(o)
    BY <1>2, <2>2, <2>7 DEF Stop
  <2>8. ASSUME NEW p \in Orgs \ {o}, ReporterStep(p) \/ Stop(p) \/ Ingest(p)
        PROVE  rep'[o] = rep[o] /\ post'[o] = post[o]
    BY <2>8 DEF ReporterStep, Start, Stop, Tick, SeeStop, Stopped, FetchUnsyncedRecords, FlushEnds,
       Send, SendReturns, MarkSynced, Ingest
  <2>9. ~Start(o) /\ ~Tick(o) /\ ~SeeStop(o) /\ ~Stopped(o) /\ ~FetchUnsyncedRecords(o) /\ ~Send(o) /\ ~Ingest(o)
    BY <2>1 DEF Start, Tick, SeeStop, Stopped, FetchUnsyncedRecords, Send, Ingest, InHand
  <2>10. CASE UNCHANGED <<rep, post>>
    BY <2>2, <2>10
  <2>11. QED
    BY <2>2, <2>4, <2>5, <2>6, <2>7, <2>8, <2>9, <2>10
    DEF Next, ReporterStep, NewRow, IngestLate, vars, repVars
<1>3. QED
  BY <1>1, <1>2 DEF Due

\* Who ingests a record: the POST its reporter waits on, or one on the loose.
LEMMA ButlerStep ==
    ASSUME TypeOK, [Next]_vars, NEW o \in Orgs, NEW r \in Requests
    PROVE  \/ butler'[o][r] = butler[o][r]
           \/ Ingest(o) /\ r \in rep[o].batch /\ butler'[o][r] = butler[o][r] + 1
           \/ \E m \in OnTheWay(o, r) :
                  /\ OnTheWay(o, r)' = OnTheWay(o, r) \ {m}
                  /\ butler'[o][r] = butler[o][r] + 1
                  /\ UNCHANGED <<synced, rep, post, faults, deaths>>
<1> USE DEF TypeOK, DataTypeOK
<1>1. ASSUME NEW p \in Orgs, Ingest(p)
      PROVE  \/ butler'[o][r] = butler[o][r]
             \/ Ingest(o) /\ r \in rep[o].batch /\ butler'[o][r] = butler[o][r] + 1
  <2>1. Ingested(p, rep[p].batch)
    BY <1>1 DEF Ingest, RepTypeOK, InHand
  <2>2. QED
    BY <1>1, <2>1, IngestedType
<1>2. ASSUME NEW m \in late, IngestLate(m)
      PROVE  \/ butler'[o][r] = butler[o][r]
             \/ /\ m \in OnTheWay(o, r) /\ butler'[o][r] = butler[o][r] + 1
                /\ OnTheWay(o, r)' = OnTheWay(o, r) \ {m}
                /\ UNCHANGED <<synced, rep, post, faults, deaths>>
  <2>1. m.org \in Orgs /\ (Ingested(m.org, m.ids) \/ UNCHANGED butler)
    BY <1>2 DEF IngestLate
  <2>2. OnTheWay(o, r)' = OnTheWay(o, r) \ {m}
    BY <1>2 DEF IngestLate, OnTheWay
  <2>3. QED
    BY <1>2, <2>1, <2>2, IngestedType DEF IngestLate, OnTheWay
<1>3. CASE UNCHANGED butler
  BY <1>3
<1>4. QED
  BY <1>1, <1>2, <1>3 DEF Next, ReporterStep, NewRow, Start, Stop, Tick, SeeStop, Stopped,
     FetchUnsyncedRecords, Send, SendReturns, MarkSynced, Crash, Die, vars, repVars

\* Every ingestion of a record is the one it is due or is paid for by a fault or a death:
\* a POST that is given up on is paid for before Butler serves it.
LEMMA PaidForStep ==
    IInv /\ BatchIsUnsynced /\ LateIsFinite /\ PaidFor /\ [Next]_vars => PaidFor'
<1> SUFFICES ASSUME IInv, BatchIsUnsynced, LateIsFinite, PaidFor, [Next]_vars,
                    NEW o \in Orgs, NEW r \in Requests
             PROVE  /\ butler'[o][r] + Cardinality(OnTheWay(o, r)') <= faults' + deaths' + 1
                    /\ ~Due(o, r)' => butler'[o][r] + Cardinality(OnTheWay(o, r)') <= faults' + deaths'
  BY DEF PaidFor
<1> DEFINE a == butler[o][r]
           b == butler'[o][r]
           c == Cardinality(OnTheWay(o, r))
           d == Cardinality(OnTheWay(o, r)')
           f == faults + deaths
           g == faults' + deaths'
           Goal == b + d <= g + 1 /\ (~Due(o, r)' => b + d <= g)
<1>1. a + c <= f + 1 /\ (~Due(o, r) => a + c <= f)
  BY DEF PaidFor
<1>2. g = f \/ g = f + 1
  BY Costs DEF IInv, TypeOK, OneMore
<1>3. OneMore <=> g = f + 1
  BY DEF OneMore
<1>4. a \in Nat /\ c \in Nat /\ d \in Nat /\ f \in Nat
  <2>1. c \in Nat /\ d \in Nat
    BY OnTheWayStep DEF IInv
  <2>2. a \in Nat /\ faults \in Nat /\ deaths \in Nat
    BY DEF IInv, TypeOK, DataTypeOK
  <2>3. QED
    BY <2>1, <2>2
<1>5. Due(o, r) => Due(o, r)' \/ (g = f + 1 /\ Acked(o))
  BY <1>3, DueStep
<1>6. \/ d <= c
      \/ d <= c + 1 /\ g = f + 1 /\ ~Acked(o)
  <2>1. post[o].state = "open" => ~Acked(o)
    BY DEF Acked, IInv, TypeOK, RepTypeOK, InHand
  <2>2. QED
    BY <1>3, <2>1, OnTheWayStep DEF IInv
<1>7. \/ b = a
      \/ b = a + 1 /\ ~Due(o, r) /\ Due(o, r)' /\ d = c /\ g = f
      \/ b = a + 1 /\ (Due(o, r) => Due(o, r)') /\ d = c - 1 /\ g = f
  <2>1. ASSUME Ingest(o), r \in rep[o].batch
        PROVE  ~Due(o, r) /\ Due(o, r)' /\ d = c /\ g = f
    <3>1. ~Due(o, r)
      BY <2>1 DEF Ingest, Due, Acked, BatchIsUnsynced, IInv, TypeOK, RepTypeOK, InHand
    <3>2. Due(o, r)'
      BY <2>1 DEF Ingest, Due, Acked, IInv, TypeOK, RepTypeOK, PostState
    <3>3. QED
      BY <2>1, <3>1, <3>2 DEF Ingest, OnTheWay
  <2>2. ASSUME NEW m \in OnTheWay(o, r), OnTheWay(o, r)' = OnTheWay(o, r) \ {m},
               UNCHANGED <<synced, rep, post, faults, deaths>>
        PROVE  (Due(o, r) => Due(o, r)') /\ d = c - 1 /\ g = f
    <3>1. OnTheWay(o, r) \in SUBSET LateOf(o) /\ IsFiniteSet(LateOf(o))
      BY DEF OnTheWay, LateOf, LateIsFinite
    <3>2. IsFiniteSet(OnTheWay(o, r))
      BY <3>1, FS_Subset
    <3>3. d = c - 1
      BY <2>2, <3>2, FS_RemoveElement
    <3>4. QED
      BY <2>2, <3>3 DEF Due, Acked
  <2>3. QED
    BY <2>1, <2>2, ButlerStep DEF IInv
<1> HIDE DEF a, b, c, d, f, g
<1>8. b \in Nat /\ g \in Nat
  BY <1>2, <1>4, <1>7
<1>9. Goal
  BY <1>1, <1>2, <1>4, <1>5, <1>6, <1>7, <1>8
<1>10. QED
  BY <1>9 DEF b, d, g

\* The conjunction is inductive, on top of IInv.
LEMMA OrderInvariance == Spec => []OInv
<1>1. Init => OInv
  <2> SUFFICES ASSUME Init PROVE OInv
    OBVIOUS
  <2>1. rows = <<>> /\ synced = {} /\ rep = [o \in Orgs |-> Off] /\ late = {}
    BY DEF Init
  <2>2. RowsDistinct /\ BatchIsUnsynced /\ BatchIsPrefix /\ SyncedIsPrefix
    BY <2>1 DEF RowsDistinct, BatchIsUnsynced, BatchIsPrefix, SyncedIsPrefix
  <2>3. FinalFlush /\ FinalFlushDrains
    BY <2>1 DEF FinalFlush, FlushOK, FinalFlushDrains, OwnRows, Off
  <2>4. LateIsFinite
    BY <2>1, FS_EmptySet DEF LateIsFinite, LateOf
  <2>5. PaidFor
    <3>1. ASSUME NEW o \in Orgs, NEW r \in Requests
          PROVE  butler[o][r] = 0 /\ Cardinality(OnTheWay(o, r)) = 0
      BY FS_EmptySet DEF Init, OnTheWay
    <3>2. faults = 0 /\ deaths = 0
      BY DEF Init
    <3>3. QED
      BY <3>1, <3>2 DEF PaidFor
  <2>6. QED
    BY <2>2, <2>3, <2>4, <2>5 DEF OInv
<1>2. IInv /\ IInv' /\ OInv /\ [Next]_vars => OInv'
  <2> SUFFICES ASSUME IInv, IInv', OInv, [Next]_vars PROVE OInv'
    OBVIOUS
  <2>1. RowsDistinct' /\ BatchIsUnsynced' /\ BatchIsPrefix' /\ SyncedIsPrefix'
    BY RowsDistinctStep, BatchIsUnsyncedStep, BatchIsPrefixStep, SyncedIsPrefixStep DEF IInv, TypeOK, OInv
  <2>2. FinalFlush' /\ FinalFlushDrains'
    BY FinalFlushStep DEF OInv
  <2>3. LateIsFinite' /\ PaidFor'
    BY LateIsFiniteStep, PaidForStep DEF IInv, OInv
  <2>4. QED
    BY <2>1, <2>2, <2>3 DEF OInv
<1>3. QED
  BY <1>1, <1>2, Invariance, PTL DEF Spec

\* Rows are reported in the order in which they were created: whatever pages fail, time
\* out or are sent again, no row of an org is marked before an older one of the org.
THEOREM ReportedInOrder == Spec => []SyncedIsPrefix
<1>1. OInv => SyncedIsPrefix
  BY DEF OInv
<1>2. QED
  BY <1>1, OrderInvariance, PTL

\* A final flush that meets no fault leaves nothing it found pending unmarked, however many
\* pages it takes and whatever rows are inserted meanwhile.
THEOREM StopDrains == Spec => []FinalFlushDrains
<1>1. OInv => FinalFlushDrains
  BY DEF OInv
<1>2. QED
  BY <1>1, OrderInvariance, PTL

\* Each fault and each death causes at most one more ingestion of any one record.
THEOREM RepeatsArePaidFor == Spec => []DuplicatesArePaidFor
<1>1. IInv /\ OInv => DuplicatesArePaidFor
  <2> SUFFICES ASSUME IInv, OInv, NEW o \in Orgs, NEW r \in Requests
               PROVE  butler[o][r] <= 1 + faults + deaths
    BY DEF DuplicatesArePaidFor
  <2>1. butler[o][r] \in Nat /\ faults \in Nat /\ deaths \in Nat
    BY DEF IInv, TypeOK, DataTypeOK
  <2>2. Cardinality(OnTheWay(o, r)) \in Nat
    <3>1. OnTheWay(o, r) \in SUBSET LateOf(o) /\ IsFiniteSet(LateOf(o))
      BY DEF OnTheWay, LateOf, LateIsFinite, OInv
    <3>2. QED
      BY <3>1, FS_Subset, FS_CardinalityType
  <2>3. butler[o][r] + Cardinality(OnTheWay(o, r)) <= faults + deaths + 1
    BY DEF OInv, PaidFor
  <2>4. QED
    BY <2>1, <2>2, <2>3
<1>2. QED
  BY <1>1, Invariance, OrderInvariance, PTL
=============================================================================
