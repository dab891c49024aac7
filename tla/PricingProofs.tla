----------------------------- MODULE PricingProofs -----------------------------
(***************************************************************************)
(* Proofs about the price table, for any models, file and aliases.         *)
(***************************************************************************)
EXTENDS Pricing, TLAPS

\* The table before and between the steps that fill it, as a function of the last
\* list and of whether the file could be read.
TableIsBuilt ==
    /\ pc = "load" => pricing = Remote({}) /\ reply = {} /\ ~fileRead
    /\ pc \in {"merge", "remerge"} => pricing = Remote(reply)
    /\ pc \in {"serve", "closed"} =>
          pricing = IF fileRead THEN Merged(Remote(reply)) ELSE Remote(reply)

IInv == TypeOK /\ TableIsBuilt
-----------------------------------------------------------------------------
\* The file alone is the file merged into an empty list.
LEMMA FileIsMerged == File = Merged(Remote({}))
  BY DEF File, Merged, Remote

LEMMA TablesAreTables ==
    ASSUME NEW list \in SUBSET Models
    PROVE  /\ Remote(list) \in [Models -> {"none", "remote", "file"}]
           /\ Merged(Remote(list)) \in [Models -> {"none", "remote", "file"}]
  BY DEF File, Merged, Remote

LEMMA InitIsBuilt == Init => IInv
  BY DEF Init, IInv, TypeOK, TableIsBuilt, Remote

LEMMA StepKeepsBuilt == IInv /\ [Next]_vars => IInv'
<1> SUFFICES ASSUME IInv, [Next]_vars PROVE IInv'
  OBVIOUS
<1> USE DEF IInv, TypeOK
<1>1. ASSUME loadFallback PROVE IInv'
  <2>1. CASE pricing' = File /\ fileRead' = TRUE
    <3>1. pc' = "serve" /\ pricing' = Merged(Remote({})) /\ reply' = reply /\ reply = {}
      BY <1>1, <2>1, FileIsMerged DEF loadFallback, TableIsBuilt
    <3>2. pricing' = Merged(Remote(reply'))
      BY <3>1, Zenon
    <3> QED
      BY <2>1, <3>1, <3>2, TablesAreTables DEF TableIsBuilt
  <2>2. CASE UNCHANGED pricing /\ fileRead' = FALSE
    <3>1. pc' = "serve" /\ pricing' = Remote({}) /\ reply' = reply /\ reply = {}
      BY <1>1, <2>2 DEF loadFallback, TableIsBuilt
    <3>2. pricing' = Remote(reply')
      BY <3>1, Zenon
    <3> QED
      BY <2>2, <3>1, <3>2 DEF TableIsBuilt
  <2> QED
    BY <1>1, <2>1, <2>2 DEF loadFallback
<1>2. ASSUME NEW next \in {"merge", "remerge"}, fetchRemote(next) PROVE IInv'
  BY <1>2, TablesAreTables DEF fetchRemote, TableIsBuilt
<1>3. ASSUME mergeFallback PROVE IInv'
  <2>1. pricing = Remote(reply)
    BY <1>3 DEF mergeFallback, TableIsBuilt
  <2>2. CASE pricing' = Merged(pricing) /\ fileRead' = TRUE
    BY <1>3, <2>1, <2>2, TablesAreTables DEF mergeFallback, TableIsBuilt
  <2>3. CASE UNCHANGED pricing /\ fileRead' = FALSE
    BY <1>3, <2>1, <2>3 DEF mergeFallback, TableIsBuilt
  <2> QED
    BY <1>3, <2>2, <2>3 DEF mergeFallback
<1>4. ASSUME Close PROVE IInv'
  BY <1>4 DEF Close, TableIsBuilt
<1>5. ASSUME UNCHANGED vars PROVE IInv'
  BY <1>5 DEF vars, TableIsBuilt
<1> QED
  BY <1>1, <1>2, <1>3, <1>4, <1>5 DEF Next, loadPricing, refresh

\* What Calculate finds in a table built in this way.
LEMMA BuiltTableIsRight ==
    ASSUME PricingAssumption, IInv
    PROVE  PricesFollowTheLists
<1> SUFFICES ASSUME pc \in {"serve", "remerge", "closed"}, NEW m \in Models,
                    NEW file, file = (IF pc = "remerge" \/ ~fileRead THEN {} ELSE InFile),
                    NEW name, name = (IF m \in reply \cup file \/ m \notin DOMAIN Alias THEN m ELSE Alias[m])
             PROVE  Calculate(m) = IF name \in reply THEN <<name, "remote">>
                                   ELSE IF name \in file THEN <<name, "file">> ELSE <<m, "none">>
  BY Zenon DEF PricesFollowTheLists
<1>1. ASSUME NEW n \in Models
      PROVE  pricing[n] = IF n \in reply THEN "remote" ELSE IF n \in file THEN "file" ELSE "none"
  BY DEF IInv, TableIsBuilt, Remote, Merged, File, PricingAssumption
<1>2. m \in DOMAIN Alias => Alias[m] \in Models
  BY DEF PricingAssumption
<1>3. CASE m \in reply \cup file
  BY <1>1, <1>3 DEF Calculate
<1>4. CASE m \notin reply \cup file /\ m \in DOMAIN Alias
  BY <1>1, <1>2, <1>4 DEF Calculate
<1>5. CASE m \notin reply \cup file /\ m \notin DOMAIN Alias
  BY <1>1, <1>5 DEF Calculate
<1> QED
  BY <1>3, <1>4, <1>5

\* loadPricing, refreshLoop and Calculate: whatever lists arrive, whether or not
\* the file can be read, and at any moment of a refresh, a request is priced as
\* PricesFollowTheLists says.
THEOREM PricesAreRight ==
    ASSUME PricingAssumption
    PROVE  Spec => []PricesFollowTheLists
<1>1. IInv => PricesFollowTheLists
  BY BuiltTableIsRight
<1> QED
  BY InitIsBuilt, StepKeepsBuilt, <1>1, PTL DEF Spec
=============================================================================
