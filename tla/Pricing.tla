-------------------------------- MODULE Pricing --------------------------------
(***************************************************************************)
(* The price table: loaded once before the service is handed out, and      *)
(* refreshed in the background.  A refresh replaces the table by the       *)
(* remote list in one critical section and adds the file's prices of the   *)
(* models that are not in it in a second one; Calculate reads in between.  *)
(***************************************************************************)
EXTENDS Integers

CONSTANTS
    Models,
    InFile,       \* models the fallback file has prices of
    Alias,        \* model -> the name it is priced by if it has no price of its own
    HasRemote     \* a remote URL is configured

PricingAssumption ==
    /\ InFile \subseteq Models
    /\ DOMAIN Alias \subseteq Models /\ \A m \in DOMAIN Alias : Alias[m] \in Models

VARIABLES
    pc,        \* "load", "merge": NewService; "serve", "remerge": refreshLoop; "closed"
    pricing,   \* per model: where its price comes from
    reply,     \* history: the models in the last list that was decoded
    fileRead   \* history: whether the last reading of the file succeeded

vars == <<pc, pricing, reply, fileRead>>

TypeOK ==
    /\ pc \in {"load", "merge", "serve", "remerge", "closed"}
    /\ pricing \in [Models -> {"none", "remote", "file"}]
    /\ reply \subseteq Models /\ fileRead \in BOOLEAN

Init ==
    /\ pc = "load"
    /\ pricing = [m \in Models |-> "none"]
    /\ reply = {} /\ fileRead = FALSE

Remote(list)    == [m \in Models |-> IF m \in list THEN "remote" ELSE "none"]
File            == [m \in Models |-> IF m \in InFile THEN "file" ELSE "none"]
MergedOver(prices) ==   \* mutant: the file's prices win
    [m \in Models |-> IF m \in InFile THEN "file" ELSE prices[m]]
Merged(prices)  == [m \in Models |-> IF prices[m] = "none" THEN File[m] ELSE prices[m]]

\* Any decoded list counts, an error's body without prices included.
fetchRemote(next) ==
    /\ HasRemote
    /\ \E list \in SUBSET Models : pricing' = Remote(list) /\ reply' = list
    /\ pc' = next /\ UNCHANGED fileRead

loadFallback ==
    /\ pc = "load" /\ pc' = "serve"
    /\ \/ pricing' = File /\ fileRead' = TRUE
       \/ UNCHANGED pricing /\ fileRead' = FALSE
    /\ UNCHANGED reply

mergeFallback ==
    /\ pc \in {"merge", "remerge"} /\ pc' = "serve"
    /\ \/ pricing' = Merged(pricing) /\ fileRead' = TRUE
       \/ UNCHANGED pricing /\ fileRead' = FALSE
    /\ UNCHANGED reply

\* The file instead of the list where there is no URL or the fetch fails.
loadPricing == loadFallback \/ (pc = "load" /\ fetchRemote("merge"))

\* A fetch that fails leaves everything as it is.
refresh == pc = "serve" /\ fetchRemote("remerge")

\* The loop takes no tick any more; a refresh under way goes on.
Close == pc = "serve" /\ pc' = "closed" /\ UNCHANGED <<pricing, reply, fileRead>>

Next == loadPricing \/ mergeFallback \/ refresh \/ Close

Spec == Init /\ [][Next]_vars

\* Calculate: where the price of m comes from and the name it is found under.
Calculate(m) ==
    IF pricing[m] # "none" THEN <<m, pricing[m]>>
    ELSE IF m \in DOMAIN Alias /\ pricing[Alias[m]] # "none" THEN <<Alias[m], pricing[Alias[m]]>>
    ELSE <<m, "none">>
-----------------------------------------------------------------------------
\* A request is priced by the last list, by the file for what that list lacks, and by
\* the alias only if neither has the model itself.  While a refresh is between its
\* two steps, or after the file could not be read, the list alone decides: only a
\* model that is not in the list can be unpriced, or priced as its alias, by that.
PricesFollowTheLists ==
    pc \in {"serve", "remerge", "closed"} =>
        \A m \in Models :
            LET file  == IF pc = "remerge" \/ ~fileRead THEN {} ELSE InFile
                name  == IF m \in reply \cup file \/ m \notin DOMAIN Alias THEN m ELSE Alias[m] IN
            Calculate(m) = IF name \in reply THEN <<name, "remote">>
                           ELSE IF name \in file THEN <<name, "file">> ELSE <<m, "none">>
=============================================================================
