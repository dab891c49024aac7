-------------------------- MODULE MCResultsReporter --------------------------
(***************************************************************************)
(* A replay run with one result and an eval run with one result and its    *)
(* scores, in three families of behaviours explored side by side:          *)
(*   "replay": two orgs' reporters share the replay tables, no fault;      *)
(*   "eval"  : one reporter and the eval tables, one score, faults and a   *)
(*             death;                                                      *)
(*   "scores": one reporter, the eval tables, more scores than are fetched *)
(*             at once, no fault.                                          *)
(* The product of them is too large; each keeps the interleavings that     *)
(* its properties are about.                                               *)
(***************************************************************************)
EXTENDS ResultsReporter

CONSTANTS o1, o2, run1, res1, run2, res2, score1, score2

MCParent(x) == CASE x = res1 -> run1 [] x = res2 -> run2 [] OTHER -> res2

VARIABLE family

mcVars == <<vars, family>>

NoneOf(S) == \A x \in S : version[x] = Absent

Allowed ==
    \/ family = "replay" /\ NoneOf(EvalRuns) /\ faults = 0 /\ deaths = 0
    \/ family = "eval" /\ NoneOf(ReplayRuns \cup (Scores \ {score1})) /\ \A o \in Orgs \ {o1} : rr[o] = Off
    \/ family = "scores" /\ NoneOf(ReplayRuns) /\ (\A o \in Orgs \ {o1} : rr[o] = Off)
          /\ (\A s \in Scores : version[s] <= 1) /\ faults = 0 /\ deaths = 0

InFamily == UNCHANGED family /\ Allowed'

MCInit == Init /\ family \in {"replay", "eval", "scores"}

MCNext == Next /\ InFamily

MCSpec ==
    /\ MCInit /\ [][MCNext]_mcVars
    /\ \A o \in Orgs : WF_mcVars(Reporter(o) /\ InFamily)
=============================================================================
