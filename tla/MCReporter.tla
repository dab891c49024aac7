----------------------------- MODULE MCReporter -----------------------------
(***************************************************************************)
(* Three families of behaviours of Reporter, explored side by side:          *)
(*   "pages": one org with three rows, so that a flush takes two pages;    *)
(*   "orgs" : two orgs with a row each, and a row of no org;               *)
(*   "poison" : Butler rejects one of the rows of an org, nothing fails.    *)
(* The full product of them is too large; each keeps the interleavings     *)
(* that its properties are about.                                          *)
(***************************************************************************)
EXTENDS Reporter

CONSTANTS r0, r1, r2, r3, r4, bad, o1, o2

\* Which org a request belongs to: r0 to none, r4 to o2, the others to o1.
MCOrgOf(r) == CASE r = r0 -> NoOrg
                [] r = r4 -> o2
                [] OTHER  -> o1

VARIABLE family

mcVars == <<vars, family>>

Allowed ==
    \/ family = "pages" /\ rep[o2] = Off /\ {r0, r4, bad} \cap Stored = {}
    \/ family = "orgs" /\ {r2, r3, bad} \cap Stored = {} /\ faults <= 1
    \/ family = "poison" /\ rep[o2] = Off /\ {r0, r4} \cap Stored = {} /\ faults = 0 /\ deaths = 0

InFamily == UNCHANGED family /\ Allowed'

MCInit == Init /\ family \in {"pages", "orgs", "poison"}

MCNext == Next /\ InFamily

MCSpec ==
    /\ MCInit /\ [][MCNext]_mcVars
    /\ \A o \in Orgs :
          /\ WF_mcVars(ReporterStep(o) /\ InFamily)
          /\ WF_mcVars(Ingest(o) /\ InFamily)
=============================================================================
