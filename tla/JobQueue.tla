------------------------------- MODULE JobQueue -------------------------------
(***************************************************************************)
(* What the work queue promises Butler: a job is acked only when its work  *)
(* is in effect at the steward, whatever fails, repeats or restarts, and   *)
(* every job that is handed out is answered in the end.                    *)
(***************************************************************************)
CONSTANTS Jobs

VARIABLES
    status,   \* of each job
    done      \* the jobs all of whose work is in effect: none is asked before a claim

vars == <<status, done>>

Statuses == {"idle", "pending", "claimed", "acked", "failed"}

Init ==
    /\ status = [j \in Jobs |-> "idle"]
    /\ done = Jobs

Becomes(J, s) == status' = [j \in Jobs |-> IF j \in J THEN s ELSE status[j]]

Offer(j) == status[j] \in {"idle", "claimed", "failed"} /\ Becomes({j}, "pending") /\ UNCHANGED done

\* What a job asks for is what Butler has when it is claimed.
Claim(J) ==
    /\ \A j \in J : status[j] = "pending"
    /\ Becomes(J, "claimed")
    /\ done' \subseteq done \cup J
    /\ done \ J \subseteq done'

\* The work of one job may put that of others in effect too.
Work == done \subseteq done' /\ done' \subseteq Jobs /\ UNCHANGED status

Ack(j)  == status[j] \in {"pending", "claimed"} /\ j \in done /\ Becomes({j}, "acked") /\ UNCHANGED done
Fail(j) == status[j] \in {"pending", "claimed"} /\ Becomes({j}, "failed") /\ UNCHANGED done

Next == (\E j \in Jobs : Offer(j) \/ Ack(j) \/ Fail(j)) \/ (\E J \in SUBSET Jobs : Claim(J)) \/ Work

Spec == Init /\ [][Next]_vars

JobsSettle == \A j \in Jobs : status[j] = "pending" ~> status[j] \in {"acked", "failed"}
=============================================================================
