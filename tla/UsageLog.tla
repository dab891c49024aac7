------------------------------ MODULE UsageLog ------------------------------
(***************************************************************************)
(* What the request log promises, without its goroutines: a first-in       *)
(* first-out log whose accepted entries are stored at most once and in     *)
(* order, and whose entries can be lost only before they are stored.       *)
(***************************************************************************)
EXTENDS Naturals, Sequences

CONSTANT Requests

VARIABLES
    pending,   \* accepted and still in memory, oldest first
    stored     \* stored for good, oldest first

Entries(s) == {s[i] : i \in DOMAIN s}

Init == pending = <<>> /\ stored = <<>>

\* A log is accepted once in its life.
Accept(r) ==
    /\ r \notin Entries(pending) \cup Entries(stored)
    /\ pending' = Append(pending, r)
    /\ UNCHANGED stored

Store ==
    /\ pending # <<>>
    /\ stored' = Append(stored, Head(pending))
    /\ pending' = Tail(pending)

\* The statement that was to store it has failed.
LoseOldest ==
    /\ pending # <<>>
    /\ pending' = Tail(pending)
    /\ UNCHANGED stored

\* The process is gone.
LoseAll ==
    /\ pending' = <<>>
    /\ UNCHANGED stored

Next == (\E r \in Requests : Accept(r)) \/ Store \/ LoseOldest \/ LoseAll

Spec == Init /\ [][Next]_<<pending, stored>>
=============================================================================
