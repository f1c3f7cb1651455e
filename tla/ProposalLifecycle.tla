-------------------------- MODULE ProposalLifecycle --------------------------
(***************************************************************************)
(* What a reviewed proposal promises, whichever service keeps it: it is    *)
(* decided once, its effect is started only if it was accepted, and its    *)
(* outcome is recorded once, after the effect was started.                 *)
(***************************************************************************)
CONSTANT Proposals

VARIABLES
    decision,   \* per proposal: "none", "open", "refused", "accepted",
                \* "applied" or "failed"
    started     \* the proposals whose effect was started

vars == <<decision, started>>

Init ==
    /\ decision = [p \in Proposals |-> "none"]
    /\ started = {}

Propose(p) ==
    /\ decision[p] = "none"
    /\ decision' = [decision EXCEPT ![p] = "open"]
    /\ UNCHANGED started

\* Rejected by a reviewer, or expired: expiry takes several at once.
Refuse(P) ==
    /\ \A p \in P : decision[p] = "open"
    /\ decision' = [p \in Proposals |-> IF p \in P THEN "refused" ELSE decision[p]]
    /\ UNCHANGED started

Accept(p) ==
    /\ decision[p] = "open"
    /\ decision' = [decision EXCEPT ![p] = "accepted"]
    /\ UNCHANGED started

Start(p) ==
    /\ decision[p] = "accepted"
    /\ started' = started \cup {p}
    /\ UNCHANGED decision

Settle(p, outcome) ==
    /\ decision[p] = "accepted" /\ p \in started
    /\ decision' = [decision EXCEPT ![p] = outcome]
    /\ UNCHANGED started

Next ==
    \/ \E p \in Proposals : Propose(p) \/ Accept(p) \/ Start(p)
    \/ \E P \in SUBSET Proposals : Refuse(P)
    \/ \E p \in Proposals, outcome \in {"applied", "failed"} : Settle(p, outcome)

Spec == Init /\ [][Next]_vars
=============================================================================
