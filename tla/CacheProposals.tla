---------------------------- MODULE CacheProposals ----------------------------
(***************************************************************************)
(* Reviewed cache tuning and invalidation: CacheProposalService,           *)
(* CacheApplyService and CacheExpirationCron over the durable storage      *)
(* adapters.  Unlike a memory proposal, a cache proposal can be edited     *)
(* while it is approved, and is applied without being claimed first.       *)
(***************************************************************************)
EXTENDS Naturals, FiniteSets

CONSTANTS
    Proposals,   \* proposal ids
    Tunings,     \* the proposals that may be edited; the others invalidate
    Targets,     \* the setting (cache and category or tool) a tuning changes
    TargetOf,    \* the target of each proposal
    Payloads,    \* values a proposal may set
    Callers,     \* concurrent API / MCP requests
    MaxCalls,    \* bound: requests
    MaxFaults,   \* bound: crashes, failed storage calls, failed dispatches
    None         \* model value: no proposal, no payload

ASSUME CacheAssumption ==
    /\ Tunings \subseteq Proposals
    /\ TargetOf \in [Proposals -> Targets]
    /\ MaxCalls \in Nat /\ MaxFaults \in Nat
    /\ None \notin Proposals /\ None \notin Payloads

VARIABLES
    status,    \* cache_proposals.status ("none": no row)
    payload,   \* cache_proposals.proposal_payload
    clock,     \* expires_at against now: "before" it, "at" it, or "after" it
    audit,     \* cache_proposal_audit: how often each event was recorded
    call,      \* the requests in progress
    expiring,  \* expired proposals the cron has not written an audit for yet
    calls,     \* requests so far
    faults,    \* faults so far
    sent,      \* history: the payloads dispatched for each proposal
    performed  \* history: how often each proposal's change was carried out

vars == <<status, payload, clock, audit, call, expiring, calls, faults, sent, performed>>
row == <<status, payload>>
effects == <<sent, performed>>

-----------------------------------------------------------------------------
ProposalStatus == {"pending", "approved", "rejected", "applied", "failed", "expired"}
AuditEvent == {"approved", "edited_and_approved", "rejected", "expired", "applied", "failed"}
Steps == {"idle", "insert", "approve", "edit", "reject", "reread", "dispatch", "effect",
          "finalize", "audit"}
\* p: the proposal; v: the payload of the row it holds, or the edited one;
\* event: the audit event to write, or the outcome to record.
Call == [pc: Steps, p: Proposals \cup {None}, v: Payloads \cup {None}, event: AuditEvent]

TypeOK ==
    /\ status \in [Proposals -> ProposalStatus \cup {"none"}]
    /\ payload \in [Proposals -> Payloads \cup {None}]
    /\ clock \in [Proposals -> {"before", "at", "after"}]
    /\ audit \in [Proposals -> [AuditEvent -> Nat]]
    /\ call \in [Callers -> Call]
    /\ expiring \subseteq Proposals
    /\ calls \in Nat /\ faults \in Nat
    /\ sent \in [Proposals -> SUBSET Payloads]
    /\ performed \in [Proposals -> Nat]

NoCall == [pc |-> "idle", p |-> None, v |-> None, event |-> "approved"]
At(pc, p, v, event) == [pc |-> pc, p |-> p, v |-> v, event |-> event]

Init ==
    /\ status = [p \in Proposals |-> "none"]
    /\ payload = [p \in Proposals |-> None]
    /\ clock = [p \in Proposals |-> "before"]
    /\ audit = [p \in Proposals |-> [e \in AuditEvent |-> 0]]
    /\ call = [c \in Callers |-> NoCall]
    /\ expiring = {}
    /\ calls = 0 /\ faults = 0
    /\ sent = [p \in Proposals |-> {}]
    /\ performed = [p \in Proposals |-> 0]

Goto(c, s) == call' = [call EXCEPT ![c] = s]
Finish(c) == Goto(c, NoCall)
Arrives(c) == call[c].pc = "idle" /\ calls < MaxCalls /\ calls' = calls + 1
Fault == faults < MaxFaults /\ faults' = faults + 1

\* Pending tunings of the same setting, what the unique indexes look at.
Clash(p) == {q \in Tunings : p \in Tunings /\ q # p /\ TargetOf[q] = TargetOf[p] /\ status[q] = "pending"}

-----------------------------------------------------------------------------
(* Proposing *)

\* propose...: a tuning looks for a pending one of the same setting, and the
\* rate limiter has a slot (when it has none, or there is a pending one, the
\* request ends here without effect).
Propose(c, p, v) ==
    /\ Arrives(c)
    /\ status[p] = "none" /\ \A d \in Callers : call[d].p # p
    /\ Clash(p) = {}
    /\ Goto(c, At("insert", p, v, "approved"))
    /\ UNCHANGED <<row, clock, audit, expiring, faults, effects>>

\* Mutant of Persist: no unique index behind the insert.
PersistUnindexed(c) ==
    LET p == call[c].p IN
    /\ call[c].pc = "insert"
    /\ status' = [status EXCEPT ![p] = "pending"]
    /\ payload' = [payload EXCEPT ![p] = call[c].v]
    /\ Finish(c)
    /\ UNCHANGED <<clock, audit, expiring, calls, faults, effects>>

\* persist: the insert fails on the unique index if a pending tuning of the
\* same setting was inserted meanwhile.
Persist(c) ==
    LET p == call[c].p IN
    /\ call[c].pc = "insert"
    /\ IF Clash(p) = {}
       THEN /\ status' = [status EXCEPT ![p] = "pending"]
            /\ payload' = [payload EXCEPT ![p] = call[c].v]
       ELSE UNCHANGED row
    /\ Finish(c)
    /\ UNCHANGED <<clock, audit, expiring, calls, faults, effects>>

-----------------------------------------------------------------------------
(* Reviewing *)

\* approve, transitionToApproved: read the row.  An approved one is applied
\* (again), a pending one that has not reached expires_at is approved first,
\* for every other status the request ends here.
Approve(c, p) ==
    /\ Arrives(c)
    /\ \/ /\ status[p] = "approved"
          /\ Goto(c, At("dispatch", p, payload[p], "approved"))
       \/ /\ status[p] = "pending" /\ clock[p] = "before"
          /\ Goto(c, At("approve", p, None, "approved"))
    /\ UNCHANGED <<row, clock, audit, expiring, faults, effects>>

\* The compare-and-set pending -> approved of a plain approval; the loser
\* looks again.
ApproveRow(c) ==
    LET p == call[c].p IN
    /\ call[c].pc = "approve"
    /\ IF status[p] = "pending"
       THEN /\ status' = [status EXCEPT ![p] = "approved"]
            /\ Goto(c, At("audit", p, payload[p], "approved"))
       ELSE Goto(c, At("reread", p, None, "approved")) /\ UNCHANGED status
    /\ UNCHANGED <<payload, clock, audit, expiring, calls, faults, effects>>

\* Mutant of Reread: the loser goes on with whatever row it finds.
RereadUnchecked(c) ==
    LET p == call[c].p IN
    /\ call[c].pc = "reread"
    /\ Goto(c, At("dispatch", p, payload[p], "approved"))
    /\ UNCHANGED <<row, clock, audit, expiring, calls, faults, effects>>

\* A proposal somebody else approved is applied here too; a settled one is
\* returned, a refused one is an error.
Reread(c) ==
    LET p == call[c].p IN
    /\ call[c].pc = "reread"
    /\ IF status[p] = "approved" THEN Goto(c, At("dispatch", p, payload[p], "approved")) ELSE Finish(c)
    /\ UNCHANGED <<row, clock, audit, expiring, calls, faults, effects>>

\* requireFreshPending, of editAndApprove and reject: expires_at itself is
\* still fresh here.
FreshPending(p) == status[p] = "pending" /\ clock[p] # "after"

\* editAndApprove: invalidations cannot be edited.
EditAndApprove(c, p, v) ==
    /\ Arrives(c)
    /\ p \in Tunings /\ FreshPending(p)
    /\ Goto(c, At("edit", p, v, "edited_and_approved"))
    /\ UNCHANGED <<row, clock, audit, expiring, faults, effects>>

\* Mutant of EditRow: the edited proposal gets the name of its audit event.
EditRowMisspelt(c) ==
    LET p == call[c].p IN
    /\ call[c].pc = "edit"
    /\ status' = [status EXCEPT ![p] = "edited_and_approved"]
    /\ payload' = [payload EXCEPT ![p] = call[c].v]
    /\ Goto(c, At("audit", p, call[c].v, "edited_and_approved"))
    /\ UNCHANGED <<clock, audit, expiring, calls, faults, effects>>

\* Mutant of EditRow: the edited payload is not conditional on winning.
EditRowPayloadFirst(c) ==
    LET p == call[c].p IN
    /\ call[c].pc = "edit"
    /\ payload' = [payload EXCEPT ![p] = call[c].v]
    /\ IF status[p] = "pending"
       THEN /\ status' = [status EXCEPT ![p] = "approved"]
            /\ Goto(c, At("audit", p, call[c].v, "edited_and_approved"))
       ELSE Finish(c) /\ UNCHANGED status
    /\ UNCHANGED <<clock, audit, expiring, calls, faults, effects>>

\* The compare-and-set that approves and stores the edited payload.
EditRow(c) ==
    LET p == call[c].p IN
    /\ call[c].pc = "edit"
    /\ IF status[p] = "pending"
       THEN /\ status' = [status EXCEPT ![p] = "approved"]
            /\ payload' = [payload EXCEPT ![p] = call[c].v]
            /\ Goto(c, At("audit", p, call[c].v, "edited_and_approved"))
       ELSE Finish(c) /\ UNCHANGED row
    /\ UNCHANGED <<clock, audit, expiring, calls, faults, effects>>

Reject(c, p) ==
    /\ Arrives(c)
    /\ FreshPending(p)
    /\ Goto(c, At("reject", p, None, "rejected"))
    /\ UNCHANGED <<row, clock, audit, expiring, faults, effects>>

\* Mutant of RejectRow: the update has no expected_status.
RejectRowBlindly(c) ==
    LET p == call[c].p IN
    /\ call[c].pc = "reject"
    /\ status' = [status EXCEPT ![p] = "rejected"]
    /\ Goto(c, At("audit", p, None, "rejected"))
    /\ UNCHANGED <<payload, clock, audit, expiring, calls, faults, effects>>

RejectRow(c) ==
    LET p == call[c].p IN
    /\ call[c].pc = "reject"
    /\ IF status[p] = "pending"
       THEN /\ status' = [status EXCEPT ![p] = "rejected"]
            /\ Goto(c, At("audit", p, None, "rejected"))
       ELSE Finish(c) /\ UNCHANGED status
    /\ UNCHANGED <<payload, clock, audit, expiring, calls, faults, effects>>

\* appendAudit; after an approval's audit record the proposal is applied.
AppendAudit(c) ==
    LET p == call[c].p  e == call[c].event IN
    /\ call[c].pc = "audit"
    /\ audit' = [audit EXCEPT ![p][e] = @ + 1]
    /\ IF e \in {"approved", "edited_and_approved"}
       THEN Goto(c, At("dispatch", p, call[c].v, "approved"))
       ELSE Finish(c)
    /\ UNCHANGED <<row, clock, expiring, calls, faults, effects>>

-----------------------------------------------------------------------------
(* Applying *)

Dispatch(c) ==
    LET p == call[c].p IN
    /\ call[c].pc = "dispatch"
    /\ sent' = [sent EXCEPT ![p] = @ \cup {call[c].v}]
    /\ Goto(c, At("effect", p, call[c].v, "applied"))
    /\ UNCHANGED <<row, clock, audit, expiring, calls, faults, performed>>

EffectDone(c) ==
    LET p == call[c].p IN
    /\ call[c].pc = "effect"
    /\ performed' = [performed EXCEPT ![p] = @ + 1]
    /\ Goto(c, At("finalize", p, call[c].v, "applied"))
    /\ UNCHANGED <<row, clock, audit, expiring, calls, faults, sent>>

\* The cache is gone, of another type, or a command fails (an invalidation may
\* then be done in part, which does not count as carried out).
EffectThrows(c) ==
    /\ call[c].pc = "effect"
    /\ Fault
    /\ Goto(c, At("finalize", call[c].p, call[c].v, "failed"))
    /\ UNCHANGED <<row, clock, audit, expiring, calls, effects>>

\* Mutant of Finalize: the outcome overwrites whatever is there.
FinalizeUnconditional(c) ==
    LET p == call[c].p  e == call[c].event IN
    /\ call[c].pc = "finalize"
    /\ status' = [status EXCEPT ![p] = e]
    /\ Goto(c, At("audit", p, call[c].v, e))
    /\ UNCHANGED <<payload, clock, audit, expiring, calls, faults, effects>>

\* The compare-and-set approved -> outcome.  A lost update of a success leaves
\* no audit record, a lost update of a failure does.
Finalize(c) ==
    LET p == call[c].p  e == call[c].event IN
    /\ call[c].pc = "finalize"
    /\ status' = IF status[p] = "approved" THEN [status EXCEPT ![p] = e] ELSE status
    /\ IF status[p] = "approved" \/ e = "failed"
       THEN Goto(c, At("audit", p, call[c].v, e))
       ELSE Finish(c)
    /\ UNCHANGED <<payload, clock, audit, expiring, calls, faults, effects>>

-----------------------------------------------------------------------------
(* Expiry, failures *)

Tick(p) ==
    /\ status[p] # "none"
    /\ \/ clock[p] = "before" /\ clock' = [clock EXCEPT ![p] = "at"]
       \/ clock[p] = "at" /\ clock' = [clock EXCEPT ![p] = "after"]
    /\ UNCHANGED <<row, audit, call, expiring, calls, faults, effects>>

\* The cron's tick: one UPDATE over the rows that reached expires_at ...
Expirable == {p \in Proposals : status[p] = "pending" /\ clock[p] # "before"}
ExpireProposals ==
    /\ Expirable # {}
    /\ status' = [p \in Proposals |-> IF p \in Expirable THEN "expired" ELSE status[p]]
    /\ expiring' = expiring \cup Expirable
    /\ UNCHANGED <<payload, clock, audit, call, calls, faults, effects>>

\* ... and an audit record for each, whose failure is only logged.
AuditExpired(p) ==
    /\ p \in expiring
    /\ expiring' = expiring \ {p}
    /\ \/ audit' = [audit EXCEPT ![p]["expired"] = @ + 1] /\ UNCHANGED faults
       \/ Fault /\ UNCHANGED audit
    /\ UNCHANGED <<row, clock, call, calls, effects>>

\* A storage call throws: the request fails (or, for the outcome's audit
\* record, the error is logged) and nothing is undone.
StorageFails(c) ==
    /\ call[c].pc \in {"insert", "approve", "edit", "reject", "reread", "finalize", "audit"}
    /\ Fault
    /\ Finish(c)
    /\ UNCHANGED <<row, clock, audit, expiring, calls, effects>>

\* The process dies and is started again.
Crash ==
    /\ Fault
    /\ call' = [c \in Callers |-> NoCall]
    /\ expiring' = {}
    /\ UNCHANGED <<row, clock, audit, calls, effects>>

-----------------------------------------------------------------------------
Step(c) ==
    \/ Persist(c) \/ ApproveRow(c) \/ Reread(c) \/ EditRow(c) \/ RejectRow(c)
    \/ AppendAudit(c) \/ Dispatch(c) \/ EffectDone(c) \/ Finalize(c)

Next ==
    \/ \E c \in Callers, p \in Proposals, v \in Payloads : Propose(c, p, v) \/ EditAndApprove(c, p, v)
    \/ \E c \in Callers, p \in Proposals : Approve(c, p) \/ Reject(c, p)
    \/ \E c \in Callers : Step(c)
    \/ \E c \in Callers : EffectThrows(c) \/ StorageFails(c)
    \/ \E p \in Proposals : Tick(p) \/ AuditExpired(p)
    \/ ExpireProposals
    \/ Crash

Spec == Init /\ [][Next]_vars

-----------------------------------------------------------------------------
(* Properties *)

\* At most one tuning of a setting waits for review, also when two agents
\* propose it at the same time.
OnePendingTuning ==
    \A p, q \in Tunings :
        status[p] = "pending" /\ status[q] = "pending" /\ TargetOf[p] = TargetOf[q] => p = q

\* Nothing is dispatched for a proposal nobody approved, however approvals,
\* edits, rejections and the expiry race.
RefusedUntouched ==
    \A p \in Proposals : status[p] \in {"none", "pending", "rejected", "expired"}
                            => sent[p] = {} /\ performed[p] = 0

\* What is dispatched is what was approved: when an edit and a plain approval
\* race, both requests apply the payload of the one that won.
DispatchesApproved == \A p \in Proposals : sent[p] \subseteq {payload[p]}

Total(p, E) == Cardinality({e \in E : audit[p][e] > 0})

\* The audit trail has at most one decision, recorded once, and a recorded
\* decision or success agrees with the row.
AuditAgrees ==
    \A p \in Proposals :
        /\ Total(p, {"approved", "edited_and_approved", "rejected", "expired"}) <= 1
        /\ \A e \in AuditEvent \ {"failed"} : audit[p][e] <= 1
        /\ \A e \in {"rejected", "expired", "applied"} : audit[p][e] > 0 => status[p] = e
        /\ \A e \in {"approved", "edited_and_approved"} :
              audit[p][e] > 0 => status[p] \in {"approved", "applied", "failed"}

\* The service keeps the promise of a reviewed proposal: decided once, started
\* only when accepted, settled once after the start.
Decision == [p \in Proposals |->
    CASE status[p] = "none" -> "none"
      [] status[p] = "pending" -> "open"
      [] status[p] \in {"rejected", "expired"} -> "refused"
      [] status[p] = "approved" -> "accepted"
      [] OTHER -> status[p]]
Lifecycle == INSTANCE ProposalLifecycle
                 WITH decision <- Decision, started <- {p \in Proposals : sent[p] # {}}
\* ProposalLifecycle is implemented by the rows and the dispatches.
RefinesLifecycle == Lifecycle!Spec

-----------------------------------------------------------------------------
(* What a comment claims and the service does not keep. *)

\* "Idempotently applies an approved proposal": its change is carried out once.
AppliedOnce == \A p \in Proposals : performed[p] <= 1
=============================================================================
