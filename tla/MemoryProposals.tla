--------------------------- MODULE MemoryProposals ---------------------------
(***************************************************************************)
(* Reviewed forgetting of agent memories: MemoryProposalService,           *)
(* MemoryApplyService and MemoryExpirationCron over the durable storage    *)
(* adapters (Postgres, SQLite).                                            *)
(*                                                                         *)
(* A "call" is one API or MCP request: a chain of awaits that other chains *)
(* interleave with.  Storage calls are atomic; a status update with        *)
(* expected_status is a compare-and-set on the row.                        *)
(***************************************************************************)
EXTENDS Naturals, FiniteSets

CONSTANTS
    Proposals,   \* proposal ids
    Targets,     \* what a proposal forgets: one memory or a scope
    TargetOf,    \* the target of each proposal
    Callers,     \* concurrent API / MCP requests
    Batches,     \* FT.SEARCH + DEL rounds the forget of a target takes
    MaxCalls,    \* bound: requests
    MaxFaults,   \* bound: crashes, failed storage calls, failed forgets
    None         \* model value: a call that works on no proposal

ASSUME MemoryAssumption ==
    /\ TargetOf \in [Proposals -> Targets]
    /\ Batches \in Nat \ {0}
    /\ MaxCalls \in Nat /\ MaxFaults \in Nat
    /\ None \notin Proposals

VARIABLES
    status,    \* memory_proposals.status ("none": no row)
    lapsed,    \* the proposals whose expires_at has passed
    audit,     \* memory_proposal_audit: the events recorded per proposal
    call,      \* the requests in progress
    expiring,  \* expired proposals the cron has not written an audit for yet
    calls,     \* requests so far
    faults,    \* faults so far
    dispatched,\* history: how often the forget of a proposal was started
    deleted,   \* the rounds of deletion done for a proposal
    partial    \* history: forgets that stopped with matches left

vars == <<status, lapsed, audit, call, expiring, calls, faults, dispatched, deleted, partial>>
effects == <<dispatched, deleted, partial>>

-----------------------------------------------------------------------------
ProposalStatus == {"pending", "approved", "applying", "applied", "failed", "rejected", "expired"}
AuditEvent == {"proposed", "approved", "rejected", "expired", "applied", "failed"}
Steps == {"idle", "insert", "approve", "reject", "claim", "dispatch", "forget", "finalize", "audit"}
\* p: the proposal; event: the audit event to write, or the outcome to record.
Call == [pc: Steps, p: Proposals \cup {None}, event: AuditEvent]

TypeOK ==
    /\ status \in [Proposals -> ProposalStatus \cup {"none"}]
    /\ lapsed \subseteq Proposals
    /\ audit \in [Proposals -> SUBSET AuditEvent]
    /\ call \in [Callers -> Call]
    /\ expiring \subseteq Proposals
    /\ calls \in Nat /\ faults \in Nat
    /\ dispatched \in [Proposals -> Nat]
    /\ deleted \in [Proposals -> 0..Batches]
    /\ partial \subseteq Proposals

NoCall == [pc |-> "idle", p |-> None, event |-> "proposed"]
At(pc, p, event) == [pc |-> pc, p |-> p, event |-> event]

Init ==
    /\ status = [p \in Proposals |-> "none"]
    /\ lapsed = {}
    /\ audit = [p \in Proposals |-> {}]
    /\ call = [c \in Callers |-> NoCall]
    /\ expiring = {}
    /\ calls = 0 /\ faults = 0
    /\ dispatched = [p \in Proposals |-> 0]
    /\ deleted = [p \in Proposals |-> 0]
    /\ partial = {}

Goto(c, s) == call' = [call EXCEPT ![c] = s]
Finish(c) == Goto(c, NoCall)
\* A request arrives at an idle caller.
Arrives(c) == call[c].pc = "idle" /\ calls < MaxCalls /\ calls' = calls + 1
Fault == faults < MaxFaults /\ faults' = faults + 1

Pending(t) == {p \in Proposals : TargetOf[p] = t /\ status[p] = "pending"}

-----------------------------------------------------------------------------
(* Proposing *)

\* proposeForget: the pending list has no proposal for the target and the rate
\* limiter has a slot (when it has none, or the list has one, the request ends
\* here without effect).
ProposeForget(c, p) ==
    /\ Arrives(c)
    /\ status[p] = "none" /\ \A d \in Callers : call[d].p # p
    /\ Pending(TargetOf[p]) = {}
    /\ Goto(c, At("insert", p, "proposed"))
    /\ UNCHANGED <<status, lapsed, audit, expiring, faults, effects>>

\* createMemoryProposal: neither database has a unique index on the target, so
\* the insert succeeds whatever was inserted since the list was read.
CreateProposal(c) ==
    LET p == call[c].p IN
    /\ call[c].pc = "insert"
    /\ status' = [status EXCEPT ![p] = "pending"]
    /\ Goto(c, At("audit", p, "proposed"))
    /\ UNCHANGED <<lapsed, audit, expiring, calls, faults, effects>>

-----------------------------------------------------------------------------
(* Reviewing *)

\* approve, transitionToApproved: read the row.  An approved or applying one is
\* handed to apply as it is; a pending, unexpired one is approved first; for
\* every other status the request ends here.
Approve(c, p) ==
    /\ Arrives(c)
    /\ \/ /\ status[p] \in {"approved", "applying"}
          /\ Goto(c, At("claim", p, "approved"))
       \/ /\ status[p] = "pending" /\ p \notin lapsed
          /\ Goto(c, At("approve", p, "approved"))
    /\ UNCHANGED <<status, lapsed, audit, expiring, faults, effects>>

\* The compare-and-set pending -> new of approve and reject; the loser's
\* request fails.
Decide(c, new) ==
    LET p == call[c].p IN
    /\ IF status[p] = "pending"
       THEN /\ status' = [status EXCEPT ![p] = new]
            /\ Goto(c, At("audit", p, new))
       ELSE Finish(c) /\ UNCHANGED status
    /\ UNCHANGED <<lapsed, audit, expiring, calls, faults, effects>>

\* Mutant of ApproveRow: the row is approved whatever its status has become.
ApproveRowBlindly(c) ==
    /\ call[c].pc = "approve"
    /\ status' = [status EXCEPT ![call[c].p] = "approved"]
    /\ Goto(c, At("audit", call[c].p, "approved"))
    /\ UNCHANGED <<lapsed, audit, expiring, calls, faults, effects>>

ApproveRow(c) == call[c].pc = "approve" /\ Decide(c, "approved")

\* reject, requireFreshPending.
Reject(c, p) ==
    /\ Arrives(c)
    /\ status[p] = "pending" /\ p \notin lapsed
    /\ Goto(c, At("reject", p, "rejected"))
    /\ UNCHANGED <<status, lapsed, audit, expiring, faults, effects>>

\* Mutant of RejectRow: the update has no expected_status.
RejectRowBlindly(c) ==
    /\ call[c].pc = "reject"
    /\ status' = [status EXCEPT ![call[c].p] = "rejected"]
    /\ Goto(c, At("audit", call[c].p, "rejected"))
    /\ UNCHANGED <<lapsed, audit, expiring, calls, faults, effects>>

RejectRow(c) == call[c].pc = "reject" /\ Decide(c, "rejected")

\* appendAudit; after the approval's audit record approve goes on to apply.
AppendAudit(c) ==
    LET p == call[c].p IN
    /\ call[c].pc = "audit"
    /\ audit' = [audit EXCEPT ![p] = @ \cup {call[c].event}]
    /\ IF call[c].event = "approved" THEN Goto(c, At("claim", p, "approved")) ELSE Finish(c)
    /\ UNCHANGED <<status, lapsed, expiring, calls, faults, effects>>

-----------------------------------------------------------------------------
(* Applying *)

\* Mutant of Claim: dispatch whenever the row read was approved.
ClaimUnchecked(c) ==
    LET p == call[c].p IN
    /\ call[c].pc = "claim"
    /\ status' = [status EXCEPT ![p] = "applying"]
    /\ Goto(c, At("dispatch", p, "applied"))
    /\ UNCHANGED <<lapsed, audit, expiring, calls, faults, effects>>

\* apply: the compare-and-set approved -> applying; the loser returns the row.
Claim(c) ==
    LET p == call[c].p IN
    /\ call[c].pc = "claim"
    /\ IF status[p] = "approved"
       THEN /\ status' = [status EXCEPT ![p] = "applying"]
            /\ Goto(c, At("dispatch", p, "applied"))
       ELSE Finish(c) /\ UNCHANGED status
    /\ UNCHANGED <<lapsed, audit, expiring, calls, faults, effects>>

Dispatch(c) ==
    LET p == call[c].p IN
    /\ call[c].pc = "dispatch"
    /\ dispatched' = [dispatched EXCEPT ![p] = @ + 1]
    /\ Goto(c, At("forget", p, "applied"))
    /\ UNCHANGED <<status, lapsed, audit, expiring, calls, faults, deleted, partial>>

\* Mutant of ForgetBatch: the loop does not stop at the last round.
ForgetBatchForever(c) ==
    /\ call[c].pc = "forget"
    /\ deleted' = [deleted EXCEPT ![call[c].p] = @ + 1]
    /\ UNCHANGED <<status, lapsed, audit, call, expiring, calls, faults, dispatched, partial>>

\* forget / forgetByScope: one round of search and delete.
ForgetBatch(c) ==
    LET p == call[c].p IN
    /\ call[c].pc = "forget"
    /\ deleted[p] < Batches
    /\ deleted' = [deleted EXCEPT ![p] = @ + 1]
    /\ UNCHANGED <<status, lapsed, audit, call, expiring, calls, faults, dispatched, partial>>

\* Mutant of ForgetDone: the outcome is recorded as soon as the forget started.
ForgetNotAwaited(c) ==
    /\ call[c].pc = "forget"
    /\ Goto(c, At("finalize", call[c].p, "applied"))
    /\ UNCHANGED <<status, lapsed, audit, expiring, calls, faults, effects>>

\* The last round found nothing more.
ForgetDone(c) ==
    /\ call[c].pc = "forget"
    /\ deleted[call[c].p] = Batches
    /\ Goto(c, At("finalize", call[c].p, "applied"))
    /\ UNCHANGED <<status, lapsed, audit, expiring, calls, faults, effects>>

\* forgetByScope stops with matches left: the round deleted nothing (the index
\* still lists memories that are gone) or the cap on rounds is reached.  It
\* returns normally all the same.
ForgetStopsEarly(c) ==
    /\ call[c].pc = "forget"
    /\ deleted[call[c].p] < Batches
    /\ partial' = partial \cup {call[c].p}
    /\ Goto(c, At("finalize", call[c].p, "applied"))
    /\ UNCHANGED <<status, lapsed, audit, expiring, calls, faults, dispatched, deleted>>

\* A command of the forget throws (also: the connection is gone).
ForgetThrows(c) ==
    /\ call[c].pc = "forget"
    /\ Fault
    /\ Goto(c, At("finalize", call[c].p, "failed"))
    /\ UNCHANGED <<status, lapsed, audit, expiring, calls, effects>>

\* Mutant of Finalize: success is recorded before the outcome is looked at.
FinalizeAlwaysApplied(c) ==
    /\ call[c].pc = "finalize"
    /\ status' = [status EXCEPT ![call[c].p] = "applied"]
    /\ Goto(c, At("audit", call[c].p, call[c].event))
    /\ UNCHANGED <<lapsed, audit, expiring, calls, faults, effects>>

\* The unconditional update that records the outcome.
Finalize(c) ==
    LET p == call[c].p IN
    /\ call[c].pc = "finalize"
    /\ status' = [status EXCEPT ![p] = call[c].event]
    /\ Goto(c, At("audit", p, call[c].event))
    /\ UNCHANGED <<lapsed, audit, expiring, calls, faults, effects>>

-----------------------------------------------------------------------------
(* Expiry, failures *)

Lapse(p) ==
    /\ status[p] # "none" /\ p \notin lapsed
    /\ lapsed' = lapsed \cup {p}
    /\ UNCHANGED <<status, audit, call, expiring, calls, faults, effects>>

\* The cron's tick: one UPDATE over the expired rows ...
Expirable == {p \in lapsed : status[p] = "pending"}
ExpireProposals ==
    /\ Expirable # {}
    /\ status' = [p \in Proposals |-> IF p \in Expirable THEN "expired" ELSE status[p]]
    /\ expiring' = expiring \cup Expirable
    /\ UNCHANGED <<lapsed, audit, call, calls, faults, effects>>

\* ... and an audit record for each, whose failure is only logged.
AuditExpired(p) ==
    /\ p \in expiring
    /\ expiring' = expiring \ {p}
    /\ \/ audit' = [audit EXCEPT ![p] = @ \cup {"expired"}] /\ UNCHANGED faults
       \/ Fault /\ UNCHANGED audit
    /\ UNCHANGED <<status, lapsed, call, calls, effects>>

\* A storage call throws: the request fails, or (after the forget) the error is
\* logged; either way nothing is undone and the chain ends.
StorageFails(c) ==
    /\ call[c].pc \in {"insert", "approve", "reject", "claim", "finalize", "audit"}
    /\ Fault
    /\ Finish(c)
    /\ UNCHANGED <<status, lapsed, audit, expiring, calls, effects>>

\* The process dies and is started again: rows and deletions stay.
Crash ==
    /\ Fault
    /\ call' = [c \in Callers |-> NoCall]
    /\ expiring' = {}
    /\ UNCHANGED <<status, lapsed, audit, calls, effects>>

-----------------------------------------------------------------------------
Step(c) ==
    \/ CreateProposal(c) \/ ApproveRow(c) \/ RejectRow(c) \/ AppendAudit(c)
    \/ Claim(c) \/ Dispatch(c) \/ ForgetBatch(c) \/ ForgetDone(c)
    \/ ForgetStopsEarly(c) \/ Finalize(c)

Next ==
    \/ \E c \in Callers, p \in Proposals : ProposeForget(c, p) \/ Approve(c, p) \/ Reject(c, p)
    \/ \E c \in Callers : Step(c)
    \/ \E c \in Callers : ForgetThrows(c) \/ StorageFails(c)
    \/ \E p \in Proposals : Lapse(p) \/ AuditExpired(p)
    \/ ExpireProposals
    \/ Crash

Spec == Init /\ [][Next]_vars

-----------------------------------------------------------------------------
(* Properties *)

\* The claim of apply ("two concurrent approvals cannot run the forget
\* twice"): no proposal's forget is ever started twice, whatever approvals,
\* re-approvals, storage failures and crashes happen.
AtMostOnce == \A p \in Proposals : dispatched[p] <= 1

Holding == {"dispatch", "forget", "finalize"}

\* "We hold the exclusive applying claim, so the finalize is unconditional":
\* one request at a time is between claim and finalize, and meanwhile the row
\* says applying.
ClaimExclusive ==
    /\ \A c, d \in Callers : call[c].pc \in Holding /\ call[d].pc \in Holding
                                /\ call[c].p = call[d].p => c = d
    /\ \A c \in Callers : call[c].pc \in Holding => status[call[c].p] = "applying"

\* Nothing is forgotten for a proposal nobody approved: a pending, rejected or
\* expired row has no deletions behind it.
RefusedUntouched ==
    \A p \in Proposals : status[p] \in {"none", "pending", "rejected", "expired"}
                            => dispatched[p] = 0 /\ deleted[p] = 0

\* "Status stays applying until the forget actually completes": an applied row
\* means the forget ran to its own end, with every matching memory gone unless
\* forgetByScope itself gave up on the rest; no crash, failed write, second
\* approval or expiry makes a row say applied before that.
AppliedIsComplete ==
    \A p \in Proposals : status[p] = "applied" => deleted[p] = Batches \/ p \in partial

\* The audit trail never contradicts the row: an outcome or a refusal is only
\* recorded for the status the row has, and an approval only for an approved
\* proposal.
AuditAgrees ==
    \A p \in Proposals :
        /\ \A e \in audit[p] \cap {"applied", "failed", "rejected", "expired"} : status[p] = e
        /\ "approved" \in audit[p] => status[p] \in {"approved", "applying", "applied", "failed"}

\* The service keeps the promise of a reviewed proposal.
Decision == [p \in Proposals |->
    CASE status[p] = "none" -> "none"
      [] status[p] = "pending" -> "open"
      [] status[p] \in {"rejected", "expired"} -> "refused"
      [] status[p] \in {"approved", "applying"} -> "accepted"
      [] OTHER -> status[p]]
Lifecycle == INSTANCE ProposalLifecycle
                 WITH decision <- Decision, started <- {p \in Proposals : dispatched[p] > 0}
\* Decided once, started only when accepted, settled once after the start.
RefinesLifecycle == Lifecycle!Spec

-----------------------------------------------------------------------------
(* What comments and tests claim and the service does not keep. *)

\* "If it throws, nothing was deleted, so record `failed`."
FailedDeletedNothing == \A p \in Proposals : status[p] = "failed" => deleted[p] = 0

\* "A pending forget proposal already exists for this target": at most one
\* proposal per target is pending.
OnePendingPerTarget == \A t \in Targets : Cardinality(Pending(t)) <= 1
=============================================================================
