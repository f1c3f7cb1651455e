------------------------ MODULE CacheProposalsProofs ------------------------
(***************************************************************************)
(* Proofs about CacheProposals, for any number of proposals, settings,     *)
(* payloads, callers, requests and faults.                                 *)
(***************************************************************************)
EXTENDS CacheProposals, FiniteSetTheorems, TLAPS

-----------------------------------------------------------------------------
(* The inductive invariant *)

Accepted == {"approved", "applied", "failed"}
Approvals == {"approved", "edited_and_approved"}
Decisions == {"approved", "edited_and_approved", "rejected", "expired"}

\* What an audit event says of the row's status.
Says(e, s) ==
    /\ e \in {"rejected", "expired", "applied"} => s = e
    /\ e \in Approvals \cup {"failed"} => s \in Accepted

\* A request whose record is r knows its proposal, and what the row (its
\* status s and payload w) and the dispatches t must say by now.
Knows(r, s, w, t) ==
    /\ r.pc = "insert" => s = "none" /\ r.v \in Payloads
    /\ r.pc # "insert" => s # "none"
    /\ r.pc = "edit" => r.v \in Payloads
    /\ r.pc \in {"dispatch", "effect", "finalize"} => s \in Accepted /\ r.v = w
    /\ r.pc \in {"effect", "finalize"} => t # {}
    /\ r.pc = "finalize" => r.event \in {"applied", "failed"}
    /\ r.pc = "audit" => Says(r.event, s) /\ r.event # "expired"
    /\ r.pc = "audit" /\ r.event \in Approvals => r.v = w
Request(c) ==
    IF call[c].pc = "idle"
    THEN call[c].p = None
    ELSE /\ call[c].p \in Proposals
         /\ Knows(call[c], status[call[c].p], payload[call[c].p], sent[call[c].p])
Requests == \A c \in Callers : Request(c)

\* A row is inserted by one request, and no other knows of it.
Inserting == \A c, d \in Callers : call[c].pc = "insert" /\ call[d].p = call[c].p => c = d

\* The row and the dispatches behind it.
RowOk(s, w, t, n) ==
    /\ s # "none" => w \in Payloads
    /\ t \subseteq {w}
    /\ s \in {"none", "pending", "rejected", "expired"} => t = {} /\ n = 0
    /\ s \in {"applied", "failed"} => t # {}
Rows == \A p \in Proposals : RowOk(status[p], payload[p], sent[p], performed[p])

\* The audit trail of a proposal against its row.
TrailOk(s, a) ==
    /\ \A e \in AuditEvent \ {"failed"} : a[e] \in {0, 1} /\ (a[e] = 1 => Says(e, s))
    /\ \A e, f \in Decisions : a[e] # 0 /\ a[f] # 0 => e = f
\* Nobody recorded yet what the writer of event e is about to record.
Unwritten(e, a) ==
    /\ e \in Decisions => \A f \in Decisions : a[f] = 0
    /\ e = "applied" => a[e] = 0
\* Two events of which a proposal gets one.
Rival(e, f) == (e \in Decisions /\ f \in Decisions) \/ (e = "applied" /\ f = "applied")
Trail ==
    /\ \A p \in Proposals : TrailOk(status[p], audit[p])
    /\ \A c \in Callers : call[c].pc = "audit" => Unwritten(call[c].event, audit[call[c].p])
    /\ \A c, d \in Callers :
          /\ call[c].pc = "audit" /\ call[d].pc = "audit" /\ call[c].p = call[d].p
          /\ Rival(call[c].event, call[d].event)
          => c = d
    /\ \A p \in expiring : status[p] = "expired" /\ Unwritten("expired", audit[p])

\* The ways a row's status changes.
Moves(a, b) ==
    \/ a = b
    \/ a = "none" /\ b = "pending"
    \/ a = "pending" /\ b \in {"approved", "rejected", "expired"}
    \/ a = "approved" /\ b \in {"applied", "failed"}

-----------------------------------------------------------------------------
(* Type correctness *)

\* A request's record, field by field.
LEMMA CallRecords ==
    /\ NoCall \in Call /\ NoCall.pc = "idle" /\ NoCall.p = None
    /\ \A pc \in Steps, p \in Proposals, v \in Payloads \cup {None}, e \in AuditEvent :
          /\ At(pc, p, v, e) \in Call
          /\ At(pc, p, v, e).pc = pc /\ At(pc, p, v, e).p = p
          /\ At(pc, p, v, e).v = v /\ At(pc, p, v, e).event = e
  BY DEF NoCall, At, Call, Steps, AuditEvent

\* A request that moves on or ends leaves the calls well typed.
LEMMA GotoType ==
    ASSUME TypeOK, NEW c \in Callers, NEW s \in Call, Goto(c, s)
    PROVE  call' \in [Callers -> Call] /\ call'[c] = s /\ \A d \in Callers : d # c => call'[d] = call[d]
  BY DEF TypeOK, Goto

\* A request under way has a proposal, and its record is typed.
LEMMA BusyType ==
    ASSUME TypeOK, Requests, NEW c \in Callers, call[c].pc # "idle"
    PROVE  /\ call[c].p \in Proposals /\ call[c].v \in Payloads \cup {None}
           /\ call[c].event \in AuditEvent
           /\ payload[call[c].p] \in Payloads \cup {None}
           /\ Knows(call[c], status[call[c].p], payload[call[c].p], sent[call[c].p])
  BY DEF TypeOK, Requests, Request, Call

\* The types hold initially.
LEMMA TypeInit == Init => TypeOK
  BY CacheAssumption, CallRecords DEF Init, TypeOK, ProposalStatus

\* Every step keeps the types, once requests know their proposals.
LEMMA TypeStep ==
    ASSUME TypeOK, Requests, Rows, [Next]_vars
    PROVE  TypeOK'
<1> USE CacheAssumption
<1>1. ASSUME NEW c \in Callers, NEW p \in Proposals, NEW v \in Payloads, Propose(c, p, v)
      PROVE  TypeOK'
  <2>1. call' \in [Callers -> Call]
    BY <1>1, CallRecords, GotoType DEF Propose, Steps, AuditEvent
  <2>2. QED
    BY <1>1, <2>1 DEF Propose, Arrives, TypeOK, effects, row
<1>2. ASSUME NEW c \in Callers, NEW p \in Proposals, NEW v \in Payloads, EditAndApprove(c, p, v)
      PROVE  TypeOK'
  <2>1. call' \in [Callers -> Call]
    BY <1>2, CallRecords, GotoType DEF EditAndApprove, Steps, AuditEvent
  <2>2. QED
    BY <1>2, <2>1 DEF EditAndApprove, Arrives, TypeOK, effects, row
<1>3. ASSUME NEW c \in Callers, NEW p \in Proposals, Approve(c, p) \/ Reject(c, p)
      PROVE  TypeOK'
  <2>1. payload[p] \in Payloads \cup {None}
    BY DEF TypeOK
  <2>2. call' \in [Callers -> Call]
    BY <1>3, <2>1, CallRecords, GotoType DEF Approve, Reject, Steps, AuditEvent
  <2>3. QED
    BY <1>3, <2>2 DEF Approve, Reject, Arrives, TypeOK, effects, row
<1>4. ASSUME NEW c \in Callers, Step(c)
      PROVE  TypeOK'
  <2>0. call[c].pc # "idle"
    BY <1>4 DEF Step, Persist, ApproveRow, Reread, EditRow, RejectRow, AppendAudit, Dispatch,
                EffectDone, Finalize
  <2>1. PICK p \in Proposals, v \in Payloads \cup {None}, e \in AuditEvent, w \in Payloads \cup {None} :
           /\ p = call[c].p /\ v = call[c].v /\ e = call[c].event /\ w = payload[p]
           /\ Knows(call[c], status[p], w, sent[p])
    BY <2>0, BusyType
  <2>2. CASE Persist(c)
    <3>1. call' \in [Callers -> Call]
      BY <2>2, CallRecords, GotoType DEF Persist, Finish
    <3>2. QED
      BY <2>1, <2>2, <3>1 DEF Persist, TypeOK, effects, row, ProposalStatus
  <2>3. CASE ApproveRow(c)
    <3>1. call' \in [Callers -> Call]
      BY <2>1, <2>3, CallRecords, GotoType DEF ApproveRow, Steps, AuditEvent
    <3>2. QED
      BY <2>1, <2>3, <3>1 DEF ApproveRow, TypeOK, effects, ProposalStatus
  <2>4. CASE Reread(c)
    <3>1. call' \in [Callers -> Call]
      BY <2>1, <2>4, CallRecords, GotoType DEF Reread, Finish, Steps, AuditEvent
    <3>2. QED
      BY <2>4, <3>1 DEF Reread, TypeOK, effects, row
  <2>5. CASE EditRow(c)
    <3>1. call' \in [Callers -> Call]
      BY <2>1, <2>5, CallRecords, GotoType DEF EditRow, Finish, Steps, AuditEvent
    <3>2. QED
      BY <2>1, <2>5, <3>1 DEF EditRow, TypeOK, effects, row, ProposalStatus
  <2>6. CASE RejectRow(c)
    <3>1. call' \in [Callers -> Call]
      BY <2>1, <2>6, CallRecords, GotoType DEF RejectRow, Finish, Steps, AuditEvent
    <3>2. QED
      BY <2>1, <2>6, <3>1 DEF RejectRow, TypeOK, effects, ProposalStatus
  <2>7. CASE AppendAudit(c)
    <3>1. call' \in [Callers -> Call]
      BY <2>1, <2>7, CallRecords, GotoType DEF AppendAudit, Finish, Steps, AuditEvent
    <3>2. audit' \in [Proposals -> [AuditEvent -> Nat]]
      BY <2>1, <2>7 DEF AppendAudit, TypeOK
    <3>3. QED
      BY <2>7, <3>1, <3>2 DEF AppendAudit, TypeOK, effects, row
  <2>8. CASE Dispatch(c)
    <3>1. call' \in [Callers -> Call]
      BY <2>1, <2>8, CallRecords, GotoType DEF Dispatch, Steps, AuditEvent
    <3>2. v \in Payloads
      BY <2>1, <2>8 DEF Dispatch, Knows, Accepted, Rows, RowOk
    <3>3. QED
      BY <2>1, <2>8, <3>1, <3>2 DEF Dispatch, TypeOK, row
  <2>9. CASE EffectDone(c)
    <3>1. call' \in [Callers -> Call]
      BY <2>1, <2>9, CallRecords, GotoType DEF EffectDone, Steps, AuditEvent
    <3>2. QED
      BY <2>1, <2>9, <3>1 DEF EffectDone, TypeOK, row
  <2>10. CASE Finalize(c)
    <3>1. call' \in [Callers -> Call]
      BY <2>1, <2>10, CallRecords, GotoType DEF Finalize, Finish, Steps
    <3>2. e \in ProposalStatus
      BY <2>1, <2>10 DEF Finalize, Knows, ProposalStatus
    <3>3. QED
      BY <2>1, <2>10, <3>1, <3>2 DEF Finalize, TypeOK, effects
  <2>11. QED
    BY <1>4, <2>2, <2>3, <2>4, <2>5, <2>6, <2>7, <2>8, <2>9, <2>10 DEF Step
<1>5. ASSUME NEW c \in Callers, EffectThrows(c)
      PROVE  TypeOK'
  <2>1. call[c].p \in Proposals /\ call[c].v \in Payloads \cup {None}
    BY <1>5, BusyType DEF EffectThrows
  <2>2. call' \in [Callers -> Call]
    BY <1>5, <2>1, CallRecords, GotoType DEF EffectThrows, Steps, AuditEvent
  <2>3. QED
    BY <1>5, <2>2 DEF EffectThrows, Fault, TypeOK, effects, row
<1>6. ASSUME NEW c \in Callers, StorageFails(c)
      PROVE  TypeOK'
  <2>1. call' \in [Callers -> Call]
    BY <1>6, CallRecords, GotoType DEF StorageFails, Finish
  <2>2. QED
    BY <1>6, <2>1 DEF StorageFails, Fault, TypeOK, effects, row
<1>7. ASSUME NEW p \in Proposals, Tick(p)
      PROVE  TypeOK'
  BY <1>7 DEF Tick, TypeOK, effects, row
<1>8. ASSUME NEW p \in Proposals, AuditExpired(p)
      PROVE  TypeOK'
  <2>1. audit' \in [Proposals -> [AuditEvent -> Nat]]
    BY <1>8 DEF AuditExpired, TypeOK, AuditEvent
  <2>2. QED
    BY <1>8, <2>1 DEF AuditExpired, Fault, TypeOK, effects, row
<1>9. CASE ExpireProposals
  BY <1>9 DEF ExpireProposals, Expirable, TypeOK, effects, ProposalStatus
<1>10. CASE Crash
  BY <1>10, CallRecords DEF Crash, Fault, TypeOK, effects, row
<1>11. CASE UNCHANGED vars
  BY <1>11 DEF vars, TypeOK
<1>12. QED
  BY <1>1, <1>2, <1>3, <1>4, <1>5, <1>6, <1>7, <1>8, <1>9, <1>10, <1>11 DEF Next

-----------------------------------------------------------------------------
(* Rows only move forward *)

\* Whatever request or cron tick writes it, a row's status only moves along
\* the lifecycle, its payload is settled with the decision, and dispatches are
\* never forgotten.
LEMMA RowMoves ==
    ASSUME TypeOK, Requests, Rows, [Next]_vars, NEW p \in Proposals
    PROVE  /\ Moves(status[p], status'[p])
           /\ status[p] \notin {"none", "pending"} => payload'[p] = payload[p]
           /\ sent[p] \subseteq sent'[p]
<1>1. CASE UNCHANGED <<row, sent>>
  BY <1>1 DEF Moves, row
<1>2. ASSUME NEW c \in Callers, Persist(c)
      PROVE  /\ Moves(status[p], status'[p])
             /\ status[p] \notin {"none", "pending"} => payload'[p] = payload[p]
             /\ sent[p] \subseteq sent'[p]
  <2>1. status[call[c].p] = "none" /\ call[c].p \in Proposals
    BY <1>2, BusyType DEF Persist, Knows
  <2>2. QED
    BY <1>2, <2>1 DEF Persist, TypeOK, Moves, effects, row
<1>3. ASSUME NEW c \in Callers, ApproveRow(c) \/ EditRow(c) \/ RejectRow(c)
      PROVE  /\ Moves(status[p], status'[p])
             /\ status[p] \notin {"none", "pending"} => payload'[p] = payload[p]
             /\ sent[p] \subseteq sent'[p]
  BY <1>3 DEF ApproveRow, EditRow, RejectRow, TypeOK, Moves, effects, row
<1>4. ASSUME NEW c \in Callers, Dispatch(c)
      PROVE  /\ Moves(status[p], status'[p])
             /\ status[p] \notin {"none", "pending"} => payload'[p] = payload[p]
             /\ sent[p] \subseteq sent'[p]
  BY <1>4 DEF Dispatch, TypeOK, Moves, row
<1>5. ASSUME NEW c \in Callers, Finalize(c)
      PROVE  /\ Moves(status[p], status'[p])
             /\ status[p] \notin {"none", "pending"} => payload'[p] = payload[p]
             /\ sent[p] \subseteq sent'[p]
  <2>1. call[c].event \in {"applied", "failed"}
    BY <1>5, BusyType DEF Finalize, Knows
  <2>2. QED
    BY <1>5, <2>1 DEF Finalize, TypeOK, Moves, effects
<1>6. CASE ExpireProposals
  BY <1>6 DEF ExpireProposals, Expirable, TypeOK, Moves, effects
<1>7. QED
  BY <1>1, <1>2, <1>3, <1>4, <1>5, <1>6
     DEF Next, vars, Step, row, effects, Propose, EditAndApprove, Approve, Reject, Reread,
         AppendAudit, EffectDone, EffectThrows, StorageFails, Tick, AuditExpired, Crash

\* Only the request that inserts it creates a row.
LEMMA RowCreated ==
    ASSUME TypeOK, Requests, [Next]_vars, NEW p \in Proposals, status[p] = "none", status'[p] # "none"
    PROVE  \E c \in Callers : Persist(c) /\ call[c].p = p
<1>1. ASSUME NEW c \in Callers, Finalize(c)
      PROVE  FALSE
  BY <1>1 DEF Finalize, TypeOK
<1>2. ASSUME NEW c \in Callers, ApproveRow(c) \/ EditRow(c) \/ RejectRow(c)
      PROVE  FALSE
  BY <1>2 DEF ApproveRow, EditRow, RejectRow, TypeOK, row
<1>3. CASE ExpireProposals
  BY <1>3 DEF ExpireProposals, Expirable, TypeOK
<1>4. ASSUME NEW c \in Callers, Persist(c)
      PROVE  call[c].p = p
  BY <1>4 DEF Persist, TypeOK, row
<1>5. status' # status
  OBVIOUS
<1>6. QED
  BY <1>1, <1>2, <1>3, <1>4, <1>5
     DEF Next, vars, Step, row, effects, Propose, EditAndApprove, Approve, Reject, Reread,
         AppendAudit, Dispatch, EffectDone, EffectThrows, StorageFails, Tick, AuditExpired, Crash

-----------------------------------------------------------------------------
(* Requests *)

\* What a request knows stays true while others move its row.
LEMMA KnowsStays ==
    ASSUME NEW r \in Call, NEW s \in ProposalStatus \cup {"none"}, NEW s2, NEW w, NEW w2, NEW t, NEW t2,
           Knows(r, s, w, t), Moves(s, s2), t \subseteq t2,
           s \notin {"none", "pending"} => w2 = w,
           s = "none" => s2 = "none"
    PROVE  Knows(r, s2, w2, t2)
<1>1. s # "none" => s2 # "none"
  BY DEF Moves
<1>2. s \in Accepted => s2 \in Accepted
  BY DEF Moves, Accepted
<1>3. \A e \in AuditEvent : Says(e, s) => Says(e, s2)
  BY DEF Says, Moves, Accepted, Approvals, AuditEvent
<1>4. r.event \in AuditEvent
  BY DEF Call
<1>5. r.event \in Approvals /\ Says(r.event, s) => s \in Accepted
  BY DEF Says, Approvals
<1>6. s \in Accepted => w2 = w
  BY DEF Accepted
<1>7. QED
  BY <1>1, <1>2, <1>3, <1>4, <1>5, <1>6 DEF Knows

\* A request that did not move keeps what it knows.
LEMMA RequestStays ==
    ASSUME TypeOK, Requests, Inserting, Rows, [Next]_vars, NEW d \in Callers, call'[d] = call[d]
    PROVE  Request(d)'
<1>1. CASE call[d].pc = "idle"
  BY <1>1 DEF Requests, Request
<1>2. CASE call[d].pc # "idle"
  <2>1. PICK p \in Proposals : p = call[d].p /\ Knows(call[d], status[p], payload[p], sent[p])
    BY <1>2, BusyType
  <2>2. status[p] = "none" => status'[p] = "none"
    <3>1. SUFFICES ASSUME status[p] = "none", status'[p] # "none"
                   PROVE  FALSE
      OBVIOUS
    <3>2. PICK c \in Callers : Persist(c) /\ call[c].p = p
      BY <3>1, RowCreated
    <3>3. c = d
      BY <2>1, <3>2 DEF Inserting, Persist
    <3>4. call'[d].pc = "idle"
      BY <3>2, <3>3, CallRecords, GotoType DEF Persist, Finish
    <3>5. QED
      BY <1>2, <3>4
  <2>3. /\ Moves(status[p], status'[p]) /\ sent[p] \subseteq sent'[p]
        /\ status[p] \notin {"none", "pending"} => payload'[p] = payload[p]
    BY RowMoves
  <2>4. call[d] \in Call /\ status[p] \in ProposalStatus \cup {"none"}
    BY DEF TypeOK
  <2>5. Knows(call[d], status'[p], payload'[p], sent'[p])
    BY <2>1, <2>2, <2>3, <2>4, KnowsStays
  <2>6. QED
    BY <1>2, <2>1, <2>5 DEF Request
<1>3. QED
  BY <1>1, <1>2

\* A request that moves knows what its next step relies on.
LEMMA RequestMoves ==
    ASSUME TypeOK, Requests, Rows, [Next]_vars, NEW d \in Callers, call'[d] # call[d]
    PROVE  Request(d)'
<1> USE CacheAssumption
<1>1. ASSUME NEW p \in Proposals, NEW v \in Payloads, Propose(d, p, v) \/ EditAndApprove(d, p, v)
      PROVE  Request(d)'
  <2>1. \/ call'[d] = At("insert", p, v, "approved") /\ status'[p] = "none"
        \/ call'[d] = At("edit", p, v, "edited_and_approved") /\ status'[p] # "none"
    BY <1>1 DEF Propose, EditAndApprove, FreshPending, Goto, TypeOK, row
  <2>2. /\ call'[d].p = p /\ call'[d].v = v
        /\ \/ call'[d].pc = "insert" /\ status'[p] = "none"
           \/ call'[d].pc = "edit" /\ status'[p] # "none"
    BY <2>1, CallRecords DEF Steps, AuditEvent
  <2>3. QED
    BY <2>2 DEF Request, Knows
<1>2. ASSUME NEW p \in Proposals, Approve(d, p) \/ Reject(d, p)
      PROVE  Request(d)'
  <2>1. /\ \/ call'[d] = At("dispatch", p, payload[p], "approved") /\ status'[p] = "approved"
           \/ call'[d] \in {At("approve", p, None, "approved"), At("reject", p, None, "rejected")}
              /\ status'[p] # "none"
        /\ payload'[p] = payload[p] /\ payload[p] \in Payloads \cup {None}
    BY <1>2 DEF Approve, Reject, FreshPending, Goto, TypeOK, row
  <2>2. /\ call'[d].p = p
        /\ \/ call'[d].pc = "dispatch" /\ status'[p] = "approved" /\ call'[d].v = payload[p]
           \/ call'[d].pc \in {"approve", "reject"} /\ status'[p] # "none"
    BY <2>1, CallRecords DEF Steps, AuditEvent
  <2>3. QED
    BY <2>1, <2>2 DEF Request, Knows, Accepted
<1>3. CASE call'[d] = NoCall
  BY <1>3, CallRecords DEF Request
<1>4. ASSUME Step(d) \/ EffectThrows(d), call'[d] # NoCall
      PROVE  Request(d)'
  <2>0. call[d].pc # "idle"
    BY <1>4 DEF Step, Persist, ApproveRow, Reread, EditRow, RejectRow, AppendAudit, Dispatch,
                EffectDone, Finalize, EffectThrows
  <2>1. PICK p \in Proposals, v \in Payloads \cup {None}, e \in AuditEvent, w \in Payloads \cup {None} :
           /\ p = call[d].p /\ v = call[d].v /\ e = call[d].event /\ w = payload[p]
           /\ Knows(call[d], status[p], w, sent[p])
    BY <2>0, BusyType
  <2>2. CASE ApproveRow(d)
    <3>1. /\ \/ call'[d] = At("audit", p, w, "approved") /\ status'[p] = "approved"
             \/ call'[d] = At("reread", p, None, "approved") /\ status'[p] # "none"
          /\ payload'[p] = w
      BY <2>1, <2>2 DEF ApproveRow, Goto, TypeOK, Knows
    <3>2. /\ call'[d].p = p
          /\ \/ /\ call'[d].pc = "audit" /\ call'[d].event = "approved"
                /\ call'[d].v = w /\ status'[p] = "approved"
             \/ call'[d].pc = "reread" /\ status'[p] # "none"
      BY <3>1, CallRecords DEF Steps, AuditEvent
    <3>3. QED
      BY <3>1, <3>2 DEF Request, Knows, Says, Accepted, Approvals
  <2>3. CASE Reread(d)
    <3>1. /\ call'[d] = At("dispatch", p, w, "approved") /\ status'[p] = "approved"
          /\ payload'[p] = w
      BY <1>4, <2>1, <2>3 DEF Reread, Goto, Finish, TypeOK, row
    <3>2. call'[d].p = p /\ call'[d].pc = "dispatch" /\ call'[d].v = w
      BY <3>1, CallRecords DEF Steps, AuditEvent
    <3>3. QED
      BY <3>1, <3>2 DEF Request, Knows, Accepted
  <2>4. CASE EditRow(d)
    <3>1. /\ call'[d] = At("audit", p, v, "edited_and_approved") /\ status'[p] = "approved"
          /\ payload'[p] = v
      BY <1>4, <2>1, <2>4 DEF EditRow, Goto, Finish, TypeOK, row
    <3>2. /\ call'[d].p = p /\ call'[d].pc = "audit" /\ call'[d].event = "edited_and_approved"
          /\ call'[d].v = v
      BY <3>1, CallRecords DEF Steps, AuditEvent
    <3>3. QED
      BY <3>1, <3>2 DEF Request, Knows, Says, Accepted, Approvals
  <2>5. CASE RejectRow(d)
    <3>1. call'[d] = At("audit", p, None, "rejected") /\ status'[p] = "rejected"
      BY <1>4, <2>1, <2>5 DEF RejectRow, Goto, Finish, TypeOK
    <3>2. call'[d].p = p /\ call'[d].pc = "audit" /\ call'[d].event = "rejected"
      BY <3>1, CallRecords DEF Steps, AuditEvent
    <3>3. QED
      BY <3>1, <3>2 DEF Request, Knows, Says, Approvals
  <2>6. CASE AppendAudit(d)
    <3>1. /\ call'[d] = At("dispatch", p, v, "approved") /\ status'[p] = status[p]
          /\ payload'[p] = w /\ e \in Approvals
      BY <1>4, <2>1, <2>6 DEF AppendAudit, Goto, Finish, TypeOK, row, Approvals
    <3>2. call'[d].p = p /\ call'[d].pc = "dispatch" /\ call'[d].v = v
      BY <3>1, CallRecords DEF Steps, AuditEvent
    <3>3. v = w /\ status[p] \in Accepted
      BY <2>1, <2>6, <3>1 DEF AppendAudit, Knows, Says
    <3>4. QED
      BY <3>1, <3>2, <3>3 DEF Request, Knows, Accepted
  <2>7. CASE Dispatch(d)
    <3>1. /\ call'[d] = At("effect", p, v, "applied") /\ status'[p] = status[p]
          /\ payload'[p] = w /\ sent'[p] # {}
      BY <2>1, <2>7 DEF Dispatch, Goto, TypeOK, row
    <3>2. call'[d].p = p /\ call'[d].pc = "effect" /\ call'[d].v = v
      BY <3>1, CallRecords DEF Steps, AuditEvent
    <3>3. v = w /\ status[p] \in Accepted
      BY <2>1, <2>7 DEF Dispatch, Knows
    <3>4. QED
      BY <3>1, <3>2, <3>3 DEF Request, Knows, Accepted
  <2>8. CASE EffectDone(d) \/ EffectThrows(d)
    <3>1. /\ call'[d] \in {At("finalize", p, v, "applied"), At("finalize", p, v, "failed")}
          /\ status'[p] = status[p] /\ payload'[p] = w /\ sent'[p] = sent[p]
      BY <2>1, <2>8 DEF EffectDone, EffectThrows, Goto, TypeOK, row, effects
    <3>2. /\ call'[d].p = p /\ call'[d].pc = "finalize" /\ call'[d].v = v
          /\ call'[d].event \in {"applied", "failed"}
      BY <3>1, CallRecords DEF Steps, AuditEvent
    <3>3. v = w /\ status[p] \in Accepted /\ sent[p] # {}
      BY <2>1, <2>8 DEF EffectDone, EffectThrows, Knows
    <3>4. QED
      BY <3>1, <3>2, <3>3 DEF Request, Knows, Accepted
  <2>9. CASE Finalize(d)
    <3>1. /\ e \in {"applied", "failed"} /\ status[p] \in Accepted /\ v = w
      BY <2>1, <2>9 DEF Finalize, Knows
    <3>2. /\ call'[d] = At("audit", p, v, e) /\ payload'[p] = w
          /\ status'[p] = e \/ (e = "failed" /\ status'[p] = status[p])
      BY <1>4, <2>1, <2>9, <3>1 DEF Finalize, Goto, Finish, TypeOK
    <3>3. call'[d].p = p /\ call'[d].pc = "audit" /\ call'[d].event = e
      BY <3>2, CallRecords DEF Steps
    <3>4. QED
      BY <3>1, <3>2, <3>3 DEF Request, Knows, Says, Accepted, Approvals
  <2>10. CASE Persist(d)
    BY <1>4, <2>10 DEF Persist, Finish, Goto, TypeOK
  <2>11. QED
    BY <1>4, <2>2, <2>3, <2>4, <2>5, <2>6, <2>7, <2>8, <2>9, <2>10 DEF Step
<1>5. QED
  <2>1. ASSUME NEW c \in Callers, NEW s, Goto(c, s)
        PROVE  c = d
    BY <2>1 DEF Goto, TypeOK
  <2>2. ASSUME NEW c \in Callers, NEW p \in Proposals, NEW v \in Payloads,
               Propose(c, p, v) \/ EditAndApprove(c, p, v)
        PROVE  c = d
    BY <2>1, <2>2 DEF Propose, EditAndApprove
  <2>3. ASSUME NEW c \in Callers, NEW p \in Proposals, Approve(c, p) \/ Reject(c, p)
        PROVE  c = d
    BY <2>1, <2>3 DEF Approve, Reject
  <2>4. ASSUME NEW c \in Callers, Step(c) \/ EffectThrows(c) \/ StorageFails(c)
        PROVE  c = d
    BY <2>1, <2>4 DEF Step, Persist, ApproveRow, Reread, EditRow, RejectRow, AppendAudit, Dispatch,
                      EffectDone, Finalize, EffectThrows, StorageFails, Finish
  <2>5. StorageFails(d) \/ Crash => call'[d] = NoCall
    BY DEF StorageFails, Crash, Finish, Goto, TypeOK
  <2>6. CASE UNCHANGED call
    BY <2>6
  <2>7. QED
    BY <1>1, <1>2, <1>3, <1>4, <2>2, <2>3, <2>4, <2>5, <2>6
       DEF Next, vars, Tick, AuditExpired, ExpireProposals

\* Every step keeps what the requests know.
LEMMA RequestsStep ==
    ASSUME TypeOK, Requests, Inserting, Rows, [Next]_vars
    PROVE  Requests'
  BY RequestStays, RequestMoves DEF Requests

\* Which step gave a request that moved its new record.
LEMMA NewInsert ==
    ASSUME TypeOK, Requests, [Next]_vars, NEW d \in Callers, call'[d] # call[d], call'[d].pc = "insert"
    PROVE  \E p \in Proposals, v \in Payloads : Propose(d, p, v)
<1>1. ASSUME NEW c \in Callers, NEW s, Goto(c, s)
      PROVE  c = d /\ s.pc = "insert"
  BY <1>1 DEF Goto, TypeOK
<1>2. ASSUME NEW c \in Callers, NEW p \in Proposals, NEW v \in Payloads,
             Propose(c, p, v) \/ EditAndApprove(c, p, v)
      PROVE  Propose(d, p, v)
  <2>1. CASE Propose(c, p, v)
    BY <1>1, <2>1 DEF Propose
  <2>2. CASE EditAndApprove(c, p, v)
    BY <1>1, <2>2 DEF EditAndApprove, At
  <2>3. QED
    BY <1>2, <2>1, <2>2
<1>3. ASSUME NEW c \in Callers, NEW p \in Proposals, Approve(c, p) \/ Reject(c, p)
      PROVE  FALSE
  BY <1>1, <1>3 DEF Approve, Reject, At
<1>4. ASSUME NEW c \in Callers, Step(c) \/ EffectThrows(c) \/ StorageFails(c)
      PROVE  FALSE
  BY <1>1, <1>4 DEF Step, Persist, ApproveRow, Reread, EditRow, RejectRow, AppendAudit, Dispatch,
                    EffectDone, Finalize, EffectThrows, StorageFails, Finish, At, NoCall
<1>5. CASE Crash
  BY <1>5 DEF Crash, NoCall
<1>6. QED
  BY <1>2, <1>3, <1>4, <1>5 DEF Next, vars, Tick, AuditExpired, ExpireProposals

\* An insert stays the business of one request.
LEMMA InsertingStep ==
    ASSUME TypeOK, Requests, Inserting, Rows, [Next]_vars
    PROVE  Inserting'
<1>1. Requests'
  BY RequestsStep
<1>2. SUFFICES ASSUME NEW c \in Callers, NEW d \in Callers, c # d,
                      call'[c].pc = "insert", call'[d].p = call'[c].p
               PROVE  FALSE
  BY DEF Inserting
<1>3. call'[c].p \in Proposals /\ call'[d].pc = "insert"
  BY <1>1, <1>2, CacheAssumption DEF Requests, Request, Knows
<1>4. ASSUME NEW a \in Callers, NEW b \in Callers, a # b, call'[a] # call[a],
             call'[a].pc = "insert", call'[b].p = call'[a].p, call'[b].pc = "insert"
      PROVE  FALSE
  <2>1. PICK p \in Proposals, v \in Payloads : Propose(a, p, v)
    BY <1>4, NewInsert
  <2>2. call'[a].p = p /\ call'[b] = call[b] /\ call[b].p # p
    BY <1>4, <2>1 DEF Propose, Goto, At, TypeOK
  <2>3. QED
    BY <1>4, <2>2
<1>5. QED
  BY <1>2, <1>3, <1>4 DEF Inserting

-----------------------------------------------------------------------------
(* Rows *)

\* Every step keeps rows and dispatches together.
LEMMA RowsStep ==
    ASSUME TypeOK, Requests, Rows, [Next]_vars
    PROVE  Rows'
<1> SUFFICES ASSUME NEW q \in Proposals
             PROVE  RowOk(status'[q], payload'[q], sent'[q], performed'[q])
  BY DEF Rows
<1>0. RowOk(status[q], payload[q], sent[q], performed[q])
  BY DEF Rows
<1>1. CASE UNCHANGED <<row, effects>>
  BY <1>0, <1>1 DEF row, effects
<1>2. ASSUME NEW c \in Callers, Step(c)
      PROVE  RowOk(status'[q], payload'[q], sent'[q], performed'[q])
  <2>0. call[c].pc # "idle"
    BY <1>2 DEF Step, Persist, ApproveRow, Reread, EditRow, RejectRow, AppendAudit, Dispatch,
                EffectDone, Finalize
  <2>1. PICK p \in Proposals, v \in Payloads \cup {None}, e \in AuditEvent, w \in Payloads \cup {None} :
           /\ p = call[c].p /\ v = call[c].v /\ e = call[c].event /\ w = payload[p]
           /\ Knows(call[c], status[p], w, sent[p])
    BY <2>0, BusyType
  <2>2. CASE Persist(c)
    BY <1>0, <2>1, <2>2 DEF Persist, Knows, RowOk, TypeOK, row, effects
  <2>3. CASE ApproveRow(c)
    BY <1>0, <2>1, <2>3 DEF ApproveRow, RowOk, TypeOK, effects
  <2>4. CASE EditRow(c)
    BY <1>0, <2>1, <2>4 DEF EditRow, Knows, RowOk, TypeOK, row, effects
  <2>5. CASE RejectRow(c)
    BY <1>0, <2>1, <2>5 DEF RejectRow, RowOk, TypeOK, effects
  <2>6. CASE Dispatch(c)
    BY <1>0, <2>1, <2>6 DEF Dispatch, Knows, Accepted, RowOk, TypeOK, row
  <2>7. CASE EffectDone(c)
    BY <1>0, <2>1, <2>7 DEF EffectDone, Knows, Accepted, RowOk, TypeOK, row
  <2>8. CASE Finalize(c)
    BY <1>0, <2>1, <2>8 DEF Finalize, Knows, Accepted, RowOk, TypeOK, effects
  <2>9. CASE Reread(c) \/ AppendAudit(c)
    BY <1>1, <2>9 DEF Reread, AppendAudit
  <2>10. QED
    BY <1>2, <2>2, <2>3, <2>4, <2>5, <2>6, <2>7, <2>8, <2>9 DEF Step
<1>3. CASE ExpireProposals
  BY <1>0, <1>3 DEF ExpireProposals, Expirable, RowOk, TypeOK, effects
<1>4. QED
  BY <1>1, <1>2, <1>3
     DEF Next, vars, row, effects, Propose, EditAndApprove, Approve, Reject, EffectThrows,
         StorageFails, Tick, AuditExpired, Crash

\* The unique index keeps pending tunings of a setting apart.
LEMMA OnePendingStep ==
    ASSUME TypeOK, Requests, Rows, OnePendingTuning, [Next]_vars
    PROVE  OnePendingTuning'
<1> USE CacheAssumption
<1>1. SUFFICES ASSUME NEW p \in Tunings, NEW q \in Tunings, TargetOf[p] = TargetOf[q], p # q,
                      status'[p] = "pending", status'[q] = "pending"
               PROVE  FALSE
  BY DEF OnePendingTuning
<1>2. \A r \in Proposals : status'[r] = "pending" => status[r] \in {"none", "pending"}
  BY RowMoves DEF Moves
<1>3. ASSUME NEW a \in Tunings, NEW b \in Tunings, TargetOf[a] = TargetOf[b], a # b,
             status'[a] = "pending", status'[b] = "pending", status[a] = "none"
      PROVE  FALSE
  <2>1. PICK c \in Callers : Persist(c) /\ call[c].p = a
    BY <1>3, RowCreated
  <2>2. status[b] = "pending"
    BY <1>3, <2>1 DEF Persist, TypeOK, row
  <2>3. Clash(a) # {}
    BY <1>3, <2>2 DEF Clash
  <2>4. QED
    BY <1>3, <2>1, <2>3 DEF Persist, row
<1>4. QED
  BY <1>1, <1>2, <1>3 DEF OnePendingTuning

-----------------------------------------------------------------------------
(* The audit trail *)

\* What an event says stays true however the row moves on.
LEMMA SaysStays ==
    ASSUME NEW e \in AuditEvent, NEW a, NEW b, Says(e, a), Moves(a, b)
    PROVE  Says(e, b)
  BY DEF Says, Moves, Accepted, Approvals, AuditEvent

\* An undecided proposal has no decision on record, and nobody is about to
\* record one.
LEMMA NoDecisionYet ==
    /\ \A e \in AuditEvent : ~Says(e, "pending") /\ ~Says(e, "none")
    /\ \A e \in AuditEvent \ {"expired"} : ~Says(e, "expired")
  BY DEF Says, Accepted, Approvals, AuditEvent

\* Which steps give a request an audit record to write, and of what row.
LEMMA NewAudit ==
    ASSUME TypeOK, Requests, [Next]_vars, NEW d \in Callers, call'[d] # call[d], call'[d].pc = "audit"
    PROVE  /\ call[d].p \in Proposals /\ call'[d].p = call[d].p /\ call'[d].event \in AuditEvent
           /\ \A c \in Callers \ {d} : call'[c] = call[c]
           /\ audit' = audit
           /\ \/ status[call[d].p] = "pending"
              \/ status[call[d].p] = "approved" /\ call'[d].event \in {"applied", "failed"}
              \/ call'[d].event = "failed"
<1> DEFINE Goal ==
           /\ call[d].p \in Proposals /\ call'[d].p = call[d].p /\ call'[d].event \in AuditEvent
           /\ \A c \in Callers \ {d} : call'[c] = call[c]
           /\ audit' = audit
           /\ \/ status[call[d].p] = "pending"
              \/ status[call[d].p] = "approved" /\ call'[d].event \in {"applied", "failed"}
              \/ call'[d].event = "failed"
<1>1. ASSUME NEW c \in Callers, NEW s, Goto(c, s)
      PROVE  c = d /\ call'[d] = s /\ s.pc = "audit" /\ \A b \in Callers \ {d} : call'[b] = call[b]
  BY <1>1 DEF Goto, TypeOK
<1>2. ASSUME NEW c \in Callers, NEW p \in Proposals, NEW v \in Payloads,
             Propose(c, p, v) \/ EditAndApprove(c, p, v)
      PROVE  FALSE
  BY <1>1, <1>2 DEF Propose, EditAndApprove, At
<1>3. ASSUME NEW c \in Callers, NEW p \in Proposals, Approve(c, p) \/ Reject(c, p)
      PROVE  FALSE
  BY <1>1, <1>3 DEF Approve, Reject, At
<1>4. ASSUME NEW c \in Callers,
             \/ Persist(c) \/ Reread(c) \/ AppendAudit(c) \/ Dispatch(c) \/ EffectDone(c)
             \/ EffectThrows(c) \/ StorageFails(c)
      PROVE  FALSE
  BY <1>1, <1>4 DEF Persist, Reread, AppendAudit, Dispatch, EffectDone, EffectThrows, StorageFails,
                    Finish, At, NoCall
<1>5. ASSUME NEW c \in Callers, ApproveRow(c) \/ EditRow(c) \/ RejectRow(c)
      PROVE  Goal
  <2>1. PICK p \in Proposals : p = call[c].p
    BY <1>5, BusyType DEF ApproveRow, EditRow, RejectRow
  <2>2. /\ status[p] = "pending" /\ c = d /\ audit' = audit
        /\ call'[d].p = p /\ call'[d].event \in {"approved", "edited_and_approved", "rejected"}
        /\ \A b \in Callers \ {d} : call'[b] = call[b]
    <3>1. CASE ApproveRow(c)
      BY <1>1, <2>1, <3>1 DEF ApproveRow, At
    <3>2. CASE EditRow(c)
      BY <1>1, <2>1, <3>2 DEF EditRow, Finish, At, NoCall
    <3>3. CASE RejectRow(c)
      BY <1>1, <2>1, <3>3 DEF RejectRow, Finish, At, NoCall
    <3>4. QED
      BY <1>5, <3>1, <3>2, <3>3
  <2>3. QED
    BY <2>1, <2>2 DEF AuditEvent
<1>6. ASSUME NEW c \in Callers, Finalize(c)
      PROVE  Goal
  <2>1. PICK p \in Proposals : p = call[c].p
    BY <1>6, BusyType DEF Finalize
  <2>2. call[c].event \in {"applied", "failed"}
    BY <1>6, BusyType DEF Finalize, Knows
  <2>3. /\ status[p] = "approved" \/ call[c].event = "failed"
        /\ c = d /\ audit' = audit /\ call'[d] = At("audit", p, call[c].v, call[c].event)
        /\ \A b \in Callers \ {d} : call'[b] = call[b]
    BY <1>1, <1>6, <2>1 DEF Finalize, Finish, NoCall
  <2>4. QED
    BY <2>1, <2>2, <2>3 DEF At, AuditEvent
<1>7. CASE Crash
  BY <1>7 DEF Crash, NoCall
<1>8. QED
  <2>1. Goal
    BY <1>2, <1>3, <1>4, <1>5, <1>6, <1>7
       DEF Next, Step, vars, Tick, AuditExpired, ExpireProposals
  <2>2. QED
    BY <2>1

\* An audit record is written by the request that owes it or, for an expiry,
\* by the cron.
LEMMA NewRecord ==
    ASSUME TypeOK, [Next]_vars, audit' # audit
    PROVE  \/ \E c \in Callers : AppendAudit(c)
           \/ \E p \in Proposals : AuditExpired(p) /\ audit' = [audit EXCEPT ![p]["expired"] = @ + 1]
  BY DEF Next, Step, vars, row, effects, Propose, EditAndApprove, Approve, Reject, Persist,
         ApproveRow, Reread, EditRow, RejectRow, Dispatch, EffectDone, Finalize, EffectThrows,
         StorageFails, Tick, ExpireProposals, AuditExpired, Crash

\* Every step keeps the trail in agreement with the rows.
LEMMA TrailStep ==
    ASSUME TypeOK, Requests, Inserting, Rows, Trail, [Next]_vars
    PROVE  Trail'
<1>0. TypeOK' /\ Requests'
  BY TypeStep, RequestsStep
<1>1. ASSUME NEW p \in Proposals
      PROVE  TrailOk(status'[p], audit[p])
  <2>1. Moves(status[p], status'[p])
    BY RowMoves
  <2>2. QED
    BY <2>1, SaysStays DEF Trail, TrailOk
<1>2. ASSUME NEW c \in Callers, call[c].pc = "audit"
      PROVE  /\ call[c].p \in Proposals /\ call[c].event \in AuditEvent \ {"expired"}
             /\ Says(call[c].event, status[call[c].p])
             /\ status[call[c].p] \notin {"none", "pending", "expired"}
  <2>1. /\ call[c].p \in Proposals /\ call[c].event \in AuditEvent \ {"expired"}
        /\ Says(call[c].event, status[call[c].p])
    BY <1>2, BusyType DEF Knows
  <2>2. QED
    BY <2>1, NoDecisionYet
<1>3. ASSUME NEW c \in Callers, AppendAudit(c)
      PROVE  \A p \in Proposals : \A e \in AuditEvent :
                audit'[p][e] = IF p = call[c].p /\ e = call[c].event THEN audit[p][e] + 1 ELSE audit[p][e]
  BY <1>2, <1>3 DEF AppendAudit, TypeOK
<1>4. ASSUME NEW q \in Proposals, audit' = [audit EXCEPT ![q]["expired"] = @ + 1]
      PROVE  \A p \in Proposals : \A e \in AuditEvent :
                audit'[p][e] = IF p = q /\ e = "expired" THEN audit[p][e] + 1 ELSE audit[p][e]
  BY <1>4 DEF TypeOK, AuditEvent
<1>5. Decisions \subseteq AuditEvent \ {"failed"} /\ "applied" \in AuditEvent \ {"failed"}
  BY DEF Decisions, AuditEvent
<1>6. ASSUME NEW p \in Proposals
      PROVE  TrailOk(status'[p], audit'[p])
  <2>1. CASE audit' = audit
    BY <1>1, <2>1
  <2>2. ASSUME NEW c \in Callers, AppendAudit(c)
        PROVE  TrailOk(status'[p], audit'[p])
    <3>1. status' = status /\ Unwritten(call[c].event, audit[call[c].p])
      BY <2>2 DEF AppendAudit, row, Trail
    <3>2. call[c].event \in AuditEvent /\ Says(call[c].event, status[call[c].p])
      BY <1>2, <2>2 DEF AppendAudit
    <3>3. CASE p # call[c].p
      BY <1>1, <1>3, <1>5, <2>2, <3>3 DEF TrailOk
    <3>4. CASE p = call[c].p /\ call[c].event = "failed"
      BY <1>1, <1>3, <1>5, <2>2, <3>4 DEF TrailOk
    <3>5. CASE p = call[c].p /\ call[c].event # "failed"
      <4>1. call[c].event \in Decisions \/ call[c].event = "applied"
        BY <3>2, <3>5 DEF AuditEvent, Decisions
      <4>2. audit[p][call[c].event] = 0
        BY <3>1, <3>5, <4>1 DEF Unwritten
      <4>3. \A e \in AuditEvent \ {"failed"} :
               audit'[p][e] \in {0, 1} /\ (audit'[p][e] = 1 => Says(e, status[p]))
        BY <1>1, <1>3, <2>2, <3>1, <3>2, <3>5, <4>2 DEF TrailOk
      <4>4. \A e, f \in Decisions : audit'[p][e] # 0 /\ audit'[p][f] # 0 => e = f
        BY <1>1, <1>3, <1>5, <2>2, <3>1, <3>5, <4>1 DEF TrailOk, Unwritten, Decisions
      <4>5. QED
        BY <3>1, <4>3, <4>4 DEF TrailOk
    <3>6. QED
      BY <3>3, <3>4, <3>5
  <2>3. ASSUME NEW q \in Proposals, AuditExpired(q), audit' = [audit EXCEPT ![q]["expired"] = @ + 1]
        PROVE  TrailOk(status'[p], audit'[p])
    <3>1. status' = status /\ status[q] = "expired" /\ \A f \in Decisions : audit[q][f] = 0
      BY <2>3 DEF AuditExpired, row, Trail, Unwritten, Decisions
    <3>2. Says("expired", "expired")
      BY DEF Says, Approvals
    <3>3. \A e \in AuditEvent \ {"failed"} :
             audit'[p][e] \in {0, 1} /\ (audit'[p][e] = 1 => Says(e, status[p]))
      BY <1>1, <1>4, <2>3, <3>1, <3>2 DEF TrailOk, Decisions
    <3>4. \A e, f \in Decisions : audit'[p][e] # 0 /\ audit'[p][f] # 0 => e = f
      BY <1>1, <1>4, <1>5, <2>3, <3>1 DEF TrailOk
    <3>5. QED
      BY <3>1, <3>3, <3>4 DEF TrailOk
  <2>4. QED
    BY <2>1, <2>2, <2>3, NewRecord
<1>7. ASSUME NEW d \in Callers, call'[d].pc = "audit"
      PROVE  Unwritten(call'[d].event, audit'[call'[d].p])
  <2>1. CASE call'[d] # call[d]
    <3>1. PICK p \in Proposals : p = call[d].p
      BY <1>7, <2>1, NewAudit
    <3>2. /\ call'[d].p = p /\ call'[d].event \in AuditEvent /\ audit' = audit
          /\ \/ status[p] = "pending"
             \/ status[p] = "approved" /\ call'[d].event \in {"applied", "failed"}
             \/ call'[d].event = "failed"
      BY <1>7, <2>1, <3>1, NewAudit
    <3>3. status[p] = "pending" => \A f \in Decisions \cup {"applied"} : audit[p][f] = 0
      BY <1>5, NoDecisionYet DEF Trail, TrailOk
    <3>4. status[p] = "approved" => audit[p]["applied"] = 0
      BY <1>5 DEF Trail, TrailOk, Says
    <3>5. "applied" \notin Decisions /\ "failed" \notin Decisions
      BY DEF Decisions
    <3>6. QED
      BY <3>2, <3>3, <3>4, <3>5 DEF Unwritten
  <2>2. CASE call'[d] = call[d]
    <3>0. Unwritten(call[d].event, audit[call[d].p]) /\ call[d].pc = "audit"
      BY <1>7, <2>2 DEF Trail
    <3>1. PICK p \in Proposals, e \in AuditEvent \ {"expired"} :
             p = call[d].p /\ e = call[d].event /\ status[p] # "expired"
      BY <1>2, <3>0
    <3>2. CASE audit' = audit
      BY <2>2, <3>0, <3>2
    <3>3. ASSUME NEW c \in Callers, AppendAudit(c)
          PROVE  Unwritten(e, audit'[p])
      <4>1. c # d
        BY <2>2, <3>0, <3>3 DEF AppendAudit, Goto, Finish, At, NoCall, TypeOK
      <4>2. call[c].p = p => ~Rival(call[c].event, e)
        BY <3>0, <3>1, <3>3, <4>1 DEF Trail, AppendAudit
      <4>3. QED
        BY <1>3, <1>5, <3>0, <3>1, <3>3, <4>2 DEF Unwritten, Rival
    <3>4. ASSUME NEW q \in Proposals, AuditExpired(q), audit' = [audit EXCEPT ![q]["expired"] = @ + 1]
          PROVE  Unwritten(e, audit'[p])
      <4>1. q # p
        BY <3>1, <3>4 DEF AuditExpired, Trail
      <4>2. QED
        BY <1>4, <1>5, <3>0, <3>1, <3>4, <4>1 DEF Unwritten
    <3>5. QED
      BY <2>2, <3>1, <3>2, <3>3, <3>4, NewRecord
  <2>3. QED
    BY <2>1, <2>2
<1>8. ASSUME NEW c \in Callers, NEW d \in Callers, c # d, call'[c].pc = "audit", call'[d].pc = "audit",
             call'[c].p = call'[d].p, Rival(call'[c].event, call'[d].event)
      PROVE  FALSE
  <2>1. CASE call'[c] = call[c] /\ call'[d] = call[d]
    BY <1>8, <2>1 DEF Trail
  <2>2. ASSUME NEW a \in Callers, NEW b \in Callers, a # b, call'[a] # call[a],
               call'[a].pc = "audit", call'[b].pc = "audit", call'[a].p = call'[b].p,
               Rival(call'[a].event, call'[b].event)
        PROVE  FALSE
    <3>1. /\ call[a].p \in Proposals /\ call'[a].p = call[a].p /\ call'[a].event \in AuditEvent
          /\ call'[b] = call[b]
          /\ \/ status[call[a].p] = "pending"
             \/ status[call[a].p] = "approved" /\ call'[a].event \in {"applied", "failed"}
             \/ call'[a].event = "failed"
      BY <2>2, NewAudit
    <3>2. Says(call[b].event, status[call[a].p]) /\ status[call[a].p] # "pending"
      BY <1>2, <2>2, <3>1
    <3>3. QED
      BY <2>2, <3>1, <3>2 DEF Rival, Says, Decisions
  <2>3. Rival(call'[d].event, call'[c].event)
    BY <1>8 DEF Rival
  <2>4. QED
    BY <1>8, <2>1, <2>2, <2>3
<1>9. ASSUME NEW p \in expiring'
      PROVE  status'[p] = "expired" /\ Unwritten("expired", audit'[p])
  <2>0. p \in Proposals
    BY <1>0, <1>9 DEF TypeOK
  <2>1. CASE p \in expiring
    <3>1. status[p] = "expired" /\ Unwritten("expired", audit[p])
      BY <2>1 DEF Trail
    <3>2. status'[p] = "expired"
      BY <2>0, <3>1, RowMoves DEF Moves
    <3>3. ASSUME NEW c \in Callers, AppendAudit(c)
          PROVE  Unwritten("expired", audit'[p])
      <4>1. call[c].p # p
        BY <1>2, <3>1, <3>3 DEF AppendAudit
      <4>2. QED
        BY <1>3, <1>5, <2>0, <3>1, <3>3, <4>1 DEF Unwritten
    <3>4. ASSUME NEW q \in Proposals, AuditExpired(q), audit' = [audit EXCEPT ![q]["expired"] = @ + 1]
          PROVE  Unwritten("expired", audit'[p])
      <4>1. q # p
        BY <1>9, <3>4 DEF AuditExpired
      <4>2. QED
        BY <1>4, <1>5, <2>0, <3>1, <3>4, <4>1 DEF Unwritten
    <3>5. QED
      BY <3>1, <3>2, <3>3, <3>4, NewRecord
  <2>2. CASE p \notin expiring
    <3>1. ExpireProposals
      BY <1>9, <2>2
         DEF Next, Step, vars, Propose, EditAndApprove, Approve, Reject, Persist, ApproveRow, Reread,
             EditRow, RejectRow, AppendAudit, Dispatch, EffectDone, Finalize, EffectThrows,
             StorageFails, Tick, AuditExpired, Crash
    <3>2. status[p] = "pending" /\ status'[p] = "expired" /\ audit' = audit
      BY <1>9, <2>2, <3>1 DEF ExpireProposals, Expirable
    <3>3. \A f \in Decisions : audit[p][f] = 0
      BY <1>5, <2>0, <3>2, NoDecisionYet DEF Trail, TrailOk
    <3>4. QED
      BY <3>2, <3>3 DEF Unwritten, Decisions
  <2>3. QED
    BY <2>1, <2>2
<1>10. QED
  BY <1>6, <1>7, <1>8, <1>9 DEF Trail

-----------------------------------------------------------------------------
(* The theorems *)

Inv == TypeOK /\ Requests /\ Inserting /\ Rows /\ OnePendingTuning /\ Trail

\* Nothing is under way and nothing recorded initially.
LEMMA InvInit == Init => Inv
<1> SUFFICES ASSUME Init
             PROVE  Inv
  OBVIOUS
<1>1. TypeOK
  BY TypeInit
<1>2. \A c \in Callers : call[c].pc = "idle" /\ call[c].p = None
  BY CallRecords DEF Init
<1>3. Requests /\ Inserting
  BY <1>2 DEF Requests, Request, Inserting
<1>4. Rows /\ OnePendingTuning
  BY CacheAssumption DEF Init, Rows, RowOk, OnePendingTuning
<1>5. Trail
  <2>1. \A p \in Proposals : TrailOk(status[p], audit[p])
    BY DEF Init, TrailOk, Decisions, AuditEvent
  <2>2. QED
    BY <1>2, <2>1 DEF Init, Trail
<1>6. QED
  BY <1>1, <1>3, <1>4, <1>5 DEF Inv

\* The inductive invariant: types, what requests know, who inserts, the rows
\* and their dispatches, the audit trail.
THEOREM CacheInvariant == Spec => []Inv
<1>1. Inv /\ [Next]_vars => Inv'
  BY TypeStep, RequestsStep, InsertingStep, RowsStep, OnePendingStep, TrailStep DEF Inv
<1>2. QED
  BY <1>1, InvInit, PTL DEF Spec

\* The rows, requests and audit records stay well typed: no step of propose,
\* approve, editAndApprove, reject, apply or the cron writes another status.
THEOREM CacheTypes == Spec => []TypeOK
<1>1. Inv => TypeOK
  BY DEF Inv
<1>2. QED
  BY <1>1, CacheInvariant, PTL

\* At most one tuning of a setting is pending, however many agents propose it
\* at the same time: the unique index behind createCacheProposal decides.
THEOREM OneTuningPends == Spec => []OnePendingTuning
<1>1. Inv => OnePendingTuning
  BY DEF Inv
<1>2. QED
  BY <1>1, CacheInvariant, PTL

\* Nothing is dispatched for a proposal nobody approved.
THEOREM NothingUnapproved == Spec => []RefusedUntouched
<1>1. Inv => RefusedUntouched
  BY DEF Inv, Rows, RowOk, RefusedUntouched
<1>2. QED
  BY <1>1, CacheInvariant, PTL

\* Every dispatch of a proposal carries the payload on its row, whichever of
\* the racing edits and approvals won.
THEOREM ApprovedDispatched == Spec => []DispatchesApproved
<1>1. Inv => DispatchesApproved
  BY DEF Inv, Rows, RowOk, DispatchesApproved
<1>2. QED
  BY <1>1, CacheInvariant, PTL

\* The audit trail holds at most one decision and agrees with the row.
THEOREM AuditConsistent == Spec => []AuditAgrees
<1>1. ASSUME Inv, NEW p \in Proposals
      PROVE  /\ Total(p, {"approved", "edited_and_approved", "rejected", "expired"}) <= 1
             /\ \A e \in AuditEvent \ {"failed"} : audit[p][e] <= 1
             /\ \A e \in {"rejected", "expired", "applied"} : audit[p][e] > 0 => status[p] = e
             /\ \A e \in {"approved", "edited_and_approved"} :
                   audit[p][e] > 0 => status[p] \in {"approved", "applied", "failed"}
  <2>1. TrailOk(status[p], audit[p]) /\ audit[p] \in [AuditEvent -> Nat]
    BY <1>1 DEF Inv, Trail, TypeOK
  <2>2. Total(p, Decisions) <= 1
    <3> DEFINE S == {e \in Decisions : audit[p][e] > 0}
    <3>1. \A e, f \in S : e = f
      BY <2>1 DEF TrailOk
    <3>2. S = {} \/ \E e : S = {e}
      BY <3>1, Zenon
    <3>3. Cardinality(S) = 0 \/ Cardinality(S) = 1
      BY <3>2, FS_EmptySet, FS_Singleton, Zenon
    <3>4. QED
      BY <3>3 DEF Total
  <2>3. QED
    BY <2>1, <2>2 DEF TrailOk, Says, Approvals, Accepted, AuditEvent, Decisions
<1>2. Inv => AuditAgrees
  BY <1>1 DEF AuditAgrees
<1>3. QED
  BY <1>2, CacheInvariant, PTL

-----------------------------------------------------------------------------
(* Who still works on an approved proposal *)

\* The request with record r will apply the approved proposal p.
Carries(r, p) ==
    /\ r.p = p
    /\ \/ r.pc \in {"dispatch", "effect", "finalize"}
       \/ r.pc = "audit" /\ r.event \in Approvals
AtWork(p) == \E c \in Callers : Carries(call[c], p)
\* As long as nothing failed, an approved proposal has a request that is going
\* to apply it or to record its outcome.
ApprovedAtWork ==
    \A p \in Proposals : status[p] = "approved" => faults > 0 \/ AtWork(p)

\* A request does not let go of an approved proposal as long as nothing fails.
LEMMA CarriedOn ==
    ASSUME TypeOK, Requests, NEW c \in Callers, NEW p \in Proposals, Step(c),
           status[p] = "approved", status'[p] = "approved", Carries(call[c], p)
    PROVE  Carries(call'[c], p)
<1>1. call[c].p = p /\ call[c].pc \in {"dispatch", "effect", "finalize", "audit"}
  BY DEF Carries
<1>2. CASE AppendAudit(c)
  <2>1. call[c].event \in Approvals
    BY <1>2 DEF AppendAudit, Carries
  <2>2. call'[c] = At("dispatch", p, call[c].v, "approved")
    BY <1>1, <1>2, <2>1 DEF AppendAudit, Approvals, Goto, TypeOK
  <2>3. QED
    BY <2>2 DEF Carries, At
<1>3. CASE Dispatch(c)
  <2>1. call'[c] = At("effect", p, call[c].v, "applied")
    BY <1>1, <1>3 DEF Dispatch, Goto, TypeOK
  <2>2. QED
    BY <2>1 DEF Carries, At
<1>4. CASE EffectDone(c)
  <2>1. call'[c] = At("finalize", p, call[c].v, "applied")
    BY <1>1, <1>4 DEF EffectDone, Goto, TypeOK
  <2>2. QED
    BY <2>1 DEF Carries, At
<1>5. CASE Finalize(c)
  <2>1. call[c].event \in {"applied", "failed"}
    BY <1>5, BusyType DEF Finalize, Knows
  <2>2. status'[p] = call[c].event
    BY <1>1, <1>5 DEF Finalize, TypeOK
  <2>3. QED
    BY <2>1, <2>2
<1>6. QED
  BY <1>1, <1>2, <1>3, <1>4, <1>5
     DEF Step, Persist, ApproveRow, Reread, EditRow, RejectRow

\* No step other than a fault leaves an approved proposal without a request.
LEMMA AtWorkStep ==
    ASSUME TypeOK, TypeOK', Requests, ApprovedAtWork, [Next]_vars
    PROVE  ApprovedAtWork'
<1> SUFFICES ASSUME NEW p \in Proposals, status'[p] = "approved", faults' = 0
             PROVE  AtWork(p)'
  BY DEF ApprovedAtWork, TypeOK
<1>1. faults \in Nat /\ faults' # faults + 1
  BY DEF TypeOK
<1>2. ASSUME NEW c \in Callers, EffectThrows(c) \/ StorageFails(c)
      PROVE  FALSE
  BY <1>1, <1>2 DEF EffectThrows, StorageFails, Fault
<1>3. ~Crash
  BY <1>1 DEF Crash, Fault
<1>4. faults = 0
  BY <1>1, <1>2, <1>3
     DEF Next, Step, vars, Propose, EditAndApprove, Approve, Reject, Persist, ApproveRow, Reread,
         EditRow, RejectRow, AppendAudit, Dispatch, EffectDone, Finalize, Tick, AuditExpired,
         ExpireProposals, Fault
<1>5. CASE status[p] # "approved"
  <2>1. ASSUME NEW d \in Callers, Step(d)
        PROVE  AtWork(p)'
    <3>1. (ApproveRow(d) \/ EditRow(d)) /\ call[d].p = p /\ status[p] = "pending"
      <4>1. call[d].pc = "finalize" => call[d].event \in {"applied", "failed"}
        BY BusyType DEF Knows
      <4>2. QED
        BY <1>5, <2>1, <4>1
           DEF Step, Persist, ApproveRow, Reread, EditRow, RejectRow, AppendAudit, Dispatch,
               EffectDone, Finalize, TypeOK, row
    <3>2. CASE ApproveRow(d)
      <4>1. call'[d] = At("audit", p, payload[p], "approved")
        BY <3>1, <3>2 DEF ApproveRow, Goto, TypeOK
      <4>2. QED
        BY <4>1 DEF AtWork, Carries, At, Approvals
    <3>3. CASE EditRow(d)
      <4>1. call'[d] = At("audit", p, call[d].v, "edited_and_approved")
        BY <3>1, <3>3 DEF EditRow, Goto, TypeOK
      <4>2. QED
        BY <4>1 DEF AtWork, Carries, At, Approvals
    <3>4. QED
      BY <3>1, <3>2, <3>3
  <2>2. QED
    BY <1>2, <1>3, <1>5, <2>1
       DEF Next, vars, row, Propose, EditAndApprove, Approve, Reject, Tick, AuditExpired,
           ExpireProposals, TypeOK
<1>6. CASE status[p] = "approved"
  <2>1. PICK c \in Callers : Carries(call[c], p)
    BY <1>4, <1>6 DEF ApprovedAtWork, AtWork
  <2>2. call[c].pc # "idle"
    BY <2>1 DEF Carries
  <2>3. CASE call'[c] = call[c]
    BY <2>1, <2>3 DEF AtWork
  <2>4. CASE Step(c)
    BY <1>6, <2>1, <2>4, CarriedOn DEF AtWork
  <2>5. ASSUME NEW d \in Callers, Step(d), d # c
        PROVE  call'[c] = call[c]
    BY <2>5 DEF Step, Persist, ApproveRow, Reread, EditRow, RejectRow, AppendAudit, Dispatch,
                EffectDone, Finalize, Goto, Finish, TypeOK
  <2>6. ASSUME NEW d \in Callers, NEW q \in Proposals, NEW v \in Payloads,
               Propose(d, q, v) \/ EditAndApprove(d, q, v)
        PROVE  call'[c] = call[c]
    BY <2>2, <2>6 DEF Propose, EditAndApprove, Arrives, Goto, TypeOK
  <2>7. ASSUME NEW d \in Callers, NEW q \in Proposals, Approve(d, q) \/ Reject(d, q)
        PROVE  call'[c] = call[c]
    BY <2>2, <2>7 DEF Approve, Reject, Arrives, Goto, TypeOK
  <2>8. QED
    BY <1>2, <1>3, <2>3, <2>4, <2>5, <2>6, <2>7
       DEF Next, vars, Tick, AuditExpired, ExpireProposals
<1>7. QED
  BY <1>5, <1>6

\* A proposal is stuck as approved only after a fault: there is no claim here,
\* but every request that may have approved the row, editing it or not, or that
\* lost the race and reread it, goes on to dispatch it and record the outcome.
THEOREM ApprovedCarried == Spec => []ApprovedAtWork
<1>1. Init => ApprovedAtWork
  BY DEF Init, ApprovedAtWork
<1>2. Inv => TypeOK /\ Requests
  BY DEF Inv
<1>3. QED
  BY <1>1, <1>2, AtWorkStep, CacheInvariant, PTL DEF Spec

-----------------------------------------------------------------------------
(* Refinement *)

\* How a row's status reads as a decision.
DecisionOf(s) ==
    CASE s = "none" -> "none"
      [] s = "pending" -> "open"
      [] s \in {"rejected", "expired"} -> "refused"
      [] s = "approved" -> "accepted"
      [] OTHER -> s
Started == {p \in Proposals : sent[p] # {}}

\* The decisions of a state, proposal by proposal.
LEMMA DecisionsRead ==
    /\ Decision = [p \in Proposals |-> DecisionOf(status[p])]
    /\ Decision' = [p \in Proposals |-> DecisionOf(status'[p])]
  BY DEF Decision, DecisionOf

\* Each status read as a decision.
LEMMA DecisionTable ==
    /\ DecisionOf("none") = "none" /\ DecisionOf("pending") = "open"
    /\ DecisionOf("rejected") = "refused" /\ DecisionOf("expired") = "refused"
    /\ DecisionOf("approved") = "accepted"
    /\ DecisionOf("applied") = "applied" /\ DecisionOf("failed") = "failed"
  BY DEF DecisionOf

\* A status change of one proposal is a change of its decision alone.
LEMMA OneDecision ==
    ASSUME TypeOK, NEW p \in Proposals, NEW s, status' = [status EXCEPT ![p] = s]
    PROVE  Decision' = [Decision EXCEPT ![p] = DecisionOf(s)]
  BY DecisionsRead DEF TypeOK

\* Every step of the service is a step of the lifecycle or leaves it alone.
LEMMA LifecycleStep ==
    ASSUME Inv, [Next]_vars
    PROVE  [Lifecycle!Next]_(Lifecycle!vars)
<1> USE DEF Inv
<1>1. CASE UNCHANGED <<status, sent>>
  BY <1>1, DecisionsRead DEF Lifecycle!vars
<1>2. ASSUME NEW c \in Callers, Persist(c), status' # status
      PROVE  Lifecycle!Next
  <2>1. PICK p \in Proposals : p = call[c].p /\ status[p] = "none"
    BY <1>2, BusyType DEF Persist, Knows
  <2>2. status' = [status EXCEPT ![p] = "pending"] /\ UNCHANGED sent
    BY <1>2, <2>1 DEF Persist, row, effects
  <2>3. Decision' = [Decision EXCEPT ![p] = "open"] /\ Decision[p] = "none"
    <3>1. Decision' = [Decision EXCEPT ![p] = DecisionOf("pending")]
      BY <2>2, OneDecision, Zenon
    <3>2. QED
      BY <2>1, <2>2, <3>1, DecisionsRead, DecisionTable
  <2>4. Lifecycle!Propose(p)
    BY <2>2, <2>3 DEF Lifecycle!Propose
  <2>5. QED
    BY <2>4 DEF Lifecycle!Next
<1>3. ASSUME NEW c \in Callers, ApproveRow(c) \/ EditRow(c), status' # status
      PROVE  Lifecycle!Next
  <2>1. PICK p \in Proposals : p = call[c].p
    BY <1>3, BusyType DEF ApproveRow, EditRow
  <2>2. /\ status[p] = "pending" /\ status' = [status EXCEPT ![p] = "approved"]
        /\ UNCHANGED sent
    BY <1>3, <2>1 DEF ApproveRow, EditRow, row, effects
  <2>3. Decision' = [Decision EXCEPT ![p] = "accepted"] /\ Decision[p] = "open"
    <3>1. Decision' = [Decision EXCEPT ![p] = DecisionOf("approved")]
      BY <2>2, OneDecision, Zenon
    <3>2. QED
      BY <2>1, <2>2, <3>1, DecisionsRead, DecisionTable
  <2>4. Lifecycle!Accept(p)
    BY <2>2, <2>3 DEF Lifecycle!Accept
  <2>5. QED
    BY <2>4 DEF Lifecycle!Next
<1>4. ASSUME NEW c \in Callers, RejectRow(c), status' # status
      PROVE  Lifecycle!Next
  <2>1. PICK p \in Proposals : p = call[c].p
    BY <1>4, BusyType DEF RejectRow
  <2>2. /\ status[p] = "pending" /\ status' = [status EXCEPT ![p] = "rejected"]
        /\ UNCHANGED sent
    BY <1>4, <2>1 DEF RejectRow, effects
  <2>3. Decision' = [Decision EXCEPT ![p] = "refused"] /\ Decision[p] = "open"
    <3>1. Decision' = [Decision EXCEPT ![p] = DecisionOf("rejected")]
      BY <2>2, OneDecision, Zenon
    <3>2. QED
      BY <2>1, <2>2, <3>1, DecisionsRead, DecisionTable
  <2>4. Decision' = [q \in Proposals |-> IF q \in {p} THEN "refused" ELSE Decision[q]]
    BY <2>3, DecisionsRead
  <2>5. Lifecycle!Refuse({p})
    BY <2>2, <2>3, <2>4 DEF Lifecycle!Refuse
  <2>6. QED
    BY <2>5 DEF Lifecycle!Next
<1>5. ASSUME NEW c \in Callers, Dispatch(c)
      PROVE  [Lifecycle!Next]_(Lifecycle!vars)
  <2>1. PICK p \in Proposals : p = call[c].p /\ status[p] \in Accepted
    BY <1>5, BusyType DEF Dispatch, Knows
  <2>2. Started' = Started \cup {p} /\ UNCHANGED status
    BY <1>5, <2>1 DEF Dispatch, TypeOK, Started, row
  <2>3. Decision' = Decision
    BY <2>2, DecisionsRead
  <2>4. CASE status[p] = "approved"
    <3>1. Lifecycle!Start(p)
      BY <2>2, <2>3, <2>4, DecisionsRead, DecisionTable DEF Started, Lifecycle!Start
    <3>2. QED
      BY <3>1 DEF Lifecycle!Next
  <2>5. CASE status[p] # "approved"
    <3>1. p \in Started
      BY <2>1, <2>5 DEF Accepted, Rows, RowOk, Started
    <3>2. QED
      BY <2>2, <2>3, <3>1 DEF Started, Lifecycle!vars
  <2>6. QED
    BY <2>4, <2>5
<1>6. ASSUME NEW c \in Callers, Finalize(c), status' # status
      PROVE  Lifecycle!Next
  <2>1. PICK p \in Proposals, e \in {"applied", "failed"} :
           p = call[c].p /\ e = call[c].event /\ sent[p] # {}
    BY <1>6, BusyType DEF Finalize, Knows
  <2>2. /\ status[p] = "approved" /\ status' = [status EXCEPT ![p] = e]
        /\ UNCHANGED sent
    BY <1>6, <2>1 DEF Finalize, effects
  <2>3. Decision' = [Decision EXCEPT ![p] = e] /\ Decision[p] = "accepted"
    <3>0. TypeOK /\ status' = [status EXCEPT ![p] = e]
      BY <2>2
    <3>1. Decision' = [Decision EXCEPT ![p] = DecisionOf(e)]
      BY <3>0, OneDecision
    <3>2. DecisionOf(e) = e
      BY <2>1, DecisionTable
    <3>3. Decision[p] = "accepted"
      BY <2>2, DecisionsRead, DecisionTable
    <3>4. QED
      BY <3>1, <3>2, <3>3
  <2>4. Lifecycle!Settle(p, e)
    BY <2>1, <2>2, <2>3 DEF Lifecycle!Settle
  <2>5. QED
    BY <2>4 DEF Lifecycle!Next
<1>7. CASE ExpireProposals
  <2>1. Expirable \subseteq Proposals
    BY DEF Expirable
  <2>2. Lifecycle!Refuse(Expirable)
    BY <1>7, <2>1, DecisionsRead, DecisionTable DEF ExpireProposals, Expirable, effects,
                                                    Lifecycle!Refuse
  <2>3. QED
    BY <2>1, <2>2 DEF Lifecycle!Next
<1>8. ASSUME NEW c \in Callers, Step(c), ~UNCHANGED <<status, sent>>
      PROVE  [Lifecycle!Next]_(Lifecycle!vars)
  BY <1>2, <1>3, <1>4, <1>5, <1>6, <1>8
     DEF Step, row, effects, Persist, ApproveRow, Reread, EditRow, RejectRow, AppendAudit, EffectDone,
         Finalize
<1>9. QED
  BY <1>1, <1>7, <1>8
     DEF Next, vars, row, effects, Propose, EditAndApprove, Approve, Reject, EffectThrows,
         StorageFails, Tick, AuditExpired, Crash

\* The service implements ProposalLifecycle although an approved proposal may
\* be dispatched by several requests: it is decided once, dispatched only when
\* accepted, and its outcome is recorded once, after a dispatch.
THEOREM ImplementsLifecycle == Spec => RefinesLifecycle
<1>1. Init => Lifecycle!Init
  BY DecisionsRead, DecisionTable DEF Init, Lifecycle!Init
<1>2. Inv /\ [Next]_vars => [Lifecycle!Next]_(Lifecycle!vars)
  BY LifecycleStep
<1>3. QED
  BY <1>1, <1>2, CacheInvariant, PTL DEF Spec, RefinesLifecycle, Lifecycle!Spec
=============================================================================
