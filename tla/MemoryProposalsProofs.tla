------------------------ MODULE MemoryProposalsProofs ------------------------
(***************************************************************************)
(* Proofs about MemoryProposals, for any number of proposals, callers,     *)
(* deletion rounds, requests and faults.                                   *)
(***************************************************************************)
EXTENDS MemoryProposals, TLAPS

-----------------------------------------------------------------------------
(* The inductive invariant                                                  *)

\* A request knows its proposal, and what the row must say by now.
Request(c) ==
    LET p == call[c].p  pc == call[c].pc IN
    /\ pc = "idle" => p = None
    /\ pc # "idle" => p \in Proposals
    /\ pc = "insert" => status[p] = "none"
    /\ pc \notin {"idle", "insert"} => status[p] # "none"
    /\ pc \in Holding => status[p] = "applying"
Requests == \A c \in Callers : Request(c)

\* Inserting a row and holding the claim on it are done by one request.
Sole == {"insert"} \cup Holding
Exclusive ==
    \A c, d \in Callers : call[c].pc \in Sole /\ call[d].pc \in Sole /\ call[c].p = call[d].p => c = d

\* The effects behind a row.
Effect(p) ==
    /\ dispatched[p] \in {0, 1}
    /\ dispatched[p] = 1 => status[p] \in {"applying", "applied", "failed"}
    /\ status[p] \in {"applied", "failed"} => dispatched[p] = 1
    /\ deleted[p] # 0 => dispatched[p] = 1
    /\ status[p] = "applied" => deleted[p] = Batches \/ p \in partial
\* The effects a request that holds the claim has had.
Progress(c) ==
    LET p == call[c].p  pc == call[c].pc IN
    /\ pc = "dispatch" => dispatched[p] = 0
    /\ pc \in {"forget", "finalize"} => dispatched[p] = 1
    /\ pc = "finalize" => call[c].event \in {"applied", "failed"}
    /\ pc = "finalize" /\ call[c].event = "applied" => deleted[p] = Batches \/ p \in partial
Effects == (\A p \in Proposals : Effect(p)) /\ (\A c \in Callers : Progress(c))

Claims == Requests /\ Exclusive /\ Effects

\* What an audit event says of the row's status.
Says(e, s) ==
    /\ e \in {"applied", "failed", "rejected", "expired"} => s = e
    /\ e = "approved" => s \in {"approved", "applying", "applied", "failed"}
Trail ==
    /\ \A p \in Proposals : \A e \in audit[p] : Says(e, status[p])
    /\ \A p \in expiring : status[p] = "expired"
    /\ \A c \in Callers : call[c].pc = "audit" => Says(call[c].event, status[call[c].p])

\* The only ways a row's status changes.
Moves(a, b) ==
    \/ a = b
    \/ a = "none" /\ b = "pending"
    \/ a = "pending" /\ b \in {"approved", "rejected", "expired"}
    \/ a = "approved" /\ b = "applying"
    \/ a = "applying" /\ b \in {"applied", "failed"}

-----------------------------------------------------------------------------
(* Type correctness *)

\* A request's record, field by field.
LEMMA CallRecords ==
    /\ NoCall \in Call /\ NoCall.pc = "idle" /\ NoCall.p = None
    /\ \A pc \in Steps, p \in Proposals, e \in AuditEvent :
          /\ At(pc, p, e) \in Call
          /\ At(pc, p, e).pc = pc /\ At(pc, p, e).p = p /\ At(pc, p, e).event = e
  BY DEF NoCall, At, Call, Steps, AuditEvent

\* A request that moves on or ends leaves the calls well typed.
LEMMA GotoType ==
    ASSUME TypeOK, NEW c \in Callers, NEW s \in Call, Goto(c, s)
    PROVE  call' \in [Callers -> Call] /\ call'[c] = s /\ \A d \in Callers : d # c => call'[d] = call[d]
  BY DEF TypeOK, Goto

\* The types hold initially.
LEMMA TypeInit == Init => TypeOK
  BY MemoryAssumption, CallRecords DEF Init, TypeOK, ProposalStatus

\* Every step keeps the types, once requests know their proposals.
LEMMA TypeStep ==
    ASSUME TypeOK, Claims, [Next]_vars
    PROVE  TypeOK'
<1> USE MemoryAssumption
<1>1. ASSUME NEW c \in Callers, NEW p \in Proposals, ProposeForget(c, p)
      PROVE  TypeOK'
  <2>1. call' \in [Callers -> Call]
    BY <1>1, CallRecords, GotoType DEF ProposeForget, Steps, AuditEvent
  <2>2. QED
    BY <1>1, <2>1 DEF ProposeForget, Arrives, TypeOK, effects
<1>2. ASSUME NEW c \in Callers, NEW p \in Proposals, Approve(c, p)
      PROVE  TypeOK'
  <2>1. call' \in [Callers -> Call]
    BY <1>2, CallRecords, GotoType DEF Approve, Steps, AuditEvent
  <2>2. QED
    BY <1>2, <2>1 DEF Approve, Arrives, TypeOK, effects
<1>3. ASSUME NEW c \in Callers, NEW p \in Proposals, Reject(c, p)
      PROVE  TypeOK'
  <2>1. call' \in [Callers -> Call]
    BY <1>3, CallRecords, GotoType DEF Reject, Steps, AuditEvent
  <2>2. QED
    BY <1>3, <2>1 DEF Reject, Arrives, TypeOK, effects
<1>4. ASSUME NEW c \in Callers, Step(c)
      PROVE  TypeOK'
  <2> DEFINE p == call[c].p
  <2>0. p \in Proposals /\ call[c].event \in AuditEvent
    <3>1. call[c].pc # "idle"
      BY <1>4 DEF Step, CreateProposal, ApproveRow, RejectRow, AppendAudit, Claim, Dispatch,
                  ForgetBatch, ForgetDone, ForgetStopsEarly, Finalize
    <3>2. QED
      BY <3>1 DEF Claims, Requests, Request, TypeOK, Call
  <2> HIDE DEF p
  <2>1. CASE CreateProposal(c)
    <3>1. call' \in [Callers -> Call]
      BY <2>0, <2>1, CallRecords, GotoType DEF CreateProposal, p, Steps, AuditEvent
    <3>2. QED
      BY <2>0, <2>1, <3>1 DEF CreateProposal, p, TypeOK, effects, ProposalStatus
  <2>2. CASE ApproveRow(c) \/ RejectRow(c)
    <3>1. call' \in [Callers -> Call]
      BY <2>0, <2>2, CallRecords, GotoType DEF ApproveRow, RejectRow, Decide, Finish, p, Steps,
                                               AuditEvent
    <3>2. QED
      BY <2>0, <2>2, <3>1 DEF ApproveRow, RejectRow, Decide, p, TypeOK, effects, ProposalStatus
  <2>3. CASE AppendAudit(c)
    <3>1. call' \in [Callers -> Call]
      BY <2>0, <2>3, CallRecords, GotoType DEF AppendAudit, Finish, p, Steps, AuditEvent
    <3>2. QED
      BY <2>0, <2>3, <3>1 DEF AppendAudit, p, TypeOK, effects
  <2>4. CASE Claim(c)
    <3>1. call' \in [Callers -> Call]
      BY <2>0, <2>4, CallRecords, GotoType DEF Claim, Finish, p, Steps, AuditEvent
    <3>2. QED
      BY <2>0, <2>4, <3>1 DEF Claim, p, TypeOK, effects, ProposalStatus
  <2>5. CASE Dispatch(c)
    <3>1. call' \in [Callers -> Call]
      BY <2>0, <2>5, CallRecords, GotoType DEF Dispatch, p, Steps, AuditEvent
    <3>2. QED
      BY <2>0, <2>5, <3>1 DEF Dispatch, p, TypeOK
  <2>6. CASE ForgetBatch(c)
    BY <2>0, <2>6 DEF ForgetBatch, p, TypeOK
  <2>7. CASE ForgetDone(c)
    <3>1. call' \in [Callers -> Call]
      BY <2>0, <2>7, CallRecords, GotoType DEF ForgetDone, p, Steps, AuditEvent
    <3>2. QED
      BY <2>7, <3>1 DEF ForgetDone, TypeOK, effects
  <2>9. CASE ForgetStopsEarly(c)
    <3>1. call' \in [Callers -> Call]
      BY <2>0, <2>9, CallRecords, GotoType DEF ForgetStopsEarly, p, Steps, AuditEvent
    <3>2. QED
      BY <2>0, <2>9, <3>1 DEF ForgetStopsEarly, p, TypeOK
  <2>8. CASE Finalize(c)
    <3>1. call' \in [Callers -> Call]
      BY <2>0, <2>8, CallRecords, GotoType DEF Finalize, p, Steps, AuditEvent
    <3>2. call[c].event \in ProposalStatus
      BY <2>8 DEF Finalize, Claims, Effects, Progress, ProposalStatus
    <3>3. QED
      BY <2>0, <2>8, <3>1, <3>2 DEF Finalize, p, TypeOK, effects
  <2>10. QED
    BY <1>4, <2>1, <2>2, <2>3, <2>4, <2>5, <2>6, <2>7, <2>8, <2>9 DEF Step
<1>5. ASSUME NEW c \in Callers, ForgetThrows(c)
      PROVE  TypeOK'
  <2>1. call[c].p \in Proposals
    BY <1>5 DEF ForgetThrows, Claims, Requests, Request
  <2>2. call' \in [Callers -> Call]
    BY <1>5, <2>1, CallRecords, GotoType DEF ForgetThrows, Steps, AuditEvent
  <2>3. QED
    BY <1>5, <2>2 DEF ForgetThrows, Fault, TypeOK, effects
<1>6. ASSUME NEW c \in Callers, StorageFails(c)
      PROVE  TypeOK'
  <2>1. call' \in [Callers -> Call]
    BY <1>6, CallRecords, GotoType DEF StorageFails, Finish
  <2>2. QED
    BY <1>6, <2>1 DEF StorageFails, Fault, TypeOK, effects
<1>7. ASSUME NEW p \in Proposals, Lapse(p)
      PROVE  TypeOK'
  BY <1>7 DEF Lapse, TypeOK, effects
<1>8. ASSUME NEW p \in Proposals, AuditExpired(p)
      PROVE  TypeOK'
  BY <1>8 DEF AuditExpired, Fault, TypeOK, effects, AuditEvent
<1>9. CASE ExpireProposals
  BY <1>9 DEF ExpireProposals, Expirable, TypeOK, effects, ProposalStatus
<1>10. CASE Crash
  BY <1>10, CallRecords DEF Crash, Fault, TypeOK, effects
<1>11. CASE UNCHANGED vars
  BY <1>11 DEF vars, TypeOK
<1>12. QED
  BY <1>1, <1>2, <1>3, <1>4, <1>5, <1>6, <1>7, <1>8, <1>9, <1>10, <1>11 DEF Next

-----------------------------------------------------------------------------
(* Rows only move forward *)

\* Whatever request or cron tick writes it, a row's status only moves along
\* the lifecycle.
LEMMA StatusMoves ==
    ASSUME TypeOK, Claims, [Next]_vars, NEW p \in Proposals
    PROVE  Moves(status[p], status'[p])
<1>1. CASE UNCHANGED status
  BY <1>1 DEF Moves
<1>2. ASSUME NEW c \in Callers, CreateProposal(c) \/ ApproveRow(c) \/ RejectRow(c) \/ Claim(c)
      PROVE  Moves(status[p], status'[p])
  BY <1>2 DEF CreateProposal, ApproveRow, RejectRow, Decide, Claim, Claims, Requests, Request,
              TypeOK, Moves
<1>3. ASSUME NEW c \in Callers, Finalize(c)
      PROVE  Moves(status[p], status'[p])
  BY <1>3 DEF Finalize, Claims, Requests, Request, Effects, Progress, Holding, TypeOK, Moves
<1>4. CASE ExpireProposals
  BY <1>4 DEF ExpireProposals, Expirable, TypeOK, Moves
<1>5. QED
  BY <1>1, <1>2, <1>3, <1>4
     DEF Next, vars, Step, ProposeForget, Approve, Reject, AppendAudit, Dispatch, ForgetBatch,
         ForgetDone, ForgetStopsEarly, ForgetThrows, StorageFails, Lapse, AuditExpired, Crash

-----------------------------------------------------------------------------
(* The claim *)

\* Nothing is under way initially.
LEMMA ClaimsInit == Init => Claims
  BY CallRecords DEF Init, Claims, Requests, Request, Exclusive, Sole, Effects, Effect, Progress,
                     Holding

\* Every step keeps who holds a claim, what its row says and what was done.
LEMMA ClaimsStep ==
    ASSUME TypeOK, Claims, [Next]_vars
    PROVE  Claims'
<1> USE MemoryAssumption DEF Claims
<1>0. TypeOK'
  BY TypeStep
<1>1. ASSUME NEW c \in Callers, NEW p \in Proposals, ProposeForget(c, p)
      PROVE  Claims'
  <2>0. /\ call'[c] \in Call
        /\ \A d \in Callers : d # c => call'[d] = call[d]
    BY <1>0, <1>1 DEF ProposeForget, Goto, TypeOK
  <2>1. Requests'
    BY <1>1, <2>0, CallRecords DEF ProposeForget, effects, Goto, Requests, Request, Exclusive,
                                   Sole, Holding, Steps, AuditEvent, TypeOK, Call
  <2>2. Exclusive'
    BY <1>1, <2>0, CallRecords DEF ProposeForget, effects, Goto, Requests, Request, Exclusive,
                                   Sole, Holding, Steps, AuditEvent, TypeOK, Call
  <2>3. Effects'
    BY <1>1, <2>0, CallRecords DEF ProposeForget, effects, Goto, Requests, Request, Exclusive,
                                   Sole, Holding, Effects, Effect, Progress, Steps, AuditEvent,
                                   TypeOK, Call
  <2>4. QED
    BY <2>1, <2>2, <2>3
<1>2. ASSUME NEW c \in Callers, NEW p \in Proposals, Approve(c, p)
      PROVE  Claims'
  <2>0. /\ call'[c] \in Call
        /\ \A d \in Callers : d # c => call'[d] = call[d]
    BY <1>0, <1>2 DEF Approve, Goto, TypeOK
  <2>1. Requests'
    BY <1>2, <2>0, CallRecords DEF Approve, effects, Goto, Requests, Request, Exclusive, Sole,
                                   Holding, Steps, AuditEvent, TypeOK, Call
  <2>2. Exclusive'
    BY <1>2, <2>0, CallRecords DEF Approve, effects, Goto, Requests, Request, Exclusive, Sole,
                                   Holding, Steps, AuditEvent, TypeOK, Call
  <2>3. Effects'
    <3>1. call'[c].pc \in {"claim", "approve"}
      BY <1>2 DEF Approve, Goto, At, TypeOK
    <3>2. QED
      BY <1>2, <2>0, <3>1 DEF Approve, effects, Effects, Effect, Progress
  <2>4. QED
    BY <2>1, <2>2, <2>3
<1>3. ASSUME NEW c \in Callers, NEW p \in Proposals, Reject(c, p)
      PROVE  Claims'
  <2>0. /\ call'[c] \in Call
        /\ \A d \in Callers : d # c => call'[d] = call[d]
    BY <1>0, <1>3 DEF Reject, Goto, TypeOK
  <2>1. Requests'
    BY <1>3, <2>0, CallRecords DEF Reject, effects, Goto, Requests, Request, Exclusive, Sole,
                                   Holding, Steps, AuditEvent, TypeOK, Call
  <2>2. Exclusive'
    BY <1>3, <2>0, CallRecords DEF Reject, effects, Goto, Requests, Request, Exclusive, Sole,
                                   Holding, Steps, AuditEvent, TypeOK, Call
  <2>3. Effects'
    BY <1>3, <2>0, CallRecords DEF Reject, effects, Goto, Requests, Request, Exclusive, Sole,
                                   Holding, Effects, Effect, Progress, Steps, AuditEvent, TypeOK,
                                   Call
  <2>4. QED
    BY <2>1, <2>2, <2>3
<1>4. ASSUME NEW c \in Callers, CreateProposal(c)
      PROVE  Claims'
  <2>0. /\ call'[c] \in Call
        /\ \A d \in Callers : d # c => call'[d] = call[d]
    BY <1>0, <1>4 DEF CreateProposal, Goto, TypeOK
  <2>1. Requests'
    BY <1>4, <2>0, CallRecords DEF CreateProposal, effects, Goto, Requests, Request, Exclusive,
                                   Sole, Holding, Steps, AuditEvent, TypeOK, Call
  <2>2. Exclusive'
    BY <1>4, <2>0, CallRecords DEF CreateProposal, effects, Goto, Requests, Request, Exclusive,
                                   Sole, Holding, Steps, AuditEvent, TypeOK, Call
  <2>3. Effects'
    BY <1>4, <2>0, CallRecords DEF CreateProposal, effects, Goto, Requests, Request, Exclusive,
                                   Sole, Holding, Effects, Effect, Progress, Steps, AuditEvent,
                                   TypeOK, Call
  <2>4. QED
    BY <2>1, <2>2, <2>3
<1>5. ASSUME NEW c \in Callers, ApproveRow(c)
      PROVE  Claims'
  <2>0. /\ call'[c] \in Call
        /\ \A d \in Callers : d # c => call'[d] = call[d]
    BY <1>0, <1>5 DEF ApproveRow, Decide, Finish, Goto, TypeOK
  <2>1. Requests'
    BY <1>5, <2>0, CallRecords DEF ApproveRow, Decide, Finish, effects, Goto, Requests, Request,
                                   Exclusive, Sole, Holding, Steps, AuditEvent, TypeOK, Call
  <2>2. Exclusive'
    BY <1>5, <2>0, CallRecords DEF ApproveRow, Decide, Finish, effects, Goto, Requests, Request,
                                   Exclusive, Sole, Holding, Steps, AuditEvent, TypeOK, Call
  <2>3. Effects'
    <3>1. \A p \in Proposals : Effect(p)'
      BY <1>5 DEF ApproveRow, Decide, effects, Effects, Effect, TypeOK
    <3>2. call'[c].pc \in {"audit", "idle"}
      BY <1>5 DEF ApproveRow, Decide, Finish, Goto, At, NoCall, TypeOK
    <3>3. \A d \in Callers : Progress(d)'
      BY <1>5, <2>0, <3>2 DEF ApproveRow, Decide, effects, Effects, Progress
    <3>4. QED
      BY <3>1, <3>3 DEF Effects
  <2>4. QED
    BY <2>1, <2>2, <2>3
<1>6. ASSUME NEW c \in Callers, RejectRow(c)
      PROVE  Claims'
  <2>0. /\ call'[c] \in Call
        /\ \A d \in Callers : d # c => call'[d] = call[d]
    BY <1>0, <1>6 DEF RejectRow, Decide, Finish, Goto, TypeOK
  <2>1. Requests'
    BY <1>6, <2>0, CallRecords DEF RejectRow, Decide, Finish, effects, Goto, Requests, Request,
                                   Exclusive, Sole, Holding, Steps, AuditEvent, TypeOK, Call
  <2>2. Exclusive'
    BY <1>6, <2>0, CallRecords DEF RejectRow, Decide, Finish, effects, Goto, Requests, Request,
                                   Exclusive, Sole, Holding, Steps, AuditEvent, TypeOK, Call
  <2>3. Effects'
    <3>1. \A p \in Proposals : Effect(p)'
      BY <1>6 DEF RejectRow, Decide, effects, Effects, Effect, TypeOK
    <3>2. call'[c].pc \in {"audit", "idle"}
      BY <1>6 DEF RejectRow, Decide, Finish, Goto, At, NoCall, TypeOK
    <3>3. \A d \in Callers : Progress(d)'
      BY <1>6, <2>0, <3>2 DEF RejectRow, Decide, effects, Effects, Progress
    <3>4. QED
      BY <3>1, <3>3 DEF Effects
  <2>4. QED
    BY <2>1, <2>2, <2>3
<1>7. ASSUME NEW c \in Callers, AppendAudit(c)
      PROVE  Claims'
  <2>0. /\ call'[c] \in Call
        /\ \A d \in Callers : d # c => call'[d] = call[d]
    BY <1>0, <1>7 DEF AppendAudit, Finish, Goto, TypeOK
  <2>1. Requests'
    BY <1>7, <2>0, CallRecords DEF AppendAudit, Finish, effects, Goto, Requests, Request,
                                   Exclusive, Sole, Holding, Steps, AuditEvent, TypeOK, Call
  <2>2. Exclusive'
    BY <1>7, <2>0, CallRecords DEF AppendAudit, Finish, effects, Goto, Requests, Request,
                                   Exclusive, Sole, Holding, Steps, AuditEvent, TypeOK, Call
  <2>3. Effects'
    BY <1>7, <2>0, CallRecords DEF AppendAudit, Finish, effects, Goto, Requests, Request,
                                   Exclusive, Sole, Holding, Effects, Effect, Progress, Steps,
                                   AuditEvent, TypeOK, Call
  <2>4. QED
    BY <2>1, <2>2, <2>3
<1>8. ASSUME NEW c \in Callers, Claim(c)
      PROVE  Claims'
  <2>0. /\ call'[c] \in Call
        /\ \A d \in Callers : d # c => call'[d] = call[d]
    BY <1>0, <1>8 DEF Claim, Finish, Goto, TypeOK
  <2>1. Requests'
    BY <1>8, <2>0, CallRecords DEF Claim, Finish, effects, Goto, Requests, Request, Exclusive,
                                   Sole, Holding, Steps, AuditEvent, TypeOK, Call
  <2>2. Exclusive'
    BY <1>8, <2>0, CallRecords DEF Claim, Finish, effects, Goto, Requests, Request, Exclusive,
                                   Sole, Holding, Steps, AuditEvent, TypeOK, Call
  <2>3. Effects'
    <3>1. \A p \in Proposals : Effect(p)'
      BY <1>8 DEF Claim, effects, Effects, Effect, TypeOK
    <3>2. \A d \in Callers : Progress(d)'
      BY <1>8, <2>0, CallRecords DEF Claim, Finish, effects, Goto, Requests, Request, Effects,
                                     Effect, Progress, Steps, AuditEvent, TypeOK, Call
    <3>3. QED
      BY <3>1, <3>2 DEF Effects
  <2>4. QED
    BY <2>1, <2>2, <2>3
<1>9. ASSUME NEW c \in Callers, Dispatch(c)
      PROVE  Claims'
  <2>0. /\ call'[c] \in Call
        /\ \A d \in Callers : d # c => call'[d] = call[d]
    BY <1>0, <1>9 DEF Dispatch, Goto, TypeOK
  <2>1. Requests'
    BY <1>9, <2>0, CallRecords DEF Dispatch, Goto, Requests, Request, Exclusive, Sole, Holding,
                                   Steps, AuditEvent, TypeOK, Call
  <2>2. Exclusive'
    BY <1>9, <2>0, CallRecords DEF Dispatch, Goto, Requests, Request, Exclusive, Sole, Holding,
                                   Steps, AuditEvent, TypeOK, Call
  <2>3. Effects'
    BY <1>9, <2>0, CallRecords DEF Dispatch, Goto, Requests, Request, Exclusive, Sole, Holding,
                                   Effects, Effect, Progress, Steps, AuditEvent, TypeOK, Call
  <2>4. QED
    BY <2>1, <2>2, <2>3
<1>10. ASSUME NEW c \in Callers, ForgetBatch(c)
      PROVE  Claims'
  <2>1. Requests'
    BY <1>10 DEF ForgetBatch, Requests, Request
  <2>2. Exclusive'
    BY <1>10 DEF ForgetBatch, Exclusive
  <2>3. Effects'
    BY <1>10 DEF ForgetBatch, Requests, Request, Exclusive, Sole, Holding, Effects, Effect,
                 Progress, TypeOK
  <2>4. QED
    BY <2>1, <2>2, <2>3
<1>11. ASSUME NEW c \in Callers, ForgetDone(c)
      PROVE  Claims'
  <2>0. /\ call'[c] \in Call
        /\ \A d \in Callers : d # c => call'[d] = call[d]
    BY <1>0, <1>11 DEF ForgetDone, Goto, TypeOK
  <2>1. Requests'
    BY <1>11, <2>0, CallRecords DEF ForgetDone, effects, Goto, Requests, Request, Exclusive,
                                    Sole, Holding, Steps, AuditEvent, TypeOK, Call
  <2>2. Exclusive'
    BY <1>11, <2>0, CallRecords DEF ForgetDone, effects, Goto, Requests, Request, Exclusive,
                                    Sole, Holding, Steps, AuditEvent, TypeOK, Call
  <2>3. Effects'
    BY <1>11, <2>0, CallRecords DEF ForgetDone, effects, Goto, Requests, Request, Exclusive,
                                    Sole, Holding, Effects, Effect, Progress, Steps, AuditEvent,
                                    TypeOK, Call
  <2>4. QED
    BY <2>1, <2>2, <2>3
<1>12. ASSUME NEW c \in Callers, ForgetStopsEarly(c)
      PROVE  Claims'
  <2>0. /\ call'[c] \in Call
        /\ \A d \in Callers : d # c => call'[d] = call[d]
    BY <1>0, <1>12 DEF ForgetStopsEarly, Goto, TypeOK
  <2>1. Requests'
    BY <1>12, <2>0, CallRecords DEF ForgetStopsEarly, Goto, Requests, Request, Exclusive,
                                    Sole, Holding, Steps, AuditEvent, TypeOK, Call
  <2>2. Exclusive'
    BY <1>12, <2>0, CallRecords DEF ForgetStopsEarly, Goto, Requests, Request, Exclusive,
                                    Sole, Holding, Steps, AuditEvent, TypeOK, Call
  <2>3. Effects'
    BY <1>12, <2>0, CallRecords DEF ForgetStopsEarly, Goto, Requests, Request, Exclusive,
                                    Sole, Holding, Effects, Effect, Progress, Steps, AuditEvent,
                                    TypeOK, Call
  <2>4. QED
    BY <2>1, <2>2, <2>3
<1>13. ASSUME NEW c \in Callers, Finalize(c)
      PROVE  Claims'
  <2>0. /\ call'[c] \in Call
        /\ \A d \in Callers : d # c => call'[d] = call[d]
    BY <1>0, <1>13 DEF Finalize, Goto, TypeOK
  <2>1. Requests'
    BY <1>13, <2>0, CallRecords DEF Finalize, effects, Goto, Requests, Request, Exclusive, Sole,
                                    Holding, Steps, AuditEvent, TypeOK, Call
  <2>2. Exclusive'
    BY <1>13, <2>0, CallRecords DEF Finalize, effects, Goto, Requests, Request, Exclusive, Sole,
                                    Holding, Steps, AuditEvent, TypeOK, Call
  <2>3. Effects'
    BY <1>13, <2>0, CallRecords DEF Finalize, effects, Goto, Requests, Request, Exclusive, Sole,
                                    Holding, Effects, Effect, Progress, Steps, AuditEvent,
                                    TypeOK, Call
  <2>4. QED
    BY <2>1, <2>2, <2>3
<1>14. ASSUME NEW c \in Callers, ForgetThrows(c)
      PROVE  Claims'
  <2>0. /\ call'[c] \in Call
        /\ \A d \in Callers : d # c => call'[d] = call[d]
    BY <1>0, <1>14 DEF ForgetThrows, Goto, TypeOK
  <2>1. Requests'
    BY <1>14, <2>0, CallRecords DEF ForgetThrows, effects, Goto, Requests, Request, Exclusive,
                                    Sole, Holding, Steps, AuditEvent, TypeOK, Call
  <2>2. Exclusive'
    BY <1>14, <2>0, CallRecords DEF ForgetThrows, effects, Goto, Requests, Request, Exclusive,
                                    Sole, Holding, Steps, AuditEvent, TypeOK, Call
  <2>3. Effects'
    BY <1>14, <2>0, CallRecords DEF ForgetThrows, effects, Goto, Requests, Request, Exclusive,
                                    Sole, Holding, Effects, Effect, Progress, Steps, AuditEvent,
                                    TypeOK, Call
  <2>4. QED
    BY <2>1, <2>2, <2>3
<1>15. ASSUME NEW c \in Callers, StorageFails(c)
      PROVE  Claims'
  <2>0. /\ call'[c] \in Call
        /\ \A d \in Callers : d # c => call'[d] = call[d]
    BY <1>0, <1>15 DEF StorageFails, Finish, Goto, TypeOK
  <2>1. Requests'
    BY <1>15, <2>0, CallRecords DEF StorageFails, Finish, effects, Goto, Requests, Request,
                                    Exclusive, Sole, Holding, Steps, AuditEvent, TypeOK, Call
  <2>2. Exclusive'
    BY <1>15, <2>0, CallRecords DEF StorageFails, Finish, effects, Goto, Requests, Request,
                                    Exclusive, Sole, Holding, Steps, AuditEvent, TypeOK, Call
  <2>3. Effects'
    BY <1>15, <2>0, CallRecords DEF StorageFails, Finish, effects, Goto, Requests, Request,
                                    Exclusive, Sole, Holding, Effects, Effect, Progress, Steps,
                                    AuditEvent, TypeOK, Call
  <2>4. QED
    BY <2>1, <2>2, <2>3
<1>16. CASE UNCHANGED <<status, call, effects>>
  BY <1>16 DEF effects, Requests, Request, Exclusive, Sole, Holding, Effects, Effect, Progress
<1>17. CASE ExpireProposals
  <2>1. \A p \in Proposals : \/ status'[p] = status[p]
                             \/ status[p] = "pending" /\ status'[p] = "expired"
    BY <1>17 DEF ExpireProposals, Expirable, TypeOK
  <2>2. QED
    BY <1>17, <2>1 DEF ExpireProposals, effects, Requests, Request, Exclusive, Holding, Effects,
                       Effect, Progress
<1>18. CASE Crash
  BY <1>18, CallRecords DEF Crash, effects, Requests, Request, Exclusive, Sole, Holding, Effects,
                            Effect, Progress
<1>19. QED
  BY <1>1, <1>2, <1>3, <1>4, <1>5, <1>6, <1>7, <1>8, <1>9, <1>10, <1>11, <1>12, <1>13, <1>14,
     <1>15, <1>16, <1>17, <1>18
     DEF Next, Step, vars, Lapse, AuditExpired, effects

-----------------------------------------------------------------------------
(* The audit trail *)

\* What an event says stays true however the row moves on.
LEMMA SaysStays ==
    ASSUME NEW e \in AuditEvent, NEW a \in ProposalStatus \cup {"none"}, NEW b, Says(e, a), Moves(a, b)
    PROVE  Says(e, b)
  BY DEF Says, Moves, AuditEvent

\* No event is recorded initially.
LEMMA TrailInit == Init => Trail
  BY CallRecords DEF Init, Trail

\* Every step keeps the trail in agreement with the rows.
LEMMA TrailStep ==
    ASSUME TypeOK, Claims, Trail, [Next]_vars
    PROVE  Trail'
<1>1. TypeOK' /\ Claims'
  BY TypeStep, ClaimsStep
<1>2. \A p \in Proposals : \A e \in audit[p] : Says(e, status'[p])
  BY StatusMoves, SaysStays DEF Trail, TypeOK
<1>3. \A p \in expiring : status'[p] = "expired"
  BY StatusMoves DEF Trail, TypeOK, Moves
<1>4. \A c \in Callers : call[c].pc = "audit" => Says(call[c].event, status'[call[c].p])
  BY StatusMoves, SaysStays DEF Trail, TypeOK, Claims, Requests, Request, Call
<1>5. ASSUME NEW p \in Proposals, NEW e \in audit'[p]
      PROVE  Says(e, status'[p])
  <2>1. CASE e \in audit[p]
    BY <1>2, <2>1
  <2>2. ASSUME NEW c \in Callers, AppendAudit(c), e \notin audit[p]
        PROVE  Says(e, status'[p])
    BY <1>4, <2>2 DEF AppendAudit, TypeOK
  <2>3. ASSUME NEW q \in Proposals, AuditExpired(q), e \notin audit[p]
        PROVE  Says(e, status'[p])
    BY <1>3, <2>3 DEF AuditExpired, TypeOK, Says
  <2>4. QED
    BY <2>1, <2>2, <2>3
       DEF Next, Step, vars, ProposeForget, Approve, Reject, CreateProposal, ApproveRow, RejectRow,
           Decide, Claim, Dispatch, ForgetBatch, ForgetDone, ForgetStopsEarly, Finalize,
           ForgetThrows, StorageFails, Lapse, ExpireProposals, Crash
<1>6. ASSUME NEW p \in expiring'
      PROVE  status'[p] = "expired"
  BY <1>3, <1>6
     DEF Next, Step, vars, ProposeForget, Approve, Reject, CreateProposal, ApproveRow, RejectRow,
         Decide, AppendAudit, Claim, Dispatch, ForgetBatch, ForgetDone, ForgetStopsEarly,
         Finalize, ForgetThrows, StorageFails, Lapse, AuditExpired, ExpireProposals, Expirable,
         Crash, TypeOK
<1>7. ASSUME NEW d \in Callers, call'[d].pc = "audit"
      PROVE  Says(call'[d].event, status'[call'[d].p])
  <2>1. CASE call'[d] = call[d]
    BY <1>4, <1>7, <2>1
  <2>2. ASSUME NEW c \in Callers, CreateProposal(c), call'[d] # call[d]
        PROVE  Says(call'[d].event, status'[call'[d].p])
    BY <2>2, CallRecords DEF CreateProposal, Goto, At, TypeOK, Says
  <2>3. ASSUME NEW c \in Callers, ApproveRow(c) \/ RejectRow(c), call'[d] # call[d]
        PROVE  Says(call'[d].event, status'[call'[d].p])
    BY <1>7, <2>3 DEF ApproveRow, RejectRow, Decide, Finish, Goto, At, NoCall, TypeOK, Says,
                      Claims, Requests, Request
  <2>4. ASSUME NEW c \in Callers, Finalize(c), call'[d] # call[d]
        PROVE  Says(call'[d].event, status'[call'[d].p])
    BY <2>4 DEF Finalize, Goto, At, TypeOK, Says, Claims, Requests, Request, Effects, Progress
  <2>5. QED
    BY <1>7, <2>1, <2>2, <2>3, <2>4
       DEF Next, Step, vars, ProposeForget, Approve, Reject, AppendAudit, Claim, Dispatch,
           ForgetBatch, ForgetDone, ForgetStopsEarly, ForgetThrows, StorageFails, Lapse, AuditExpired,
           ExpireProposals, Crash, Goto, Finish, At, NoCall, TypeOK
<1>8. QED
  BY <1>5, <1>6, <1>7 DEF Trail

-----------------------------------------------------------------------------
(* The theorems *)

\* The inductive invariant: types, the holders of claims, the audit trail.
THEOREM ProposalInvariant == Spec => [](TypeOK /\ Claims /\ Trail)
<1>1. Init => TypeOK /\ Claims /\ Trail
  BY TypeInit, ClaimsInit, TrailInit
<1>2. TypeOK /\ Claims /\ Trail /\ [Next]_vars => (TypeOK /\ Claims /\ Trail)'
  BY TypeStep, ClaimsStep, TrailStep
<1>3. QED
  BY <1>1, <1>2, PTL DEF Spec

\* The forget of a proposal is never started twice: the claim in apply works
\* for any number of approvals, re-approvals, storage failures and crashes.
THEOREM ForgottenOnce == Spec => []AtMostOnce
<1>1. TypeOK /\ Claims /\ Trail => AtMostOnce
  BY DEF Claims, Effects, Effect, AtMostOnce
<1>2. QED
  BY <1>1, ProposalInvariant, PTL

\* The finalize of apply may be unconditional: whoever runs it is alone, and
\* the row still says applying.
THEOREM ClaimHeldAlone == Spec => []ClaimExclusive
<1>1. TypeOK /\ Claims /\ Trail => ClaimExclusive
  BY DEF Claims, Requests, Request, Exclusive, Sole, ClaimExclusive
<1>2. QED
  BY <1>1, ProposalInvariant, PTL

\* Nothing is deleted for a proposal that nobody approved.
THEOREM NothingUnapproved == Spec => []RefusedUntouched
<1>1. TypeOK /\ Claims /\ Trail => RefusedUntouched
  BY DEF Claims, Effects, Effect, RefusedUntouched
<1>2. QED
  BY <1>1, ProposalInvariant, PTL

\* An applied row means that every round of the forget was done.
THEOREM AppliedComplete == Spec => []AppliedIsComplete
<1>1. TypeOK /\ Claims /\ Trail => AppliedIsComplete
  BY DEF Claims, Effects, Effect, AppliedIsComplete
<1>2. QED
  BY <1>1, ProposalInvariant, PTL

\* The audit trail never contradicts the row it is about.
THEOREM AuditConsistent == Spec => []AuditAgrees
<1>1. TypeOK /\ Claims /\ Trail => AuditAgrees
  BY DEF Trail, Says, AuditAgrees
<1>2. QED
  BY <1>1, ProposalInvariant, PTL

-----------------------------------------------------------------------------
(* Who still works on an accepted proposal *)

\* The request with record r will bring proposal p on from status s.
Carries(r, p, s) ==
    /\ r.p = p
    /\ s = "approved" => r.pc = "claim" \/ (r.pc = "audit" /\ r.event = "approved")
    /\ s = "applying" => r.pc \in Holding
AtWork(p) == \E c \in Callers : Carries(call[c], p, status[p])
\* As long as nothing failed, a proposal that was accepted and has no outcome
\* has a request that is going to apply it or to record its outcome.
AcceptedAtWork ==
    \A p \in Proposals : status[p] \in {"approved", "applying"} => faults > 0 \/ AtWork(p)

\* A request does not let go of an accepted proposal as long as nothing fails.
LEMMA CarriedOn ==
    ASSUME TypeOK, Claims, NEW c \in Callers, NEW p \in Proposals, Step(c),
           status[p] \in {"approved", "applying"}, status'[p] = status[p],
           Carries(call[c], p, status[p])
    PROVE  Carries(call'[c], p, status'[p])
<1>1. /\ call[c] \in Call /\ call[c].p = p
      /\ call[c].pc \in {"claim", "audit"} \cup Holding
  BY DEF TypeOK, Carries
<1>2. CASE AppendAudit(c)
  <2>1. status[p] = "approved" /\ call[c].event = "approved"
    BY <1>2 DEF AppendAudit, Carries, Holding
  <2>2. call'[c] = At("claim", p, "approved")
    BY <1>1, <1>2, <2>1 DEF AppendAudit, Goto, TypeOK
  <2>3. QED
    BY <2>1, <2>2 DEF Carries, At
<1>3. CASE Claim(c)
  <2>1. status[p] = "approved"
    BY <1>3 DEF Claim, Carries, Holding
  <2>2. status'[p] = "applying"
    BY <1>1, <1>3, <2>1 DEF Claim, TypeOK
  <2>3. QED
    BY <2>1, <2>2
<1>4. CASE Dispatch(c)
  <2>1. status[p] = "applying" /\ call'[c] = At("forget", p, "applied")
    BY <1>1, <1>4 DEF Dispatch, Carries, Goto, TypeOK
  <2>2. QED
    BY <2>1 DEF Carries, At, Holding
<1>5. CASE ForgetBatch(c)
  BY <1>5 DEF ForgetBatch
<1>6. CASE ForgetDone(c) \/ ForgetStopsEarly(c)
  <2>1. status[p] = "applying" /\ call'[c] = At("finalize", p, "applied")
    BY <1>1, <1>6 DEF ForgetDone, ForgetStopsEarly, Carries, Goto, TypeOK
  <2>2. QED
    BY <2>1 DEF Carries, At, Holding
<1>7. CASE Finalize(c)
  <2>1. status[p] = "applying" /\ status'[p] \in {"applied", "failed"}
    BY <1>1, <1>7 DEF Finalize, Carries, TypeOK, Claims, Effects, Progress
  <2>2. QED
    BY <2>1
<1>8. QED
  BY <1>1, <1>2, <1>3, <1>4, <1>5, <1>6, <1>7
     DEF Step, CreateProposal, ApproveRow, RejectRow, Holding

\* No step other than a fault leaves an accepted proposal without a request.
LEMMA AtWorkStep ==
    ASSUME TypeOK, TypeOK', Claims, AcceptedAtWork, [Next]_vars
    PROVE  AcceptedAtWork'
<1> SUFFICES ASSUME NEW p \in Proposals, status'[p] \in {"approved", "applying"}, faults' = 0
             PROVE  AtWork(p)'
  BY DEF AcceptedAtWork, TypeOK
<1>1. faults \in Nat /\ faults' # faults + 1
  BY DEF TypeOK
<1>2. ASSUME NEW c \in Callers, ForgetThrows(c) \/ StorageFails(c)
      PROVE  FALSE
  BY <1>1, <1>2 DEF ForgetThrows, StorageFails, Fault
<1>3. ~Crash
  BY <1>1 DEF Crash, Fault
<1>4. faults = 0
  BY <1>1, <1>2, <1>3
     DEF Next, Step, vars, ProposeForget, Approve, Reject, CreateProposal, ApproveRow, RejectRow,
         Decide, AppendAudit, Claim, Dispatch, ForgetBatch, ForgetDone, ForgetStopsEarly,
         Finalize, Lapse, AuditExpired, ExpireProposals, Fault
<1>5. CASE status'[p] # status[p]
  <2>1. PICK d \in Callers : (ApproveRow(d) \/ Claim(d)) /\ call[d].p = p
    <3>1. ASSUME NEW d \in Callers, Step(d)
          PROVE  (ApproveRow(d) \/ Claim(d)) /\ call[d].p = p
      BY <1>5, <3>1
         DEF Step, CreateProposal, ApproveRow, RejectRow, Decide, AppendAudit, Claim, Dispatch,
             ForgetBatch, ForgetDone, ForgetStopsEarly, Finalize, TypeOK, Claims, Effects, Progress
    <3>2. QED
      BY <1>2, <1>3, <1>5, <3>1
         DEF Next, vars, ProposeForget, Approve, Reject, Lapse, AuditExpired, ExpireProposals, TypeOK
  <2>2. CASE ApproveRow(d)
    <3>1. status'[p] = "approved" /\ call'[d] = At("audit", p, "approved")
      BY <1>5, <2>1, <2>2 DEF ApproveRow, Decide, Goto, TypeOK
    <3>2. QED
      BY <3>1 DEF AtWork, Carries, At
  <2>3. CASE Claim(d)
    <3>1. status'[p] = "applying" /\ call'[d] = At("dispatch", p, "applied")
      BY <1>5, <2>1, <2>3 DEF Claim, Goto, TypeOK
    <3>2. QED
      BY <3>1 DEF AtWork, Carries, At, Holding
  <2>4. QED
    BY <2>1, <2>2, <2>3
<1>6. CASE status'[p] = status[p]
  <2>1. PICK c \in Callers : Carries(call[c], p, status[p])
    BY <1>4, <1>6 DEF AcceptedAtWork, AtWork
  <2>2. call[c].pc # "idle"
    BY <1>6, <2>1 DEF Carries, Holding
  <2>3. CASE call'[c] = call[c]
    BY <1>6, <2>1, <2>3 DEF AtWork
  <2>4. CASE Step(c)
    BY <1>6, <2>1, <2>4, CarriedOn DEF AtWork
  <2>5. ASSUME NEW d \in Callers, Step(d), d # c
        PROVE  call'[c] = call[c]
    BY <2>5 DEF Step, CreateProposal, ApproveRow, RejectRow, Decide, AppendAudit, Claim, Dispatch,
                ForgetBatch, ForgetDone, ForgetStopsEarly, Finalize, Goto, Finish, TypeOK
  <2>6. ASSUME NEW d \in Callers, NEW q \in Proposals,
               ProposeForget(d, q) \/ Approve(d, q) \/ Reject(d, q)
        PROVE  call'[c] = call[c]
    BY <2>2, <2>6 DEF ProposeForget, Approve, Reject, Arrives, Goto, TypeOK
  <2>7. QED
    BY <1>2, <1>3, <2>3, <2>4, <2>5, <2>6
       DEF Next, vars, Lapse, AuditExpired, ExpireProposals
<1>7. QED
  BY <1>5, <1>6

\* A proposal is stuck as approved or applying only after a fault: whichever of
\* several approvals wins the claim of apply, some request goes on with the
\* proposal as long as no storage call fails and the process lives.
THEOREM AcceptedCarried == Spec => []AcceptedAtWork
<1>1. Init => AcceptedAtWork
  BY DEF Init, AcceptedAtWork
<1>2. QED
  BY <1>1, AtWorkStep, ProposalInvariant, PTL DEF Spec

-----------------------------------------------------------------------------
(* Refinement *)

\* How a row's status reads as a decision.
DecisionOf(s) ==
    CASE s = "none" -> "none"
      [] s = "pending" -> "open"
      [] s \in {"rejected", "expired"} -> "refused"
      [] s \in {"approved", "applying"} -> "accepted"
      [] OTHER -> s
Started == {p \in Proposals : dispatched[p] > 0}

\* The decisions of a state, proposal by proposal.
LEMMA Decisions ==
    /\ Decision = [p \in Proposals |-> DecisionOf(status[p])]
    /\ Decision' = [p \in Proposals |-> DecisionOf(status'[p])]
  BY DEF Decision, DecisionOf

\* Each status read as a decision.
LEMMA DecisionTable ==
    /\ DecisionOf("none") = "none" /\ DecisionOf("pending") = "open"
    /\ DecisionOf("rejected") = "refused" /\ DecisionOf("expired") = "refused"
    /\ DecisionOf("approved") = "accepted" /\ DecisionOf("applying") = "accepted"
    /\ DecisionOf("applied") = "applied" /\ DecisionOf("failed") = "failed"
  BY DEF DecisionOf

\* A status change of one proposal is a change of its decision alone.
LEMMA OneDecision ==
    ASSUME TypeOK, NEW p \in Proposals, NEW s, status' = [status EXCEPT ![p] = s]
    PROVE  Decision' = [Decision EXCEPT ![p] = DecisionOf(s)]
  BY Decisions DEF TypeOK

\* Every step of the service is a step of the lifecycle or leaves it alone.
LEMMA LifecycleStep ==
    ASSUME TypeOK, Claims, [Next]_vars
    PROVE  [Lifecycle!Next]_(Lifecycle!vars)
<1>1. CASE UNCHANGED <<status, dispatched>>
  BY <1>1, Decisions DEF Lifecycle!vars
<1>2. ASSUME NEW c \in Callers, CreateProposal(c)
      PROVE  Lifecycle!Next
  <2>1. call[c].p \in Proposals /\ status[call[c].p] = "none"
    BY <1>2 DEF CreateProposal, Claims, Requests, Request
  <2>2. Decision' = [Decision EXCEPT ![call[c].p] = "open"]
    <3>1. status' = [status EXCEPT ![call[c].p] = "pending"]
      BY <1>2 DEF CreateProposal
    <3>2. Decision' = [Decision EXCEPT ![call[c].p] = DecisionOf("pending")]
      BY <2>1, <3>1, OneDecision, Zenon
    <3>3. QED
      BY <3>2, DecisionTable
  <2>3. Decision[call[c].p] = "none" /\ UNCHANGED dispatched
    BY <1>2, <2>1, Decisions, DecisionTable DEF CreateProposal, effects
  <2>4. Lifecycle!Propose(call[c].p)
    BY <2>2, <2>3 DEF Lifecycle!Propose
  <2>5. QED
    BY <2>1, <2>4 DEF Lifecycle!Next
<1>3. ASSUME NEW c \in Callers, ApproveRow(c), status' # status
      PROVE  Lifecycle!Next
  <2>1. call[c].p \in Proposals /\ status[call[c].p] = "pending"
    BY <1>3 DEF ApproveRow, Decide, Claims, Requests, Request
  <2>2. Decision' = [Decision EXCEPT ![call[c].p] = "accepted"]
    <3>1. status' = [status EXCEPT ![call[c].p] = "approved"]
      BY <1>3, <2>1 DEF ApproveRow, Decide
    <3>2. Decision' = [Decision EXCEPT ![call[c].p] = DecisionOf("approved")]
      BY <2>1, <3>1, OneDecision, Zenon
    <3>3. QED
      BY <3>2, DecisionTable
  <2>3. Decision[call[c].p] = "open" /\ UNCHANGED dispatched
    BY <1>3, <2>1, Decisions, DecisionTable DEF ApproveRow, Decide, effects
  <2>4. Lifecycle!Accept(call[c].p)
    BY <2>2, <2>3 DEF Lifecycle!Accept
  <2>5. QED
    BY <2>1, <2>4 DEF Lifecycle!Next
<1>4. ASSUME NEW c \in Callers, RejectRow(c), status' # status
      PROVE  Lifecycle!Next
  <2>1. call[c].p \in Proposals /\ status[call[c].p] = "pending"
    BY <1>4 DEF RejectRow, Decide, Claims, Requests, Request
  <2>2. Decision' = [Decision EXCEPT ![call[c].p] = "refused"]
    BY <1>4, <2>1, OneDecision, DecisionTable DEF RejectRow, Decide
  <2>3. Decision[call[c].p] = "open" /\ UNCHANGED dispatched
    BY <1>4, <2>1, Decisions, DecisionTable DEF RejectRow, Decide, effects
  <2>4. Decision' = [p \in Proposals |-> IF p \in {call[c].p} THEN "refused" ELSE Decision[p]]
    BY <2>1, <2>2, Decisions
  <2>5. Lifecycle!Refuse({call[c].p})
    BY <2>3, <2>4 DEF Lifecycle!Refuse
  <2>6. QED
    BY <2>1, <2>5 DEF Lifecycle!Next
<1>5. ASSUME NEW c \in Callers, Claim(c)
      PROVE  UNCHANGED Lifecycle!vars
  <2>1. call[c].p \in Proposals
    BY <1>5 DEF Claim, Claims, Requests, Request
  <2>2. QED
    BY <1>5, <2>1, Decisions, DecisionTable DEF Claim, effects, Lifecycle!vars, TypeOK
<1>6. ASSUME NEW c \in Callers, Dispatch(c)
      PROVE  Lifecycle!Next
  <2>1. call[c].p \in Proposals /\ status[call[c].p] = "applying" /\ dispatched[call[c].p] = 0
    BY <1>6 DEF Dispatch, Claims, Requests, Request, Effects, Progress, Holding
  <2>2. PICK p \in Proposals : p = call[c].p
    BY <2>1
  <2>3. Started' = Started \cup {p}
    BY <1>6, <2>1, <2>2 DEF Dispatch, TypeOK, Started
  <2>4. Lifecycle!Start(p)
    BY <1>6, <2>1, <2>2, <2>3, Decisions, DecisionTable DEF Dispatch, Started, Lifecycle!Start
  <2>5. QED
    BY <2>4 DEF Lifecycle!Next
<1>7. ASSUME NEW c \in Callers, Finalize(c)
      PROVE  Lifecycle!Next
  <2>1. /\ call[c].p \in Proposals /\ status[call[c].p] = "applying"
        /\ dispatched[call[c].p] = 1 /\ call[c].event \in {"applied", "failed"}
    BY <1>7 DEF Finalize, Claims, Requests, Request, Effects, Progress, Holding
  <2>2. Decision' = [Decision EXCEPT ![call[c].p] = call[c].event]
    <3>1. status' = [status EXCEPT ![call[c].p] = call[c].event]
      BY <1>7 DEF Finalize
    <3>2. Decision' = [Decision EXCEPT ![call[c].p] = DecisionOf(call[c].event)]
      BY <2>1, <3>1, OneDecision, Zenon
    <3>3. QED
      BY <2>1, <3>2, DecisionTable
  <2>3. Decision[call[c].p] = "accepted" /\ UNCHANGED dispatched
    BY <1>7, <2>1, Decisions, DecisionTable DEF Finalize, effects
  <2>4. Lifecycle!Settle(call[c].p, call[c].event)
    BY <2>1, <2>2, <2>3 DEF Lifecycle!Settle
  <2>5. QED
    BY <2>1, <2>4 DEF Lifecycle!Next
<1>8. CASE ExpireProposals
  <2>1. Expirable \subseteq Proposals
    BY DEF Expirable, TypeOK
  <2>2. Lifecycle!Refuse(Expirable)
    BY <1>8, <2>1, Decisions, DecisionTable DEF ExpireProposals, Expirable, effects, Lifecycle!Refuse
  <2>3. QED
    BY <2>1, <2>2 DEF Lifecycle!Next
<1>9. QED
  BY <1>1, <1>2, <1>3, <1>4, <1>5, <1>6, <1>7, <1>8
     DEF Next, Step, vars, effects, ProposeForget, Approve, Reject, ApproveRow, RejectRow, Decide,
         AppendAudit, ForgetBatch, ForgetDone, ForgetStopsEarly, ForgetThrows, StorageFails, Lapse,
         AuditExpired, Crash

\* The service implements ProposalLifecycle: every proposal is decided once,
\* its forget is started only after it was accepted, and its outcome is
\* recorded once, after the start.
THEOREM ImplementsLifecycle == Spec => RefinesLifecycle
<1>1. Init => Lifecycle!Init
  BY Decisions, DecisionTable DEF Init, Lifecycle!Init
<1>2. TypeOK /\ Claims /\ Trail /\ [Next]_vars => [Lifecycle!Next]_(Lifecycle!vars)
  BY LifecycleStep
<1>3. QED
  BY <1>1, <1>2, ProposalInvariant, PTL DEF Spec, RefinesLifecycle, Lifecycle!Spec
=============================================================================
