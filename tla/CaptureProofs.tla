---------------------------- MODULE CaptureProofs ----------------------------
(***************************************************************************)
(* Theorems about the MONITOR capture subsystem, for any number of         *)
(* connections, sessions, triggers, schedules, anomalies and faults.       *)
(***************************************************************************)
EXTENDS MonitorCapture, FiniteSetTheorems, TLAPS

-----------------------------------------------------------------------------
(* Sessions.                                                               *)

Phases == InFlight \union {"unused", "refused", "over", "lost"}
Starters == Triggers \union Schedules \union {None}

SessionType ==
  [phase : Phases, conn : Conns \union {None}, by : Starters, result : Results \union {None}]

SessionShape ==
  /\ sess \in [Sessions -> SessionType]
  /\ sessionRow \in [Sessions -> {None, "running", "failed", "completed"}]
  /\ active \in [Conns -> Sessions \union {None}]

\* An entry of the map names a session that records or is ending, on that
\* connection: one that is still to remove the entry.
EntriesEnd ==
  \A c \in Conns : active[c] # None =>
    /\ sess[active[c]].phase \in {"recording", "draining", "announcing"}
    /\ sess[active[c]].conn = c

\* There is no row before the first write, and what a draining session will
\* write to it is a final status.
RowsFollow ==
  \A s \in Sessions :
    /\ sess[s].phase \in {"unused", "saving"} => sessionRow[s] = None
    /\ sess[s].phase = "draining" => sess[s].result \in Results

SessionInv == SessionShape /\ EntriesEnd /\ RowsFollow /\ RunningRowsAreLive

LEMMA SessionsInitially == SessionsInit => SessionInv
  BY CaptureAssumption
  DEF SessionsInit, SessionInv, SessionShape, SessionType, EntriesEnd, RowsFollow, RunningRowsAreLive,
      Phases, Starters

LEMMA NewSessionIsUnused ==
  ASSUME Unused # {}
  PROVE  NewSession \in Sessions /\ sess[NewSession].phase = "unused"
  BY DEF NewSession, Unused

\* A start adds a session without row or entry.
LEMMA BeginPreserves ==
  ASSUME SessionInv, NEW c \in Conns, NEW caller \in Starters, BeginSession(c, caller),
         UNCHANGED <<sessionRow, active, stale>>
  PROVE  SessionInv'
<1>1. NewSession \in Sessions /\ sess[NewSession].phase = "unused"
  BY NewSessionIsUnused DEF BeginSession
<1>2. PICK n \in Sessions : n = NewSession
  BY <1>1
<1>3. sess' = [sess EXCEPT ![n] = [@ EXCEPT !.phase = "saving", !.conn = c, !.by = caller]]
  BY <1>2 DEF BeginSession
<1>4. SessionShape'
  BY <1>3 DEF SessionInv, SessionShape, SessionType, Phases, InFlight
<1>5. EntriesEnd'
  BY <1>1, <1>2, <1>3 DEF SessionInv, SessionShape, SessionType, EntriesEnd
<1>6. RowsFollow' /\ RunningRowsAreLive'
  BY <1>1, <1>2, <1>3, CaptureAssumption
  DEF SessionInv, SessionShape, SessionType, RowsFollow, RunningRowsAreLive
<1> QED
  BY <1>4, <1>5, <1>6 DEF SessionInv

LEMMA SessionsUntouched ==
  ASSUME SessionInv, UNCHANGED <<sess, sessionRow, active, stale>>
  PROVE  SessionInv'
  BY DEF SessionInv, SessionShape, SessionType, EntriesEnd, RowsFollow, RunningRowsAreLive

LEMMA SessionsPreserve ==
  ASSUME SessionInv, SessionsNext
  PROVE  SessionInv'
<1> PICK s \in Sessions : SessionStep(s) \/ SaveSessionFails(s) \/ OpenSourceFails(s)
  BY DEF SessionsNext
<1> USE DEF SessionInv
<1>1. CASE SaveSession(s) \/ SaveSessionFails(s) \/ OpenSourceFails(s)
  <2>1. SessionShape'
    BY <1>1 DEF SaveSession, SaveSessionFails, OpenSourceFails, SessionShape, SessionType, Phases, InFlight
  <2>2. EntriesEnd'
    BY <1>1 DEF SaveSession, SaveSessionFails, OpenSourceFails, SessionShape, SessionType, EntriesEnd
  <2>3. RowsFollow' /\ RunningRowsAreLive'
    BY <1>1, CaptureAssumption
    DEF SaveSession, SaveSessionFails, OpenSourceFails, SessionShape, SessionType, RowsFollow, RunningRowsAreLive
  <2> QED
    BY <2>1, <2>2, <2>3
<1>2. CASE OpenSource(s)
  <2>1. SessionShape'
    BY <1>2 DEF OpenSource, SessionShape, SessionType, Phases, InFlight
  <2>2. EntriesEnd'
    BY <1>2 DEF OpenSource, SessionShape, SessionType, EntriesEnd
  <2>3. RowsFollow' /\ RunningRowsAreLive'
    BY <1>2 DEF OpenSource, SessionShape, SessionType, RowsFollow, RunningRowsAreLive
  <2> QED
    BY <2>1, <2>2, <2>3
<1>3. CASE RecordOpenFailure(s)
  <2>1. SessionShape'
    BY <1>3 DEF RecordOpenFailure, SessionShape, SessionType, Phases, InFlight
  <2>2. EntriesEnd'
    BY <1>3 DEF RecordOpenFailure, SessionShape, SessionType, EntriesEnd
  <2>3. RowsFollow' /\ RunningRowsAreLive'
    BY <1>3 DEF RecordOpenFailure, SessionShape, SessionType, RowsFollow, RunningRowsAreLive
  <2> QED
    BY <2>1, <2>2, <2>3
<1>4. CASE SessionWriterEnds(s)
  <2> PICK r \in Results : TerminateSession(s, r)
    BY <1>4 DEF SessionWriterEnds
  <2>1. SessionShape'
    <3>1. [sess[s] EXCEPT !.phase = "draining", !.result = r] \in SessionType
      BY DEF SessionShape, SessionType, Phases, InFlight
    <3> QED
      BY <1>4, <3>1 DEF SessionWriterEnds, TerminateSession, SessionShape
  <2>2. EntriesEnd'
    BY <1>4 DEF SessionWriterEnds, TerminateSession, SessionShape, SessionType, EntriesEnd
  <2>3. RowsFollow' /\ RunningRowsAreLive'
    BY <1>4 DEF SessionWriterEnds, TerminateSession, SessionShape, SessionType, RowsFollow, RunningRowsAreLive
  <2> QED
    BY <2>1, <2>2, <2>3
<1>5. CASE FinalizeRow(s)
  <2>1. sess[s].phase = "draining" /\ sess[s].result \in {"completed", "failed"}
    BY <1>5 DEF FinalizeRow, RowsFollow, Results
  <2>2. /\ sessionRow' \in [Sessions -> {None, "running", "failed", "completed"}]
        /\ \A t \in Sessions \ {s} : sessionRow'[t] = sessionRow[t]
        /\ sessionRow'[s] # "running" \/ s \in stale'
        /\ stale \subseteq stale'
    BY <1>5, <2>1 DEF FinalizeRow, SessionShape
  <2>3. /\ \/ /\ sess' = [sess EXCEPT ![s] = [@ EXCEPT !.phase = "over", !.result = None]]
              /\ active' = [active EXCEPT ![sess[s].conn] = None]
           \/ /\ sess' = [sess EXCEPT ![s].phase = "announcing"]
              /\ active' = active
    BY <1>5 DEF FinalizeRow, AfterFinalize, Over
  <2>4. SessionShape'
    <3>1. /\ [sess[s] EXCEPT !.phase = "over", !.result = None] \in SessionType
          /\ [sess[s] EXCEPT !.phase = "announcing"] \in SessionType
      BY DEF SessionShape, SessionType, Phases, InFlight
    <3>2. sess' \in [Sessions -> SessionType]
      BY <2>3, <3>1 DEF SessionShape
    <3>3. active' \in [Conns -> Sessions \union {None}]
      BY <2>3 DEF SessionShape
    <3> QED
      BY <2>2, <3>2, <3>3 DEF SessionShape
  <2>5. EntriesEnd'
    BY <2>3 DEF SessionShape, SessionType, EntriesEnd
  <2>6. RowsFollow' /\ RunningRowsAreLive'
    <3>1. \A t \in Sessions \ {s} : sess'[t] = sess[t]
      BY <2>3 DEF SessionShape
    <3>2. sess'[s].phase \in {"over", "announcing"}
      <4>1. sess[s] \in SessionType
        BY DEF SessionShape
      <4>2. /\ [sess[s] EXCEPT !.phase = "over", !.result = None].phase = "over"
            /\ [sess[s] EXCEPT !.phase = "announcing"].phase = "announcing"
        BY <4>1 DEF SessionType
      <4> QED
        BY <2>3, <4>2 DEF SessionShape
    <3> QED
      BY <2>2, <3>1, <3>2 DEF RowsFollow, RunningRowsAreLive
  <2> QED
    BY <2>4, <2>5, <2>6
<1>6. CASE LeaveActive(s)
  <2>1. SessionShape'
    BY <1>6 DEF LeaveActive, Over, SessionShape, SessionType, Phases, InFlight
  <2>2. EntriesEnd'
    BY <1>6 DEF LeaveActive, Over, SessionShape, SessionType, EntriesEnd
  <2>3. RowsFollow' /\ RunningRowsAreLive'
    BY <1>6 DEF LeaveActive, Over, SessionShape, SessionType, RowsFollow, RunningRowsAreLive
  <2> QED
    BY <2>1, <2>2, <2>3
<1> QED
  BY <1>1, <1>2, <1>3, <1>4, <1>5, <1>6 DEF SessionStep

LEMMA UsersPreserve ==
  ASSUME SessionInv, UsersNext
  PROVE  SessionInv'
<1>1. ASSUME NEW c \in Conns, StartManual(c) PROVE SessionInv'
  BY <1>1, BeginPreserves DEF StartManual, Starters
<1>2. ASSUME NEW s \in Sessions, StopSession(s) PROVE SessionInv'
  <2> USE DEF SessionInv
  <2>1. SessionShape'
    BY <1>2 DEF StopSession, TerminateSession, SessionShape, SessionType, Phases, InFlight, Results
  <2>2. EntriesEnd'
    BY <1>2 DEF StopSession, TerminateSession, SessionShape, SessionType, EntriesEnd
  <2>3. RowsFollow' /\ RunningRowsAreLive'
    BY <1>2 DEF StopSession, TerminateSession, SessionShape, SessionType, RowsFollow, RunningRowsAreLive, Results
  <2> QED
    BY <2>1, <2>2, <2>3
<1> QED
  BY <1>1, <1>2 DEF UsersNext

LEMMA CrashPreserves ==
  ASSUME SessionInv, SessionsCrash
  PROVE  SessionInv'
<1> USE DEF SessionInv
<1>1. SessionShape'
  BY DEF SessionsCrash, SessionShape, SessionType, Phases, InFlight
<1>2. EntriesEnd'
  BY DEF SessionsCrash, EntriesEnd
<1>3. RowsFollow' /\ RunningRowsAreLive'
  BY DEF SessionsCrash, SessionShape, SessionType, RowsFollow, RunningRowsAreLive, InFlight
<1> QED
  BY <1>1, <1>2, <1>3

-----------------------------------------------------------------------------
(* Triggers.                                                               *)

TriggerType ==
  [status : {"unused", "creating", "refused", "configured", "queued", "cancelled", "expired",
             "fired", "skipped"},
   conn : Conns \union {None}, createdAt : Nat, expiresAt : Nat]

GateSteps == {"queueGate", "eventGate"}
StartSteps == {"queueStart", "eventStart"}
PatchSteps == {"queuePatch", "eventPatch"}
Working == GateSteps \union StartSteps \union PatchSteps

TickType ==
  [step : Working \union {"idle", "sweep", "queue", "events"},
   todo : SUBSET Triggers, events : SUBSET Anomalies, high : Nat,
   at : Triggers \union {None}, status : {None, "configured", "queued"},
   sid : Sessions \union {None}, patch : {None, "queued", "skipped", "fired"}]

TriggerShape ==
  /\ trigger \in [Triggers -> TriggerType]
  /\ tick \in TickType
  /\ lastAnomalyAt \in Nat
  /\ anomalies \subseteq Anomalies
  /\ clock \in 1..MaxClock

\* A row the tick has read and may still write: only a cancellation can have
\* come between.
Open(t) == trigger[t].status \in {"configured", "queued", "cancelled"} /\ trigger[t].conn \in Conns

\* A row that exists has a connection, and a cancellation is of such a row.
ConnOfActive ==
  /\ \A t \in Triggers : trigger[t].status # "unused" => trigger[t].conn \in Conns
  /\ cancelling \subseteq {t \in Triggers : trigger[t].status # "unused"}

\* The trigger tryFire works on, and those the loop has left, are open; a start
\* is always followed by a patch, and never by one that queues.
TickHolds ==
  /\ \A t \in tick.todo : Open(t)
  /\ tick.at # None => Open(tick.at) /\ tick.at \notin tick.todo
  /\ tick.at # None <=> tick.step \in Working
  /\ tick.step \in {"idle", "events", "eventGate", "eventStart", "eventPatch"} => tick.todo = {}
  /\ tick.sid # None => tick.step \in StartSteps \union PatchSteps
  /\ tick.step \in StartSteps => tick.sid # None
  /\ tick.step \in PatchSteps => tick.patch \in {"queued", "skipped", "fired"}
  /\ tick.step \in PatchSteps /\ tick.patch = "queued" => tick.sid = None

\* A session started for a trigger whose start was not lost: the tick is still
\* at it, or the trigger is settled for good and in no list.
StartsAreKept ==
  \A t \in Triggers \ unrecorded : \A s \in Sessions : sess[s].by = t =>
    \/ tick.at = t /\ tick.sid = s
    \/ /\ tick.at # t
       /\ t \notin tick.todo
       /\ trigger[t].status \in {"fired", "skipped", "cancelled", "expired"}

OneStart ==
  \A t \in Triggers \ unrecorded : \A r, s \in Sessions :
    sess[r].by = t /\ sess[s].by = t => r = s

TriggerInv == TriggerShape /\ ConnOfActive /\ TickHolds /\ StartsAreKept /\ OneStart

SettledStep ==
  \A t \in Triggers :
    trigger[t].status \in {"fired", "skipped", "expired"} =>
      trigger'[t].status \in {trigger[t].status, "cancelled"}

LEMMA TriggersInitially == SessionsInit /\ TriggersInit => TriggerInv
<1> SUFFICES ASSUME SessionsInit, TriggersInit PROVE TriggerInv
  OBVIOUS
<1>1. TriggerShape
  BY TriggerAssumption
  DEF TriggersInit, Idle, NoTrigger, TriggerShape, TriggerType, TickType
<1>2. ConnOfActive /\ TickHolds
  BY TriggerAssumption
  DEF TriggersInit, Idle, NoTrigger, ConnOfActive, TickHolds, Working, GateSteps, StartSteps, PatchSteps
<1>3. StartsAreKept /\ OneStart
  BY TriggerAssumption DEF SessionsInit, StartsAreKept, OneStart
<1> QED
  BY <1>1, <1>2, <1>3 DEF TriggerInv

\* Steps that change neither rows nor tick nor who started a session.
SameStarters == \A s \in Sessions : sess'[s].by = sess[s].by

LEMMA TriggersUntouched ==
  ASSUME TriggerInv, SameStarters, UNCHANGED triggerVars
  PROVE  TriggerInv' /\ SettledStep
  BY DEF TriggerInv, SameStarters, triggerVars, TriggerShape, ConnOfActive, TickHolds, Open,
         StartsAreKept, OneStart, SettledStep

\* A session started for a schedule or a user is no trigger's.
LEMMA OthersBegin ==
  ASSUME SessionInv, TriggerInv, NEW c, NEW caller, caller \notin Triggers, BeginSession(c, caller),
         UNCHANGED triggerVars
  PROVE  TriggerInv' /\ SettledStep
<1>1. PICK n \in Sessions : n = NewSession
  BY NewSessionIsUnused DEF BeginSession
<1>2. \A s \in Sessions : sess'[s].by = IF s = n THEN caller ELSE sess[s].by
  BY <1>1 DEF BeginSession, SessionInv, SessionShape, SessionType
<1>3. StartsAreKept' /\ OneStart'
  BY <1>2 DEF TriggerInv, triggerVars, StartsAreKept, OneStart
<1> QED
  BY <1>3 DEF TriggerInv, triggerVars, TriggerShape, ConnOfActive, TickHolds, Open, SettledStep

\* A step of the tick that writes no row and starts no session.
LEMMA TickMoves ==
  ASSUME TriggerInv, UNCHANGED <<sess, trigger, cancelling, anomalies, clock, unrecorded>>,
         lastAnomalyAt' \in Nat, tick' \in TickType, TickHolds', StartsAreKept'
  PROVE  TriggerInv' /\ SettledStep
  BY DEF TriggerInv, TriggerShape, ConnOfActive, OneStart, SettledStep

LEMMA TickMovesPreserve ==
  ASSUME TriggerInv,
         \/ SweepList \/ QueuedList \/ EventsList \/ EventsDone
         \/ GateDenies \/ GateThrows \/ GateAllowsBusy \/ StartReturns
         \/ \E t \in Triggers : QueuedNext(t)
         \/ \E e \in Anomalies : EventNext(e)
  PROVE  TriggerInv' /\ SettledStep
<1> USE DEF TriggerInv, Working, GateSteps, StartSteps, PatchSteps
<1>0. Idle \in TickType
  BY DEF Idle, TickType
<1>a. None \notin Triggers /\ None \notin Sessions
  BY CaptureAssumption, TriggerAssumption
<1>1. CASE SweepList
  <2>1. tick' \in TickType
    BY <1>0, <1>1 DEF SweepList, TriggerShape, TickType, Expirable
  <2>2. TickHolds'
    BY <1>a, <1>1 DEF SweepList, TriggerShape, TickType, TickHolds, ConnOfActive, Open, Idle, ActiveTrigger, Expirable
  <2>3. StartsAreKept'
    BY <1>a, <1>1 DEF SweepList, TriggerShape, TickType, TickHolds, StartsAreKept, sessionVars, Idle, ActiveTrigger, Expirable
  <2> QED
    BY <1>1, <2>1, <2>2, <2>3, TickMoves DEF SweepList, sessionVars, TriggerShape, TickType
<1>2. CASE QueuedList
  <2>1. tick' \in TickType
    BY <1>0, <1>2 DEF QueuedList, TriggerShape, TickType, Queued
  <2>2. TickHolds'
    BY <1>a, <1>2 DEF QueuedList, TriggerShape, TickType, TickHolds, ConnOfActive, Open, Idle, ActiveTrigger, Queued
  <2>3. StartsAreKept'
    BY <1>a, <1>2 DEF QueuedList, TriggerShape, TickType, TickHolds, StartsAreKept, sessionVars, Idle, ActiveTrigger, Queued
  <2> QED
    BY <1>2, <2>1, <2>2, <2>3, TickMoves DEF QueuedList, sessionVars, TriggerShape, TickType
<1>3. CASE EventsList
  <2>1. tick' \in TickType
    BY <1>0, <1>3 DEF EventsList, TriggerShape, TickType
  <2>2. TickHolds'
    BY <1>a, <1>3 DEF EventsList, TriggerShape, TickType, TickHolds, ConnOfActive, Open, Idle, ActiveTrigger
  <2>3. StartsAreKept'
    BY <1>a, <1>3 DEF EventsList, TriggerShape, TickType, TickHolds, StartsAreKept, sessionVars, Idle, ActiveTrigger
  <2> QED
    BY <1>3, <2>1, <2>2, <2>3, TickMoves DEF EventsList, sessionVars, TriggerShape, TickType
<1>4. CASE EventsDone
  <2>1. tick' \in TickType
    BY <1>0, <1>4 DEF EventsDone, TriggerShape, TickType
  <2>2. TickHolds'
    BY <1>a, <1>4 DEF EventsDone, TriggerShape, TickType, TickHolds, ConnOfActive, Open, Idle, ActiveTrigger
  <2>3. StartsAreKept'
    BY <1>a, <1>4 DEF EventsDone, TriggerShape, TickType, TickHolds, StartsAreKept, sessionVars, Idle, ActiveTrigger
  <2> QED
    BY <1>4, <2>1, <2>2, <2>3, TickMoves DEF EventsDone, sessionVars, TriggerShape, TickType
<1>5. CASE GateDenies
  <2>1. tick' \in TickType
    BY <1>0, <1>5 DEF GateDenies, TriggerShape, TickType, Gates, PatchStep, Loop
  <2>2. TickHolds'
    BY <1>a, <1>5 DEF GateDenies, TriggerShape, TickType, TickHolds, ConnOfActive, Open, Idle, ActiveTrigger, Gates, PatchStep, Loop
  <2>3. StartsAreKept'
    BY <1>a, <1>5 DEF GateDenies, TriggerShape, TickType, TickHolds, StartsAreKept, sessionVars, Idle, ActiveTrigger, Gates, PatchStep, Loop
  <2> QED
    BY <1>5, <2>1, <2>2, <2>3, TickMoves DEF GateDenies, sessionVars, TriggerShape, TickType
<1>6. CASE GateThrows
  <2>1. tick' \in TickType
    BY <1>0, <1>6 DEF GateThrows, TriggerShape, TickType, Gates
  <2>2. TickHolds'
    BY <1>a, <1>6 DEF GateThrows, TriggerShape, TickType, TickHolds, ConnOfActive, Open, Idle, ActiveTrigger, Gates
  <2>3. StartsAreKept'
    BY <1>a, <1>6 DEF GateThrows, TriggerShape, TickType, TickHolds, StartsAreKept, sessionVars, Idle, ActiveTrigger, Gates
  <2> QED
    BY <1>6, <2>1, <2>2, <2>3, TickMoves DEF GateThrows, sessionVars, TriggerShape, TickType
<1>7. CASE GateAllowsBusy
  <2>0. \/ tick' = Return
        \/ tick' = [tick EXCEPT !.step = PatchStep, !.patch = "queued"]
    BY <1>7 DEF GateAllowsBusy
  <2>a. tick.step \in Gates /\ UNCHANGED <<sess, trigger, unrecorded>>
    BY <1>7 DEF GateAllowsBusy, sessionVars
  <2>b. /\ Return \in TickType /\ Return.at = None /\ Return.sid = None /\ Return.todo = tick.todo
        /\ Return.step = Loop
    BY DEF TriggerShape, TickType, Return, Loop
  <2>c. LET next == [tick EXCEPT !.step = PatchStep, !.patch = "queued"]
        IN /\ next \in TickType /\ next.at = tick.at /\ next.sid = tick.sid /\ next.todo = tick.todo
           /\ next.step = PatchStep /\ next.patch = "queued"
    BY DEF TriggerShape, TickType, PatchStep
  <2>d. tick.at # None /\ tick.sid = None
    BY <1>a, <2>a DEF Gates, TickHolds
  <2>1. tick' \in TickType
    BY <2>0, <2>b, <2>c
  <2>2. TickHolds'
    <3>1. CASE tick' = Return
      BY <1>a, <2>a, <2>b, <3>1 DEF TickHolds, Open, Loop, Gates
    <3>2. CASE tick' = [tick EXCEPT !.step = PatchStep, !.patch = "queued"]
      <4>1. PatchStep \in PatchSteps /\ (PatchStep = "eventPatch" => tick.step = "eventGate")
        BY <2>a DEF PatchStep, Loop, Gates
      <4>2. tick'.todo = {} \/ tick'.step = "queuePatch"
        BY <2>c, <3>2, <4>1 DEF TickHolds
      <4> QED
        BY <1>a, <2>a, <2>c, <2>d, <3>2, <4>1, <4>2 DEF TickHolds, Open
    <3> QED
      BY <2>0, <3>1, <3>2
  <2>3. StartsAreKept'
    <3>1. /\ tick'.sid = None /\ tick'.todo = tick.todo /\ tick'.at \in {None, tick.at}
      BY <2>0, <2>b, <2>c, <2>d
    <3> QED
      BY <1>a, <2>a, <2>d, <3>1 DEF StartsAreKept
  <2> QED
    BY <1>7, <2>1, <2>2, <2>3, TickMoves DEF GateAllowsBusy, sessionVars, TriggerShape
<1>8. CASE StartReturns
  <2>0. PICK p \in {"skipped", "fired"} : tick' = [tick EXCEPT !.step = PatchStep, !.patch = p]
    BY <1>8 DEF StartReturns
  <2>a. PatchStep \in PatchSteps
    BY DEF PatchStep
  <2>1. tick' \in TickType
    BY <2>0, <2>a DEF TriggerShape, TickType
  <2>2. TickHolds'
    <3>1. /\ tick'.at = tick.at /\ tick'.sid = tick.sid /\ tick'.todo = tick.todo
          /\ tick'.step = PatchStep /\ tick'.patch = p
      BY <2>0 DEF TriggerShape, TickType
    <3>2. PatchStep = "eventPatch" => tick.step = "eventStart"
      BY <1>8 DEF StartReturns, PatchStep, Loop
    <3>3. tick.at # None /\ tick.sid # None
      BY <1>8 DEF StartReturns, TickHolds
    <3>4. tick'.todo = {} \/ tick'.step = "queuePatch"
      BY <2>a, <3>1, <3>2 DEF TickHolds
    <3> QED
      BY <1>8, <2>a, <3>1, <3>3, <3>4 DEF StartReturns, TickHolds, Open
  <2>3. StartsAreKept'
    <3>1. tick'.at = tick.at /\ tick'.sid = tick.sid /\ tick'.todo = tick.todo
      BY <2>0 DEF TriggerShape, TickType
    <3> QED
      BY <1>8, <3>1 DEF StartReturns, StartsAreKept, sessionVars
  <2> QED
    BY <1>8, <2>1, <2>2, <2>3, TickMoves DEF StartReturns, sessionVars, TriggerShape
<1>9. ASSUME NEW t \in Triggers, QueuedNext(t) PROVE TriggerInv' /\ SettledStep
  <2>0. /\ tick.step = "queue" /\ t \in tick.todo /\ UNCHANGED <<sess, trigger, unrecorded>>
        /\ tick.at = None /\ tick.sid = None
    BY <1>9 DEF QueuedNext, sessionVars, TickHolds
  <2>a. \/ tick' = [tick EXCEPT !.todo = @ \ {t}]
        \/ tick' = [tick EXCEPT !.todo = @ \ {t}, !.step = "queueGate", !.at = t, !.status = "queued"]
    BY <1>9 DEF QueuedNext
  <2>b. /\ [tick EXCEPT !.todo = @ \ {t}] \in TickType
        /\ [tick EXCEPT !.todo = @ \ {t}, !.step = "queueGate", !.at = t, !.status = "queued"] \in TickType
    BY DEF TriggerShape, TickType
  <2>1. tick' \in TickType
    BY <2>a, <2>b
  <2>c. /\ tick'.todo = tick.todo \ {t} /\ tick'.sid = None
        /\ \/ tick'.at = None /\ tick'.step = "queue"
           \/ tick'.at = t /\ tick'.step = "queueGate"
    BY <2>0, <2>a DEF TriggerShape, TickType
  <2>2. TickHolds'
    BY <1>a, <2>0, <2>c DEF TickHolds, Open
  <2>3. StartsAreKept'
    <3>1. \A u \in Triggers \ unrecorded : \A s \in Sessions : sess[s].by = u =>
            /\ u \notin tick.todo
            /\ trigger[u].status \in {"fired", "skipped", "cancelled", "expired"}
      BY <1>a, <2>0 DEF StartsAreKept
    <3>2. tick'.at \in {None, t} /\ tick'.todo \subseteq tick.todo
      BY <2>c
    <3> QED
      BY <1>a, <2>0, <3>1, <3>2 DEF StartsAreKept
  <2> QED
    BY <1>9, <2>1, <2>2, <2>3, TickMoves DEF QueuedNext, sessionVars, TriggerShape
<1>10. ASSUME NEW e \in Anomalies, EventNext(e) PROVE TriggerInv' /\ SettledStep
  <2>0. /\ tick.step = "events" /\ UNCHANGED <<sess, trigger, unrecorded>>
        /\ tick.at = None /\ tick.sid = None /\ tick.todo = {}
    BY <1>10 DEF EventNext, sessionVars, TickHolds
  <2>d. e.at \in Nat
    BY TriggerAssumption DEF Anomalies, Times
  <2> DEFINE rest == [tick EXCEPT !.events = @ \ {e}, !.high = e.at]
  <2>a. \/ tick' = rest
        \/ \E t \in Triggers : /\ trigger[t].status = "configured"
                               /\ tick' = [rest EXCEPT !.step = "eventGate", !.at = t,
                                                       !.status = "configured"]
    BY <1>10 DEF EventNext, FindActiveTriggers, ActiveTrigger
  <2>b. /\ rest \in TickType /\ rest.todo = tick.todo /\ rest.at = None /\ rest.sid = None
        /\ rest.step = "events"
    BY <2>0, <2>d DEF TriggerShape, TickType
  <2> HIDE DEF rest
  <2>c. ASSUME NEW t \in Triggers
        PROVE  LET next == [rest EXCEPT !.step = "eventGate", !.at = t, !.status = "configured"]
               IN /\ next \in TickType /\ next.todo = tick.todo /\ next.at = t /\ next.sid = None
                  /\ next.step = "eventGate"
    BY <2>b DEF TickType
  <2>1. tick' \in TickType
    BY <2>a, <2>b, <2>c
  <2>2. TickHolds'
    <3>1. CASE tick' = rest
      BY <1>a, <2>0, <2>b, <3>1 DEF TickHolds, Open
    <3>2. ASSUME NEW t \in Triggers, trigger[t].status = "configured",
                 tick' = [rest EXCEPT !.step = "eventGate", !.at = t, !.status = "configured"]
          PROVE  TickHolds'
      BY <1>a, <2>0, <2>c, <3>2 DEF TickHolds, Open, ConnOfActive
    <3> QED
      BY <2>a, <3>1, <3>2
  <2>3. StartsAreKept'
    <3>1. \A u \in Triggers \ unrecorded : \A s \in Sessions : sess[s].by = u =>
            /\ u \notin tick.todo
            /\ trigger[u].status \in {"fired", "skipped", "cancelled", "expired"}
      BY <1>a, <2>0 DEF StartsAreKept
    <3>2. /\ tick'.at = None \/ (tick'.at \in Triggers /\ trigger[tick'.at].status = "configured")
          /\ tick'.todo = tick.todo
      <4>1. CASE tick' = rest
        BY <2>b, <4>1
      <4>2. ASSUME NEW t \in Triggers, trigger[t].status = "configured",
                   tick' = [rest EXCEPT !.step = "eventGate", !.at = t, !.status = "configured"]
            PROVE  /\ tick'.at \in Triggers /\ trigger[tick'.at].status = "configured"
                   /\ tick'.todo = tick.todo
        BY <2>c, <4>2
      <4> QED
        BY <2>a, <4>1, <4>2
    <3> QED
      BY <1>a, <2>0, <3>1, <3>2 DEF StartsAreKept
  <2> QED
    BY <1>10, <2>1, <2>2, <2>3, TickMoves DEF EventNext, sessionVars, TriggerShape
<1> QED
  BY <1>1, <1>2, <1>3, <1>4, <1>5, <1>6, <1>7, <1>8, <1>9, <1>10

-----------------------------------------------------------------------------
\* Steps that write the row of a trigger.  What may be said of all of them: the
\* row keeps its other fields.
LEMMA StatusWritten ==
  ASSUME TriggerShape, NEW t \in Triggers,
         NEW st \in {"unused", "creating", "refused", "configured", "queued", "cancelled",
                     "expired", "fired", "skipped"},
         SetStatus(t, st)
  PROVE  /\ trigger' \in [Triggers -> TriggerType]
         /\ trigger'[t].status = st /\ trigger'[t].conn = trigger[t].conn
         /\ \A u \in Triggers \ {t} : trigger'[u] = trigger[u]
<1>1. trigger[t] \in TriggerType
  BY DEF TriggerShape
<1>2. /\ [trigger[t] EXCEPT !.status = st] \in TriggerType
      /\ [trigger[t] EXCEPT !.status = st].status = st
      /\ [trigger[t] EXCEPT !.status = st].conn = trigger[t].conn
  BY <1>1 DEF TriggerType
<1> QED
  BY <1>2 DEF SetStatus, TriggerShape

\* A request's write: of a trigger being created, or a cancellation.
LEMMA RequestsPreserve ==
  ASSUME TriggerInv, NEW t \in Triggers,
         CreateSave(t) \/ CancelRead(t) \/ CancelWrite(t) \/ \E c \in Conns : CreateCheck(t, c)
  PROVE  TriggerInv' /\ SettledStep
<1> USE DEF TriggerInv
<1>1. CASE CreateSave(t)
  <2>1. PICK st \in {"configured", "refused"} : SetStatus(t, st)
    BY <1>1 DEF CreateSave
  <2>2. /\ trigger' \in [Triggers -> TriggerType]
        /\ trigger'[t].status = st /\ trigger'[t].conn = trigger[t].conn
        /\ \A u \in Triggers \ {t} : trigger'[u] = trigger[u]
    BY <2>1, StatusWritten
  <2>3. trigger[t].status = "creating" /\ UNCHANGED <<sess, tick, cancelling, lastAnomalyAt, anomalies, clock, unrecorded>>
    BY <1>1 DEF CreateSave
  <2>4. TriggerShape' /\ ConnOfActive' /\ SettledStep
    BY <2>2, <2>3 DEF TriggerShape, ConnOfActive, SettledStep
  <2>5. t \notin tick.todo /\ t # tick.at
    BY <2>3, TriggerAssumption DEF TickHolds, Open
  <2>6. TickHolds'
    BY <2>2, <2>3, <2>5 DEF TriggerShape, TickType, TickHolds, Open
  <2>7. StartsAreKept' /\ OneStart'
    BY <2>2, <2>3, <2>5 DEF StartsAreKept, OneStart
  <2> QED
    BY <2>4, <2>6, <2>7
<1>2. CASE CancelRead(t)
  BY <1>2
  DEF CancelRead, ActiveTrigger, sessionVars, TriggerShape, ConnOfActive, TickHolds, Open, StartsAreKept, OneStart,
      SettledStep
<1>3. CASE CancelWrite(t)
  <2>1. CASE UNCHANGED trigger
    BY <1>3, <2>1
    DEF CancelWrite, TriggerShape, ConnOfActive, TickHolds, Open, StartsAreKept, OneStart, SettledStep
  <2>2. CASE SetStatus(t, "cancelled")
    <3>1. /\ trigger' \in [Triggers -> TriggerType]
          /\ trigger'[t].status = "cancelled" /\ trigger'[t].conn = trigger[t].conn
          /\ \A u \in Triggers \ {t} : trigger'[u] = trigger[u]
      BY <2>2, StatusWritten
    <3>2. UNCHANGED <<sess, tick, lastAnomalyAt, anomalies, clock, unrecorded>>
      BY <1>3 DEF CancelWrite
    <3>3. trigger[t].status # "unused" /\ cancelling' \subseteq cancelling
      BY <1>3 DEF CancelWrite, ConnOfActive
    <3>4. TriggerShape' /\ ConnOfActive' /\ SettledStep
      BY <3>1, <3>2, <3>3 DEF TriggerShape, ConnOfActive, SettledStep
    <3>5. TickHolds'
      BY <3>1, <3>2 DEF TriggerShape, TickType, TickHolds, Open
    <3>6. StartsAreKept' /\ OneStart'
      BY <3>1, <3>2 DEF StartsAreKept, OneStart
    <3> QED
      BY <3>4, <3>5, <3>6
  <2> QED
    BY <1>3, <2>1, <2>2 DEF CancelWrite
<1>4. ASSUME NEW c \in Conns, CreateCheck(t, c) PROVE TriggerInv' /\ SettledStep
  <2>1. PICK exp \in clock..MaxClock :
          trigger' = [trigger EXCEPT ![t] =
            [status |-> "creating", conn |-> c, createdAt |-> clock, expiresAt |-> exp]]
    BY <1>4 DEF CreateCheck
  <2>2. trigger[t].status = "unused" /\ UNCHANGED <<sess, tick, cancelling, lastAnomalyAt, anomalies, clock, unrecorded>>
    BY <1>4 DEF CreateCheck, sessionVars
  <2>3. clock \in Nat /\ exp \in Nat
    BY TriggerAssumption DEF TriggerShape
  <2>4. /\ trigger' \in [Triggers -> TriggerType]
        /\ trigger'[t].status = "creating" /\ trigger'[t].conn = c
        /\ \A u \in Triggers \ {t} : trigger'[u] = trigger[u]
    BY <2>1, <2>3 DEF TriggerShape, TriggerType
  <2>5. TriggerShape' /\ ConnOfActive' /\ SettledStep
    BY <2>2, <2>4 DEF TriggerShape, ConnOfActive, SettledStep
  <2>6. t \notin tick.todo /\ t # tick.at
    BY <2>2, TriggerAssumption DEF TickHolds, Open
  <2>7. TickHolds'
    BY <2>2, <2>4, <2>6 DEF TriggerShape, TickType, TickHolds, Open
  <2>8. StartsAreKept' /\ OneStart'
    BY <2>2, <2>4, <2>6 DEF StartsAreKept, OneStart
  <2> QED
    BY <2>5, <2>7, <2>8
<1> QED
  BY <1>1, <1>2, <1>3, <1>4

\* The sweep writes a row it has listed, which only a cancellation can have
\* changed since.
LEMMA SweepPreserves ==
  ASSUME TriggerInv, NEW t \in Triggers, SweepExpire(t)
  PROVE  TriggerInv' /\ SettledStep
<1> USE DEF TriggerInv
<1>0. /\ tick.step = "sweep" /\ t \in tick.todo /\ tick.at = None /\ tick.sid = None /\ Open(t)
      /\ UNCHANGED <<sess, cancelling, lastAnomalyAt, anomalies, clock, unrecorded>>
  BY DEF SweepExpire, TickHolds, Working, GateSteps, StartSteps, PatchSteps
<1>1. CASE SetStatus(t, "expired") /\ tick' = [tick EXCEPT !.todo = @ \ {t}]
  <2>1. /\ trigger' \in [Triggers -> TriggerType]
        /\ trigger'[t].status = "expired" /\ trigger'[t].conn = trigger[t].conn
        /\ \A u \in Triggers \ {t} : trigger'[u] = trigger[u]
    BY <1>1, StatusWritten
  <2>2. /\ tick' \in TickType /\ tick'.todo = tick.todo \ {t} /\ tick'.at = None /\ tick'.sid = None
        /\ tick'.step = "sweep"
    BY <1>0, <1>1 DEF TriggerShape, TickType
  <2>3. TriggerShape' /\ ConnOfActive' /\ SettledStep
    BY <1>0, <2>1, <2>2 DEF TriggerShape, ConnOfActive, SettledStep, Open
  <2>4. TickHolds'
    BY <1>0, <2>1, <2>2
    DEF TriggerShape, TickType, TickHolds, Open, Working, GateSteps, StartSteps, PatchSteps
  <2>5. StartsAreKept' /\ OneStart'
    BY <1>0, <2>1, <2>2, TriggerAssumption DEF StartsAreKept, OneStart
  <2> QED
    BY <2>3, <2>4, <2>5
<1>2. CASE tick' = Idle /\ UNCHANGED trigger
  <2>1. tick' \in TickType /\ TickHolds'
    BY <1>2 DEF Idle, TickType, TickHolds, Working, GateSteps, StartSteps, PatchSteps
  <2>2. StartsAreKept'
    BY <1>0, <1>2, TriggerAssumption DEF Idle, StartsAreKept
  <2> QED
    BY <1>0, <1>2, <2>1, <2>2, TickMoves DEF TriggerShape
<1> QED
  BY <1>1, <1>2 DEF SweepExpire

\* tryFire starts a session: the first of its trigger, unless a start was lost.
LEMMA FiringPreserves ==
  ASSUME SessionInv, TriggerInv, GateAllowsFree
  PROVE  SessionInv' /\ TriggerInv' /\ SettledStep
<1> USE DEF TriggerInv
<1>0. /\ tick.step \in Gates /\ tick.at \in Triggers /\ tick.sid = None /\ Open(tick.at)
      /\ UNCHANGED <<sessionRow, active, stale, trigger, cancelling, lastAnomalyAt, anomalies, clock, unrecorded>>
  BY DEF GateAllowsFree, TriggerShape, TickType, TickHolds, Working, Gates, GateSteps, StartSteps, PatchSteps
<1>1. PICK n \in Sessions : n = NewSession
  BY NewSessionIsUnused DEF GateAllowsFree, BeginSession
<1>2. PICK t \in Triggers : t = tick.at
  BY <1>0
<1>3. PICK c \in Conns : c = trigger[tick.at].conn
  BY <1>0 DEF Open
<1>4. BeginSession(c, t)
  BY <1>2, <1>3 DEF GateAllowsFree
<1>5. SessionInv'
  BY <1>0, <1>4, BeginPreserves DEF Starters
<1>6. \A s \in Sessions : sess'[s].by = IF s = n THEN t ELSE sess[s].by
  BY <1>1, <1>4 DEF BeginSession, SessionInv, SessionShape, SessionType
<1>7. /\ tick' \in TickType /\ tick'.at = t /\ tick'.sid = n /\ tick'.todo = tick.todo
      /\ tick'.step = StartStep
  BY <1>1, <1>2 DEF GateAllowsFree, TriggerShape, TickType, StartStep, Working, StartSteps
<1>8. TickHolds'
  <2>1. StartStep \in StartSteps /\ (StartStep = "eventStart" => tick.step = "eventGate")
    BY <1>0 DEF StartStep, Loop, Gates, StartSteps
  <2>2. tick'.todo = {} \/ tick'.step = "queueStart"
    BY <1>7, <2>1 DEF TickHolds, StartSteps
  <2> QED
    BY <1>0, <1>2, <1>7, <2>1, <2>2, TriggerAssumption, CaptureAssumption
    DEF TickHolds, Open, Working, GateSteps, StartSteps, PatchSteps
<1>9. \A u \in Triggers \ unrecorded : \A s \in Sessions : sess[s].by = u =>
        /\ u # t /\ u \notin tick.todo
        /\ trigger[u].status \in {"fired", "skipped", "cancelled", "expired"}
  BY <1>0, <1>2, CaptureAssumption DEF StartsAreKept
<1>10. StartsAreKept'
  BY <1>0, <1>6, <1>7, <1>9 DEF StartsAreKept
<1>11. OneStart'
  BY <1>0, <1>6, <1>9 DEF OneStart
<1>12. TriggerShape' /\ ConnOfActive' /\ SettledStep
  BY <1>0, <1>7 DEF TriggerShape, ConnOfActive, SettledStep
<1> QED
  BY <1>5, <1>8, <1>10, <1>11, <1>12

\* The patch settles the trigger, puts it in the queue before anything started,
\* or fails.
LEMMA PatchPreserves ==
  ASSUME TriggerInv, Patch
  PROVE  TriggerInv' /\ SettledStep
<1> USE DEF TriggerInv
<1>0. /\ tick.step \in PatchSteps /\ tick.at \in Triggers /\ Open(tick.at) /\ tick.at \notin tick.todo
      /\ tick.patch \in {"queued", "skipped", "fired"}
      /\ tick.patch = "queued" => tick.sid = None
      /\ UNCHANGED <<sess, cancelling, lastAnomalyAt, anomalies, clock>>
  BY DEF Patch, TriggerShape, TickType, TickHolds, Working, PatchSteps
<1>1. CASE SetStatus(tick.at, tick.patch) /\ tick' = Return /\ UNCHANGED unrecorded
  <2>0. PICK t \in Triggers, p \in {"queued", "skipped", "fired"} : t = tick.at /\ p = tick.patch
    BY <1>0
  <2>1. /\ trigger' \in [Triggers -> TriggerType]
        /\ trigger'[t].status = p /\ trigger'[t].conn = trigger[t].conn
        /\ \A u \in Triggers \ {t} : trigger'[u] = trigger[u]
    BY <1>1, <2>0, StatusWritten
  <2>2. /\ tick' \in TickType /\ tick'.todo = tick.todo /\ tick'.at = None /\ tick'.sid = None
        /\ tick'.step = Loop /\ Loop \in {"queue", "events"}
    BY <1>1 DEF Return, Loop, TriggerShape, TickType
  <2>3. TriggerShape' /\ ConnOfActive' /\ SettledStep
    BY <1>0, <2>0, <2>1, <2>2 DEF TriggerShape, ConnOfActive, SettledStep, Open
  <2>4. TickHolds'
    <3>1. Loop = "events" => tick.todo = {}
      BY <1>0 DEF Loop, TickHolds, PatchSteps
    <3>2. \A u \in tick.todo : u \in Triggers /\ u # t
      BY <1>0, <2>0 DEF TriggerShape, TickType
    <3> QED
      BY <1>0, <2>1, <2>2, <3>1, <3>2
      DEF TickHolds, Open, Working, GateSteps, StartSteps, PatchSteps
  <2>5. StartsAreKept' /\ OneStart'
    <3>1. \A s \in Sessions : t \notin unrecorded /\ sess[s].by = t => p # "queued"
      BY <1>0, <2>0, CaptureAssumption DEF StartsAreKept
    <3> QED
      BY <1>0, <1>1, <2>0, <2>1, <2>2, <3>1, TriggerAssumption DEF StartsAreKept, OneStart
  <2> QED
    BY <2>3, <2>4, <2>5
<1>2. CASE UNCHANGED <<trigger, unrecorded>> /\ tick.patch = "fired" /\ tick' = [tick EXCEPT !.patch = "skipped"]
  <2>1. /\ tick' \in TickType /\ tick'.todo = tick.todo /\ tick'.at = tick.at /\ tick'.sid = tick.sid
        /\ tick'.step = tick.step /\ tick'.patch = "skipped"
    BY <1>2 DEF TriggerShape, TickType
  <2>2. TickHolds'
    BY <1>0, <1>2, <2>1 DEF TickHolds, Open
  <2>3. StartsAreKept'
    BY <1>0, <1>2, <2>1 DEF StartsAreKept
  <2> QED
    BY <1>0, <1>2, <2>1, <2>2, <2>3, TickMoves DEF TriggerShape
<1>3. CASE UNCHANGED trigger /\ tick' = Idle /\ unrecorded' = unrecorded \union StartedUnrecorded
  <2>1. TriggerShape' /\ ConnOfActive' /\ SettledStep
    BY <1>0, <1>3 DEF Idle, TriggerShape, TickType, ConnOfActive, SettledStep
  <2>2. TickHolds'
    BY <1>3 DEF Idle, TickHolds, Working, GateSteps, StartSteps, PatchSteps
  <2>3. StartsAreKept' /\ OneStart'
    BY <1>0, <1>3, TriggerAssumption, CaptureAssumption
    DEF Idle, StartedUnrecorded, StartsAreKept, OneStart
  <2> QED
    BY <2>1, <2>2, <2>3
<1> QED
  BY <1>1, <1>2, <1>3 DEF Patch, AfterPatchFailure

LEMMA TriggersPreserve ==
  ASSUME SessionInv, TriggerInv, TriggersNext
  PROVE  SessionInv' /\ TriggerInv' /\ SettledStep
<1>1. CASE Advance \/ \E c \in Conns : Anomaly(c)
  <2>1. UNCHANGED <<sessionVars, trigger, cancelling, tick, lastAnomalyAt, unrecorded>>
    BY <1>1 DEF Advance, Anomaly
  <2>2. clock' \in 1..MaxClock /\ anomalies' \subseteq Anomalies
    BY <1>1, TriggerAssumption DEF Advance, Anomaly, TriggerInv, TriggerShape, Anomalies, Times
  <2>3. SessionInv'
    BY <2>1, SessionsUntouched DEF sessionVars
  <2> QED
    BY <2>1, <2>2, <2>3
    DEF TriggerInv, sessionVars, TriggerShape, ConnOfActive, TickHolds, Open, StartsAreKept, OneStart,
        SettledStep
<1>2. ASSUME NEW t \in Triggers,
             CreateSave(t) \/ CancelRead(t) \/ CancelWrite(t) \/ \E c \in Conns : CreateCheck(t, c)
      PROVE  SessionInv' /\ TriggerInv' /\ SettledStep
  <2>1. UNCHANGED <<sess, sessionRow, active, stale>>
    BY <1>2 DEF CreateSave, CancelRead, CancelWrite, CreateCheck, sessionVars
  <2> QED
    BY <1>2, <2>1, SessionsUntouched, RequestsPreserve
<1>3. CASE \/ SweepList \/ QueuedList \/ EventsList \/ EventsDone
           \/ GateDenies \/ GateThrows \/ GateAllowsBusy \/ StartReturns
           \/ \E t \in Triggers : QueuedNext(t)
           \/ \E e \in Anomalies : EventNext(e)
  <2>1. UNCHANGED sessionVars
    BY <1>3
    DEF SweepList, QueuedList, EventsList, EventsDone, GateDenies, GateThrows, GateAllowsBusy,
        StartReturns, QueuedNext, EventNext
  <2> QED
    BY <1>3, <2>1, SessionsUntouched, TickMovesPreserve DEF sessionVars
<1>4. ASSUME NEW t \in Triggers, SweepExpire(t)
      PROVE  SessionInv' /\ TriggerInv' /\ SettledStep
  BY <1>4, SessionsUntouched, SweepPreserves DEF SweepExpire
<1>5. CASE GateAllowsFree
  BY <1>5, FiringPreserves
<1>6. CASE Patch
  BY <1>6, SessionsUntouched, PatchPreserves DEF Patch
<1> QED
  BY <1>1, <1>2, <1>3, <1>4, <1>5, <1>6 DEF TriggersNext, TickStep

-----------------------------------------------------------------------------
(* Schedules.                                                              *)

FiringType ==
  [step : {"unused", "skip", "gate", "start", "over"}, sched : Schedules \union {None},
   sid : Sessions \union {None}]

\* A schedule nobody is creating or deleting has a timer exactly when it has a
\* row, but for the three partings `unsynced` records.
TimersMatchRows ==
  \A x \in Schedules \ (registering \union undoing \union deleting \union unsynced) :
    x \in timers <=> x \in scheduled

\* A schedule whose timer is still to be registered has its row, unless a delete
\* has overtaken it, and no timer; nor has one whose row is taken back.
CallsInStep ==
  /\ registering \subseteq scheduled \union unsynced
  /\ (registering \union undoing) \intersect timers = {}
  /\ registering \intersect undoing = {}
  /\ scheduled \union timers \union registering \union undoing \subseteq past

\* A tick that has begun is some schedule's.
ScheduleInv ==
  /\ firing \in [Firings -> FiringType]
  /\ \A f \in Firings : firing[f].step # "unused" => firing[f].sched \in Schedules
  /\ CallsInStep
  /\ TimersMatchRows

LEMMA SchedulesInitially == SchedulerInit => ScheduleInv
  BY DEF SchedulerInit, NotFired, ScheduleInv, FiringType, CallsInStep, TimersMatchRows

LEMMA FiringMoves ==
  ASSUME ScheduleInv, UNCHANGED <<scheduled, timers, registering, undoing, deleting, past, unsynced>>,
         NEW f \in Firings, NEW r \in FiringType, r.step # "unused" => r.sched \in Schedules,
         firing' = [firing EXCEPT ![f] = r]
  PROVE  ScheduleInv'
  BY DEF ScheduleInv, CallsInStep, TimersMatchRows

LEMMA SchedulerPreserves ==
  ASSUME SessionInv, TriggerInv, ScheduleInv, SchedulerNext, UNCHANGED triggerVars
  PROVE  SessionInv' /\ TriggerInv' /\ ScheduleInv' /\ SettledStep
<1>1. ASSUME NEW x \in Schedules,
             \/ SaveSchedule(x) \/ RegisterTimer(x) \/ RegisterTimerFails(x) \/ UndoSchedule(x)
             \/ DeleteRead(x) \/ DeleteSchedule(x)
      PROVE  SessionInv' /\ TriggerInv' /\ ScheduleInv' /\ SettledStep
  <2>1. UNCHANGED <<sess, sessionRow, active, stale, firing>>
    BY <1>1 DEF SaveSchedule, RegisterTimer, RegisterTimerFails, UndoSchedule, DeleteRead,
                DeleteSchedule, sessionVars
  <2>2. CallsInStep' /\ TimersMatchRows'
    <3> USE DEF ScheduleInv, CallsInStep, TimersMatchRows
    <3>1. CASE SaveSchedule(x)
      BY <3>1 DEF SaveSchedule
    <3>2. CASE RegisterTimer(x)
      BY <3>2 DEF RegisterTimer
    <3>3. CASE RegisterTimerFails(x)
      BY <3>3 DEF RegisterTimerFails
    <3>4. CASE UndoSchedule(x)
      BY <3>4 DEF UndoSchedule
    <3>5. CASE DeleteRead(x)
      BY <3>5 DEF DeleteRead
    <3>6. CASE DeleteSchedule(x)
      <4>1. timers' = timers \ {x} /\ UNCHANGED <<registering, undoing, past>> /\ deleting' = deleting \ {x}
        BY <3>6 DEF DeleteSchedule, UnregisterTimer
      <4>2. CASE scheduled' = scheduled \ {x} /\ unsynced' = unsynced \union (registering \intersect {x})
        BY <4>1, <4>2
      <4>3. CASE scheduled' = scheduled /\ unsynced' = unsynced \union {x}
        BY <4>1, <4>3
      <4> QED
        BY <3>6, <4>2, <4>3 DEF DeleteSchedule
    <3> QED
      BY <1>1, <3>1, <3>2, <3>3, <3>4, <3>5, <3>6
  <2> QED
    BY <2>1, <2>2, SessionsUntouched, TriggersUntouched DEF SameStarters, ScheduleInv
<1>2. ASSUME NEW f \in Firings, NEW x \in Schedules, Fire(f, x)
      PROVE  SessionInv' /\ TriggerInv' /\ ScheduleInv' /\ SettledStep
  <2>1. PICK r \in FiringType : r.sched = x /\ firing' = [firing EXCEPT ![f] = r]
    <3>1. PICK st \in {"skip", "gate"} :
            firing' = [firing EXCEPT ![f] = [step |-> st, sched |-> x, sid |-> None]]
      BY <1>2 DEF Fire
    <3>2. [step |-> st, sched |-> x, sid |-> None] \in FiringType
      BY DEF FiringType
    <3> QED
      BY <3>1, <3>2
  <2>2. ScheduleInv'
    BY <1>2, <2>1, FiringMoves DEF Fire
  <2> QED
    BY <1>2, <2>2, SessionsUntouched, TriggersUntouched DEF Fire, sessionVars, SameStarters
<1>3. ASSUME NEW f \in Firings, FireDenied(f) \/ FireConflicts(f) \/ FireReturns(f) \/ FireSkips(f)
      PROVE  SessionInv' /\ TriggerInv' /\ ScheduleInv' /\ SettledStep
  <2>1. PICK st \in {"skip", "over"} : firing' = [firing EXCEPT ![f].step = st]
    BY <1>3 DEF FireDenied, FireConflicts, FireReturns, FireSkips, Step
  <2>2. /\ firing[f].step # "unused"
        /\ UNCHANGED <<sess, sessionRow, active, stale, scheduled, timers, registering, undoing, deleting,
                       past, unsynced>>
    BY <1>3 DEF FireDenied, FireConflicts, FireReturns, FireSkips, sessionVars
  <2>3. /\ [firing[f] EXCEPT !.step = st] \in FiringType
        /\ [firing[f] EXCEPT !.step = st].sched = firing[f].sched
    BY DEF ScheduleInv, FiringType
  <2>4. PICK r \in FiringType : r = [firing[f] EXCEPT !.step = st]
    BY <2>3
  <2>5. ScheduleInv'
    BY <2>1, <2>2, <2>3, <2>4, FiringMoves DEF ScheduleInv
  <2> QED
    BY <2>2, <2>5, SessionsUntouched, TriggersUntouched DEF SameStarters
<1>4. ASSUME NEW f \in Firings, FireStarts(f)
      PROVE  SessionInv' /\ TriggerInv' /\ ScheduleInv' /\ SettledStep
  <2>1. PICK x \in Schedules : x = firing[f].sched
    BY <1>4 DEF FireStarts, ScheduleInv
  <2>2. PICK c \in Conns : c = ScheduleConn[x]
    BY ScheduleAssumption
  <2>3. BeginSession(c, x)
    BY <1>4, <2>1, <2>2 DEF FireStarts
  <2>4. SessionInv'
    BY <1>4, <2>3, BeginPreserves DEF FireStarts, Starters
  <2>5. TriggerInv' /\ SettledStep
    BY <2>3, OthersBegin, ClientsAssumption
  <2>6. PICK n \in Sessions : n = NewSession
    BY <2>3, NewSessionIsUnused DEF BeginSession
  <2>7. PICK r \in FiringType :
          r.sched = x /\ firing' = [firing EXCEPT ![f] = r]
    <3>1. /\ [firing[f] EXCEPT !.step = "start", !.sid = n] \in FiringType
          /\ [firing[f] EXCEPT !.step = "start", !.sid = n].sched = x
      BY <2>1 DEF ScheduleInv, FiringType
    <3> QED
      BY <1>4, <2>6, <3>1 DEF FireStarts
  <2>8. ScheduleInv'
    BY <1>4, <2>7, FiringMoves DEF FireStarts
  <2> QED
    BY <2>4, <2>5, <2>8
<1> QED
  BY <1>1, <1>2, <1>3, <1>4 DEF SchedulerNext, FireStep

-----------------------------------------------------------------------------
(* The subsystem.                                                          *)

CaptureInv == SessionInv /\ TriggerInv /\ ScheduleInv

LEMMA ByUntouched ==
  ASSUME SessionInv, SessionsNext \/ SessionsCrash \/ \E s \in Sessions : StopSession(s)
  PROVE  SameStarters
<1>1. CASE SessionsCrash
  BY <1>1 DEF SessionsCrash, SameStarters, SessionInv, SessionShape, SessionType
<1>2. ASSUME NEW s \in Sessions, NEW ph, NEW res,
             \/ sess' = [sess EXCEPT ![s].phase = ph]
             \/ sess' = [sess EXCEPT ![s] = [@ EXCEPT !.phase = ph, !.result = res]]
      PROVE  SameStarters
  <2>1. /\ [sess[s] EXCEPT !.phase = ph].by = sess[s].by
        /\ [sess[s] EXCEPT !.phase = ph, !.result = res].by = sess[s].by
    BY DEF SessionInv, SessionShape, SessionType
  <2> QED
    BY <1>2, <2>1 DEF SameStarters, SessionInv, SessionShape
<1>3. ASSUME NEW s \in Sessions, SessionStep(s) \/ SaveSessionFails(s) \/ OpenSourceFails(s) \/ StopSession(s)
      PROVE  SameStarters
  <2>1. \E ph, res :
             \/ sess' = [sess EXCEPT ![s].phase = ph]
             \/ sess' = [sess EXCEPT ![s] = [@ EXCEPT !.phase = ph, !.result = res]]
    BY <1>3
    DEF SessionStep, SaveSession, SaveSessionFails, OpenSource, OpenSourceFails, RecordOpenFailure,
        SessionWriterEnds, StopSession, FinalizeRow, AfterFinalize, LeaveActive, TerminateSession, Over
  <2> QED
    BY <1>2, <2>1
<1> QED
  BY <1>1, <1>3 DEF SessionsNext

LEMMA CrashAll ==
  ASSUME CaptureInv, Crash
  PROVE  CaptureInv' /\ SettledStep
<1> USE DEF CaptureInv
<1>1. SessionInv' /\ SameStarters
  BY CrashPreserves, ByUntouched DEF Crash
<1>2. /\ trigger' \in [Triggers -> TriggerType]
      /\ \A t \in Triggers : /\ trigger'[t].conn = trigger[t].conn
                             /\ trigger[t].status # "creating" => trigger'[t].status = trigger[t].status
                             /\ trigger[t].status = "creating" => trigger'[t].status = "refused"
  BY DEF Crash, TriggersCrash, TriggerInv, TriggerShape, TriggerType
<1>3. TriggerShape' /\ ConnOfActive' /\ SettledStep
  BY <1>2, TriggerAssumption
  DEF Crash, TriggersCrash, Idle, TriggerInv, TriggerShape, TickType, ConnOfActive, SettledStep
<1>4. TickHolds'
  BY DEF Crash, TriggersCrash, Idle, TickHolds, Working, GateSteps, StartSteps, PatchSteps
<1>5. StartsAreKept' /\ OneStart'
  BY <1>1, <1>2, TriggerAssumption, CaptureAssumption
  DEF Crash, TriggersCrash, Idle, StartedUnrecorded, SameStarters, TriggerInv, StartsAreKept, OneStart
<1>6. ScheduleInv'
  <2>1. /\ firing' \in [Firings -> FiringType]
        /\ \A f \in Firings : firing'[f].step # "unused" => firing'[f].sched \in Schedules
    BY DEF Crash, SchedulerCrash, NotFired, ScheduleInv, FiringType
  <2>2. CallsInStep' /\ TimersMatchRows'
    BY DEF Crash, SchedulerCrash, ScheduleInv, CallsInStep, TimersMatchRows
  <2> QED
    BY <2>1, <2>2 DEF ScheduleInv
<1> QED
  BY <1>1, <1>3, <1>4, <1>5, <1>6 DEF TriggerInv

LEMMA CaptureInitially == CaptureInit => CaptureInv
  BY SessionsInitially, TriggersInitially, SchedulesInitially DEF CaptureInit, CaptureInv

LEMMA CaptureStep ==
  ASSUME CaptureInv, [CaptureNext]_captureVars
  PROVE  CaptureInv' /\ SettledStep
<1> USE DEF CaptureInv
<1>0. ASSUME UNCHANGED scheduleVars PROVE ScheduleInv'
  BY <1>0 DEF scheduleVars, ScheduleInv, CallsInStep, TimersMatchRows
<1>1. CASE UsersNext /\ UNCHANGED <<triggerVars, scheduleVars, clients>>
  <2>1. ASSUME NEW c \in Conns, StartManual(c) PROVE TriggerInv' /\ SettledStep
    BY <1>1, <2>1, OthersBegin, TriggerAssumption DEF StartManual
  <2>2. ASSUME NEW s \in Sessions, StopSession(s) PROVE TriggerInv' /\ SettledStep
    BY <1>1, <2>2, ByUntouched, TriggersUntouched
  <2> QED
    BY <1>0, <1>1, <2>1, <2>2, UsersPreserve DEF UsersNext
<1>2. CASE SessionsNext /\ UNCHANGED <<triggerVars, scheduleVars, clients>>
  BY <1>0, <1>2, SessionsPreserve, ByUntouched, TriggersUntouched
<1>3. CASE TriggersNext /\ UNCHANGED <<scheduleVars, clients>>
  BY <1>0, <1>3, TriggersPreserve
<1>4. CASE SchedulerNext /\ UNCHANGED <<triggerVars, clients>>
  BY <1>4, SchedulerPreserves
<1>5. CASE Crash
  BY <1>5, CrashAll
<1>6. CASE UNCHANGED captureVars
  BY <1>0, <1>6, SessionsUntouched, TriggersUntouched DEF captureVars, sessionVars, SameStarters
<1> QED
  BY <1>1, <1>2, <1>3, <1>4, <1>5, <1>6 DEF CaptureNext

LEMMA CaptureInvariant == CaptureSpec => []CaptureInv
<1>1. CaptureInv /\ [CaptureNext]_captureVars => CaptureInv'
  BY CaptureStep
<1> QED
  BY <1>1, CaptureInitially, PTL DEF CaptureSpec

\* Whatever starts, ends, failures and crashes overlap, an entry of the service's
\* `active` map belongs to a session that will still remove it, and a row says
\* running only for a session in flight or after a lost final write.
THEOREM SessionsAccounted == CaptureSpec => []SessionBookkeeping
<1>1. CaptureInv => SessionBookkeeping
  BY CaptureAssumption
  DEF CaptureInv, SessionInv, SessionShape, EntriesEnd, SessionBookkeeping, ActiveIsOpen, InFlight
<1> QED
  BY <1>1, CaptureInvariant, PTL

\* tryFire starts at most one session for a trigger whose start was recorded.
THEOREM FiredOnce == CaptureSpec => []TriggerFiresOnce
<1>1. CaptureInv => TriggerFiresOnce
  <2> SUFFICES ASSUME CaptureInv, NEW t \in Triggers \ unrecorded
               PROVE  Cardinality({s \in Sessions : sess[s].by = t}) <= 1
    BY DEF TriggerFiresOnce
  <2> DEFINE S == {s \in Sessions : sess[s].by = t}
  <2>1. CASE S = {}
    BY <2>1, FS_EmptySet
  <2>2. CASE S # {}
    <3>1. PICK s : s \in S
      BY <2>2
    <3>2. S = {s}
      BY <3>1 DEF CaptureInv, TriggerInv, OneStart
    <3> HIDE DEF S
    <3>3. Cardinality(S) = 1
      BY <3>2, FS_Singleton
    <3> QED
      BY <3>3 DEF S
  <2> QED
    BY <2>1, <2>2
<1> QED
  BY <1>1, CaptureInvariant, PTL

\* A schedule's timer and its row part in three ways only: a delete that fails,
\* a delete that overtakes its createSchedule, and a restart beyond the page.
THEOREM SchedulesPart == CaptureSpec => []TimersMatchRows
<1>1. CaptureInv => TimersMatchRows
  BY DEF CaptureInv, ScheduleInv
<1> QED
  BY <1>1, CaptureInvariant, PTL

\* A settled trigger's row changes no more, save by a cancellation read before.
THEOREM TriggersStaySettled == CaptureSpec => SettledStays
<1>1. CaptureInv /\ [CaptureNext]_captureVars => [SettledStep]_trigger
  BY CaptureStep
<1>2. CaptureSpec => [][SettledStep]_trigger
  BY <1>1, CaptureInvariant, PTL DEF CaptureSpec
<1> QED
  BY <1>2 DEF SettledStays, SettledStep
=============================================================================
