--------------------------- MODULE CaptureTriggers ---------------------------
(***************************************************************************)
(* CaptureTriggerRegistry: triggers that start a capture session when an   *)
(* anomaly arrives, and the polling tick that expires, retries and fires   *)
(* them.                                                                   *)
(*                                                                         *)
(* Metric and anomaly type are folded into the connection: a trigger and   *)
(* an anomaly match when their connections do.  A storage query returns    *)
(* every row it selects: fewer than the 100 rows of a default page.        *)
(***************************************************************************)
EXTENDS CaptureSessions

CONSTANTS
  Triggers,      \* trigger ids, one per call of createTrigger
  MaxAnomalies,  \* anomaly events stored over the whole behaviour
  MaxClock       \* the clock, which stamps triggers and anomalies, stops here

ASSUME TriggerAssumption ==
  /\ None \notin Triggers
  /\ MaxAnomalies \in Nat
  /\ MaxClock \in Nat \ {0}

VARIABLES
  trigger,       \* rows: status, connection, createdAt, expiresAt
  cancelling,    \* triggers a cancelTrigger call has read and not yet written
  tick,          \* the registry's polling iteration
  lastAnomalyAt, \* the watermark
  anomalies,     \* stored anomaly events
  clock,
  unrecorded     \* triggers whose start a failed write or a crash left unrecorded

triggerVars == <<trigger, cancelling, tick, lastAnomalyAt, anomalies, clock, unrecorded>>

Times == 1..MaxClock
Anomalies == [conn : Conns, at : Times]

NoTrigger == [status |-> "unused", conn |-> None, createdAt |-> 0, expiresAt |-> 0]

\* `step` is the await the tick is in; `todo` the triggers and `events` the
\* anomalies left of the list in hand; `at`, `status` and `patch` belong to the
\* trigger `at` that tryFire works on: the status it was read with, the session
\* it started and the patch it is about to write.
Idle == [step |-> "idle", todo |-> {}, events |-> {}, high |-> 0,
         at |-> None, status |-> None, sid |-> None, patch |-> None]

\* The process started at time 0, a moment ago.
TriggersInit ==
  /\ trigger = [t \in Triggers |-> NoTrigger]
  /\ cancelling = {}
  /\ tick = Idle
  /\ lastAnomalyAt = 0
  /\ anomalies = {}
  /\ clock = 1
  /\ unrecorded = {}

ActiveTrigger(t) == trigger[t].status \in {"configured", "queued"}

FindActiveTriggers(c) == {t \in Triggers : ActiveTrigger(t) /\ trigger[t].conn = c}

SetStatus(t, st) == trigger' = [trigger EXCEPT ![t].status = st]

\* Time passes, and a detector stores an anomaly it may have stamped earlier.
Advance ==
  /\ clock < MaxClock
  /\ clock' = clock + 1
  /\ UNCHANGED <<sessionVars, trigger, cancelling, tick, lastAnomalyAt, anomalies, unrecorded>>

Anomaly(c) ==
  /\ Cardinality(anomalies) < MaxAnomalies
  /\ \E at \in 1..clock : anomalies' = anomalies \union {[conn |-> c, at |-> at]}
  /\ UNCHANGED <<sessionVars, trigger, cancelling, tick, lastAnomalyAt, clock, unrecorded>>

\* createTrigger: look for a conflicting trigger, then insert.
CreateCheck(t, c) ==
  /\ trigger[t].status = "unused"
  /\ FindActiveTriggers(c) = {}
  /\ \E exp \in clock..MaxClock :
       trigger' = [trigger EXCEPT ![t] =
         [status |-> "creating", conn |-> c, createdAt |-> clock, expiresAt |-> exp]]
  /\ UNCHANGED <<sessionVars, cancelling, tick, lastAnomalyAt, anomalies, clock, unrecorded>>

CreateSave(t) ==
  /\ trigger[t].status = "creating"
  /\ \/ SetStatus(t, "configured") /\ UNCHANGED captureFaults
     \/ SetStatus(t, "refused") /\ Fault
  /\ UNCHANGED <<sess, sessionRow, active, stale,
                 cancelling, tick, lastAnomalyAt, anomalies, clock, unrecorded>>

\* cancelTrigger: read the row, then write without looking again.
CancelRead(t) ==
  /\ ActiveTrigger(t)
  /\ cancelling' = cancelling \union {t}
  /\ UNCHANGED <<sessionVars, trigger, tick, lastAnomalyAt, anomalies, clock, unrecorded>>

CancelWrite(t) ==
  /\ t \in cancelling
  /\ cancelling' = cancelling \ {t}
  /\ \/ SetStatus(t, "cancelled") /\ UNCHANGED captureFaults
     \/ UNCHANGED trigger /\ Fault
  /\ UNCHANGED <<sess, sessionRow, active, stale,
                 tick, lastAnomalyAt, anomalies, clock, unrecorded>>

------------------------------------------------------------------------------
(* The tick: sweepExpired, processQueued, processNewAnomalies.             *)

\* Mutant of Expirable: the sweep asks for configured triggers only.
ExpirableConfigured == {t \in Triggers : trigger[t].status = "configured" /\ trigger[t].expiresAt <= clock}

Expirable == {t \in Triggers : ActiveTrigger(t) /\ trigger[t].expiresAt <= clock}

Queued == {t \in Triggers : trigger[t].status = "queued"}

\* The interval fires while no tick runs: the sweep lists what has expired.
SweepList ==
  /\ tick.step = "idle"
  /\ tick' = [tick EXCEPT !.step = "sweep", !.todo = Expirable]
  /\ UNCHANGED <<sessionVars, trigger, cancelling, lastAnomalyAt, anomalies, clock, unrecorded>>

SweepExpire(t) ==
  /\ tick.step = "sweep"
  /\ t \in tick.todo
  /\ \/ /\ SetStatus(t, "expired")
        /\ tick' = [tick EXCEPT !.todo = @ \ {t}]
        /\ UNCHANGED captureFaults
     \/ Fault /\ tick' = Idle /\ UNCHANGED trigger
  /\ UNCHANGED <<sess, sessionRow, active, stale,
                 cancelling, lastAnomalyAt, anomalies, clock, unrecorded>>

\* Mutant of QueuedList: the queue is the one read before the sweep expired it.
QueuedListStale ==
  /\ tick.step = "sweep"
  /\ tick.todo = {}
  /\ tick' = [tick EXCEPT !.step = "queue",
                          !.todo = {t \in Triggers : trigger[t].status \in {"queued", "expired"}}]
  /\ UNCHANGED <<sessionVars, trigger, cancelling, lastAnomalyAt, anomalies, clock, unrecorded>>

\* The sweep is done and processQueued reads its list.
QueuedList ==
  /\ tick.step = "sweep"
  /\ tick.todo = {}
  /\ tick' = [tick EXCEPT !.step = "queue", !.todo = Queued]
  /\ UNCHANGED <<sessionVars, trigger, cancelling, lastAnomalyAt, anomalies, clock, unrecorded>>

\* One queued trigger: its connection is still busy, or tryFire begins with the
\* row as it was listed.
QueuedNext(t) ==
  /\ tick.step = "queue"
  /\ t \in tick.todo
  /\ tick' = IF HasActiveSessionOn(trigger[t].conn)
             THEN [tick EXCEPT !.todo = @ \ {t}]
             ELSE [tick EXCEPT !.todo = @ \ {t}, !.step = "queueGate", !.at = t, !.status = "queued"]
  /\ UNCHANGED <<sessionVars, trigger, cancelling, lastAnomalyAt, anomalies, clock, unrecorded>>

\* The queue is done: the anomalies above the watermark are read.
EventsList ==
  /\ tick.step = "queue"
  /\ tick.todo = {}
  /\ LET new == {e \in anomalies : e.at > lastAnomalyAt}
     IN tick' = IF new = {} THEN Idle
                ELSE [Idle EXCEPT !.step = "events", !.events = new, !.high = lastAnomalyAt]
  /\ UNCHANGED <<sessionVars, trigger, cancelling, lastAnomalyAt, anomalies, clock, unrecorded>>

\* The next anomaly, oldest first: the trigger it matches is read from storage,
\* a configured one before a queued one, and fires if it is configured and not
\* younger than the anomaly.
EventNext(e) ==
  /\ tick.step = "events"
  /\ e \in tick.events
  /\ \A f \in tick.events : e.at <= f.at
  /\ LET rest  == [tick EXCEPT !.events = @ \ {e}, !.high = e.at]
         found == {t \in FindActiveTriggers(e.conn) : trigger[t].status # "queued"}
     IN \/ /\ found = {}
           /\ tick' = rest
        \/ \E t \in found :
             tick' = IF e.at >= trigger[t].createdAt
                     THEN [rest EXCEPT !.step = "eventGate", !.at = t, !.status = "configured"]
                     ELSE rest
  /\ UNCHANGED <<sessionVars, trigger, cancelling, lastAnomalyAt, anomalies, clock, unrecorded>>

\* Every anomaly has been looked at: the watermark moves.
EventsDone ==
  /\ tick.step = "events"
  /\ tick.events = {}
  /\ lastAnomalyAt' = tick.high
  /\ tick' = Idle
  /\ UNCHANGED <<sessionVars, trigger, cancelling, anomalies, clock, unrecorded>>

------------------------------------------------------------------------------
(* tryFire, called from the queue or from the anomalies.                    *)

Gates == {"queueGate", "eventGate"}
Loop == IF tick.step \in {"queueGate", "queueStart", "queuePatch"} THEN "queue" ELSE "events"

\* The next await of tryFire, in the loop that called it.
StartStep == IF Loop = "queue" THEN "queueStart" ELSE "eventStart"
PatchStep == IF Loop = "queue" THEN "queuePatch" ELSE "eventPatch"

Return == [tick EXCEPT !.step = Loop, !.at = None, !.status = None, !.sid = None, !.patch = None]

\* The health gate denies, or cannot be asked: an unknown or unreachable
\* connection throws out of the whole tick.
GateDenies ==
  /\ tick.step \in Gates
  /\ tick' = [tick EXCEPT !.step = PatchStep, !.patch = "skipped"]
  /\ UNCHANGED <<sessionVars, trigger, cancelling, lastAnomalyAt, anomalies, clock, unrecorded>>

GateThrows ==
  /\ tick.step \in Gates
  /\ tick' = Idle
  /\ UNCHANGED <<sessionVars, trigger, cancelling, lastAnomalyAt, anomalies, clock, unrecorded>>

\* The gate allows and the connection is busy: the trigger is queued, if it is
\* not already.
GateAllowsBusy ==
  /\ tick.step \in Gates
  /\ HasActiveSessionOn(trigger[tick.at].conn)
  /\ tick' = IF tick.status = "queued" THEN Return
             ELSE [tick EXCEPT !.step = PatchStep, !.patch = "queued"]
  /\ UNCHANGED <<sessionVars, trigger, cancelling, lastAnomalyAt, anomalies, clock, unrecorded>>

\* The gate allows and the connection is free: startSession is called at once.
GateAllowsFree ==
  /\ tick.step \in Gates
  /\ ~HasActiveSessionOn(trigger[tick.at].conn)
  /\ BeginSession(trigger[tick.at].conn, tick.at)
  /\ tick' = [tick EXCEPT !.step = StartStep, !.sid = NewSession]
  /\ UNCHANGED <<sessionRow, active, captureFaults, stale,
                 trigger, cancelling, lastAnomalyAt, anomalies, clock, unrecorded>>

\* startSession returns the session or throws.
StartReturns ==
  /\ tick.step \in {"queueStart", "eventStart"}
  /\ sess[tick.sid].phase \notin {"saving", "opening", "openFailed"}
  /\ tick' = [tick EXCEPT !.step = PatchStep,
                          !.patch = IF sess[tick.sid].phase = "refused" THEN "skipped" ELSE "fired"]
  /\ UNCHANGED <<sessionVars, trigger, cancelling, lastAnomalyAt, anomalies, clock, unrecorded>>

\* The trigger a tick that stops here has started a session for, if any.
StartedUnrecorded == IF tick.sid = None THEN {} ELSE {tick.at}

\* Mutant of AfterPatchFailure: a lost "fired" puts the trigger back in line.
AfterPatchFailureRequeues ==
  IF tick.patch = "fired"
  THEN /\ tick' = [tick EXCEPT !.patch = "queued"]
       /\ UNCHANGED unrecorded
  ELSE /\ tick' = Idle
       /\ unrecorded' = unrecorded \union StartedUnrecorded

\* The write fails.  After a start the catch block tries "skipped" once; any
\* other failure leaves the tick.
AfterPatchFailure ==
  IF tick.patch = "fired"
  THEN /\ tick' = [tick EXCEPT !.patch = "skipped"]
       /\ UNCHANGED unrecorded
  ELSE /\ tick' = Idle
       /\ unrecorded' = unrecorded \union StartedUnrecorded

\* The unconditional patch of the trigger's row.
Patch ==
  /\ tick.step \in {"queuePatch", "eventPatch"}
  /\ \/ /\ SetStatus(tick.at, tick.patch)
        /\ tick' = Return
        /\ UNCHANGED <<captureFaults, unrecorded>>
     \/ /\ Fault
        /\ AfterPatchFailure
        /\ UNCHANGED trigger
  /\ UNCHANGED <<sess, sessionRow, active, stale, cancelling, lastAnomalyAt, anomalies, clock>>

------------------------------------------------------------------------------
\* The process dies and starts again: the watermark is the present, and calls
\* and tick are gone.  The sessions' part is SessionsCrash.
TriggersCrash ==
  /\ trigger' = [t \in Triggers |->
       IF trigger[t].status = "creating" THEN [trigger[t] EXCEPT !.status = "refused"] ELSE trigger[t]]
  /\ cancelling' = {}
  /\ tick' = Idle
  /\ lastAnomalyAt' = clock
  /\ unrecorded' = unrecorded \union StartedUnrecorded
  /\ UNCHANGED <<anomalies, clock>>

TickStep ==
  \/ SweepList \/ QueuedList \/ EventsList \/ EventsDone
  \/ GateDenies \/ GateThrows \/ GateAllowsBusy \/ GateAllowsFree \/ StartReturns \/ Patch
  \/ \E t \in Triggers : SweepExpire(t) \/ QueuedNext(t)
  \/ \E e \in Anomalies : EventNext(e)

TriggersNext ==
  \/ Advance
  \/ \E c \in Conns : Anomaly(c)
  \/ \E t \in Triggers : CreateSave(t) \/ CancelRead(t) \/ CancelWrite(t)
                         \/ \E c \in Conns : CreateCheck(t, c)
  \/ TickStep

------------------------------------------------------------------------------
\* A trigger whose start was recorded never starts another session: neither a
\* second anomaly, nor the replay of the same one by an aborted tick, nor a
\* cancellation that crosses the firing makes it fire again.
TriggerFiresOnce ==
  \A t \in Triggers \ unrecorded : Cardinality({s \in Sessions : sess[s].by = t}) <= 1

\* A trigger that has fired, been skipped or expired is settled: the only thing
\* that may still happen to its row is a cancellation that had read it before.
SettledStays ==
  [][\A t \in Triggers :
       trigger[t].status \in {"fired", "skipped", "expired"} =>
         trigger'[t].status \in {trigger[t].status, "cancelled"}]_trigger

\* No trigger waits for ever: expiry reaches it even if its connection is gone
\* and every tick that tries to fire it fails at the health gate.
TriggersSettle == \A t \in Triggers : []<>(~ActiveTrigger(t))
==============================================================================
