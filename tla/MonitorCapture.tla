--------------------------- MODULE MonitorCapture ---------------------------
(***************************************************************************)
(* The MONITOR capture subsystem: sessions started by users, by triggers   *)
(* and by schedules, in one process that may crash.                        *)
(***************************************************************************)
EXTENDS CaptureTriggers, CaptureScheduler

CONSTANT
  Clients    \* the sets of callers that may use the service together

ASSUME ClientsAssumption ==
  /\ Clients \subseteq SUBSET {"users", "triggers", "schedules"}
  /\ Triggers \intersect Schedules = {}

VARIABLE
  clients    \* the callers of this behaviour

captureVars == <<sessionVars, triggerVars, scheduleVars, clients>>

CaptureInit ==
  /\ SessionsInit
  /\ TriggersInit
  /\ SchedulerInit
  /\ clients \in Clients

Crash ==
  /\ SessionsCrash
  /\ TriggersCrash
  /\ SchedulerCrash
  /\ UNCHANGED clients

CaptureNext ==
  \/ "users" \in clients /\ UsersNext /\ UNCHANGED <<triggerVars, scheduleVars, clients>>
  \/ SessionsNext /\ UNCHANGED <<triggerVars, scheduleVars, clients>>
  \/ "triggers" \in clients /\ TriggersNext /\ UNCHANGED <<scheduleVars, clients>>
  \/ "schedules" \in clients /\ SchedulerNext /\ UNCHANGED <<triggerVars, clients>>
  \/ Crash

\* The duration timer ends every recording and the awaits of a session all
\* return; the poll interval keeps ticking and its awaits return; time passes.
CaptureFairness ==
  /\ \A s \in Sessions :
       WF_captureVars(SessionStep(s) /\ UNCHANGED <<triggerVars, scheduleVars, clients>>)
  /\ WF_captureVars(TickStep /\ UNCHANGED <<scheduleVars, clients>>)
  /\ WF_captureVars(Advance /\ UNCHANGED <<scheduleVars, clients>>)

CaptureSpec == CaptureInit /\ [][CaptureNext]_captureVars /\ CaptureFairness
=============================================================================
