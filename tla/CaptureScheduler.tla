--------------------------- MODULE CaptureScheduler ---------------------------
(***************************************************************************)
(* CaptureScheduler: schedules in storage, their timers in the process and *)
(* the ticks that start sessions through MonitorCaptureService.            *)
(*                                                                         *)
(* Interval and cron timers behave alike here, and a schedule that passed  *)
(* validation has one of the two.  A schedule's ticks do not exclude each  *)
(* other, so each is a chain of its own.                                   *)
(***************************************************************************)
EXTENDS CaptureSessions

CONSTANTS
  Schedules,      \* schedule ids, one per call of createSchedule
  ScheduleConn,   \* the connection each one captures
  Firings,        \* ticks of the schedules' timers
  SchedulePage    \* rows the restart reads: the default page of the query

ASSUME ScheduleAssumption ==
  /\ None \notin Schedules
  /\ ScheduleConn \in [Schedules -> Conns]
  /\ SchedulePage \in Nat

VARIABLES
  scheduled,    \* schedules that have a row, every one enabled
  timers,       \* schedules that have a timer in this process
  registering,  \* createSchedule calls between the row and the timer
  undoing,      \* createSchedule calls that delete their row again
  deleting,     \* deleteSchedule calls between the read and the delete
  past,         \* schedules whose createSchedule call has been made
  lastFired,    \* per schedule: the session its row says it fired last
  lastSkip,     \* schedules whose row holds a skip reason
  firing,       \* per tick: its step, schedule and session
  unsynced      \* history: schedules whose row and timer a failed delete, a delete
                \* that overtook the create, or a restart parted

scheduleVars ==
  <<scheduled, timers, registering, undoing, deleting, past, lastFired, lastSkip, firing, unsynced>>

NotFired == [step |-> "unused", sched |-> None, sid |-> None]

SchedulerInit ==
  /\ scheduled = {}
  /\ timers = {}
  /\ registering = {}
  /\ undoing = {}
  /\ deleting = {}
  /\ past = {}
  /\ lastFired = [x \in Schedules |-> None]
  /\ lastSkip = {}
  /\ firing = [f \in Firings |-> NotFired]
  /\ unsynced = {}

\* createSchedule: the row is saved, and the timer registered after the await.
SaveSchedule(x) ==
  /\ x \notin past
  /\ past' = past \union {x}
  /\ scheduled' = scheduled \union {x}
  /\ registering' = registering \union {x}
  /\ UNCHANGED <<sessionVars, timers, undoing, deleting, lastFired, lastSkip, firing, unsynced>>

RegisterTimer(x) ==
  /\ x \in registering
  /\ registering' = registering \ {x}
  /\ timers' = timers \union {x}
  /\ UNCHANGED <<sessionVars, scheduled, undoing, deleting, past, lastFired, lastSkip, firing, unsynced>>

\* registerTimer throws: a cron expression may parse and have no next date.
RegisterTimerFails(x) ==
  /\ x \in registering
  /\ registering' = registering \ {x}
  /\ undoing' = undoing \union {x}
  /\ UNCHANGED <<sessionVars, scheduled, timers, deleting, past, lastFired, lastSkip, firing, unsynced>>

\* createSchedule's catch deletes the row again; that may fail too.
UndoSchedule(x) ==
  /\ x \in undoing
  /\ undoing' = undoing \ {x}
  /\ \/ scheduled' = scheduled \ {x} /\ UNCHANGED <<captureFaults, unsynced>>
     \/ Fault /\ unsynced' = unsynced \union {x} /\ UNCHANGED scheduled
  /\ UNCHANGED <<sess, sessionRow, active, stale, timers, registering, deleting, past, lastFired,
                 lastSkip, firing>>

\* deleteSchedule: read the row, then unregister the timer and delete the row.
DeleteRead(x) ==
  /\ x \in scheduled
  /\ deleting' = deleting \union {x}
  /\ UNCHANGED <<sessionVars, scheduled, timers, registering, undoing, past, lastFired, lastSkip, firing, unsynced>>

UnregisterTimer(x) == timers' = timers \ {x}

DeleteSchedule(x) ==
  /\ x \in deleting
  /\ deleting' = deleting \ {x}
  /\ UnregisterTimer(x)
  /\ \/ /\ scheduled' = scheduled \ {x}
        /\ unsynced' = unsynced \union (registering \intersect {x})
        /\ UNCHANGED captureFaults
     \/ /\ Fault
        /\ unsynced' = unsynced \union {x}
        /\ UNCHANGED scheduled
  /\ UNCHANGED <<sess, sessionRow, active, stale, registering, undoing, past, lastFired, lastSkip, firing>>

------------------------------------------------------------------------------
Step(f, st) == firing' = [firing EXCEPT ![f].step = st]

\* A timer goes off.  While a session is active on the connection the tick only
\* records the skip; otherwise it awaits the health gate.
Fire(f, x) ==
  /\ firing[f].step = "unused"
  /\ x \in timers
  /\ firing' = [firing EXCEPT ![f] =
       [step |-> IF HasActiveSessionOn(ScheduleConn[x]) THEN "skip" ELSE "gate",
        sched |-> x, sid |-> None]]
  /\ UNCHANGED <<sessionVars, scheduled, timers, registering, undoing, deleting, past, lastFired, lastSkip, unsynced>>

\* The gate denies; or throws, which ends the tick.
FireDenied(f) ==
  /\ firing[f].step = "gate"
  /\ \/ Step(f, "skip")
     \/ Step(f, "over")
  /\ UNCHANGED <<sessionVars, scheduled, timers, registering, undoing, deleting, past, lastFired, lastSkip, unsynced>>

\* The gate allows, and startSession looks at the connection again.
FireConflicts(f) ==
  /\ firing[f].step = "gate"
  /\ HasActiveSessionOn(ScheduleConn[firing[f].sched])
  /\ Step(f, "skip")
  /\ UNCHANGED <<sessionVars, scheduled, timers, registering, undoing, deleting, past, lastFired, lastSkip, unsynced>>

FireStarts(f) ==
  /\ firing[f].step = "gate"
  /\ ~HasActiveSessionOn(ScheduleConn[firing[f].sched])
  /\ BeginSession(ScheduleConn[firing[f].sched], firing[f].sched)
  /\ firing' = [firing EXCEPT ![f] = [@ EXCEPT !.step = "start", !.sid = NewSession]]
  /\ UNCHANGED <<sessionRow, active, captureFaults, stale,
                 scheduled, timers, registering, undoing, deleting, past, lastFired, lastSkip, unsynced>>

\* startSession returns the session, which is recorded, or throws.  A recording
\* that fails is caught like a start that failed.
FireReturns(f) ==
  /\ firing[f].step = "start"
  /\ sess[firing[f].sid].phase \notin {"saving", "opening", "openFailed"}
  /\ \/ /\ sess[firing[f].sid].phase # "refused"
        /\ lastFired' = IF firing[f].sched \in scheduled
                        THEN [lastFired EXCEPT ![firing[f].sched] = firing[f].sid] ELSE lastFired
        /\ Step(f, "over")
        /\ UNCHANGED captureFaults
     \/ /\ sess[firing[f].sid].phase # "refused" /\ Fault
        /\ Step(f, "skip")
        /\ UNCHANGED lastFired
     \/ /\ sess[firing[f].sid].phase = "refused"
        /\ Step(f, "skip")
        /\ UNCHANGED <<lastFired, captureFaults>>
  /\ UNCHANGED <<sess, sessionRow, active, stale,
                 scheduled, timers, registering, undoing, deleting, past, lastSkip, unsynced>>

\* The reason a tick was skipped is written, or the write fails and is logged.
\* Nothing ever takes it back: the adapter ignores the undefined of a success.
FireSkips(f) ==
  /\ firing[f].step = "skip"
  /\ Step(f, "over")
  /\ \/ /\ lastSkip' = lastSkip \union (scheduled \intersect {firing[f].sched})
        /\ UNCHANGED captureFaults
     \/ Fault /\ UNCHANGED lastSkip
  /\ UNCHANGED <<sess, sessionRow, active, stale,
                 scheduled, timers, registering, undoing, deleting, past, lastFired, unsynced>>

------------------------------------------------------------------------------
\* onModuleInit reads one page of enabled schedules and registers their timers.
Restored(page) ==
  /\ page \subseteq scheduled
  /\ Cardinality(page) = IF Cardinality(scheduled) <= SchedulePage
                         THEN Cardinality(scheduled) ELSE SchedulePage

\* The process dies and starts again.  The sessions' part is SessionsCrash.
SchedulerCrash ==
  /\ \E page \in SUBSET scheduled :
       /\ Restored(page)
       /\ timers' = page
       /\ unsynced' = scheduled \ page
  /\ registering' = {}
  /\ undoing' = {}
  /\ deleting' = {}
  /\ firing' = [f \in Firings |-> IF firing[f].step = "unused" THEN NotFired
                                  ELSE [firing[f] EXCEPT !.step = "over"]]
  /\ UNCHANGED <<scheduled, past, lastFired, lastSkip>>

FireStep(f) ==
  \/ FireDenied(f) \/ FireConflicts(f) \/ FireStarts(f) \/ FireReturns(f) \/ FireSkips(f)

SchedulerNext ==
  \/ \E x \in Schedules :
       \/ SaveSchedule(x) \/ RegisterTimer(x) \/ RegisterTimerFails(x) \/ UndoSchedule(x)
       \/ DeleteRead(x) \/ DeleteSchedule(x)
  \/ \E f \in Firings : FireStep(f) \/ \E x \in Schedules : Fire(f, x)

------------------------------------------------------------------------------
\* "create/delete keep the timer map and storage in sync" (CaptureScheduler): a
\* schedule nobody is creating or deleting has a timer exactly when it has a row.
TimersInSync ==
  \A x \in Schedules \ (registering \union undoing \union deleting) :
    x \in timers <=> x \in scheduled
===============================================================================
