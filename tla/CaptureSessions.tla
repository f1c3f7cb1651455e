--------------------------- MODULE CaptureSessions ---------------------------
(***************************************************************************)
(* MonitorCaptureService: MONITOR capture sessions of one process.         *)
(*                                                                         *)
(* A session goes through the awaits of startSession, startSingleSession   *)
(* and CaptureWriter.terminate; `phase` names the one it is in.  The map   *)
(* `active` is the process's; the rows are in storage and survive it.      *)
(* What a writer records is in CaptureWriter; here a recording is a span   *)
(* that any of its causes (duration, cap, error, stop) may end.            *)
(*                                                                         *)
(* The callers of startSession (the controller, the trigger registry and   *)
(* the scheduler) use BeginSession; each waits for the session's phase.    *)
(***************************************************************************)
EXTENDS Naturals, FiniteSets

CONSTANTS
  Conns,             \* connection ids
  Sessions,          \* session ids, one per call of startSession
  None,
  MaxCaptureFaults   \* failing storage calls and crashes, over the whole behaviour

ASSUME CaptureAssumption ==
  /\ None \notin Sessions \union {"running"}
  /\ MaxCaptureFaults \in Nat

VARIABLES
  sess,          \* per session: phase, connection, caller and result
  sessionRow,    \* its status in storage, None when there is no row
  active,        \* the service's map: connection -> session
  captureFaults, \* storage failures and crashes so far
  stale          \* sessions whose row a failure or a crash left behind

sessionVars == <<sess, sessionRow, active, captureFaults, stale>>

\* A truncated capture ends like a completed one.
Results == {"completed", "failed"}

InFlight == {"saving", "opening", "openFailed", "recording", "draining", "announcing"}

Fault ==
  /\ captureFaults < MaxCaptureFaults
  /\ captureFaults' = captureFaults + 1

SessionsInit ==
  /\ sess = [s \in Sessions |-> [phase |-> "unused", conn |-> None, by |-> None, result |-> None]]
  /\ sessionRow = [s \in Sessions |-> None]
  /\ active = [c \in Conns |-> None]
  /\ captureFaults = 0
  /\ stale = {}

HasActiveSessionOn(c) == active[c] # None

\* randomUUID: ids nobody has used are all alike, so the new one may be any.
Unused == {s \in Sessions : sess[s].phase = "unused"}
NewSession == CHOOSE s \in Unused : TRUE

\* startSession up to its first await, called by `caller` once it knows that
\* the connection is free: the check and the call are one synchronous step.
BeginSession(c, caller) ==
  /\ Unused # {}
  /\ sess' = [sess EXCEPT ![NewSession] = [@ EXCEPT !.phase = "saving", !.conn = c, !.by = caller]]

\* The controller's start.  A connection with an active session gets a
\* ConflictException, which changes nothing.
StartManual(c) ==
  /\ ~HasActiveSessionOn(c)
  /\ BeginSession(c, None)
  /\ UNCHANGED <<sessionRow, active, captureFaults, stale>>

\* Mutant of SaveSession: the connection is reserved with the row, and a start
\* that fails later does not release it.
SaveSessionReserves(s) ==
  /\ sess[s].phase = "saving"
  /\ sess' = [sess EXCEPT ![s].phase = "opening"]
  /\ sessionRow' = [sessionRow EXCEPT ![s] = "running"]
  /\ active' = [active EXCEPT ![sess[s].conn] = s]
  /\ UNCHANGED <<captureFaults, stale>>

SaveSession(s) ==
  /\ sess[s].phase = "saving"
  /\ sess' = [sess EXCEPT ![s].phase = "opening"]
  /\ sessionRow' = [sessionRow EXCEPT ![s] = "running"]
  /\ UNCHANGED <<active, captureFaults, stale>>

SaveSessionFails(s) ==
  /\ sess[s].phase = "saving"
  /\ sess' = [sess EXCEPT ![s].phase = "refused"]
  /\ Fault
  /\ UNCHANGED <<sessionRow, active, stale>>

\* The source is open: the writer starts and the map gets its entry, whatever
\* the map held.
OpenSource(s) ==
  /\ sess[s].phase = "opening"
  /\ sess' = [sess EXCEPT ![s].phase = "recording"]
  /\ active' = [active EXCEPT ![sess[s].conn] = s]
  /\ UNCHANGED <<sessionRow, captureFaults, stale>>

OpenSourceFails(s) ==
  /\ sess[s].phase = "opening"
  /\ sess' = [sess EXCEPT ![s].phase = "openFailed"]
  /\ UNCHANGED <<sessionRow, active, captureFaults, stale>>

\* The failed open is written to the row; either way the caller gets an error.
RecordOpenFailure(s) ==
  /\ sess[s].phase = "openFailed"
  /\ sess' = [sess EXCEPT ![s].phase = "refused"]
  /\ \/ /\ sessionRow' = [sessionRow EXCEPT ![s] = "failed"]
        /\ UNCHANGED <<captureFaults, stale>>
     \/ /\ Fault
        /\ stale' = stale \union {s}
        /\ UNCHANGED sessionRow
  /\ UNCHANGED active

TerminateSession(s, r) ==
  sess' = [sess EXCEPT ![s] = [@ EXCEPT !.phase = "draining", !.result = r]]

\* The writer ends by itself: its duration, a cap, a source error or end.
SessionWriterEnds(s) ==
  /\ sess[s].phase = "recording"
  /\ \E r \in Results : TerminateSession(s, r)
  /\ UNCHANGED <<sessionRow, active, captureFaults, stale>>

\* stopSession finds the session through the map, not through its row.
StopSession(s) ==
  /\ sess[s].phase = "recording"
  /\ \E c \in Conns : active[c] = s
  /\ TerminateSession(s, "completed")
  /\ UNCHANGED <<sessionRow, active, captureFaults, stale>>

\* The session's chain of awaits ends.
Over(s) == sess' = [sess EXCEPT ![s] = [@ EXCEPT !.phase = "over", !.result = None]]

\* What follows the last write of a writer: a failed capture announces nothing
\* and leaves the map at once, the others await their webhook first.
AfterFinalize(s) ==
  IF sess[s].result = "failed"
  THEN /\ Over(s)
       /\ active' = [active EXCEPT ![sess[s].conn] = None]
  ELSE /\ sess' = [sess EXCEPT ![s].phase = "announcing"]
       /\ UNCHANGED active

\* The queue is drained and the final status written, or the write fails and is
\* only logged.
FinalizeRow(s) ==
  /\ sess[s].phase = "draining"
  /\ \/ /\ sessionRow' = [sessionRow EXCEPT ![s] = sess[s].result]
        /\ UNCHANGED <<captureFaults, stale>>
     \/ /\ Fault
        /\ stale' = stale \union {s}
        /\ UNCHANGED sessionRow
  /\ AfterFinalize(s)

\* The ended event has been dispatched, or failed to be: the entry of the
\* connection goes, whichever session it names.
LeaveActive(s) ==
  /\ sess[s].phase = "announcing"
  /\ Over(s)
  /\ active' = [active EXCEPT ![sess[s].conn] = None]
  /\ UNCHANGED <<sessionRow, captureFaults, stale>>

\* The process dies and starts again: the map is empty and nothing visits the
\* rows that say running.
SessionsCrash ==
  /\ Fault
  /\ sess' = [s \in Sessions |->
                IF sess[s].phase \in InFlight
                THEN [sess[s] EXCEPT !.phase = "lost", !.result = None] ELSE sess[s]]
  /\ active' = [c \in Conns |-> None]
  /\ stale' = stale \union {s \in Sessions : sess[s].phase \in InFlight /\ sessionRow[s] = "running"}
  /\ UNCHANGED sessionRow

SessionStep(s) ==
  \/ SaveSession(s) \/ OpenSource(s) \/ RecordOpenFailure(s) \/ SessionWriterEnds(s)
  \/ FinalizeRow(s) \/ LeaveActive(s)

UsersNext ==
  \/ \E c \in Conns : StartManual(c)
  \/ \E s \in Sessions : StopSession(s)

SessionsNext ==
  \E s \in Sessions : SessionStep(s) \/ SaveSessionFails(s) \/ OpenSourceFails(s)

------------------------------------------------------------------------------
\* An entry of the active map always belongs to a session that still has its
\* own removal ahead of it, so no connection is left refusing captures for ever,
\* whatever starts, ends, failures and crashes overlap.
ActiveIsOpen ==
  \A c \in Conns : active[c] # None =>
    /\ sess[active[c]].phase \in InFlight
    /\ sess[active[c]].conn = c

\* A row says running only while its session is in flight in this process, or
\* after the write that should have ended it failed or its process died.
RunningRowsAreLive ==
  \A s \in Sessions : sessionRow[s] = "running" =>
    sess[s].phase \in {"opening", "openFailed", "recording", "draining"} \/ s \in stale

\* What the service keeps of a session, in memory and in storage, belongs to a
\* session under way, on every path through its start and its end.
SessionBookkeeping == ActiveIsOpen /\ RunningRowsAreLive

------------------------------------------------------------------------------
\* A claim the code does not keep.  "Throws ConflictException if another session
\* is already active on the same connection": at most one session records on a
\* connection.
OneSessionPerConnection ==
  \A s, t \in Sessions :
    /\ s # t
    /\ sess[s].phase = "recording"
    /\ sess[t].phase = "recording"
    => sess[s].conn # sess[t].conn
==============================================================================
