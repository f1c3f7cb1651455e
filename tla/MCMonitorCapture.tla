-------------------------- MODULE MCMonitorCapture --------------------------
(* The instance of MonitorCapture that TLC checks: users, a trigger and    *)
(* schedules, by themselves and in pairs.                                  *)
EXTENDS MonitorCapture
CONSTANTS m1, x1, x2
MCConn == [x \in Schedules |-> m1]

\* Users share a process with one schedule, or with a trigger.  Beside a trigger
\* they start one session and nothing fails: both happen to each by itself.
ManualSessions == {s \in Sessions : sess[s].phase # "unused" /\ sess[s].by = None}
CaptureScope ==
  /\ clients = {"users", "schedules"} => past' \subseteq {x1}
  /\ clients = {"users", "triggers"} => captureFaults' = 0 /\ Cardinality(ManualSessions') <= 1

MCSpec ==
  /\ CaptureInit
  /\ [][CaptureNext /\ CaptureScope]_captureVars
  /\ CaptureFairness
=============================================================================
