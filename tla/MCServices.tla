----------------------------- MODULE MCServices -----------------------------
(***************************************************************************)
(* The instances of the services that share no state with each other.  A   *)
(* behaviour belongs to one of them, its `part`: the others stand still,   *)
(* so that the state spaces add up instead of multiplying.                 *)
(***************************************************************************)
EXTENDS BulkDelete, MigrationExecution, ConnectionPoller, CaptureWriter, MCMonitorCapture

CONSTANTS n1, n2, k1, k2, k3, a1, a2, a3, Parts
VARIABLE part

servicesVars == <<bulkVars, migVars, connectionVars, writerVars, captureVars, part>>

\* Two keys on the connected node, so that a batch may exceed the limit, and one
\* on the other.
MCKeyHome == [k \in Keys |-> IF k = k3 THEN n2 ELSE n1]

OneCaller == {CHOOSE k \in Callers : TRUE}
OneJob == CHOOSE j \in Jobs : TRUE

\* One job, with any limit and faults; or two that may remove every key, without
\* faults (ids are alike: one of them is the first to start).
OneJobOnly == \A j \in Jobs \ {OneJob} : job'[j] = job[j]
TwoJobsNoFault ==
  /\ bulkFaults' = 0
  /\ job'[OneJob].pc # "none"
  /\ \A j \in Jobs : job'[j].pc # "none" =>
       job'[j].limit = Cardinality(Keys) /\ job'[j].mode = "execute"

\* Only the adapters of S are made; callers leave the default alone.
Few(S) == \A a \in Adapters \ S : adapter'[a] = "closed"
NoDefaults == \A k \in Callers : call'[k].op # "default" /\ ~call'[k].mark

InPart(p, step, others) == part = p /\ step /\ UNCHANGED others /\ UNCHANGED part

Bulk(p, step) == InPart(p, step, <<migVars, connectionVars, writerVars, captureVars>>)
Migration(step) == InPart("migration", step, <<bulkVars, connectionVars, writerVars, captureVars>>)
Connections(p, step) == InPart(p, step, <<bulkVars, migVars, writerVars, captureVars>>)
Writer(step) == InPart("writer", step, <<bulkVars, migVars, connectionVars, captureVars>>)
Capture(step) == InPart("capture", step, <<bulkVars, migVars, connectionVars, writerVars>>)

ConnectionParts == {"registry", "adapters", "links", "agents", "poller"}

\* What a service starts from varies only where it is the one that moves.
ServicesInit ==
  /\ BulkInit /\ MigInit /\ ConnectionInit /\ WriterInit /\ CaptureInit
  /\ part \in Parts
  /\ part \notin ConnectionParts => rows = {}
  /\ part # "capture" => clients = CHOOSE C \in Clients : TRUE

ServicesNext ==
  \/ Bulk("bulk", BulkNext /\ OneJobOnly)
  \/ Bulk("bulkPair", BulkNext /\ TwoJobsNoFault)
  \/ Migration(MigNext)
  \/ Connections("registry", (RegistryNext(Callers) \/ RestartAll) /\ Few({a1, a2}))
  \/ Connections("adapters", RegistryNext(Callers) /\ NoDefaults)
  \/ Connections("links", (RegistryNext(Callers) \/ LinkNext) /\ NoDefaults /\ registryFaults' = 0)
  \/ Connections("agents", (RegistryNext(OneCaller) \/ GatewayNext(OneCaller) \/ RestartAll) /\ Few({a1}))
  \/ Connections("poller", (RegistryNext(OneCaller) \/ LinkNext \/ PollerNext) /\ NoDefaults /\ Few({a1, a2}))
  \/ Writer(WriterNext)
  \/ Capture(CaptureNext /\ CaptureScope)

\* The kill timer of a stopped migration fires; the poll loop keeps ticking and
\* every poll ends; a capture's sources open, its duration timers fire and its
\* writes return; and what CaptureFairness says of sessions and triggers.
ServicesFairness ==
  /\ \A r \in Runs : WF_servicesVars(Migration(KillTimerFires(r)))
  /\ WF_servicesVars(Connections("poller", PollerNext))
  /\ WF_servicesVars(Writer(WriterStep))
  /\ WF_servicesVars(Writer(FinalizeFanOut))
  /\ \A w \in Writers : WF_servicesVars(Writer(SourceEnds(w)))
  /\ \A s \in Sessions :
       WF_servicesVars(Capture(SessionStep(s) /\ UNCHANGED <<triggerVars, scheduleVars, clients>>))
  /\ WF_servicesVars(Capture(TickStep /\ UNCHANGED <<scheduleVars, clients>>))
  /\ WF_servicesVars(Capture(Advance /\ UNCHANGED <<scheduleVars, clients>>))

ServicesSpec == ServicesInit /\ [][ServicesNext]_servicesVars /\ ServicesFairness
=============================================================================
