# Formal models of BetterDB Monitor

TLA+ models of the parts of BetterDB Monitor (`src/`) whose correctness depends
on how asynchronous steps interleave, what survives a crash and which writes are
conditional. TLC checks the models on small instances; TLAPS proves the central
safety properties for every value of the constants.

## The system and what is hard about it

The API (`apps/api`, NestJS, one Node.js process) polls Valkey/Redis servers,
stores observations through a storage port (Postgres, SQLite or in memory),
sends webhooks, and lets AI agents propose changes that a person reviews.
Everything runs on one thread, but **every `await` is a point at which other
chains run**: two API requests, a timer and a request, a cron and a request.
Rows survive a crash; chains do not. There are no transactions around a
read-then-write; the only atomic things are single storage calls, some of which
are compare-and-set updates (`expected_status`) or are backed by a unique index.

| Component | State | Operations | Interacts with | Hard behaviour | Correct when |
|---|---|---|---|---|---|
| Webhook delivery pipeline (`apps/api/src/webhooks`) | delivery rows, `isProcessing`, `activeRetries`, chains in flight | dispatchEvent, sendWebhook, updateDelivery, processRetries, retryDelivery, manualRetry, shutdown | storage, endpoints, webhook management, DLQ service, retention | first attempt / retry loop / manual retry on one row; read-modify-write of attempts; crash between send and record | one sender, attempts counted and bounded, final status final, success means 2xx, retries end |
| Memory forget proposals (`proprietary/memory-proposals`) | proposal rows, audit rows, requests | proposeForget, approve, reject, apply, expire | storage, agent memory store | concurrent approvals of an irreversible action, crash in apply, partial deletion, expiry | forgotten at most once, never unapproved, row and audit agree |
| Cache proposals (`proprietary/cache-proposals`) | proposal rows with payload, audit rows, requests | propose, approve, editAndApprove, reject, apply, expire | storage, caches | edit against approve, apply without a claim, expiry at the exact instant | only approved payloads dispatched, one decision |
| MONITOR capture (`apps/api/src/monitor`) | `active` map, session rows, writers with their queues, triggers, schedules and timers | startSession, fan-out, stop, create / cancel trigger, polling tick, tryFire, create / delete schedule, tick of a schedule | registry, storage, health gate, webhooks | check, awaits, set; unconditional patches; a tick in flight against a cancellation; restart | the map and the rows belong to sessions under way, a trigger fires once, timers follow rows, every line accounted for |
| Migration execution (`apps/api/src/migration`) | job map, child process, files | start, run, stop with a kill timer, eviction | registry | cancellation between awaits, flush and spawn | a cancelled job stays cancelled, wipes nothing, its process ends, credentials are removed |
| Bulk delete (`proprietary/bulk-delete`) | job map, audit rows | start, walk of the keyspace, cancel, reconcile | storage, server | order of audit writes, overlapping jobs, crash | limit kept, completed means complete, final audit final |
| Connection registry, agent gateway (`apps/api/src/connections`, `proprietary/agent`) | configs, adapters, default id, rows, agent sockets | add, remove, setDefault, reconnect, register, unregister, start | everything | awaits between map updates, superseded sockets | no adapter left open unlisted, one default, agents and registry agree |
| Multi-connection poller | in-flight set, per-connection state | tick, poll, release of state | registry | overlap, a poll that outlives its connection | state of a removed connection is released |
| Alert hysteresis, rate limiter | fired set; window of timestamps | shouldFireAlert; reserve, release | dispatcher; proposals | boundaries | agrees with a reference definition |

Everything else (licensing, anomaly detection, analytics, Prometheus, cluster
discovery, the entitlement server, SDK packages, MCP server, CLI, web interface)
is listed in `PROJECT.json` with the reason it is not modelled.

## Modules

| Module | Models |
|---|---|
| `WebhookDelivery` | dispatcher, retry processor, DLQ requeue, delivery rows, webhook edits and deletion, retention, shutdown, crash, restart |
| `WebhookDeliveryProofs` | theorems about it |
| `ProposalLifecycle` | abstract specification: a proposal is decided once, started only if accepted, settled once after the start |
| `MemoryProposals` | propose / approve / reject / claim / forget in rounds / finalize / audit / expire, implements `ProposalLifecycle` |
| `MemoryProposalsProofs` | theorems about it |
| `CacheProposals` | the same life of a cache proposal, with edits and without a claim, implements `ProposalLifecycle` |
| `CaptureSessions` | `MonitorCaptureService`: a session from its start to its last write, the `active` map, crash |
| `CaptureTriggers` | `CaptureTriggerRegistry`: triggers, cancellation, the polling tick, `tryFire`, the watermark |
| `CaptureScheduler` | `CaptureScheduler`: schedule rows, their timers, the ticks, the restart |
| `MonitorCapture` | composes the three: users, triggers and schedules share sessions and one process |
| `CaptureWriter` | `CaptureWriter` and `startFanOutSession`: the writers of one session, their buffers, queues, chunks and the final row |
| `BulkDelete` | jobs, the SCAN / UNLINK walk over the primaries, cancellation, audit rows, crash and reconciliation |
| `MigrationExecution` | jobs in both modes, the pre-flush of the target, the child process, stop and its kill timer, eviction, clean-up, crash |
| `ConnectionRegistry` | add, remove, set default, reconnect, rows and marks, every adapter and its link, restart |
| `AgentGateway` | sockets, hello, heartbeat timeout, close and removal, on top of `ConnectionRegistry` |
| `ConnectionPoller` | the poll loop over the registry's connections and the state each poller keeps, on top of `AgentGateway` |
| `CacheProposalsProofs`, `BulkDeleteProofs`, `MigrationProofs`, `CaptureWriterProofs` | theorems about `CacheProposals`, `BulkDelete`, `MigrationExecution` and `CaptureWriter` |
| `CaptureProofs`, `ConnectionProofs` | theorems about `MonitorCapture`, and about the registry, gateway and poller together |
| `MC...` | instances for TLC; `MCServices` puts the services that share no state into one run (`MCMonitorCapture` among them) |

### How state and actions correspond to the code

A **task** (webhooks), **call** (proposals, registry), **tick**, **session** or
**job** is one asynchronous chain, with a
program counter that names the await it is at and the values it read before it.
One action is what a chain does from one await to the next, together with the
storage call it awaits: reading a row and writing it back are therefore two
actions with anything in between. Storage calls are atomic, and may fail
(`CallFails`, `RecordingFails`, `GetWebhookFails`, `MarkFailedFails`,
`StorageFails`): the action does what the surrounding `catch` does.

`WebhookDelivery`: `dispatchEvent` -> `DispatchEvent`; `dispatchToWebhook` ->
`CreateDelivery`; `sendWebhook` -> `SendRequest`, `FetchReturns`;
`updateDelivery` -> `ReadDelivery`, `WriteDelivery`; `processRetries` ->
`ProcessRetries`, `NothingToRetry`, `BatchSettled`; `retryDelivery` ->
`GetWebhook`, then the send or `MarkFailed`; `manualRetry` -> `ManualRetry`,
`ManualPolicy`, `ManualReset`; `requeueDelivery` -> `RequeueDelivery`,
`RequeueReset`; `onModuleDestroy` -> `BeginShutdown`, `ShutdownCompletes`,
`ShutdownForced`. A response is abstracted to how the code classifies it
(`Outcomes`), `next_retry_at` to whether it has passed (`due`).

`MemoryProposals` and `CacheProposals`: a request arrives and reads
(`ProposeForget`, `Propose`, `Approve`, `Reject`, `EditAndApprove`), then does
its conditional update (`CreateProposal`, `Persist`, `ApproveRow`, `RejectRow`,
`EditRow`, `Claim`, `Finalize`), its audit record (`AppendAudit`) and its effect
(`Dispatch`, `ForgetBatch`, `ForgetDone`, `ForgetStopsEarly`, `ForgetThrows`;
`EffectDone`, `EffectThrows`). The cron is `ExpireProposals` and `AuditExpired`.

`CaptureSessions`: `startSession` -> `StartManual` (the controller) or
`BeginSession` (the other callers), `SaveSession`, `OpenSource`,
`RecordOpenFailure`; the writer's termination and its `finally` ->
`SessionWriterEnds`, `FinalizeRow`, `LeaveActive`; `stopSession` -> `StopSession`. The check of the
map and the set of its entry are separated by two awaits, as in the code.

`CaptureTriggers`: `createTrigger` -> `CreateCheck`, `CreateSave`;
`cancelTrigger` -> `CancelRead`, `CancelWrite`; the tick -> `SweepList`,
`SweepExpire`, `QueuedList`, `QueuedNext`, `EventsList`, `EventNext`,
`EventsDone`; `tryFire` -> `GateDenies`, `GateThrows`, `GateAllowsBusy`,
`GateAllowsFree`, `StartReturns`, `Patch`. `CaptureScheduler`: `createSchedule`
-> `SaveSchedule`, `RegisterTimer`, and its catch `RegisterTimerFails`,
`UndoSchedule`; `deleteSchedule` -> `DeleteRead`, `DeleteSchedule`; a tick ->
`Fire` and `FireStep`.

`CaptureWriter`: `handleLine`, `flush`, `terminate` and the write queue ->
`HandleLine`, `FlushTimer`, `SourceEnds`, `StopWriters`, `StoreChunk`,
`WriterEnds`; `startFanOutSession` -> `OpenNode`, `FinalizeFanOut`.

`BulkDelete` and `MigrationExecution`: a job's `pc` is the await of `runJob`, or
of `startExecution` and its runner; the HTTP requests (start, cancel, stop) are
actions of their own; in a migration the child process has its own state beside
the job's record. `flushTargetBeforeSync` -> `BeginFlush` (a standalone target is
sent FLUSHALL at once), `NodesListed` (the masters of a cluster are dialled) and
`FlushMaster` (one is connected and is sent FLUSHALL); `flushes` counts them. A
configuration file that could be written only in part stays on disk.

`ConnectionRegistry`: a call's `step` is its await; `SetDefaultBegins`, `Unmark`
and `Mark` are the parts of `setDefault`, which `addConnection` and
`removeConnection` run as their last part. Adapters are told apart: `connections`
holds the adapter of each id, `new` and `quit` the ones a call has created and is
disconnecting, and `adapter` says whether a client is connected, has lost its
database (iovalkey's default strategy goes on retrying, also after a first connect
that failed) or was disconnected. A removal deletes whatever the map holds by
then, and disconnects only the adapter it read; a reconnect stores its own
whatever has happened meanwhile. `AgentGateway`: `onConnection`,
`registerAgent` (the hello, also one handled after the hello timeout), `unregisterAgent` (the close handler), the timers
that ask a socket to close, and the removal of an agent's connection. `ConnectionPoller`: the tick of
`MultiConnectionPoller` and its release of state.

History variables (`stale`, `unrecorded`, `unsynced`, `parted`, `loose`, `orphaned`
mark what an overlap, a failure or a restart has already put apart; `offered` of a
webhook is the set of maxRetries it has had; `flushes`; `sent`, `lost`, `acked`,
`touched`; `dispatched`, `partial`; `sent`, `performed`) are read by no guard.

### What is abstracted or left out

- Payloads, headers, signatures, response bodies and durations of webhooks.
- The order of `getRetriableDeliveries` (any batch of due rows is possible) and
  a failing query in `processRetries` (changes nothing).
- `isProcessing` is per process: several replicas of the API on one database
  would each run a retry loop; one process is modelled.
- The response body is read after the timeout was cleared
  (`webhook-dispatcher.service.ts:421-424`): an endpoint that stalls there blocks
  its batch. The fairness below assumes it does not.
- A crash can happen at any moment; a graceful shutdown is modelled from
  `onModuleDestroy`, which Nest calls on `app.close()`.
- The size cap of the in-memory delivery store, `testWebhook` (keeps no row).
- The proposal rate limiter: a request it refuses has no effect, so the models
  simply do not take it.
- MONITOR lines are counted, not kept; the byte cap acts like the line cap.
  Metric and type of an anomaly are folded into its connection. The health gate
  allows, denies or throws. A cluster scan's cursor is abstracted to the set of
  keys not yet seen; pacing, log parsing and credentials' encryption are left out.
- A page of triggers (100 rows) is never full; a page of schedules may be.
- `stop()` of the poller, after which nothing ticks, and the live tail of a capture.
- `testConnection` (an adapter that no map ever holds) and a restart whose
  `registerTimer` throws.
- The limits of the duplicate searches (1000 rows for memory proposals, ten pages
  of 200 for cache proposals): the models look at all pending rows.

## Runs

| Run | Instance | Shows |
|---|---|---|
| `webhook_pipeline` | one delivery with two of a manual call, a fault and an edit, or 2 deliveries with a call or a fault; batch limit 1, maxRetries 0 or 2, fairness | `SingleFlight`, `AttemptAccounting`, `AttemptBound`, `SuccessMeansAcked`, `SettledIsFinal`, `AckedNotResent`, `RetryingIsResolved` |
| `webhook_dead_letter` | 1 delivery | violation: a dead letter delivery cannot be retried by hand |
| `webhook_shutdown` | 1 delivery, 1 shutdown, fairness | violation: an interrupted first attempt stays pending for ever |
| `memory_proposals` | 2 proposals of one target, 3 callers, 5 requests, 2 faults, 2 rounds | `AtMostOnce`, `ClaimExclusive`, `RefusedUntouched`, `AppliedIsComplete`, `AuditAgrees`, `RefinesLifecycle` |
| `memory_partial_forget` | 1 proposal, 2 rounds | violation: a failed forget may have deleted |
| `memory_duplicate` | 2 proposals, 2 callers | violation: two pending proposals of one target |
| `cache_proposals` | 2 tunings of one setting and 1 invalidation, 2 payloads, 3 callers, 4 requests, 1 fault | `OnePendingTuning`, `RefusedUntouched`, `DispatchesApproved`, `AuditAgrees`, `RefinesLifecycle` |
| `cache_applied_twice` | 1 proposal, 2 callers | violation: concurrent approvals apply twice |
| `services` | one of ten parts per behaviour, see below, fairness | `BulkLimitKept`, `BulkComplete`, `BulkCancelPrompt`, `BulkAuditSettles`; `MigStoppable`, `MigCleanedUp`, `MigCancelHolds`, `MigStoppedProcessEnds`; `OpenIsListed`, `DefaultAgrees`, `AgentsAgree`, `StateReleased`; `CaptureAccounted`, `CaptureFinalized`; `SessionBookkeeping`, `TriggerFiresOnce`, `SettledStays`, `TriggersSettle` |
| `migration_flush` | 1 run, a cluster of 2 masters, no fault | violation: a run stopped during its pre-flush still sends FLUSHALL |
| `capture_overlap` | 1 connection, 2 sessions, users only | violation: two sessions record on one connection |
| `schedule_timers` | 2 schedules, no fault | violation: a delete that overtakes its create leaves a timer without a row |

The parts of `services`: `bulk` (one job, 3 keys on 2 primaries, limit 1 or 3, 2
faults), `bulkPair` (two jobs over the same keys, no faults), `migration` (2 runs,
room for 1, standalone targets and clusters of 2 masters, 1 fault), `registry`
(2 callers, the environment's connection and one more, 2 adapters, 1 fault),
`adapters` (2 callers, 3 adapters, 1 failing write or disconnect, no default
changes), `links` (the same without faults, with links that drop and recover),
`agents` (1 caller, 1 agent with 2 sockets, 1 fault), `poller` (1 caller, links that
drop and recover, the poll loop), `writer` (2 primaries, cap 3, chunks of 2, 1
fault), `capture` (1 connection, 2 sessions, 1 fault; users, a trigger with 1
anomaly, 2 schedules, users with the trigger, or users with 1 schedule).
The variable `part` chooses one for the whole behaviour; the services share no
state, so nothing is lost by not interleaving them.

**Bounds.** `MaxCalls`, `MaxFaults` and `MaxEdits` only limit how often the
environment acts, and the scopes of the MC modules (`OneDelivery`, `TwoDeliveries`,
`CaptureScope`) how many such acts meet in one behaviour: any two on one delivery,
one beside a second delivery. Two deliveries with a batch limit of one is the least in which
the retry loop leaves a due row for a later batch; maxRetries 0 and 2 are the
boundary (dead letter after the first attempt) and the first value with a real
retry. Two rounds of deletion is the least with a partial forget. Three callers
let two requests race while a third has decided. Two sessions on one connection
are what a race for the map needs; `SchedulePage` is 1 so that two schedules
overflow it, and `clients` keeps the callers of a behaviour to the listed sets.
Two masters are the least of which one can fail while the other is flushed, three
adapters what two overlapping reconnects of one connection need; without a free
adapter no further one is created. Two keys on the
connected node let one batch exceed a limit of 1. A line cap of 3 with chunks of
2 leaves a partial chunk at termination; `Namespace` equals the cap, the least
value for which the writers' index ranges cannot meet. Fault bounds count failing storage calls and
crashes or restarts together. The theorems below do not
depend on these bounds.

`memory_proposals`, `cache_proposals` and `services` do not check deadlock: when the request and fault bounds are used up and every proposal,
session or job is settled, the system rests. The webhook runs do: the retry timer always runs.

**Fairness** (`WebhookDelivery!Fairness`, used for `RetryingIsResolved` and
`ShutdownLosesNothing`): a chain that has started goes on, because a storage call
answers or throws and a fetch ends by the `AbortController`'s timeout; the retry
timer re-arms itself after every batch (`startRetryProcessor`); time passes; a
process that went down is started again by its supervisor. Events, API calls,
edits and faults have no fairness.

`MonitorCapture!CaptureFairness` (for `TriggersSettle`; repeated in `MCServices`): the awaits of a session
return and its duration timer fires; the registry's interval keeps ticking and
the awaits of a tick return; time passes. No fairness is assumed of the health
gate: a trigger settles by expiry even if every attempt fails.
`MCServices!ServicesFairness`: the kill timer set by `stopExecution` fires
(`MigStoppedProcessEnds`); the poll loop re-arms itself and every poll ends
(`StateReleased`); sources open or fail, duration timers fire and storage calls
return (`CaptureFinalized`).

The exclusion properties of the webhook pipeline range over deliveries that no
person has reset: `manualRetry` makes the row retrying and due before it sends it
itself, so the loop may send it as well, and the code does not try to prevent it.
`SuccessMeansAcked` and `RetryingIsResolved` hold for all deliveries.

`AppliedIsComplete` exempts forgets that ended early on their own:
`forgetByScope` returns normally when a round removes nothing or its cap on
rounds is reached, and the proposal is then applied with matches left.

`CacheProposals!AuditAgrees` exempts failed records: a failing dispatch that lost
the row to a concurrent success writes a failed record for an applied proposal.

Exemptions of the newer properties are history variables, set exactly where the
code parts two things, so each is a statement about the code as well:

- `stale`: a session row stays `running` after a failed final write or a crash;
  no start visits such rows.
- `unrecorded`: a session was started for a trigger and the write of `fired`, and
  the `skipped` that the catch block tries next, both failed, or the process
  died in between: the anomaly may fire the trigger again.
- `unsynced`: a timer without row, or row without timer, after a delete that
  failed or overtook the create, or a restart with more schedules than the page
  of 100 that `onModuleInit` reads. `TimersInSync`, which the class comment claims,
  exempts none of this and is violated; only the theorem `SchedulesPart`, which says
  that there is no other way, speaks of `unsynced`.
- `parted`: overlapping `setDefault`, removal or reconnect, a failed write, or an
  agent's coming and going may leave the mark and the default different.
- `loose`: adapters of a connection on which two calls that create or disconnect one
  overlapped, whose disconnect failed, or which were let go while not connected (a
  connect that was refused, a removal or reconnect while the database was away, a
  start that could not connect): the code keeps no handle on them.
- `orphaned`: runs of a migration whose file could not be written whole or not be
  deleted, or under which the service died.

`MigCancelHolds` says what the re-checks of `runRedisShake` do achieve: after a stop
the pre-flush is not entered and no process or batch is started. It leaves room for
the FLUSHALLs of a pre-flush that was under way, since `flushTargetBeforeSync` awaits
the list of nodes and a connection to every master before it sends them and looks at
the status after neither; that those are sent although the comments deny it is what
`migration_flush` shows.

Seen while modelling, kept in the models as the code does it, and asserted
nowhere: a cancelled trigger can be overwritten by the tick in flight (so
`SettledStays` leaves `cancelled` out); a reconnect that overlaps a removal puts
the connection back until the next start; a late close of a superseded agent
socket removes the newer one; a failed final audit write of a bulk delete makes
the next start call a completed run failed; a migration whose configuration
cannot be written stays pending and keeps its slot until it is stopped by hand;
the PID file of
`migration-execution.service.ts:291`, written for orphan detection, is read by
nothing.

### Disagreements with documentation and comments

Eight runs show the code doing something a document, comment or test denies; the
quotations are under `findings` in `PROJECT.json`. A ninth needs no model:
`docs/webhooks.md:505` says a 4xx response triggers a retry, `sendWebhook` marks
it failed at once (`webhook-dispatcher.service.ts:430`).

## Theorems

Every theorem holds for all constants that satisfy the named assumptions of the module
it is about, which TLC evaluates as well: that sets which are counted are finite, that
bounds are numbers (MAX_JOBS, batch limits and rounds at least 1), that the maps
between ids are total, that ids of different kinds differ and that `None` or `Absent`
is none of them. Two say more:

- `BulkAssumption`: there are a database and a limit to choose (a record that no job
  uses yet must have a type).
- `WriterAssumption`: `Namespace >= LineCap`, one writer's index range is as large as
  the number of lines it may take in. The code's range is 10 000 000
  (`monitor-capture.service.ts:51-57`, "far beyond any realistic session"); the line
  cap of a request is not validated, so a session with a higher cap and chunks of one
  line is outside the theorem.

Each inductive invariant was checked by TLC on instances of the runs' size or smaller
before it was proved.

`WebhookDeliveryProofs`. The induction rests on four layers:
1. `TypeOK /\ TaskShape`: which kinds of chain can be at which await, and on which
   delivery (a dispatch or retry chain only on its own).
2. `Owners`: who may send an untouched delivery. While its dispatch chain works the
   row is new or pending; a retry chain works only while `processing` is set and the
   row is retrying; a client chain never sends one. `SingleFlight` alone is not
   inductive: it needs that the row's status rules out the other sender. It gives
   `SingleSender` (`SingleFlight`) and `FinalStatus` (`SettledIsFinal`).
3. What rows and results mean: a chain about to record success has seen a 2xx
   (`ResultAcked`, for `SuccessAcknowledged`); an untouched retrying row has fewer
   attempts than some maxRetries its own webhook had, and its writer counts from the
   row as it is (`AttemptsOf`, for `AttemptsBounded`, which needs layer 2: with a
   second sender the count read would be stale). A chain keeps the policy it read
   across edits; `OfferedInv` says that its limit is one the webhook has had.
4. `HistoryInv`: what was really sent to an untouched delivery agrees with its row.
   `AttemptAccounting` alone is not inductive: it also takes that a delivery without a
   row has had nothing sent or lost, and, from layers 2 and 3, that the only chain in
   flight (`Flying`) writes the attempts the row has now plus one. For
   `AckedNotResent` it adds `Resting`: once a 2xx was seen and nothing was lost, every
   chain still at work on the delivery holds that answer, and if there is none the row
   is a success or deleted, which the loop does not pick up. Gives `AttemptsAccounted`
   and `NoResend`, and with layers 2 and 3 `RequestsBounded`: what the endpoint sees is
   bounded by the policy plus the lost results, since the one request that may be in
   flight still has room under the limit (`RoomInFlight`).

`PendingUnderWay` needs only layer 1 and that results are classified: as long as nothing
was stopped or failed, a pending row has its dispatch chain at work. Gives
`PendingAttempted`, for touched deliveries too.

`MemoryProposalsProofs`. The inductive invariant is `TypeOK /\ Claims /\ Trail`:
`Claims` ties each request's position to the row (a request between claim and finalize
implies applying, and is alone) and each status to the effects behind it (a dispatched
proposal is applying or settled; a settled one was dispatched; deletion implies
dispatch; applied implies a forget that ended); `Trail` says what an audit record, and
one about to be written, implies about the row. From it: `ForgottenOnce`,
`ClaimHeldAlone`, `NothingUnapproved`, `AppliedComplete`, `AuditConsistent`, and
`ImplementsLifecycle`: initial states map to initial states and every step to a step
of `ProposalLifecycle` or a stutter, under the mapping `Decision` / dispatched
proposals. On top of it `AcceptedAtWork` (an approved or applying proposal has a
request that will claim, forget or finalize it, unless there was a fault) is
inductive; gives `AcceptedCarried`.

`CacheProposalsProofs`. The inductive invariant is `TypeOK /\ Requests /\ Inserting /\
Rows /\ OnePendingTuning /\ Trail`. There is no claim here, so nothing says that an
applying request is alone; instead `Requests` says what each request knows of the row
at its await (one that dispatches has seen an approval and has the payload the row
keeps from then on), `Inserting` that no other request knows of a row before it is
inserted, `Rows` which dispatches and effects each status allows, and `Trail` what the
audit records say. Gives `CacheTypes`, `OneTuningPends`, `NothingUnapproved`,
`ApprovedDispatched`, `AuditConsistent` and `ImplementsLifecycle`, the refinement of
the same `ProposalLifecycle`; and, with `ApprovedAtWork` on top, `ApprovedCarried`.

`BulkDeleteProofs`. `BulkInv` is `BulkTypeOK /\ JobsOk /\ AuditsOk`. `JobsOk` is said
of one job at a time: its counters against the keys it matched and the limit
(`CountersOk`: a matched key that is still there and in no batch makes the counters
differ), and every key of its start that is still there is matched, not yet returned
by the scan of this primary, or on a primary to come (`WalkOk`). Jobs over the same
keys interfere only by removing keys, which these statements allow for. `AuditsOk`
ties a job's position to the status of its audit row. Gives `LimitKept`,
`WalkComplete`, `CancelPrompt` and the action property `AuditSettles`.

`MigrationProofs`. `MigInv` is `MigTypeOK /\ Records /\ Files /\ Started /\
MigStoppable`: only a cancelled run may still be going with an outcome (`Records`), a
configuration file belongs to a RedisShake run past its start and outlives the run
only after a crash, a write that failed part-way or a failed deletion (`Files`), and the map holds only runs that were
started. The lemma `Admitted` is what eviction promises: at most MAX_JOBS runs, the
new one among them, and none dropped that is not over. Gives `RunsStoppable`,
`FilesCleanedUp` and the action property `CancelHolds`, which does not claim that a
stop holds back the FLUSHALLs of a pre-flush under way (`migration_flush`).

`CaptureProofs` (for `MonitorCapture!CaptureSpec`; assumptions `CaptureAssumption`,
`TriggerAssumption`, `ScheduleAssumption`, `ClientsAssumption`: `None` is no id,
numeric bounds, trigger and schedule ids differ). The inductive invariant `CaptureInv`
has three parts:
1. `SessionInv`: an entry of the map names a session that records or is ending, and
   there is no row before the first write. `ActiveIsOpen` alone is not inductive: a
   session that fails to open is in flight but removes no entry, so it must be known
   to have none. Gives `SessionsAccounted`.
2. `TriggerInv`: the triggers the tick has listed or works on are open (only a
   cancellation can have come between), a start is followed by a patch that does not
   queue, and a trigger with a session is either the one the tick is at or settled and
   in no list. Gives `FiredOnce` and `TriggersStaySettled`.
3. `ScheduleInv`: a schedule waiting for its timer has its row unless a delete
   overtook it, and one that is undone has no timer. Gives `SchedulesPart`: a timer and
   its row part only in the ways `unsynced` records.

`ConnectionProofs` (for `ConnectionPoller!ConnectionSpec`, all callers, agents and the
poller at once, where TLC checks them part by part; `RegistryAssumption`).
`ConnectionInv` ties each call to what it may still do (one that will add, swap or
disconnect an adapter is about a direct connection, so no API call touches an agent's
adapter except its removal) and each agent's adapter to the listed socket
(`AgentLink`). Gives `AgentsConsistent`. `AdapterInv` is a second invariant on top of
it: nobody but the call that makes a connection knows it before it is saved
(`Fresh`), an adapter a call has created is in no map and in no other call's hands
(`Exclusive`), one that is being connected is not closed (`Connecting`), the adapters
that two calls on one connection handle are loose (`Raced`), and the adapter a call
disconnects is still the one in the map, or both are loose (`Quitting`). `OpenIsListed`
needs the last two: a call that swaps or clears an entry drops the adapter the map holds
by then, which is the one it disconnected unless another call was at work. Gives `AdaptersKept`. `MarksInv` is a third invariant, for the mark of the default connection in storage.
`DefaultAgrees` speaks only of moments with no call in flight, so the invariant says
what holds in between: until something has parted mark and default, a call that touches the
default is the only call, and the await it is at determines the marks (`Turning`);
when there is none the marks are right (`Settled`). It also needs that the mark a
reconnect remembers is current and the id of an add is fresh. Gives `DefaultMarked`.

`CaptureWriterProofs`. `WriterInv` says of each writer that it flushed no more chunks
than it took in lines, that its queue holds the last of them with consecutive indexes
and that it ends with nothing buffered or queued, of each stored chunk that it came
from one writer's range, and of the row that it is written last. Gives `IndexesFree`
(no chunk of a fan-out session is refused for its index, for any number of primaries).
`SumsOk` is a second invariant on top of it: the lines taken in are the lines stored,
dropped, queued and buffered, summed over all writers and chunks. The model's sums are
folds. To reason about them the module counts a sum instead (`Total` is the cardinality
of its `Cells`) and shows that the fold yields that count (`FoldIsTotal`). The library's
induction theorems take an operator as a parameter, which the installed provers cannot
instantiate, so the induction (`SubsetInduction`) is drawn from two first-order facts:
the strict subset order on finite sets is well founded, and a well-founded order has
minimal elements. Gives `EveryLineAccounted` (all of `CaptureAccounted`) and
`SessionBounded`: the cap is per node, so a fan-out row counts up to `NumWriters` times
`LineCap` lines.

**Only model-checked**: the liveness properties (`RetryingIsResolved`,
`TriggersSettle`, `MigStoppedProcessEnds`, `StateReleased`, `CaptureFinalized`), since
fairness and `ENABLED` are out of the prover's reach. They are stated as `[]<>` of the absence of
what must not last, which is the leads-to of the comment. Every other property of a
passing run is stated by a theorem. `PendingAttempted`, `AcceptedCarried` and `ApprovedCarried`
prove the safety half of three such arguments: whatever is not finished has somebody
working on it, unless something failed; that the worker goes on is the fairness the
liveness runs assume.

## Not modelled

The share of the repository's lines that the models cover is small because most
of it is not control that a model checker can say anything about: the web
interface, the SQL of three storage adapters, numeric analysis of samples
(anomaly detection, forecasting, latency regression), formatting of metrics,
price tables, the SDK packages and the vendor's entitlement server. Within the
modelled services the omissions are listed above; `PROJECT.json` names every
component with its status.

## Plan

Done:

1. `WebhookDelivery`, its runs and safety theorems.
2. `ProposalLifecycle`, `MemoryProposals`, its refinement and theorems.
3. `CacheProposals`, its refinement.
4. `CaptureSessions`, `CaptureTriggers`, `CaptureScheduler`, composed in
   `MonitorCapture`; `CaptureWriter`.
5. `ConnectionRegistry`, `AgentGateway`, `ConnectionPoller`.
6. `BulkDelete`, `MigrationExecution`.
7. Proofs of every safety property the runs check, and that unfinished deliveries and
   proposals have somebody at work on them unless something failed.

Left, in order:

8. Pure algorithms with reference definitions: alert hysteresis, rate limiter;
   the agent process and the adapter's request table.
9. The other half of the liveness arguments as safety: a measure that every step of a
   started chain decreases.
