--------------------------- MODULE WebhookDelivery ---------------------------
(***************************************************************************)
(* The webhook delivery pipeline of the monitor's API process:             *)
(*   WebhookDispatcherService  first attempt and the shared send routine,  *)
(*   WebhookProcessorService   the retry loop, manual retries, shutdown,   *)
(*   WebhookDlqService         requeueing a failed delivery,               *)
(*   the delivery repository   rows with foreign keys, last write wins.    *)
(*                                                                         *)
(* The process is single threaded but every await is a point where other   *)
(* asynchronous chains run.  A "task" is one such chain; an action is what *)
(* a chain does between two awaits, a storage call being one atomic step.  *)
(* The rows survive a crash, the tasks do not.                             *)
(***************************************************************************)
EXTENDS Naturals, FiniteSets

CONSTANTS
    Deliveries,    \* delivery ids (UUIDs: never reused)
    Webhooks,      \* webhook ids
    WebhookOf,     \* the webhook a delivery id belongs to
    Clients,       \* concurrent API callers of manualRetry / requeueDelivery
    RetryLimits,   \* values retryPolicy.maxRetries may take
    BatchLimit,    \* MAX_CONCURRENT_RETRIES
    MaxCalls,      \* bound: number of manual retry / requeue calls
    MaxFaults,     \* bound: number of crashes and failed storage calls
    MaxEdits,      \* bound: number of webhook updates
    None           \* model value: a task that works on no delivery

ASSUME WebhookAssumption ==
    /\ IsFiniteSet(Deliveries) /\ IsFiniteSet(Clients)
    /\ WebhookOf \in [Deliveries -> Webhooks]
    /\ RetryLimits \subseteq Nat
    /\ BatchLimit \in Nat \ {0}
    /\ MaxCalls \in Nat /\ MaxFaults \in Nat /\ MaxEdits \in Nat
    /\ None \notin Deliveries

VARIABLES
    webhook,    \* the webhooks table: exists, enabled, maxRetries (and, a history,
                \* offered: every maxRetries the webhook has had)
    delivery,   \* the webhook_deliveries table: status, attempts, due
    task,       \* the asynchronous chains in progress
    processing, \* WebhookProcessorService.isProcessing
    phase,      \* "up", "stopping" (isShuttingDown) or "down"
    calls,      \* manual retries and requeues so far
    faults,     \* crashes and storage failures so far
    edits,      \* webhook updates so far
    sent,       \* history: attempts to send each delivery
    lost,       \* history: attempts whose result was never recorded
    acked,      \* history: deliveries some 2xx response arrived for
    touched     \* history: deliveries reset by manualRetry or requeueDelivery

vars == <<webhook, delivery, task, processing, phase, calls, faults, edits,
          sent, lost, acked, touched>>
history == <<sent, lost, acked, touched>>
budget  == <<calls, faults, edits>>

-----------------------------------------------------------------------------
(* Types *)

DeliveryStatus == {"pending", "success", "failed", "retrying", "dead_letter"}
Row     == [status: DeliveryStatus \cup {"none", "deleted"},
            attempts: Nat, due: BOOLEAN]
Webhook == [exists: BOOLEAN, enabled: BOOLEAN, maxRetries: RetryLimits,
            offered: SUBSET RetryLimits]

DispatchTask(d) == <<"dispatch", d>>
RetryTask(d)    == <<"retry", d>>
ClientTask(c)   == <<"client", c>>
Tasks == ({"dispatch", "retry"} \X Deliveries) \cup ({"client"} \X Clients)

Steps == {"idle", "create", "policy", "reset", "requeue", "hook", "fail",
          "send", "fetch", "read", "write"}
\* d: the delivery worked on; max: maxRetries of the webhook snapshot;
\* status, attempts: what the chain read of the delivery row;
\* result: the status sendWebhook decided on.
TaskState == [pc: Steps, d: Deliveries \cup {None}, max: Nat,
              status: DeliveryStatus, attempts: Nat, result: DeliveryStatus]

TypeOK ==
    /\ webhook \in [Webhooks -> Webhook]
    /\ delivery \in [Deliveries -> Row]
    /\ task \in [Tasks -> TaskState]
    /\ processing \in BOOLEAN
    /\ phase \in {"up", "stopping", "down"}
    /\ calls \in Nat /\ faults \in Nat /\ edits \in Nat
    /\ sent \in [Deliveries -> Nat]
    /\ lost \in [Deliveries -> Nat]
    /\ acked \subseteq Deliveries
    /\ touched \subseteq Deliveries

NoTask == [pc |-> "idle", d |-> None, max |-> 0, status |-> "pending",
           attempts |-> 0, result |-> "pending"]
NewTask(pc, d) == [NoTask EXCEPT !.pc = pc, !.d = d]

Stored(d) == delivery[d].status \in DeliveryStatus
HookOf(d) == webhook[WebhookOf[d]]

\* A chain that has been told to send d, or has sent it and not recorded it.
Sending(t, d)  == task[t].d = d /\ task[t].pc \in {"create", "hook", "fail", "send", "fetch", "read", "write"}
\* A request for d is out, or its response is not recorded yet.
InFlight(t, d) == task[t].d = d /\ task[t].pc \in {"fetch", "read", "write"}

Init ==
    /\ \E max \in [Webhooks -> RetryLimits] :
          webhook = [w \in Webhooks |-> [exists |-> TRUE, enabled |-> TRUE,
                                         maxRetries |-> max[w], offered |-> {max[w]}]]
    /\ delivery = [d \in Deliveries |-> [status |-> "none", attempts |-> 0, due |-> FALSE]]
    /\ task = [t \in Tasks |-> NoTask]
    /\ processing = FALSE
    /\ phase = "up"
    /\ calls = 0 /\ faults = 0 /\ edits = 0
    /\ sent = [d \in Deliveries |-> 0]
    /\ lost = [d \in Deliveries |-> 0]
    /\ acked = {}
    /\ touched = {}

-----------------------------------------------------------------------------
(* Storage: the row operations the services use.                           *)

\* updateDelivery: merges the fields into the row if it still exists,
\* whatever its status is by now.  next_retry_at is only looked at while the
\* status is "retrying", and every write of "retrying" sets it.
UpdateRow(d, status, attempts, due) ==
    delivery' = IF Stored(d)
                THEN [delivery EXCEPT ![d] = [status |-> status, attempts |-> attempts, due |-> due]]
                ELSE delivery

\* Mutant of Due: failed rows are picked up and next_retry_at is ignored.
DueWithFailed == {d \in Deliveries : delivery[d].status \in {"retrying", "failed"}}

\* getRetriableDeliveries(limit).  The repository takes the rows with the
\* smallest next_retry_at first; which due rows come first is left open here.
Due == {d \in Deliveries : delivery[d].status = "retrying" /\ delivery[d].due}
RetriableBatch(D) ==
    /\ D \subseteq Due
    /\ D = Due \/ Cardinality(D) = BatchLimit
    /\ Cardinality(D) <= BatchLimit

Alive == phase # "down"

\* A task moves on to its next await.
Goto(t, state) == task' = [task EXCEPT ![t] = state]
Finish(t) == Goto(t, NoTask)

\* Another storage call fails (the pool throws).
StorageFault == faults < MaxFaults /\ faults' = faults + 1

-----------------------------------------------------------------------------
(* WebhookDispatcherService *)

\* dispatchEvent: the webhooks subscribed to the event are read once; each
\* enabled one gets a chain of its own (d is the delivery it will create).
DispatchEvent(d) ==
    /\ Alive
    /\ delivery[d].status = "none"
    /\ task[DispatchTask(d)].pc = "idle"
    /\ HookOf(d).exists /\ HookOf(d).enabled
    /\ Goto(DispatchTask(d), [NewTask("create", d) EXCEPT !.max = HookOf(d).maxRetries])
    /\ UNCHANGED <<webhook, delivery, processing, phase, budget, history>>

\* Mutant of CreateDelivery: the row is inserted ready for the retry loop.
CreateDeliveryAsRetrying(d) ==
    LET t == DispatchTask(d) IN
    /\ task[t].pc = "create"
    /\ delivery' = [delivery EXCEPT ![d] = [status |-> "retrying", attempts |-> 0, due |-> TRUE]]
    /\ Goto(t, [task[t] EXCEPT !.pc = "send"])
    /\ UNCHANGED <<webhook, processing, phase, budget, history>>

\* dispatchToWebhook: insert the PENDING row.  The insert violates the foreign
\* key when the webhook was deleted in the meantime; allSettled ignores it.
CreateDelivery(d) ==
    LET t == DispatchTask(d) IN
    /\ task[t].pc = "create"
    /\ \/ /\ HookOf(d).exists
          /\ delivery' = [delivery EXCEPT ![d] = [status |-> "pending", attempts |-> 0, due |-> FALSE]]
          /\ Goto(t, [task[t] EXCEPT !.pc = "send"])
       \/ /\ ~HookOf(d).exists
          /\ Finish(t)
          /\ UNCHANGED delivery
    /\ UNCHANGED <<webhook, processing, phase, budget, history>>

\* sendWebhook up to the fetch: an attempt begins, the request leaves the process.
SendRequest(t) ==
    /\ task[t].pc = "send"
    /\ Goto(t, [task[t] EXCEPT !.pc = "fetch"])
    /\ sent' = [sent EXCEPT ![task[t].d] = @ + 1]
    /\ UNCHANGED <<webhook, delivery, processing, phase, budget, lost, acked, touched>>

\* The storage call of a chain that has nothing to undo throws: createDelivery
\* (ignored by allSettled), or a call of manualRetry or requeueDelivery (the
\* API request fails).
CallFails(t) ==
    /\ task[t].pc \in {"create", "policy", "reset", "requeue"}
    /\ StorageFault
    /\ Finish(t)
    /\ UNCHANGED <<webhook, delivery, processing, phase, calls, edits, history>>

\* How sendWebhook classifies what came of the request.
\* ("not built": building the request threw, nothing left the process.)
Outcomes == {"2xx", "4xx", "other status", "timeout", "network error", "not built"}
\* Mutant of AttemptStatus: anything that is not an error counts as delivered.
AttemptStatusLenient(outcome) ==
    CASE outcome \in {"2xx", "other status"} -> "success"
      [] outcome \in {"4xx", "not built"} -> "failed"
      [] OTHER -> "retrying"
\* Mutant of AttemptStatus: success is not told apart from a server error.
AttemptStatusStrict(outcome) == IF outcome \in {"4xx", "not built"} THEN "failed" ELSE "retrying"
AttemptStatus(outcome) ==
    CASE outcome = "2xx" -> "success"
      [] outcome \in {"4xx", "not built"} -> "failed"
      [] OTHER -> "retrying"

FetchReturns(t, outcome) ==
    /\ task[t].pc = "fetch"
    /\ Goto(t, [task[t] EXCEPT !.pc = "read", !.result = AttemptStatus(outcome)])
    /\ acked' = IF outcome = "2xx" THEN acked \cup {task[t].d} ELSE acked
    /\ UNCHANGED <<webhook, delivery, processing, phase, budget, sent, lost, touched>>

\* updateDelivery, first half: re-read the row for its attempt count.
ReadDelivery(t) ==
    /\ task[t].pc = "read"
    /\ IF Stored(task[t].d)
       THEN Goto(t, [task[t] EXCEPT !.pc = "write", !.attempts = delivery[task[t].d].attempts])
       ELSE Finish(t)
    /\ UNCHANGED <<webhook, delivery, processing, phase, budget, history>>

\* Mutants of StatusAfter: one retry too many; a status outside the enum.
StatusAfterOffByOne(result, n, max) ==
    IF result = "retrying" /\ n > max THEN "dead_letter" ELSE result
StatusAfterMisspelt(result, n, max) ==
    IF result = "retrying" /\ n >= max THEN "deadletter" ELSE result

\* updateDelivery: what the row becomes after attempt number n.
StatusAfter(result, n, max) ==
    IF result = "retrying" /\ n >= max THEN "dead_letter" ELSE result

\* updateDelivery, second half: write the outcome back.
WriteDelivery(t) ==
    LET n == task[t].attempts + 1 IN
    /\ task[t].pc = "write"
    /\ UpdateRow(task[t].d, StatusAfter(task[t].result, n, task[t].max), n, FALSE)
    /\ Finish(t)
    /\ UNCHANGED <<webhook, processing, phase, budget, history>>

\* updateDelivery catches every storage error: the outcome is dropped.
RecordingFails(t) ==
    /\ task[t].pc \in {"read", "write"}
    /\ StorageFault
    /\ Finish(t)
    /\ lost' = [lost EXCEPT ![task[t].d] = @ + 1]
    /\ UNCHANGED <<webhook, delivery, processing, phase, calls, edits, sent, acked, touched>>

-----------------------------------------------------------------------------
(* WebhookProcessorService *)

\* A retrying delivery's next_retry_at passes.
BackoffElapses(d) ==
    /\ delivery[d].status = "retrying" /\ ~delivery[d].due
    /\ delivery' = [delivery EXCEPT ![d].due = TRUE]
    /\ UNCHANGED <<webhook, task, processing, phase, budget, history>>

\* processRetries: one batch at a time; retryDelivery is started for every
\* delivery of the batch before any of them continues.
ProcessRetries(D) ==
    /\ phase = "up"
    /\ ~processing
    /\ D # {} /\ RetriableBatch(D)
    /\ processing' = TRUE
    /\ task' = [t \in Tasks |-> IF t[1] = "retry" /\ t[2] \in D
                                THEN NewTask("hook", t[2]) ELSE task[t]]
    /\ UNCHANGED <<webhook, delivery, phase, budget, history>>

\* processRetries found no due delivery: it returns and the timer is re-armed.
NothingToRetry ==
    /\ phase = "up"
    /\ ~processing
    /\ Due = {}
    /\ UNCHANGED vars

\* Mutants of BatchSettled: the batch is not awaited; isProcessing is not reset.
BatchNotAwaited ==
    /\ processing
    /\ processing' = FALSE
    /\ UNCHANGED <<webhook, delivery, task, phase, budget, history>>
BatchFlagNotReset ==
    /\ processing
    /\ \A d \in Deliveries : task[RetryTask(d)].pc = "idle"
    /\ UNCHANGED vars

\* Promise.allSettled resolves once every retryDelivery of the batch is done.
BatchSettled ==
    /\ processing
    /\ \A d \in Deliveries : task[RetryTask(d)].pc = "idle"
    /\ processing' = FALSE
    /\ UNCHANGED <<webhook, delivery, task, phase, budget, history>>

\* retryDelivery: look the webhook up again; disabled, deleted or not
\* readable means the delivery is marked failed.
GetWebhook(t) ==
    LET w == HookOf(task[t].d) IN
    /\ task[t].pc = "hook"
    /\ IF w.exists /\ w.enabled
       THEN Goto(t, [task[t] EXCEPT !.pc = "send", !.max = w.maxRetries])
       ELSE Goto(t, [task[t] EXCEPT !.pc = "fail"])
    /\ UNCHANGED <<webhook, delivery, processing, phase, budget, history>>

GetWebhookFails(t) ==
    /\ task[t].pc = "hook"
    /\ StorageFault
    /\ Goto(t, [task[t] EXCEPT !.pc = "fail"])
    /\ UNCHANGED <<webhook, delivery, processing, phase, calls, edits, history>>

\* The write is the disabled branch's or, after any error, the catch's.
MarkFailed(t) ==
    /\ task[t].pc = "fail"
    /\ UpdateRow(task[t].d, "failed", delivery[task[t].d].attempts, FALSE)
    /\ Finish(t)
    /\ UNCHANGED <<webhook, processing, phase, budget, history>>

\* The write of the catch fails, which is only logged.  (The disabled branch's
\* write failing leads to the catch with the row unchanged: GetWebhookFails.)
MarkFailedFails(t) ==
    /\ task[t].pc = "fail"
    /\ StorageFault
    /\ Finish(t)
    /\ UNCHANGED <<webhook, delivery, processing, phase, calls, edits, history>>

\* manualRetry: read the row; a missing or successful one is refused here.
ManualRetry(c, d) ==
    LET t == ClientTask(c) IN
    /\ Alive /\ calls < MaxCalls
    /\ task[t].pc = "idle"
    /\ Stored(d) /\ delivery[d].status # "success"
    /\ Goto(t, [NewTask("policy", d) EXCEPT !.status = delivery[d].status,
                                            !.attempts = delivery[d].attempts])
    /\ calls' = calls + 1
    /\ UNCHANGED <<webhook, delivery, processing, phase, faults, edits, history>>

\* manualRetry: compare the attempts it read with the webhook's policy.
ManualPolicy(c) ==
    LET t == ClientTask(c)
        w == HookOf(task[t].d) IN
    /\ task[t].pc = "policy"
    /\ IF w.exists /\ task[t].attempts < w.maxRetries
       THEN Goto(t, [task[t] EXCEPT !.pc = "reset"])
       ELSE Finish(t)
    /\ UNCHANGED <<webhook, delivery, processing, phase, budget, history>>

\* manualRetry: reset the row to retrying, due now, and go on to retryDelivery.
ManualReset(c) ==
    LET t == ClientTask(c)
        d == task[t].d IN
    /\ task[t].pc = "reset"
    /\ UpdateRow(d, "retrying", delivery[d].attempts, TRUE)
    /\ Goto(t, NewTask("hook", d))
    /\ touched' = touched \cup {d}
    /\ UNCHANGED <<webhook, processing, phase, budget, sent, lost, acked>>

-----------------------------------------------------------------------------
(* WebhookDlqService *)

\* requeueDelivery: read the row, only a failed one is accepted, ...
RequeueDelivery(c, d) ==
    /\ Alive /\ calls < MaxCalls
    /\ task[ClientTask(c)].pc = "idle"
    /\ delivery[d].status = "failed"
    /\ Goto(ClientTask(c), NewTask("requeue", d))
    /\ calls' = calls + 1
    /\ UNCHANGED <<webhook, delivery, processing, phase, faults, edits, history>>

\* ... then reset it with a fresh retry budget.
RequeueReset(c) ==
    LET t == ClientTask(c) IN
    /\ task[t].pc = "requeue"
    /\ UpdateRow(task[t].d, "retrying", 0, TRUE)
    /\ Finish(t)
    /\ touched' = touched \cup {task[t].d}
    /\ UNCHANGED <<webhook, processing, phase, budget, sent, lost, acked>>

-----------------------------------------------------------------------------
(* WebhooksService and retention *)

UpdateWebhook(w, enabled, max) ==
    /\ Alive /\ edits < MaxEdits
    /\ webhook[w].exists
    /\ webhook' = [webhook EXCEPT ![w].enabled = enabled, ![w].maxRetries = max,
                                  ![w].offered = @ \cup {max}]
    /\ edits' = edits + 1
    /\ UNCHANGED <<delivery, task, processing, phase, calls, faults, history>>

\* deleteWebhook: the foreign key cascades to the webhook's deliveries.
DeleteWebhook(w) ==
    /\ Alive /\ edits < MaxEdits
    /\ webhook[w].exists
    /\ webhook' = [webhook EXCEPT ![w].exists = FALSE]
    /\ delivery' = [d \in Deliveries |->
                       IF WebhookOf[d] = w /\ Stored(d)
                       THEN [delivery[d] EXCEPT !.status = "deleted"] ELSE delivery[d]]
    /\ edits' = edits + 1
    /\ UNCHANGED <<task, processing, phase, calls, faults, history>>

\* pruneOldDeliveries: rows past the retention cutoff go, whatever their status.
PruneOldDelivery(d) ==
    /\ Alive /\ edits < MaxEdits
    /\ Stored(d)
    /\ delivery' = [delivery EXCEPT ![d].status = "deleted"]
    /\ edits' = edits + 1
    /\ UNCHANGED <<webhook, task, processing, phase, calls, faults, history>>

-----------------------------------------------------------------------------
(* Process lifecycle *)

\* The chains in retryDelivery, counted by activeRetries.
ActiveRetries == {t \in Tasks : /\ t[1] # "dispatch"
                                /\ task[t].pc \in {"hook", "fail", "send", "fetch", "read", "write"}}

\* onModuleDestroy: stop the timer; a batch in progress is not interrupted.
BeginShutdown ==
    /\ phase = "up" /\ faults < MaxFaults
    /\ phase' = "stopping"
    /\ faults' = faults + 1
    /\ UNCHANGED <<webhook, delivery, task, processing, calls, edits, history>>

\* The process ends: every chain is gone, the rows stay as they are.
ProcessEnds ==
    /\ phase' = "down"
    /\ processing' = FALSE
    /\ task' = [t \in Tasks |-> NoTask]
    /\ lost' = [d \in Deliveries |-> lost[d] + Cardinality({t \in Tasks : InFlight(t, d)})]
    /\ UNCHANGED <<webhook, delivery, calls, edits, sent, acked, touched>>

\* The shutdown wait is over: no active retry is left.
ShutdownCompletes ==
    /\ phase = "stopping"
    /\ ActiveRetries = {}
    /\ ProcessEnds
    /\ UNCHANGED faults

\* GRACEFUL_SHUTDOWN_TIMEOUT_MS elapsed first.
ShutdownForced ==
    /\ phase = "stopping"
    /\ ActiveRetries # {}
    /\ ProcessEnds
    /\ UNCHANGED faults

Crash ==
    /\ Alive
    /\ StorageFault
    /\ ProcessEnds

\* onModuleInit: the retry timer is armed; no row is looked at.
Restart ==
    /\ phase = "down"
    /\ phase' = "up"
    /\ UNCHANGED <<webhook, delivery, task, processing, budget, history>>

-----------------------------------------------------------------------------
SendStep(t) ==
    \/ SendRequest(t)
    \/ \E outcome \in Outcomes : FetchReturns(t, outcome)
    \/ ReadDelivery(t)
    \/ WriteDelivery(t)

RetryStep(t) == GetWebhook(t) \/ MarkFailed(t)

FaultStep(t) ==
    CallFails(t) \/ RecordingFails(t) \/ GetWebhookFails(t) \/ MarkFailedFails(t)

ClientStep(c) == ManualPolicy(c) \/ ManualReset(c) \/ RequeueReset(c)

Next ==
    \/ \E d \in Deliveries : DispatchEvent(d) \/ CreateDelivery(d) \/ BackoffElapses(d)
    \/ \E t \in Tasks : SendStep(t) \/ RetryStep(t)
    \/ \E t \in Tasks : FaultStep(t)
    \/ \E D \in SUBSET Deliveries : ProcessRetries(D)
    \/ NothingToRetry \/ BatchSettled
    \/ \E c \in Clients, d \in Deliveries : ManualRetry(c, d) \/ RequeueDelivery(c, d)
    \/ \E c \in Clients : ClientStep(c)
    \/ \E w \in Webhooks, e \in BOOLEAN, m \in RetryLimits : UpdateWebhook(w, e, m)
    \/ \E w \in Webhooks : DeleteWebhook(w)
    \/ \E d \in Deliveries : PruneOldDelivery(d)
    \/ BeginShutdown \/ ShutdownCompletes \/ ShutdownForced \/ Crash \/ Restart

Spec == Init /\ [][Next]_vars

\* What the runtime guarantees: a started chain continues (storage answers and
\* fetch ends, by the AbortController's timeout at the latest), the retry
\* timer fires, time passes, and a stopped process is started again.  Events,
\* API calls, edits and faults need not happen.
Fairness ==
    /\ \A t \in Tasks : WF_vars(SendStep(t)) /\ WF_vars(RetryStep(t))
    /\ \A c \in Clients : WF_vars(ClientStep(c))
    /\ \A d \in Deliveries : WF_vars(CreateDelivery(d)) /\ WF_vars(BackoffElapses(d))
    /\ WF_vars(\E D \in SUBSET Deliveries : ProcessRetries(D))
    /\ WF_vars(BatchSettled)
    /\ WF_vars(ShutdownCompletes \/ ShutdownForced)
    /\ WF_vars(Restart)

FairSpec == Spec /\ Fairness

-----------------------------------------------------------------------------
(* Safety.  A delivery nobody reset by hand is "untouched": the retry loop  *)
(* is alone with it, which is what these properties rest on.                *)

Untouched == Deliveries \ touched

\* At most one chain at a time works on sending an untouched delivery: the
\* first attempt and the retry loop never overlap, nor do two batches.  This
\* is what the PENDING status, isProcessing and allSettled are for.
SingleFlight ==
    \A d \in Untouched : \A t, u \in Tasks :
        Sending(t, d) /\ Sending(u, d) => t = u

\* Every attempt to send an untouched delivery is accounted for: counted in
\* its row's attempts, still in flight, or lost to a crash or storage failure.
\* No increment of attempts is overwritten by a concurrent updateDelivery.
AttemptAccounting ==
    \A d \in Untouched : Stored(d) =>
        sent[d] = delivery[d].attempts + lost[d] + Cardinality({t \in Tasks : InFlight(t, d)})

\* The retry loop never records more attempts on an untouched delivery than
\* the largest retryPolicy.maxRetries its own webhook has had so far (one if
\* that is zero), although every attempt is counted against the policy of the
\* webhook snapshot its chain took, which may be edited while it is out, and
\* through crashes and storage failures.
AttemptBound ==
    \A d \in Untouched :
        delivery[d].attempts <= 1 \/ \E m \in HookOf(d).offered : delivery[d].attempts <= m

\* A row only says success if the endpoint did answer 2xx, whatever manual
\* retries, requeues and crashes raced with the attempt.
SuccessMeansAcked ==
    \A d \in Deliveries : delivery[d].status = "success" => d \in acked

(* Action properties *)

Settled == {"success", "failed", "dead_letter"}

\* The final status of an untouched delivery is final: no late writer of the
\* pipeline itself changes it (deleting the row aside).
SettledIsFinal ==
    [][\A d \in Deliveries \ touched' : delivery[d].status \in Settled =>
            delivery'[d].status \in {delivery[d].status, "deleted"}]_vars

\* Once an endpoint has acknowledged an untouched delivery it is not sent
\* again, unless the acknowledgement was lost before it was recorded.
AckedNotResent ==
    [][\A d \in Deliveries \ touched' :
            d \in acked /\ lost[d] = 0 => sent'[d] = sent[d]]_vars

(* Liveness *)

\* A delivery waiting for a retry does not wait forever: it is sent until it
\* succeeds, fails for good or is dead-lettered (or its row is deleted), also
\* when the process is restarted or a write of the outcome fails on the way.
RetryingIsResolved ==
    \A d \in Deliveries : []<>(delivery[d].status # "retrying")

-----------------------------------------------------------------------------
(* What the documentation and the code's own checks claim and the pipeline  *)
(* does not keep.                                                           *)

\* manualRetry turns down the delivery it has just read (the webhook exists).
Refuses(c) ==
    LET t == ClientTask(c) IN
    /\ task[t].pc = "policy" /\ task'[t].pc = "idle"
    /\ HookOf(task[t].d).exists
    /\ UNCHANGED <<faults, phase>>

\* "Manually retry a failed or dead letter delivery": a dead letter delivery
\* is not turned down.
DeadLetterRetryable ==
    [][\A c \in Clients : Refuses(c) => task[ClientTask(c)].status # "dead_letter"]_vars

\* "Prevents data loss (delivery records get marked failed on interrupt)": a
\* delivery whose first attempt is under way when the shutdown begins does not
\* stay pending for ever.
ShutdownLosesNothing ==
    \A d \in Deliveries :
        phase = "stopping" /\ delivery[d].status = "pending" ~> delivery[d].status # "pending"
=============================================================================
