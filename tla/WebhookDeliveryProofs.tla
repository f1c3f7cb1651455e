------------------------ MODULE WebhookDeliveryProofs ------------------------
(***************************************************************************)
(* Proofs about WebhookDelivery, for any number of deliveries, webhooks and *)
(* API clients, any retry policies and any number of calls and faults.      *)
(***************************************************************************)
EXTENDS WebhookDelivery, FiniteSetTheorems, TLAPS

-----------------------------------------------------------------------------
(* The inductive invariant                                                  *)

SendSteps  == {"send", "fetch", "read", "write"}
RetrySteps == {"hook", "fail"} \cup SendSteps

\* Every chain is at a step of its own routine and knows its delivery and,
\* once it has looked the webhook up, a policy the webhook had.
TaskShape ==
    /\ \A t \in Tasks :
          /\ task[t].pc # "idle" => task[t].d \in Deliveries
          /\ task[t].pc \in {"create"} \cup SendSteps => task[t].max \in RetryLimits
    /\ \A d \in Deliveries :
          /\ task[DispatchTask(d)].pc \in {"idle", "create"} \cup SendSteps
          /\ task[RetryTask(d)].pc \in {"idle"} \cup RetrySteps
          /\ task[DispatchTask(d)].pc # "idle" => task[DispatchTask(d)].d = d
          /\ task[RetryTask(d)].pc # "idle" => task[RetryTask(d)].d = d
    /\ \A c \in Clients : task[ClientTask(c)].pc # "create"

\* API callers only send deliveries they have reset.
ClientTouched ==
    \A c \in Clients : task[ClientTask(c)].pc \in RetrySteps => task[ClientTask(c)].d \in touched

\* isProcessing covers the whole batch.
BatchGuarded == \A d \in Deliveries : task[RetryTask(d)].pc # "idle" => processing

\* The row of an untouched delivery tells who may be sending it: nobody before
\* it is created, the dispatcher while it is pending, the retry loop while it
\* is retrying, nobody once it is settled.
RowOwner(d) ==
    /\ task[DispatchTask(d)].pc = "create" => delivery[d].status = "none"
    /\ task[DispatchTask(d)].pc \in SendSteps =>
          /\ delivery[d].status \in {"pending", "deleted"}
          /\ task[RetryTask(d)].pc = "idle"
    /\ task[RetryTask(d)].pc # "idle" => delivery[d].status \in {"retrying", "deleted"}
Ownership == \A d \in Untouched : RowOwner(d)

\* n attempts are within a policy that allows the numbers of S.
Bounded(n, S) == n <= 1 \/ \E m \in S : n <= m

\* A webhook's policy, and the policy in the snapshot of a chain that sends, is
\* one the webhook has had.
OfferedInv ==
    /\ \A w \in Webhooks : webhook[w].maxRetries \in webhook[w].offered
    /\ \A t \in Tasks : task[t].pc \in {"create"} \cup SendSteps
                           => task[t].max \in HookOf(task[t].d).offered

\* An untouched delivery is only retried while its attempts are below a
\* maxRetries its webhook had, and its writer has counted from the row as it is.
AttemptsOf(d) ==
    /\ delivery[d].status \in {"none", "pending"} => delivery[d].attempts = 0
    /\ delivery[d].status = "retrying" => \E m \in HookOf(d).offered : delivery[d].attempts < m
    /\ Bounded(delivery[d].attempts, HookOf(d).offered)
    /\ \A t \in Tasks : task[t].d = d /\ task[t].pc = "write" /\ Stored(d)
                           => task[t].attempts = delivery[d].attempts

\* A chain that has an answer has classified it.
ResultKnown ==
    \A t \in Tasks : task[t].pc \in {"read", "write"} => task[t].result \in {"success", "failed", "retrying"}
AttemptInv == ResultKnown /\ \A d \in Untouched : AttemptsOf(d)

\* A chain about to record success has seen a 2xx response.
ResultAcked ==
    \A t \in Tasks : task[t].pc \in {"read", "write"} /\ task[t].result = "success"
                        => task[t].d \in acked

\* Who may be sending what.
Owners == ClientTouched /\ BatchGuarded /\ Ownership

-----------------------------------------------------------------------------
(* The chains *)

\* A chain is the dispatcher's or the retry loop's for some delivery, or an
\* API caller's.
LEMMA TaskCases ==
    ASSUME NEW t \in Tasks
    PROVE  \/ \E d \in Deliveries : t = DispatchTask(d)
           \/ \E d \in Deliveries : t = RetryTask(d)
           \/ \E c \in Clients : t = ClientTask(c)
  BY DEF Tasks, DispatchTask, RetryTask, ClientTask

\* The dispatcher's and the retry loop's chains are chains.
LEMMA DeliveryTasks ==
    ASSUME NEW d \in Deliveries
    PROVE  /\ DispatchTask(d) \in Tasks /\ RetryTask(d) \in Tasks
           /\ RetryTask(d)[1] = "retry" /\ RetryTask(d)[2] = d
           /\ DispatchTask(d)[1] = "dispatch" /\ DispatchTask(d)[2] = d
  BY DEF Tasks, DispatchTask, RetryTask

\* An API caller's chain is a chain.
LEMMA ClientTasks ==
    ASSUME NEW c \in Clients
    PROVE  ClientTask(c) \in Tasks /\ ClientTask(c)[1] = "client"
  BY DEF Tasks, ClientTask

\* Different chains have different names.
LEMMA TasksDiffer ==
    /\ \A d, e : DispatchTask(d) # RetryTask(e)
    /\ \A d, c : DispatchTask(d) # ClientTask(c) /\ RetryTask(d) # ClientTask(c)
    /\ \A d, e : DispatchTask(d) = DispatchTask(e) => d = e
    /\ \A d, e : RetryTask(d) = RetryTask(e) => d = e
    /\ \A d, e : ClientTask(d) = ClientTask(e) => d = e
  BY DEF DispatchTask, RetryTask, ClientTask

\* What a chain's record is, field by field, when it starts or ends.
LEMMA TaskRecords ==
    /\ NoTask \in TaskState /\ NoTask.pc = "idle" /\ NoTask.d = None
    /\ \A pc \in Steps, d \in Deliveries :
          /\ NewTask(pc, d) \in TaskState
          /\ NewTask(pc, d).pc = pc /\ NewTask(pc, d).d = d
  BY WebhookAssumption DEF NoTask, NewTask, TaskState, Steps, DeliveryStatus

-----------------------------------------------------------------------------
(* Type correctness *)

\* Types and the shape of the chains hold initially.
LEMMA ShapeInit == Init => TypeOK /\ TaskShape
  <1> SUFFICES ASSUME Init PROVE TypeOK /\ TaskShape
    OBVIOUS
  <1>1. webhook \in [Webhooks -> Webhook]
    <2>1. PICK max \in [Webhooks -> RetryLimits] :
             webhook = [w \in Webhooks |-> [exists |-> TRUE, enabled |-> TRUE,
                                            maxRetries |-> max[w], offered |-> {max[w]}]]
      BY DEF Init
    <2>2. ASSUME NEW w \in Webhooks
          PROVE  [exists |-> TRUE, enabled |-> TRUE, maxRetries |-> max[w], offered |-> {max[w]}] \in Webhook
      BY DEF Webhook
    <2>3. QED
      BY <2>1, <2>2
  <1>2. delivery \in [Deliveries -> Row]
    BY DEF Init, Row
  <1>3. task \in [Tasks -> TaskState] /\ \A t \in Tasks : task[t] = NoTask
    BY TaskRecords DEF Init
  <1>4. TypeOK
    BY <1>1, <1>2, <1>3 DEF Init, TypeOK
  <1>5. TaskShape
    BY <1>3, TaskRecords, DeliveryTasks, ClientTasks DEF TaskShape, SendSteps, RetrySteps
  <1>6. QED
    BY <1>4, <1>5

\* A step of one chain that keeps its record well formed keeps all of them so.
LEMMA GotoShape ==
    ASSUME TypeOK, TaskShape, NEW t \in Tasks, NEW s \in TaskState, Goto(t, s),
           s.pc # "idle" => s.d \in Deliveries,
           s.pc \in {"create"} \cup SendSteps => s.max \in RetryLimits,
           \A d \in Deliveries : t = DispatchTask(d) =>
               s.pc \in {"idle", "create"} \cup SendSteps /\ (s.pc # "idle" => s.d = d),
           \A d \in Deliveries : t = RetryTask(d) =>
               s.pc \in {"idle"} \cup RetrySteps /\ (s.pc # "idle" => s.d = d),
           \A c \in Clients : t = ClientTask(c) => s.pc # "create"
    PROVE  task' \in [Tasks -> TaskState] /\ TaskShape'
  <1>1. /\ task' \in [Tasks -> TaskState]
        /\ task'[t] = s
        /\ \A u \in Tasks : u # t => task'[u] = task[u]
    BY DEF Goto, TypeOK
  <1>2. ASSUME NEW u \in Tasks
        PROVE  /\ task'[u].pc # "idle" => task'[u].d \in Deliveries
               /\ task'[u].pc \in {"create"} \cup SendSteps => task'[u].max \in RetryLimits
    BY <1>1 DEF TaskShape
  <1>3. ASSUME NEW d \in Deliveries
        PROVE  /\ task'[DispatchTask(d)].pc \in {"idle", "create"} \cup SendSteps
               /\ task'[RetryTask(d)].pc \in {"idle"} \cup RetrySteps
               /\ task'[DispatchTask(d)].pc # "idle" => task'[DispatchTask(d)].d = d
               /\ task'[RetryTask(d)].pc # "idle" => task'[RetryTask(d)].d = d
    BY <1>1, DeliveryTasks DEF TaskShape
  <1>4. ASSUME NEW c \in Clients
        PROVE  task'[ClientTask(c)].pc # "create"
    BY <1>1, ClientTasks DEF TaskShape
  <1>5. QED
    BY <1>1, <1>2, <1>3, <1>4 DEF TaskShape

\* Ending a chain keeps the others well formed.
LEMMA FinishShape ==
    ASSUME TypeOK, TaskShape, NEW t \in Tasks, Finish(t)
    PROVE  task' \in [Tasks -> TaskState] /\ TaskShape'
  BY GotoShape, TaskRecords DEF Finish, SendSteps, RetrySteps

\* updateDelivery keeps the rows well typed.
LEMMA UpdateRowType ==
    ASSUME TypeOK, NEW d \in Deliveries, NEW s \in DeliveryStatus, NEW n \in Nat, NEW b \in BOOLEAN,
           UpdateRow(d, s, n, b)
    PROVE  delivery' \in [Deliveries -> Row]
  BY DEF UpdateRow, TypeOK, Row

\* There are finitely many chains.
LEMMA FiniteTasks == IsFiniteSet(Tasks)
  <1>1. /\ IsFiniteSet({"dispatch"}) /\ IsFiniteSet({"retry"}) /\ IsFiniteSet({"client"})
    BY FS_Singleton
  <1>2. IsFiniteSet({"dispatch"} \cup {"retry"})
    BY <1>1, FS_Union
  <1>3. {"dispatch"} \cup {"retry"} = {"dispatch", "retry"}
    OBVIOUS
  <1>4. IsFiniteSet({"dispatch", "retry"} \X Deliveries) /\ IsFiniteSet({"client"} \X Clients)
    BY <1>1, <1>2, <1>3, WebhookAssumption, FS_Product
  <1>5. QED
    BY <1>4, FS_Union DEF Tasks

\* The requests in flight for a delivery can be counted.
LEMMA LossCounts ==
    ASSUME TypeOK, NEW d \in Deliveries
    PROVE  /\ IsFiniteSet({t \in Tasks : InFlight(t, d)})
           /\ Cardinality({t \in Tasks : InFlight(t, d)}) \in Nat
           /\ lost[d] + Cardinality({t \in Tasks : InFlight(t, d)}) \in Nat
  <1>1. IsFiniteSet({t \in Tasks : InFlight(t, d)})
    BY FiniteTasks, FS_Subset
  <1>2. QED
    BY <1>1, FS_CardinalityType DEF TypeOK

\* Every step keeps the types and the shape of the chains.
LEMMA ShapeStep == TypeOK /\ TaskShape /\ [Next]_vars => TypeOK' /\ TaskShape'
  <1> SUFFICES ASSUME TypeOK, TaskShape, [Next]_vars
               PROVE  TypeOK' /\ TaskShape'
    OBVIOUS
  <1> DEFINE Frame == /\ webhook' \in [Webhooks -> Webhook]
                      /\ delivery' \in [Deliveries -> Row]
                      /\ processing' \in BOOLEAN
                      /\ phase' \in {"up", "stopping", "down"}
                      /\ calls' \in Nat /\ faults' \in Nat /\ edits' \in Nat
                      /\ sent' \in [Deliveries -> Nat]
                      /\ lost' \in [Deliveries -> Nat]
                      /\ acked' \subseteq Deliveries
                      /\ touched' \subseteq Deliveries
             Chains == task' \in [Tasks -> TaskState] /\ TaskShape'
  <1>0. SUFFICES Frame /\ Chains
    BY DEF TypeOK
  <1> HIDE DEF Frame, Chains
  <1>a. ASSUME NEW t \in Tasks, task[t].pc # "idle"
        PROVE  /\ task[t] \in TaskState /\ task[t].d \in Deliveries
               /\ delivery[task[t].d] \in Row
               /\ HookOf(task[t].d) \in Webhook
    BY <1>a, WebhookAssumption DEF TypeOK, TaskShape, HookOf
  <1>1. ASSUME NEW d \in Deliveries, DispatchEvent(d)
        PROVE  Frame /\ Chains
    <2>1. Frame
      BY <1>1 DEF Frame, TypeOK, DispatchEvent, budget, history
    <2> DEFINE s == [NewTask("create", d) EXCEPT !.max = HookOf(d).maxRetries]
    <2>2. HookOf(d) \in Webhook
      BY WebhookAssumption DEF HookOf, TypeOK
    <2>3. s \in TaskState /\ s.pc = "create" /\ s.d = d /\ s.max \in RetryLimits
      BY <2>2, TaskRecords, WebhookAssumption DEF TaskState, Webhook, Steps
    <2> HIDE DEF s
    <2>4. Goto(DispatchTask(d), s)
      BY <1>1 DEF DispatchEvent, s
    <2>5. QED
      BY <2>1, <2>3, <2>4, GotoShape, DeliveryTasks, TasksDiffer DEF SendSteps, Chains
  <1>2. ASSUME NEW d \in Deliveries, CreateDelivery(d)
        PROVE  Frame /\ Chains
    <2> DEFINE t == DispatchTask(d)
               s == [task[t] EXCEPT !.pc = "send"]
    <2>r. [status |-> "pending", attempts |-> 0, due |-> FALSE] \in Row
      BY DEF Row, DeliveryStatus
    <2>0. delivery' \in [Deliveries -> Row]
      BY <1>2, <2>r DEF TypeOK, CreateDelivery
    <2>1. Frame
      BY <1>2, <2>0 DEF Frame, TypeOK, CreateDelivery, budget, history
    <2>2. t \in Tasks /\ task[t].pc = "create" /\ task[t].d = d /\ task[t].max \in RetryLimits
      BY <1>2, DeliveryTasks DEF CreateDelivery, TaskShape
    <2>3. s \in TaskState /\ s.pc = "send" /\ s.d = d /\ s.max \in RetryLimits
      BY <2>2, <1>a DEF TaskState, Steps
    <2> HIDE DEF s
    <2>4. Goto(t, s) \/ Finish(t)
      BY <1>2 DEF CreateDelivery, s
    <2>5. QED
      BY <2>1, <2>2, <2>3, <2>4, GotoShape, FinishShape, TasksDiffer DEF SendSteps, Chains
  <1>3. ASSUME NEW t \in Tasks, SendRequest(t)
        PROVE  Frame /\ Chains
    <2> DEFINE s == [task[t] EXCEPT !.pc = "fetch"]
    <2>0. sent' \in [Deliveries -> Nat]
      <3>1. task[t].d \in Deliveries /\ sent[task[t].d] + 1 \in Nat
        BY <1>3, <1>a DEF TypeOK, SendRequest
      <3>2. QED
        BY <1>3, <3>1 DEF TypeOK, SendRequest
    <2>1. Frame
      BY <1>3, <2>0 DEF Frame, TypeOK, SendRequest, budget
    <2>2. s \in TaskState /\ s.pc = "fetch" /\ s.d = task[t].d /\ s.max = task[t].max
      BY <1>3, <1>a DEF SendRequest, TaskState, Steps
    <2> HIDE DEF s
    <2>3. Goto(t, s) /\ task[t].pc = "send"
      BY <1>3 DEF SendRequest, s
    <2>4. QED
      BY <2>1, <2>2, <2>3, GotoShape DEF SendSteps, RetrySteps, TaskShape, Chains
  <1>4. ASSUME NEW t \in Tasks, NEW o \in Outcomes, FetchReturns(t, o)
        PROVE  Frame /\ Chains
    <2> DEFINE s == [task[t] EXCEPT !.pc = "read", !.result = AttemptStatus(o)]
    <2>1. Frame
      BY <1>4, <1>a DEF Frame, TypeOK, FetchReturns, budget
    <2>2. AttemptStatus(o) \in DeliveryStatus
      BY DEF AttemptStatus, DeliveryStatus, Outcomes
    <2>3. s \in TaskState /\ s.pc = "read" /\ s.d = task[t].d /\ s.max = task[t].max
      BY <1>4, <1>a, <2>2 DEF FetchReturns, TaskState, Steps
    <2> HIDE DEF s
    <2>4. Goto(t, s) /\ task[t].pc = "fetch"
      BY <1>4 DEF FetchReturns, s
    <2>5. QED
      BY <2>1, <2>3, <2>4, GotoShape DEF SendSteps, RetrySteps, TaskShape, Chains
  <1>5. ASSUME NEW t \in Tasks, ReadDelivery(t)
        PROVE  Frame /\ Chains
    <2> DEFINE s == [task[t] EXCEPT !.pc = "write", !.attempts = delivery[task[t].d].attempts]
    <2>1. Frame
      BY <1>5 DEF Frame, TypeOK, ReadDelivery, budget, history
    <2>2. s \in TaskState /\ s.pc = "write" /\ s.d = task[t].d /\ s.max = task[t].max
      BY <1>5, <1>a DEF ReadDelivery, TaskState, Steps, Row
    <2> HIDE DEF s
    <2>3. (Goto(t, s) \/ Finish(t)) /\ task[t].pc = "read"
      BY <1>5 DEF ReadDelivery, s
    <2>4. QED
      BY <2>1, <2>2, <2>3, GotoShape, FinishShape DEF SendSteps, RetrySteps, TaskShape, Chains
  <1>6. ASSUME NEW t \in Tasks, WriteDelivery(t)
        PROVE  Frame /\ Chains
    <2> DEFINE n == task[t].attempts + 1
               st == StatusAfter(task[t].result, n, task[t].max)
    <2>1. task[t].pc = "write" /\ n \in Nat /\ st \in DeliveryStatus
      BY <1>6, <1>a DEF WriteDelivery, TaskState, StatusAfter, DeliveryStatus
    <2> HIDE DEF n, st
    <2>2. UpdateRow(task[t].d, st, n, FALSE) /\ Finish(t)
      BY <1>6 DEF WriteDelivery, n, st
    <2>3. delivery' \in [Deliveries -> Row]
      BY <2>1, <2>2, <1>a, UpdateRowType
    <2>4. Frame
      BY <1>6, <2>3 DEF Frame, TypeOK, WriteDelivery, budget, history
    <2>5. QED
      BY <2>2, <2>4, FinishShape DEF Chains
  <1>7. ASSUME NEW t \in Tasks, FaultStep(t)
        PROVE  Frame /\ Chains
    <2> DEFINE s == [task[t] EXCEPT !.pc = "fail"]
    <2>1. Frame
      BY <1>7 DEF FaultStep, CallFails, RecordingFails, GetWebhookFails, MarkFailedFails,
                  StorageFault, Frame, TypeOK, history
    <2>2. CASE GetWebhookFails(t)
      <3>1. s \in TaskState /\ s.pc = "fail" /\ s.d = task[t].d
        BY <2>2, <1>a DEF GetWebhookFails, TaskState, Steps
      <3> HIDE DEF s
      <3>2. Goto(t, s) /\ task[t].pc = "hook"
        BY <2>2 DEF GetWebhookFails, s
      <3>3. QED
        BY <2>1, <3>1, <3>2, GotoShape DEF SendSteps, RetrySteps, TaskShape, Chains
    <2>3. CASE ~GetWebhookFails(t)
      <3>1. Finish(t)
        BY <1>7, <2>3 DEF FaultStep, CallFails, RecordingFails, MarkFailedFails
      <3>2. QED
        BY <2>1, <3>1, FinishShape DEF Chains
    <2>4. QED
      BY <2>2, <2>3
  <1>8. ASSUME NEW t \in Tasks, GetWebhook(t)
        PROVE  Frame /\ Chains
    <2> DEFINE r == [task[t] EXCEPT !.pc = "send", !.max = HookOf(task[t].d).maxRetries]
               s == [task[t] EXCEPT !.pc = "fail"]
    <2>1. Frame
      BY <1>8 DEF Frame, TypeOK, GetWebhook, budget, history
    <2>2. /\ s \in TaskState /\ s.pc = "fail" /\ s.d = task[t].d
          /\ r \in TaskState /\ r.pc = "send" /\ r.d = task[t].d /\ r.max \in RetryLimits
      BY <1>8, <1>a, WebhookAssumption DEF GetWebhook, TaskState, Steps, Webhook
    <2> HIDE DEF s, r
    <2>3. (Goto(t, r) \/ Goto(t, s)) /\ task[t].pc = "hook"
      BY <1>8 DEF GetWebhook, s, r
    <2>4. QED
      BY <2>1, <2>2, <2>3, GotoShape DEF SendSteps, RetrySteps, TaskShape, Chains
  <1>9. ASSUME NEW t \in Tasks, MarkFailed(t)
        PROVE  Frame /\ Chains
    <2>1. /\ task[t].pc = "fail" /\ Finish(t)
          /\ UpdateRow(task[t].d, "failed", delivery[task[t].d].attempts, FALSE)
      BY <1>9 DEF MarkFailed
    <2>2. delivery[task[t].d].attempts \in Nat /\ task[t].d \in Deliveries
      BY <2>1, <1>a DEF Row
    <2>3. delivery' \in [Deliveries -> Row]
      BY <2>1, <2>2, UpdateRowType DEF DeliveryStatus
    <2>4. Frame
      BY <1>9, <2>3 DEF Frame, TypeOK, MarkFailed, budget, history
    <2>5. QED
      BY <2>1, <2>4, FinishShape DEF Chains
  <1>10. ASSUME NEW d \in Deliveries, BackoffElapses(d) \/ PruneOldDelivery(d)
         PROVE  Frame /\ Chains
    <2>1. delivery' \in [Deliveries -> Row]
      <3>1. /\ delivery[d] \in Row
            /\ [delivery[d] EXCEPT !.due = TRUE] \in Row
            /\ [delivery[d] EXCEPT !.status = "deleted"] \in Row
        BY DEF TypeOK, Row
      <3>2. \/ delivery' = [delivery EXCEPT ![d] = [delivery[d] EXCEPT !.due = TRUE]]
            \/ delivery' = [delivery EXCEPT ![d] = [delivery[d] EXCEPT !.status = "deleted"]]
        BY <1>10 DEF BackoffElapses, PruneOldDelivery
      <3>3. QED
        BY <3>1, <3>2 DEF TypeOK
    <2>2. Frame
      BY <1>10, <2>1 DEF Frame, TypeOK, BackoffElapses, PruneOldDelivery, budget, history
    <2>3. UNCHANGED task
      BY <1>10 DEF BackoffElapses, PruneOldDelivery
    <2>4. QED
      BY <2>2, <2>3 DEF Chains, TypeOK, TaskShape
  <1>11. ASSUME NEW D \in SUBSET Deliveries, ProcessRetries(D)
         PROVE  Frame /\ Chains
    <2>1. Frame
      BY <1>11 DEF Frame, TypeOK, ProcessRetries, budget, history
    <2>2. \A t \in Tasks : task'[t] = IF t[1] = "retry" /\ t[2] \in D
                                     THEN NewTask("hook", t[2]) ELSE task[t]
      BY <1>11 DEF ProcessRetries
    <2>3. task' \in [Tasks -> TaskState]
      BY <1>11, TaskRecords DEF ProcessRetries, TypeOK, Steps
    <2>4. \A d \in Deliveries : /\ task'[DispatchTask(d)] = task[DispatchTask(d)]
                                /\ \/ task'[RetryTask(d)] = task[RetryTask(d)]
                                   \/ task'[RetryTask(d)].pc = "hook" /\ task'[RetryTask(d)].d = d
      BY <2>2, DeliveryTasks, TaskRecords DEF Steps
    <2>5. \A c \in Clients : task'[ClientTask(c)] = task[ClientTask(c)]
      BY <2>2, ClientTasks
    <2>6. \A t \in Tasks : \/ task'[t] = task[t]
                           \/ task'[t].pc = "hook" /\ task'[t].d \in Deliveries
      <3> SUFFICES ASSUME NEW t \in Tasks, t[1] = "retry", t[2] \in D
                   PROVE  task'[t].pc = "hook" /\ task'[t].d \in Deliveries
        BY <2>2
      <3>1. t[2] \in Deliveries /\ "hook" \in Steps
        BY DEF Steps
      <3>2. QED
        BY <2>2, <3>1, TaskRecords
    <2>7. TaskShape'
      BY <2>4, <2>5, <2>6 DEF TaskShape, SendSteps, RetrySteps
    <2>8. QED
      BY <2>1, <2>3, <2>7 DEF Chains
  <1>12. ASSUME NothingToRetry \/ BatchSettled
         PROVE  Frame /\ Chains
    <2>1. Frame
      BY <1>12 DEF Frame, TypeOK, NothingToRetry, BatchSettled, vars, budget, history
    <2>2. UNCHANGED task
      BY <1>12 DEF NothingToRetry, BatchSettled, vars
    <2>3. QED
      BY <2>1, <2>2 DEF Chains, TypeOK, TaskShape
  <1>13. ASSUME NEW c \in Clients, NEW d \in Deliveries, ManualRetry(c, d) \/ RequeueDelivery(c, d)
         PROVE  Frame /\ Chains
    <2>1. Frame
      BY <1>13 DEF Frame, TypeOK, ManualRetry, RequeueDelivery, history
    <2>2. delivery[d] \in Row
      BY DEF TypeOK
    <2>3. PICK s \in TaskState : /\ Goto(ClientTask(c), s)
                                 /\ s.pc \in {"policy", "requeue"} /\ s.d = d
      <3>1. CASE ManualRetry(c, d)
        <4> DEFINE s == [NewTask("policy", d) EXCEPT !.status = delivery[d].status,
                                                     !.attempts = delivery[d].attempts]
        <4>1. s \in TaskState /\ s.pc = "policy" /\ s.d = d
          <5>1. "policy" \in Steps /\ delivery[d].status \in DeliveryStatus /\ delivery[d].attempts \in Nat
            BY <3>1, <2>2 DEF ManualRetry, Stored, Row, Steps
          <5>2. NewTask("policy", d) \in TaskState /\ NewTask("policy", d).pc = "policy" /\ NewTask("policy", d).d = d
            BY <5>1, TaskRecords
          <5>3. QED
            BY <5>1, <5>2 DEF TaskState
        <4> HIDE DEF s
        <4>2. Goto(ClientTask(c), s)
          BY <3>1 DEF ManualRetry, s
        <4>3. QED
          BY <4>1, <4>2
      <3>2. CASE RequeueDelivery(c, d)
        BY <3>2, TaskRecords DEF RequeueDelivery, Steps
      <3>3. QED
        BY <1>13, <3>1, <3>2
    <2>4. QED
      BY <2>1, <2>3, GotoShape, ClientTasks, TasksDiffer DEF SendSteps, Chains
  <1>14. ASSUME NEW c \in Clients, ClientStep(c)
         PROVE  Frame /\ Chains
    <2> DEFINE t == ClientTask(c)
    <2>1. /\ t \in Tasks /\ task[t] \in TaskState /\ task[t].d \in Deliveries
          /\ delivery[task[t].d] \in Row
          /\ task[t].pc \in {"policy", "reset", "requeue"}
      BY <1>14, <1>a, ClientTasks DEF ClientStep, ManualPolicy, ManualReset, RequeueReset
    <2>2. CASE ManualPolicy(c)
      <3> DEFINE s == [task[t] EXCEPT !.pc = "reset"]
      <3>1. Frame
        BY <2>2 DEF Frame, TypeOK, ManualPolicy, budget, history
      <3>2. s \in TaskState /\ s.pc = "reset" /\ s.d = task[t].d
        BY <2>1 DEF TaskState, Steps
      <3> HIDE DEF s
      <3>3. Goto(t, s) \/ Finish(t)
        BY <2>2 DEF ManualPolicy, s
      <3>4. QED
        BY <2>1, <3>1, <3>2, <3>3, GotoShape, FinishShape, TasksDiffer DEF SendSteps, Chains
    <2>3. CASE ManualReset(c)
      <3>1. UpdateRow(task[t].d, "retrying", delivery[task[t].d].attempts, TRUE)
        BY <2>3 DEF ManualReset
      <3>2. delivery[task[t].d].attempts \in Nat
        BY <2>1 DEF Row
      <3>3. delivery' \in [Deliveries -> Row]
        BY <2>1, <3>1, <3>2, UpdateRowType DEF DeliveryStatus
      <3>4. Frame
        BY <2>1, <2>3, <3>3 DEF Frame, TypeOK, ManualReset, budget
      <3>5. Goto(t, NewTask("hook", task[t].d))
        BY <2>3 DEF ManualReset
      <3>6. QED
        BY <2>1, <3>4, <3>5, GotoShape, TaskRecords, TasksDiffer DEF Steps, SendSteps, Chains
    <2>4. CASE RequeueReset(c)
      <3>1. UpdateRow(task[t].d, "retrying", 0, TRUE) /\ Finish(t)
        BY <2>4 DEF RequeueReset
      <3>2. delivery' \in [Deliveries -> Row]
        BY <2>1, <3>1, UpdateRowType DEF DeliveryStatus
      <3>3. Frame
        BY <2>1, <2>4, <3>2 DEF Frame, TypeOK, RequeueReset, budget
      <3>4. QED
        BY <2>1, <3>1, <3>3, FinishShape DEF Chains
    <2>5. QED
      BY <1>14, <2>2, <2>3, <2>4 DEF ClientStep
  <1>15. ASSUME NEW w \in Webhooks, NEW e \in BOOLEAN, NEW m \in RetryLimits, UpdateWebhook(w, e, m)
         PROVE  Frame /\ Chains
    <2>1. webhook' \in [Webhooks -> Webhook]
      BY <1>15 DEF TypeOK, UpdateWebhook, Webhook
    <2>2. Frame
      BY <1>15, <2>1 DEF Frame, TypeOK, UpdateWebhook, history
    <2>3. QED
      BY <1>15, <2>2 DEF UpdateWebhook, Chains, TypeOK, TaskShape
  <1>16. ASSUME NEW w \in Webhooks, DeleteWebhook(w)
         PROVE  Frame /\ Chains
    <2>1. webhook' \in [Webhooks -> Webhook]
      BY <1>16 DEF TypeOK, DeleteWebhook, Webhook
    <2>2. \A d \in Deliveries : delivery[d] \in Row /\ [delivery[d] EXCEPT !.status = "deleted"] \in Row
      BY DEF TypeOK, Row
    <2>3. delivery' \in [Deliveries -> Row]
      BY <1>16, <2>2 DEF DeleteWebhook
    <2>4. Frame
      BY <1>16, <2>1, <2>3 DEF Frame, TypeOK, DeleteWebhook, history
    <2>5. QED
      BY <1>16, <2>4 DEF DeleteWebhook, Chains, TypeOK, TaskShape
  <1>17. ASSUME BeginShutdown \/ Restart
         PROVE  Frame /\ Chains
    <2>1. Frame
      BY <1>17 DEF Frame, TypeOK, BeginShutdown, Restart, budget, history
    <2>2. QED
      BY <1>17, <2>1 DEF BeginShutdown, Restart, Chains, TypeOK, TaskShape
  <1>18. ASSUME ShutdownCompletes \/ ShutdownForced \/ Crash
         PROVE  Frame /\ Chains
    <2>1. ProcessEnds /\ faults' \in Nat
      BY <1>18 DEF ShutdownCompletes, ShutdownForced, Crash, StorageFault, TypeOK
    <2>2. lost' \in [Deliveries -> Nat]
      BY <2>1, LossCounts DEF ProcessEnds
    <2>3. Frame
      BY <2>1, <2>2 DEF Frame, TypeOK, ProcessEnds
    <2>4. \A t \in Tasks : task'[t] = NoTask
      BY <2>1 DEF ProcessEnds
    <2>5. task' \in [Tasks -> TaskState]
      BY <2>1, TaskRecords DEF ProcessEnds
    <2>6. TaskShape'
      BY <2>4, TaskRecords, DeliveryTasks, ClientTasks DEF TaskShape, SendSteps, RetrySteps
    <2>7. QED
      BY <2>3, <2>5, <2>6 DEF Chains
  <1>19. CASE UNCHANGED vars
    BY <1>19 DEF vars, Frame, Chains, TypeOK, TaskShape
  <1>20. QED
    BY <1>1, <1>2, <1>3, <1>4, <1>5, <1>6, <1>7, <1>8, <1>9, <1>10, <1>11, <1>12, <1>13,
       <1>14, <1>15, <1>16, <1>17, <1>18, <1>19 DEF Next, SendStep, RetryStep

\* In every state of the pipeline the rows, the chains and the flags are well
\* typed, and every chain works on an existing delivery id with a policy its
\* webhook had.
THEOREM TypeCorrect == Spec => [](TypeOK /\ TaskShape)
  <1>1. QED
    BY ShapeInit, ShapeStep, PTL DEF Spec

-----------------------------------------------------------------------------
(* Who may send a delivery *)

\* What changes when one chain moves on to record s.
LEMMA GotoOthers ==
    ASSUME TypeOK, NEW t \in Tasks, NEW s, Goto(t, s)
    PROVE  task'[t] = s /\ \A u \in Tasks : u # t => task'[u] = task[u]
  BY DEF Goto, TypeOK

\* A chain that is sending an untouched delivery is the dispatcher's or the
\* retry loop's for it, and the other of the two is idle.
LEMMA SoleSender ==
    ASSUME TypeOK, TaskShape, Owners, NEW t \in Tasks, NEW d \in Untouched,
           task[t].d = d, task[t].pc \in {"create"} \cup RetrySteps
    PROVE  /\ \/ t = DispatchTask(d) /\ task[RetryTask(d)].pc = "idle"
              \/ t = RetryTask(d) /\ task[DispatchTask(d)].pc = "idle"
           /\ task[t].pc # "create" => delivery[d].status \in {"pending", "retrying", "deleted"}
  <1>1. d \in Deliveries /\ d \notin touched /\ RowOwner(d)
    BY DEF Untouched, Owners, Ownership
  <1>2. CASE \E e \in Deliveries : t = DispatchTask(e)
    BY <1>1, <1>2 DEF TaskShape, RowOwner, SendSteps, RetrySteps
  <1>3. CASE \E e \in Deliveries : t = RetryTask(e)
    BY <1>1, <1>3 DEF TaskShape, RowOwner, SendSteps, RetrySteps
  <1>4. CASE \E c \in Clients : t = ClientTask(c)
    BY <1>1, <1>4 DEF TaskShape, Owners, ClientTouched
  <1>5. QED
    BY <1>2, <1>3, <1>4, TaskCases

\* The row decides who owns a delivery, so a step that leaves its row's status
\* and its two chains' positions alone leaves its owner alone.
LEMMA OwnerKept ==
    ASSUME NEW d \in Deliveries, RowOwner(d),
           task'[DispatchTask(d)] = task[DispatchTask(d)],
           task'[RetryTask(d)] = task[RetryTask(d)],
           \/ delivery'[d].status = delivery[d].status
           \/ delivery'[d].status = "deleted" /\ delivery[d].status # "none"
    PROVE  RowOwner(d)'
  BY DEF RowOwner, DispatchTask, RetryTask

\* Nobody owns a delivery whose two chains are idle.
LEMMA OwnerIdle ==
    ASSUME NEW d \in Deliveries,
           task'[DispatchTask(d)].pc = "idle", task'[RetryTask(d)].pc = "idle"
    PROVE  RowOwner(d)'
  BY DEF RowOwner, DispatchTask, RetryTask, SendSteps

\* A chain that moves on inside its routine, or ends, without touching the rows
\* keeps every delivery's owner.
LEMMA ChainMoves ==
    ASSUME TypeOK, TaskShape, TaskShape', Owners, NEW t \in Tasks, NEW s, Goto(t, s),
           task[t].pc # "idle",
           \/ s.pc = "idle"
           \/ task[t].pc \in RetrySteps /\ s.pc \in RetrySteps /\ s.d = task[t].d
           \/ s.pc \in {"policy", "reset", "requeue"},
           UNCHANGED <<delivery, processing, touched>>
    PROVE  Owners'
  <1>1. task'[t] = s /\ \A u \in Tasks : u # t => task'[u] = task[u]
    BY GotoOthers
  <1>2. ClientTouched'
    BY <1>1, ClientTasks DEF Owners, ClientTouched, RetrySteps, SendSteps
  <1>3. BatchGuarded'
    BY <1>1, DeliveryTasks DEF Owners, BatchGuarded
  <1>4. ASSUME NEW d \in Deliveries, d \notin touched
        PROVE  RowOwner(d)'
    <2>1. RowOwner(d)
      BY <1>4 DEF Owners, Ownership, Untouched
    <2>2. CASE t # DispatchTask(d) /\ t # RetryTask(d)
      BY <1>1, <2>1, <2>2, DeliveryTasks, OwnerKept
    <2>3. CASE t = DispatchTask(d)
      <3>1. task'[RetryTask(d)] = task[RetryTask(d)]
        BY <1>1, <2>3, DeliveryTasks, TasksDiffer
      <3>2. task[t].pc \in {"create"} \cup SendSteps /\ s.pc \in {"idle", "create"} \cup SendSteps
        BY <1>1, <2>3 DEF TaskShape, DispatchTask
      <3>3. QED
        BY <1>1, <2>1, <2>3, <3>1, <3>2 DEF RowOwner, DispatchTask, RetryTask, SendSteps, RetrySteps
    <2>4. CASE t = RetryTask(d)
      <3>1. task'[DispatchTask(d)] = task[DispatchTask(d)]
        BY <1>1, <2>4, DeliveryTasks, TasksDiffer
      <3>2. QED
        BY <1>1, <2>1, <2>4, <3>1 DEF RowOwner, DispatchTask, RetryTask, SendSteps, RetrySteps
    <2>5. QED
      BY <2>2, <2>3, <2>4
  <1>5. QED
    BY <1>2, <1>3, <1>4 DEF Owners, Ownership, Untouched

\* A sending chain that writes its own delivery's row and ends leaves nobody
\* sending that delivery, if it is untouched.
LEMMA ChainWrites ==
    ASSUME TypeOK, TaskShape, Owners, NEW t \in Tasks, Finish(t),
           task[t].pc \in RetrySteps,
           \A e \in Deliveries : e # task[t].d => delivery'[e] = delivery[e],
           UNCHANGED <<processing, touched>>
    PROVE  Owners'
  <1>1. task'[t].pc = "idle" /\ \A u \in Tasks : u # t => task'[u] = task[u]
    BY GotoOthers, TaskRecords DEF Finish
  <1>2. ClientTouched'
    BY <1>1, ClientTasks DEF Owners, ClientTouched, RetrySteps, SendSteps
  <1>3. BatchGuarded'
    BY <1>1, DeliveryTasks DEF Owners, BatchGuarded
  <1>4. ASSUME NEW d \in Deliveries, d \notin touched
        PROVE  RowOwner(d)'
    <2>1. RowOwner(d)
      BY <1>4 DEF Owners, Ownership, Untouched
    <2>2. CASE task[t].d = d
      <3>1. \/ t = DispatchTask(d) /\ task[RetryTask(d)].pc = "idle"
            \/ t = RetryTask(d) /\ task[DispatchTask(d)].pc = "idle"
        BY <1>4, <2>2, SoleSender DEF Untouched
      <3>2. QED
        BY <1>1, <3>1, DeliveryTasks, OwnerIdle
    <2>3. CASE task[t].d # d
      <3>1. t # DispatchTask(d) /\ t # RetryTask(d)
        BY <2>3 DEF TaskShape, RetrySteps, SendSteps
      <3>2. QED
        BY <1>1, <2>1, <2>3, <3>1, DeliveryTasks, OwnerKept
    <2>4. QED
      BY <2>2, <2>3
  <1>5. QED
    BY <1>2, <1>3, <1>4 DEF Owners, Ownership, Untouched

\* Before any event is dispatched nobody owns anything.
LEMMA OwnersInit == Init => Owners
  <1> SUFFICES ASSUME Init PROVE Owners
    OBVIOUS
  <1>1. \A t \in Tasks : task[t].pc = "idle"
    BY TaskRecords DEF Init
  <1>2. QED
    BY <1>1, DeliveryTasks, ClientTasks
       DEF Owners, ClientTouched, BatchGuarded, Ownership, RowOwner, Untouched, SendSteps, RetrySteps

\* updateDelivery only changes the row it is called for.
LEMMA UpdateRowOthers ==
    ASSUME TypeOK, NEW d \in Deliveries, NEW st, NEW n, NEW b, UpdateRow(d, st, n, b)
    PROVE  /\ \A e \in Deliveries : e # d => delivery'[e] = delivery[e]
           /\ ~Stored(d) => delivery'[d] = delivery[d]
           /\ Stored(d) => delivery'[d].status = st /\ delivery'[d].attempts = n
  BY DEF UpdateRow, TypeOK

\* Every step keeps the owners.
LEMMA OwnersStep ==
    TypeOK /\ TaskShape /\ TaskShape' /\ Owners /\ [Next]_vars => Owners'
  <1> SUFFICES ASSUME TypeOK, TaskShape, TaskShape', Owners, [Next]_vars
               PROVE  Owners'
    OBVIOUS
  <1>1. ASSUME NEW d \in Deliveries, DispatchEvent(d)
        PROVE  Owners'
    <2> DEFINE t == DispatchTask(d)
    <2>1. /\ t \in Tasks /\ delivery[d].status = "none"
          /\ UNCHANGED <<delivery, processing, touched>>
      BY <1>1, DeliveryTasks DEF DispatchEvent, history
    <2>2. task'[t].pc = "create" /\ \A u \in Tasks : u # t => task'[u] = task[u]
      <3> DEFINE s == [NewTask("create", d) EXCEPT !.max = HookOf(d).maxRetries]
      <3>1. s.pc = "create"
        BY DEF NewTask, NoTask
      <3>2. Goto(t, s)
        BY <1>1 DEF DispatchEvent
      <3> HIDE DEF s
      <3>3. QED
        BY <2>1, <3>1, <3>2, GotoOthers
    <2>3. ClientTouched' /\ BatchGuarded'
      BY <2>1, <2>2, ClientTasks, DeliveryTasks, TasksDiffer
         DEF Owners, ClientTouched, BatchGuarded, ClientTask, RetryTask
    <2>4. ASSUME NEW e \in Deliveries, e \notin touched
          PROVE  RowOwner(e)'
      <3>1. RowOwner(e)
        BY <2>4 DEF Owners, Ownership, Untouched
      <3>2. CASE e = d
        BY <2>1, <2>2, <3>1, <3>2, DeliveryTasks, TasksDiffer
           DEF RowOwner, SendSteps, DispatchTask, RetryTask
      <3>3. CASE e # d
        BY <2>1, <2>2, <3>1, <3>3, DeliveryTasks, TasksDiffer, OwnerKept
      <3>4. QED
        BY <3>2, <3>3
    <2>5. QED
      BY <2>1, <2>3, <2>4 DEF Owners, Ownership, Untouched
  <1>2. ASSUME NEW d \in Deliveries, CreateDelivery(d)
        PROVE  Owners'
    <2> DEFINE t == DispatchTask(d)
    <2>1. t \in Tasks /\ task[t].pc = "create" /\ UNCHANGED <<processing, touched>>
      BY <1>2, DeliveryTasks DEF CreateDelivery, history
    <2>2. \A e \in Deliveries : e # d => delivery'[e] = delivery[e]
      BY <1>2 DEF CreateDelivery, TypeOK
    <2>3. /\ \A u \in Tasks : u # t => task'[u] = task[u]
          /\ \/ task'[t].pc = "idle"
             \/ task'[t].pc = "send" /\ delivery'[d].status = "pending"
      <3>1. CASE Finish(t)
        BY <2>1, <3>1, GotoOthers, TaskRecords DEF Finish
      <3>2. CASE ~Finish(t)
        <4> DEFINE s == [task[t] EXCEPT !.pc = "send"]
        <4>1. s.pc = "send"
          BY <2>1 DEF TypeOK, TaskState
        <4>2. Goto(t, s) /\ delivery'[d].status = "pending"
          BY <1>2, <3>2 DEF CreateDelivery, TypeOK
        <4> HIDE DEF s
        <4>3. QED
          BY <2>1, <4>1, <4>2, GotoOthers
      <3>3. QED
        BY <3>1, <3>2
    <2>4. ClientTouched' /\ BatchGuarded'
      BY <2>1, <2>3, ClientTasks, DeliveryTasks, TasksDiffer
         DEF Owners, ClientTouched, BatchGuarded, ClientTask, RetryTask
    <2>5. ASSUME NEW e \in Deliveries, e \notin touched
          PROVE  RowOwner(e)'
      <3>1. RowOwner(e)
        BY <2>5 DEF Owners, Ownership, Untouched
      <3>2. CASE e = d
        <4>1. task[RetryTask(d)].pc = "idle" /\ task'[RetryTask(d)] = task[RetryTask(d)]
          BY <2>1, <2>3, <3>1, <3>2, DeliveryTasks, TasksDiffer DEF RowOwner
        <4>2. QED
          BY <2>3, <3>2, <4>1 DEF RowOwner, SendSteps, DispatchTask, RetryTask
      <3>3. CASE e # d
        BY <2>2, <2>3, <3>1, <3>3, DeliveryTasks, TasksDiffer, OwnerKept
      <3>4. QED
        BY <3>2, <3>3
    <2>6. QED
      BY <2>1, <2>4, <2>5 DEF Owners, Ownership, Untouched
  <1>3. ASSUME NEW t \in Tasks, \/ SendRequest(t) \/ (\E o \in Outcomes : FetchReturns(t, o))
                                \/ ReadDelivery(t) \/ FaultStep(t) \/ GetWebhook(t)
        PROVE  Owners'
    <2>1. task[t].pc # "idle" /\ UNCHANGED <<delivery, processing, touched>>
      BY <1>3 DEF SendRequest, FetchReturns, ReadDelivery, FaultStep, CallFails, RecordingFails,
                  GetWebhookFails, MarkFailedFails, GetWebhook, history
    <2>2. task[t] \in TaskState
      BY DEF TypeOK
    <2>3. CASE Finish(t)
      BY <2>1, <2>3, ChainMoves, TaskRecords DEF Finish
    <2>4. CASE ~Finish(t)
      <3>1. task[t].pc \in RetrySteps
        BY <1>3, <2>4 DEF SendRequest, FetchReturns, ReadDelivery, FaultStep, CallFails, RecordingFails,
                  GetWebhookFails, MarkFailedFails, GetWebhook, RetrySteps, SendSteps
      <3>2. PICK s \in TaskState : Goto(t, s) /\ s.pc \in RetrySteps /\ s.d = task[t].d
        <4>1. CASE SendRequest(t)
          <5>1. LET s == [task[t] EXCEPT !.pc = "fetch"]
                IN  s \in TaskState /\ s.pc = "fetch" /\ s.d = task[t].d
            BY <2>2 DEF TaskState, Steps
          <5>2. QED
            BY <4>1, <5>1 DEF SendRequest, RetrySteps, SendSteps
        <4>2. CASE \E o \in Outcomes : FetchReturns(t, o)
          <5>1. PICK o \in Outcomes : FetchReturns(t, o)
            BY <4>2
          <5>2. AttemptStatus(o) \in DeliveryStatus
            BY DEF AttemptStatus, DeliveryStatus, Outcomes
          <5>3. LET s == [task[t] EXCEPT !.pc = "read", !.result = AttemptStatus(o)]
                IN  s \in TaskState /\ s.pc = "read" /\ s.d = task[t].d
            BY <2>2, <5>2 DEF TaskState, Steps
          <5>4. QED
            BY <5>1, <5>3 DEF FetchReturns, RetrySteps, SendSteps
        <4>3. CASE ReadDelivery(t)
          <5>1. delivery[task[t].d].attempts \in Nat
            BY <2>1 DEF TypeOK, TaskShape, Row
          <5>2. LET s == [task[t] EXCEPT !.pc = "write", !.attempts = delivery[task[t].d].attempts]
                IN  s \in TaskState /\ s.pc = "write" /\ s.d = task[t].d
            BY <2>2, <5>1 DEF TaskState, Steps
          <5>3. QED
            BY <2>4, <4>3, <5>2 DEF ReadDelivery, RetrySteps, SendSteps
        <4>4. CASE FaultStep(t)
          <5>1. GetWebhookFails(t)
            BY <2>4, <4>4 DEF FaultStep, CallFails, RecordingFails, MarkFailedFails
          <5>2. LET s == [task[t] EXCEPT !.pc = "fail"]
                IN  s \in TaskState /\ s.pc = "fail" /\ s.d = task[t].d
            BY <2>2 DEF TaskState, Steps
          <5>3. QED
            BY <5>1, <5>2 DEF GetWebhookFails, RetrySteps
        <4>5. CASE GetWebhook(t)
          <5>1. HookOf(task[t].d).maxRetries \in Nat
            BY <2>1, WebhookAssumption DEF TypeOK, TaskShape, HookOf, Webhook
          <5>2. /\ LET s == [task[t] EXCEPT !.pc = "send", !.max = HookOf(task[t].d).maxRetries]
                   IN  s \in TaskState /\ s.pc = "send" /\ s.d = task[t].d
                /\ LET s == [task[t] EXCEPT !.pc = "fail"]
                   IN  s \in TaskState /\ s.pc = "fail" /\ s.d = task[t].d
            BY <2>2, <5>1 DEF TaskState, Steps
          <5>3. QED
            BY <4>5, <5>2 DEF GetWebhook, RetrySteps, SendSteps
        <4>6. QED
          BY <1>3, <4>1, <4>2, <4>3, <4>4, <4>5
      <3>3. QED
        BY <2>1, <3>1, <3>2, ChainMoves
    <2>5. QED
      BY <2>3, <2>4
  <1>4. ASSUME NEW t \in Tasks, WriteDelivery(t) \/ MarkFailed(t)
        PROVE  Owners'
    <2>1. /\ task[t].pc \in RetrySteps /\ Finish(t) /\ UNCHANGED <<processing, touched>>
          /\ task[t].d \in Deliveries
      BY <1>4 DEF WriteDelivery, MarkFailed, history, RetrySteps, SendSteps, TaskShape
    <2>2. \A e \in Deliveries : e # task[t].d => delivery'[e] = delivery[e]
      BY <1>4, <2>1, UpdateRowOthers DEF WriteDelivery, MarkFailed
    <2>3. QED
      BY <2>1, <2>2, ChainWrites
  <1>5. ASSUME UNCHANGED <<task, processing, touched>>,
               \A e \in Deliveries : \/ delivery'[e].status = delivery[e].status
                                     \/ delivery'[e].status = "deleted" /\ delivery[e].status # "none"
        PROVE  Owners'
    <2>1. ClientTouched' /\ BatchGuarded'
      BY <1>5 DEF Owners, ClientTouched, BatchGuarded
    <2>2. \A e \in Deliveries : e \notin touched => RowOwner(e)'
      BY <1>5, OwnerKept DEF Owners, Ownership, Untouched
    <2>3. QED
      BY <1>5, <2>1, <2>2 DEF Owners, Ownership, Untouched
  <1>6. ASSUME NEW d \in Deliveries, BackoffElapses(d) \/ PruneOldDelivery(d)
        PROVE  Owners'
    <2>1. delivery[d] \in Row
      BY DEF TypeOK
    <2>2. \A e \in Deliveries : \/ delivery'[e].status = delivery[e].status
                                \/ delivery'[e].status = "deleted" /\ delivery[e].status # "none"
      BY <1>6, <2>1 DEF BackoffElapses, PruneOldDelivery, TypeOK, Row, Stored, DeliveryStatus
    <2>3. QED
      BY <1>5, <1>6, <2>2 DEF BackoffElapses, PruneOldDelivery, history
  <1>7. ASSUME NEW D \in SUBSET Deliveries, ProcessRetries(D)
        PROVE  Owners'
    <2>1. /\ ~processing /\ processing' = TRUE /\ UNCHANGED <<delivery, touched>>
          /\ \A d \in D : delivery[d].status = "retrying"
      BY <1>7 DEF ProcessRetries, RetriableBatch, Due, history
    <2>2. \A t \in Tasks : task'[t] = IF t[1] = "retry" /\ t[2] \in D
                                     THEN NewTask("hook", t[2]) ELSE task[t]
      BY <1>7 DEF ProcessRetries
    <2>3. \A d \in Deliveries : task[RetryTask(d)].pc = "idle"
      BY <2>1 DEF Owners, BatchGuarded
    <2>4. \A d \in Deliveries : /\ task'[DispatchTask(d)] = task[DispatchTask(d)]
                                /\ d \notin D => task'[RetryTask(d)] = task[RetryTask(d)]
      BY <2>2, DeliveryTasks
    <2>5. \A c \in Clients : task'[ClientTask(c)] = task[ClientTask(c)]
      BY <2>2, ClientTasks
    <2>6. ClientTouched' /\ BatchGuarded'
      BY <2>1, <2>5 DEF Owners, ClientTouched, BatchGuarded, ClientTask
    <2>7. ASSUME NEW e \in Deliveries, e \notin touched
          PROVE  RowOwner(e)'
      <3>1. RowOwner(e)
        BY <2>7 DEF Owners, Ownership, Untouched
      <3>2. CASE e \in D
        BY <2>1, <2>4, <3>1, <3>2 DEF RowOwner, DispatchTask, RetryTask
      <3>3. CASE e \notin D
        BY <2>1, <2>4, <3>1, <3>3, OwnerKept
      <3>4. QED
        BY <3>2, <3>3
    <2>8. QED
      BY <2>1, <2>6, <2>7 DEF Owners, Ownership, Untouched
  <1>8. CASE BatchSettled
    <2>1. /\ \A d \in Deliveries : task[RetryTask(d)].pc = "idle"
          /\ UNCHANGED <<delivery, task, touched>>
      BY <1>8 DEF BatchSettled, history
    <2>2. QED
      BY <2>1 DEF Owners, ClientTouched, BatchGuarded, Ownership, Untouched, RowOwner,
                  ClientTask, RetryTask, DispatchTask
  <1>9. ASSUME NEW c \in Clients, NEW d \in Deliveries, ManualRetry(c, d) \/ RequeueDelivery(c, d)
        PROVE  Owners'
    <2> DEFINE t == ClientTask(c)
    <2>1. t \in Tasks /\ UNCHANGED <<delivery, processing, touched>>
      BY <1>9, ClientTasks DEF ManualRetry, RequeueDelivery, history
    <2>2. \E s : Goto(t, s) /\ s.pc \in {"policy", "requeue"}
      <3>1. /\ NewTask("requeue", d).pc = "requeue"
            /\ [NewTask("policy", d) EXCEPT !.status = delivery[d].status,
                                            !.attempts = delivery[d].attempts].pc = "policy"
        BY DEF NewTask, NoTask
      <3>2. QED
        BY <1>9, <3>1 DEF ManualRetry, RequeueDelivery
    <2>3. /\ task'[t].pc \in {"policy", "requeue"}
          /\ \A u \in Tasks : u # t => task'[u] = task[u]
      BY <2>1, <2>2, GotoOthers
    <2>4. ClientTouched' /\ BatchGuarded'
      BY <2>1, <2>3, ClientTasks, DeliveryTasks, TasksDiffer
         DEF Owners, ClientTouched, BatchGuarded, ClientTask, RetryTask, RetrySteps, SendSteps
    <2>5. \A e \in Deliveries : e \notin touched => RowOwner(e)'
      BY <2>1, <2>3, DeliveryTasks, TasksDiffer, OwnerKept DEF Owners, Ownership, Untouched
    <2>6. QED
      BY <2>1, <2>4, <2>5 DEF Owners, Ownership, Untouched
  <1>10. ASSUME NEW c \in Clients, ManualPolicy(c)
         PROVE  Owners'
    <2> DEFINE t == ClientTask(c)
    <2>1. t \in Tasks /\ task[t] \in TaskState /\ task[t].pc = "policy" /\ UNCHANGED <<delivery, processing, touched>>
      BY <1>10, ClientTasks DEF ManualPolicy, TypeOK, history
    <2>2. \E s : Goto(t, s) /\ s.pc \in {"idle", "reset"}
      BY <1>10, <2>1, TaskRecords DEF ManualPolicy, TaskState, Finish
    <2>3. QED
      BY <2>1, <2>2, ChainMoves
  <1>11. ASSUME NEW c \in Clients, ManualReset(c) \/ RequeueReset(c)
         PROVE  Owners'
    <2> DEFINE t == ClientTask(c)
               d == task[t].d
    <2>1. /\ t \in Tasks /\ d \in Deliveries /\ touched' = touched \cup {d}
          /\ UNCHANGED processing
      BY <1>11, ClientTasks DEF ManualReset, RequeueReset, TaskShape
    <2>2. \A e \in Deliveries : e # d => delivery'[e] = delivery[e]
      BY <1>11, <2>1, UpdateRowOthers DEF ManualReset, RequeueReset
    <2>3. \E s : Goto(t, s) /\ (s.pc = "idle" \/ s.d = d)
      <3>1. NewTask("hook", d).d = d
        BY <2>1, TaskRecords DEF Steps
      <3>2. QED
        BY <1>11, <3>1, TaskRecords DEF ManualReset, RequeueReset, Finish
    <2>4. /\ task'[t].pc = "idle" \/ task'[t].d = d
          /\ \A u \in Tasks : u # t => task'[u] = task[u]
      BY <2>1, <2>3, GotoOthers
    <2>5. ClientTouched' /\ BatchGuarded'
      BY <2>1, <2>4, ClientTasks, DeliveryTasks, TasksDiffer
         DEF Owners, ClientTouched, BatchGuarded, ClientTask, RetryTask, RetrySteps, SendSteps
    <2>6. \A e \in Deliveries : e \notin touched' => RowOwner(e)'
      BY <2>1, <2>2, <2>4, DeliveryTasks, TasksDiffer, OwnerKept DEF Owners, Ownership, Untouched
    <2>7. QED
      BY <2>5, <2>6 DEF Owners, Ownership, Untouched
  <1>12. ASSUME NEW w \in Webhooks, DeleteWebhook(w)
         PROVE  Owners'
    <2>1. \A e \in Deliveries : \/ delivery'[e].status = delivery[e].status
                                \/ delivery'[e].status = "deleted" /\ delivery[e].status # "none"
      BY <1>12 DEF DeleteWebhook, TypeOK, Row, Stored, DeliveryStatus
    <2>2. QED
      BY <1>5, <1>12, <2>1 DEF DeleteWebhook, history
  <1>13. CASE ShutdownCompletes \/ ShutdownForced \/ Crash
    <2>1. \A t \in Tasks : task'[t].pc = "idle"
      BY <1>13, TaskRecords DEF ShutdownCompletes, ShutdownForced, Crash, ProcessEnds
    <2>2. QED
      BY <2>1, DeliveryTasks, ClientTasks, OwnerIdle
         DEF Owners, ClientTouched, BatchGuarded, Ownership, Untouched, RetrySteps, SendSteps,
             RetryTask, ClientTask
  <1>14. CASE \/ NothingToRetry \/ UNCHANGED vars \/ BeginShutdown \/ Restart
              \/ \E w \in Webhooks, e \in BOOLEAN, m \in RetryLimits : UpdateWebhook(w, e, m)
    <2>1. UNCHANGED <<delivery, task, processing, touched>>
      BY <1>14 DEF NothingToRetry, vars, BeginShutdown, Restart, UpdateWebhook, history
    <2>2. QED
      BY <1>5, <2>1
  <1>15. QED
    BY <1>1, <1>2, <1>3, <1>4, <1>6, <1>7, <1>8, <1>9, <1>10, <1>11, <1>12, <1>13, <1>14
       DEF Next, SendStep, RetryStep, ClientStep

\* The inductive argument for who sends what.
LEMMA OwnersCorrect == Spec => [](TypeOK /\ TaskShape /\ Owners)
  <1>1. Init => TypeOK /\ TaskShape /\ Owners
    BY ShapeInit, OwnersInit
  <1>2. TypeOK /\ TaskShape /\ Owners /\ [Next]_vars => (TypeOK /\ TaskShape /\ Owners)'
    BY ShapeStep, OwnersStep
  <1>3. QED
    BY <1>1, <1>2, PTL DEF Spec

\* The PENDING status, isProcessing and the allSettled barrier suffice: an
\* untouched delivery never has two senders, however many events, batches,
\* crashes, restarts, edits and other deliveries' manual retries interleave.
THEOREM SingleSender == Spec => []SingleFlight
  <1>1. TypeOK /\ TaskShape /\ Owners => SingleFlight
    <2> SUFFICES ASSUME TypeOK, TaskShape, Owners,
                        NEW d \in Untouched, NEW t \in Tasks, NEW u \in Tasks,
                        Sending(t, d), Sending(u, d)
                 PROVE  t = u
      BY DEF SingleFlight
    <2>1. /\ task[t].d = d /\ task[t].pc \in {"create"} \cup RetrySteps
          /\ task[u].d = d /\ task[u].pc \in {"create"} \cup RetrySteps
      BY DEF Sending, RetrySteps, SendSteps
    <2>2. task[t].pc # "idle" /\ task[u].pc # "idle"
      BY <2>1 DEF RetrySteps, SendSteps
    <2>3. QED
      BY <2>1, <2>2, SoleSender
  <1>2. QED
    BY <1>1, OwnersCorrect, PTL

\* No late writer of the pipeline itself overwrites a final status.
THEOREM FinalStatus == Spec => SettledIsFinal
  <1> DEFINE Kept(d) == delivery'[d].status \in {delivery[d].status, "deleted"}
  <1>1. ASSUME TypeOK, TaskShape, Owners, [Next]_vars,
               NEW d \in Deliveries \ touched', delivery[d].status \in Settled
        PROVE  Kept(d)
    <2>1. d \in Deliveries /\ delivery[d] \in Row
      BY <1>1 DEF TypeOK
    <2>2. CASE UNCHANGED delivery
      BY <2>2
    <2>3. ASSUME NEW e \in Deliveries, CreateDelivery(e)
          PROVE  Kept(d)
      <3>1. task[DispatchTask(e)].pc = "create" /\ UNCHANGED touched
        BY <2>3 DEF CreateDelivery, history
      <3>2. e # d
        BY <1>1, <3>1 DEF Owners, Ownership, RowOwner, Untouched, Settled
      <3>3. QED
        BY <1>1, <2>3, <3>2 DEF CreateDelivery, TypeOK
    <2>4. ASSUME NEW t \in Tasks, WriteDelivery(t) \/ MarkFailed(t)
          PROVE  Kept(d)
      <3>1. task[t].pc \in {"write", "fail"} /\ UNCHANGED touched /\ task[t].d \in Deliveries
        BY <1>1, <2>4 DEF WriteDelivery, MarkFailed, history, TaskShape
      <3>2. task[t].d # d
        BY <1>1, <3>1, SoleSender DEF Untouched, Settled, RetrySteps, SendSteps
      <3>3. QED
        BY <1>1, <2>1, <2>4, <3>1, <3>2, UpdateRowOthers DEF WriteDelivery, MarkFailed
    <2>5. ASSUME NEW e \in Deliveries, BackoffElapses(e) \/ PruneOldDelivery(e)
          PROVE  Kept(d)
      BY <1>1, <2>1, <2>5 DEF BackoffElapses, PruneOldDelivery, TypeOK, Row
    <2>6. ASSUME NEW c \in Clients, ManualReset(c) \/ RequeueReset(c)
          PROVE  Kept(d)
      <3>1. task[ClientTask(c)].d # d /\ task[ClientTask(c)].d \in Deliveries
        BY <1>1, <2>6, ClientTasks DEF ManualReset, RequeueReset, TaskShape
      <3>2. QED
        BY <1>1, <2>1, <2>6, <3>1, UpdateRowOthers DEF ManualReset, RequeueReset
    <2>7. ASSUME NEW w \in Webhooks, DeleteWebhook(w)
          PROVE  Kept(d)
      BY <2>1, <2>7 DEF DeleteWebhook, Row
    <2>8. QED
      BY <1>1, <2>2, <2>3, <2>4, <2>5, <2>6, <2>7
         DEF Next, SendStep, RetryStep, FaultStep, ClientStep, vars, DispatchEvent, SendRequest,
             FetchReturns, ReadDelivery, CallFails, RecordingFails, GetWebhookFails, MarkFailedFails,
             ProcessRetries, NothingToRetry, BatchSettled, GetWebhook, ManualRetry, ManualPolicy,
             RequeueDelivery, UpdateWebhook, BeginShutdown, ShutdownCompletes, ShutdownForced,
             Crash, ProcessEnds, Restart
  <1>2. TypeOK /\ TaskShape /\ Owners /\ [Next]_vars
          => [\A d \in Deliveries \ touched' : delivery[d].status \in Settled =>
                 delivery'[d].status \in {delivery[d].status, "deleted"}]_vars
    BY <1>1
  <1>3. QED
    BY <1>2, OwnersCorrect, PTL DEF Spec, SettledIsFinal

-----------------------------------------------------------------------------
(* Success *)

\* Chains and rows only report successes the endpoint acknowledged.
AckInv == ResultAcked /\ SuccessMeansAcked

\* Every step keeps the reported successes acknowledged.
LEMMA AckStep ==
    TypeOK /\ TaskShape /\ AckInv /\ [Next]_vars => AckInv'
  <1> SUFFICES ASSUME TypeOK, TaskShape, ResultAcked, SuccessMeansAcked, [Next]_vars
               PROVE  ResultAcked' /\ SuccessMeansAcked'
    BY DEF AckInv
  <1>a. ASSUME NEW t \in Tasks, NEW s, Goto(t, s), acked \subseteq acked',
               s.pc \in {"read", "write"} /\ s.result = "success" => s.d \in acked'
        PROVE  ResultAcked'
    BY <1>a, GotoOthers DEF ResultAcked
  <1>b. ASSUME \A e \in Deliveries : delivery'[e].status = delivery[e].status
                                     \/ delivery'[e].status # "success",
               acked \subseteq acked'
        PROVE  SuccessMeansAcked'
    BY <1>b DEF SuccessMeansAcked
  <1>c. ASSUME NEW t \in Tasks, Finish(t), UNCHANGED acked
        PROVE  ResultAcked'
    BY <1>c, <1>a, TaskRecords DEF Finish
  <1>1. ASSUME NEW d \in Deliveries, DispatchEvent(d)
        PROVE  ResultAcked' /\ SuccessMeansAcked'
    <2>1. [NewTask("create", d) EXCEPT !.max = HookOf(d).maxRetries].pc = "create"
      BY DEF NewTask, NoTask
    <2>2. UNCHANGED <<delivery, acked>>
      BY <1>1 DEF DispatchEvent, history
    <2>3. QED
      BY <1>1, <1>a, <1>b, <2>1, <2>2, DeliveryTasks DEF DispatchEvent
  <1>2. ASSUME NEW d \in Deliveries, CreateDelivery(d)
        PROVE  ResultAcked' /\ SuccessMeansAcked'
    <2>1. UNCHANGED acked /\ DispatchTask(d) \in Tasks /\ task[DispatchTask(d)] \in TaskState
      BY <1>2, DeliveryTasks DEF CreateDelivery, history, TypeOK
    <2>2. [task[DispatchTask(d)] EXCEPT !.pc = "send"].pc = "send"
      BY <2>1 DEF TaskState
    <2>3. SuccessMeansAcked'
      BY <1>2, <1>b, <2>1 DEF CreateDelivery, TypeOK
    <2>4. ResultAcked'
      BY <1>2, <1>a, <1>c, <2>1, <2>2 DEF CreateDelivery
    <2>5. QED
      BY <2>3, <2>4
  <1>3. ASSUME NEW t \in Tasks, SendRequest(t) \/ GetWebhook(t) \/ FaultStep(t)
        PROVE  ResultAcked' /\ SuccessMeansAcked'
    <2>1. task[t] \in TaskState /\ UNCHANGED <<delivery, acked>>
      BY <1>3 DEF SendRequest, GetWebhook, FaultStep, CallFails, RecordingFails, GetWebhookFails,
                  MarkFailedFails, history, TypeOK
    <2>2. /\ [task[t] EXCEPT !.pc = "fetch"].pc = "fetch"
          /\ [task[t] EXCEPT !.pc = "fail"].pc = "fail"
          /\ [task[t] EXCEPT !.pc = "send", !.max = HookOf(task[t].d).maxRetries].pc = "send"
      BY <2>1 DEF TaskState
    <2>3. ResultAcked'
      BY <1>3, <1>a, <1>c, <2>1, <2>2 DEF SendRequest, GetWebhook, FaultStep, CallFails,
           RecordingFails, GetWebhookFails, MarkFailedFails
    <2>4. QED
      BY <1>b, <2>1, <2>3
  <1>4. ASSUME NEW t \in Tasks, NEW o \in Outcomes, FetchReturns(t, o)
        PROVE  ResultAcked' /\ SuccessMeansAcked'
    <2> DEFINE s == [task[t] EXCEPT !.pc = "read", !.result = AttemptStatus(o)]
    <2>1. /\ task[t] \in TaskState /\ UNCHANGED delivery
          /\ acked' = IF o = "2xx" THEN acked \cup {task[t].d} ELSE acked
      BY <1>4 DEF FetchReturns, TypeOK
    <2>2. s.result = "success" => o = "2xx"
      BY <2>1 DEF TaskState, AttemptStatus, Outcomes
    <2>3. s.d = task[t].d
      BY <2>1 DEF TaskState
    <2>4. Goto(t, s)
      BY <1>4 DEF FetchReturns
    <2> HIDE DEF s
    <2>5. ResultAcked'
      BY <1>a, <2>1, <2>2, <2>3, <2>4
    <2>6. QED
      BY <1>b, <2>1, <2>5
  <1>5. ASSUME NEW t \in Tasks, ReadDelivery(t)
        PROVE  ResultAcked' /\ SuccessMeansAcked'
    <2> DEFINE s == [task[t] EXCEPT !.pc = "write", !.attempts = delivery[task[t].d].attempts]
    <2>1. task[t] \in TaskState /\ task[t].pc = "read" /\ UNCHANGED <<delivery, acked>>
      BY <1>5 DEF ReadDelivery, history, TypeOK
    <2>2. s.result = task[t].result /\ s.d = task[t].d
      BY <2>1 DEF TaskState
    <2>3. Goto(t, s) \/ Finish(t)
      BY <1>5 DEF ReadDelivery
    <2> HIDE DEF s
    <2>4. ResultAcked'
      BY <1>a, <1>c, <2>1, <2>2, <2>3 DEF ResultAcked
    <2>5. QED
      BY <1>b, <2>1, <2>4
  <1>6. ASSUME NEW t \in Tasks, WriteDelivery(t)
        PROVE  ResultAcked' /\ SuccessMeansAcked'
    <2> DEFINE n  == task[t].attempts + 1
               st == StatusAfter(task[t].result, n, task[t].max)
               d  == task[t].d
    <2>1. task[t].pc = "write" /\ d \in Deliveries /\ Finish(t) /\ UNCHANGED acked
      BY <1>6 DEF WriteDelivery, history, TaskShape
    <2>2. st = "success" => d \in acked
      BY <2>1 DEF StatusAfter, ResultAcked
    <2>3. UpdateRow(d, st, n, FALSE)
      BY <1>6 DEF WriteDelivery
    <2> HIDE DEF st, n
    <2>4. SuccessMeansAcked'
      BY <2>1, <2>2, <2>3, UpdateRowOthers DEF SuccessMeansAcked
    <2>5. QED
      BY <1>c, <2>1, <2>4
  <1>7. ASSUME NEW t \in Tasks, MarkFailed(t)
        PROVE  ResultAcked' /\ SuccessMeansAcked'
    <2>1. task[t].d \in Deliveries /\ Finish(t) /\ UNCHANGED acked
      BY <1>7 DEF MarkFailed, history, TaskShape
    <2>2. SuccessMeansAcked'
      <3>1. UpdateRow(task[t].d, "failed", delivery[task[t].d].attempts, FALSE)
        BY <1>7 DEF MarkFailed
      <3>2. /\ \A e \in Deliveries : e # task[t].d => delivery'[e] = delivery[e]
            /\ ~Stored(task[t].d) => delivery'[task[t].d] = delivery[task[t].d]
            /\ Stored(task[t].d) => delivery'[task[t].d].status = "failed"
        BY <2>1, <3>1, UpdateRowOthers
      <3>3. \A e \in Deliveries : delivery'[e].status = delivery[e].status
                                  \/ delivery'[e].status # "success"
        BY <3>2
      <3>4. QED
        BY <1>b, <2>1, <3>3
    <2>3. QED
      BY <1>c, <2>1, <2>2
  <1>8. ASSUME NEW D \in SUBSET Deliveries, ProcessRetries(D)
        PROVE  ResultAcked' /\ SuccessMeansAcked'
    <2>1. UNCHANGED <<delivery, acked>>
      BY <1>8 DEF ProcessRetries, history
    <2>2. \A t \in Tasks : task'[t] = task[t] \/ task'[t].pc = "hook"
      <3>1. \A t \in Tasks : task'[t] = task[t] \/ task'[t] = NewTask("hook", t[2])
        BY <1>8 DEF ProcessRetries
      <3>2. \A e : NewTask("hook", e).pc = "hook"
        BY DEF NewTask, NoTask
      <3>3. QED
        BY <3>1, <3>2
    <2>3. QED
      BY <1>b, <2>1, <2>2 DEF ResultAcked
  <1>9. ASSUME NEW c \in Clients, NEW d \in Deliveries, ManualRetry(c, d) \/ RequeueDelivery(c, d)
        PROVE  ResultAcked' /\ SuccessMeansAcked'
    <2>1. UNCHANGED <<delivery, acked>> /\ ClientTask(c) \in Tasks
      BY <1>9, ClientTasks DEF ManualRetry, RequeueDelivery, history
    <2>2. /\ NewTask("requeue", d).pc = "requeue"
          /\ [NewTask("policy", d) EXCEPT !.status = delivery[d].status,
                                          !.attempts = delivery[d].attempts].pc = "policy"
      BY DEF NewTask, NoTask
    <2>3. QED
      BY <1>9, <1>a, <1>b, <2>1, <2>2 DEF ManualRetry, RequeueDelivery
  <1>10. ASSUME NEW c \in Clients, ClientStep(c)
         PROVE  ResultAcked' /\ SuccessMeansAcked'
    <2> DEFINE t == ClientTask(c)
    <2>1. /\ t \in Tasks /\ task[t] \in TaskState /\ task[t].d \in Deliveries /\ UNCHANGED acked
      BY <1>10, ClientTasks DEF ClientStep, ManualPolicy, ManualReset, RequeueReset, TypeOK, TaskShape, history
    <2>2. /\ [task[t] EXCEPT !.pc = "reset"].pc = "reset"
          /\ NewTask("hook", task[t].d).pc = "hook"
      BY <2>1 DEF TaskState, NewTask, NoTask
    <2>3. ResultAcked'
      BY <1>10, <1>a, <1>c, <2>1, <2>2 DEF ClientStep, ManualPolicy, ManualReset, RequeueReset
    <2>4. CASE ManualPolicy(c)
      BY <1>b, <2>1, <2>3, <2>4 DEF ManualPolicy
    <2>5. CASE ManualReset(c) \/ RequeueReset(c)
      BY <1>b, <2>1, <2>3, <2>5, UpdateRowOthers DEF ManualReset, RequeueReset
    <2>6. QED
      BY <1>10, <2>4, <2>5 DEF ClientStep
  <1>11. ASSUME UNCHANGED <<task, acked>>,
                \A e \in Deliveries : delivery'[e].status = delivery[e].status
                                      \/ delivery'[e].status # "success"
         PROVE  ResultAcked' /\ SuccessMeansAcked'
    BY <1>11, <1>b DEF ResultAcked
  <1>12. ASSUME NEW d \in Deliveries, BackoffElapses(d) \/ PruneOldDelivery(d)
         PROVE  ResultAcked' /\ SuccessMeansAcked'
    <2>1. \A e \in Deliveries : delivery'[e].status = delivery[e].status
                                \/ delivery'[e].status # "success"
      BY <1>12 DEF BackoffElapses, PruneOldDelivery, TypeOK, Row
    <2>2. QED
      BY <1>11, <1>12, <2>1 DEF BackoffElapses, PruneOldDelivery, history
  <1>13. ASSUME NEW w \in Webhooks, DeleteWebhook(w)
         PROVE  ResultAcked' /\ SuccessMeansAcked'
    <2>1. \A e \in Deliveries : delivery'[e].status = delivery[e].status
                                \/ delivery'[e].status # "success"
      BY <1>13 DEF DeleteWebhook, TypeOK, Row
    <2>2. QED
      BY <1>11, <1>13, <2>1 DEF DeleteWebhook, history
  <1>14. CASE ShutdownCompletes \/ ShutdownForced \/ Crash
    <2>1. (\A t \in Tasks : task'[t].pc = "idle") /\ UNCHANGED <<delivery, acked>>
      BY <1>14, TaskRecords DEF ShutdownCompletes, ShutdownForced, Crash, ProcessEnds
    <2>2. QED
      BY <1>b, <2>1 DEF ResultAcked
  <1>15. CASE \/ NothingToRetry \/ BatchSettled \/ UNCHANGED vars \/ BeginShutdown \/ Restart
              \/ \E w \in Webhooks, e \in BOOLEAN, m \in RetryLimits : UpdateWebhook(w, e, m)
    <2>1. UNCHANGED <<delivery, task, acked>>
      BY <1>15 DEF NothingToRetry, BatchSettled, vars, BeginShutdown, Restart, UpdateWebhook, history
    <2>2. QED
      BY <1>11, <2>1
  <1>16. QED
    BY <1>1, <1>2, <1>3, <1>4, <1>5, <1>6, <1>7, <1>8, <1>9, <1>10, <1>12, <1>13, <1>14, <1>15
       DEF Next, SendStep, RetryStep

\* A row says success only if the endpoint answered 2xx, in every interleaving
\* of first attempts, retries, manual retries, requeues and crashes.
THEOREM SuccessAcknowledged == Spec => []SuccessMeansAcked
  <1>1. Init => AckInv
    <2> SUFFICES ASSUME Init PROVE AckInv
      OBVIOUS
    <2>1. (\A t \in Tasks : task[t].pc = "idle") /\ \A d \in Deliveries : delivery[d].status = "none"
      BY TaskRecords DEF Init
    <2>2. QED
      BY <2>1 DEF AckInv, ResultAcked, SuccessMeansAcked
  <1>2. QED
    BY <1>1, AckStep, TypeCorrect, PTL DEF Spec, AckInv

-----------------------------------------------------------------------------
(* The policies a webhook has had *)

\* What a webhook has offered are natural numbers.
LEMMA OfferedNat ==
    ASSUME TypeOK, NEW d \in Deliveries
    PROVE  HookOf(d).offered \subseteq Nat
  <1>1. webhook[WebhookOf[d]] \in Webhook
    BY WebhookAssumption DEF TypeOK
  <1>2. QED
    BY <1>1, WebhookAssumption DEF HookOf, Webhook

\* The policies a webhook has had only grow, and the current one stays one of
\* them: UpdateWebhook is the only action that changes either.
LEMMA OfferedGrows ==
    ASSUME TypeOK, [Next]_vars, NEW w \in Webhooks
    PROVE  /\ webhook[w].offered \subseteq webhook'[w].offered
           /\ webhook[w].maxRetries \in webhook[w].offered
                => webhook'[w].maxRetries \in webhook'[w].offered
  <1> DEFINE Kept == webhook'[w].offered = webhook[w].offered /\ webhook'[w].maxRetries = webhook[w].maxRetries
  <1>1. CASE UNCHANGED webhook
    BY <1>1
  <1>2. ASSUME NEW v \in Webhooks, NEW e \in BOOLEAN, NEW m \in RetryLimits, UpdateWebhook(v, e, m)
        PROVE  \/ webhook'[w].maxRetries = m /\ webhook'[w].offered = webhook[w].offered \cup {m}
               \/ webhook'[w] = webhook[w]
    BY <1>2 DEF UpdateWebhook, TypeOK, Webhook
  <1>3. ASSUME NEW v \in Webhooks, DeleteWebhook(v)
        PROVE  Kept
    BY <1>3 DEF DeleteWebhook, TypeOK, Webhook
  <1>4. ASSUME NEW d \in Deliveries,
               DispatchEvent(d) \/ CreateDelivery(d) \/ BackoffElapses(d) \/ PruneOldDelivery(d)
        PROVE  UNCHANGED webhook
    BY <1>4 DEF DispatchEvent, CreateDelivery, BackoffElapses, PruneOldDelivery
  <1>5. ASSUME NEW t \in Tasks, SendStep(t) \/ RetryStep(t) \/ FaultStep(t)
        PROVE  UNCHANGED webhook
    BY <1>5 DEF SendStep, RetryStep, FaultStep, SendRequest, FetchReturns, ReadDelivery, WriteDelivery,
                GetWebhook, MarkFailed, CallFails, RecordingFails, GetWebhookFails, MarkFailedFails
  <1>6. ASSUME NEW c \in Clients, NEW d \in Deliveries,
               ManualRetry(c, d) \/ RequeueDelivery(c, d)
        PROVE  UNCHANGED webhook
    BY <1>6 DEF ManualRetry, RequeueDelivery
  <1>7. ASSUME \/ \E D \in SUBSET Deliveries : ProcessRetries(D)
               \/ NothingToRetry \/ BatchSettled \/ UNCHANGED vars
               \/ BeginShutdown \/ ShutdownCompletes \/ ShutdownForced \/ Crash \/ Restart
        PROVE  UNCHANGED webhook
    BY <1>7 DEF ProcessRetries, NothingToRetry, BatchSettled, vars, BeginShutdown, ShutdownCompletes,
                ShutdownForced, Crash, ProcessEnds, Restart
  <1>8. ASSUME NEW c \in Clients, ClientStep(c)
        PROVE  UNCHANGED webhook
    BY <1>8 DEF ClientStep, ManualPolicy, ManualReset, RequeueReset
  <1>9. ASSUME NEW v \in Webhooks, NEW e \in BOOLEAN, NEW m \in RetryLimits, UpdateWebhook(v, e, m)
        PROVE  /\ webhook[w].offered \subseteq webhook'[w].offered
               /\ webhook[w].maxRetries \in webhook[w].offered
                    => webhook'[w].maxRetries \in webhook'[w].offered
    BY <1>2, <1>9
  <1>10. QED
    BY <1>1, <1>3, <1>4, <1>5, <1>6, <1>7, <1>8, <1>9 DEF Next

\* A step that leaves a chain's delivery and snapshot alone, or takes the
\* snapshot of the webhook as it is, keeps the snapshot an offered one.
LEMMA OfferedStep ==
    TypeOK /\ TaskShape /\ OfferedInv /\ [Next]_vars => OfferedInv'
  <1> SUFFICES ASSUME TypeOK, TaskShape, OfferedInv, [Next]_vars
               PROVE  OfferedInv'
    OBVIOUS
  <1>a. \A w \in Webhooks : webhook'[w].maxRetries \in webhook'[w].offered
    BY OfferedGrows DEF OfferedInv
  <1>b. ASSUME NEW t \in Tasks, task[t].pc \in {"create"} \cup SendSteps
        PROVE  /\ task[t].max \in (HookOf(task[t].d).offered)
               /\ task[t].max \in webhook'[WebhookOf[task[t].d]].offered
    <2>1. task[t].d \in Deliveries
      BY <1>b DEF TaskShape, SendSteps
    <2>2. WebhookOf[task[t].d] \in Webhooks
      BY <2>1, WebhookAssumption
    <2>3. QED
      BY <1>b, <2>2, OfferedGrows DEF OfferedInv, HookOf
  <1>c. ASSUME \A t \in Tasks : task'[t].pc \in {"create"} \cup SendSteps =>
                   task'[t].max \in webhook'[WebhookOf[task'[t].d]].offered
        PROVE  OfferedInv'
    BY <1>a, <1>c DEF OfferedInv, HookOf
  \* One chain moves on: to no sending step, with the snapshot it had, or with
  \* a new one.
  <1>d. ASSUME NEW t \in Tasks, NEW s, Goto(t, s),
               s.pc \in {"create"} \cup SendSteps =>
                  s.max \in webhook'[WebhookOf[s.d]].offered
        PROVE  OfferedInv'
    <2>1. ASSUME NEW u \in Tasks, task'[u].pc \in {"create"} \cup SendSteps
          PROVE  task'[u].max \in webhook'[WebhookOf[task'[u].d]].offered
      <3>1. CASE u = t
        BY <1>d, <2>1, <3>1, GotoOthers
      <3>2. CASE u # t
        <4>1. task'[u] = task[u]
          BY <1>d, <3>2, GotoOthers
        <4>2. QED
          BY <1>b, <2>1, <4>1
      <3>3. QED
        BY <3>1, <3>2
    <2>2. QED
      BY <1>c, <2>1
  <1>e. ASSUME NEW t \in Tasks, Finish(t)
        PROVE  OfferedInv'
    BY <1>d, <1>e, TaskRecords DEF Finish, SendSteps
  <1>1. ASSUME NEW d \in Deliveries, DispatchEvent(d)
        PROVE  OfferedInv'
    <2> DEFINE s == [NewTask("create", d) EXCEPT !.max = HookOf(d).maxRetries]
    <2>1. s.max = HookOf(d).maxRetries /\ s.d = d
      BY DEF NewTask, NoTask
    <2>2. Goto(DispatchTask(d), s) /\ UNCHANGED webhook /\ WebhookOf[d] \in Webhooks
      BY <1>1, WebhookAssumption DEF DispatchEvent
    <2> HIDE DEF s
    <2>3. s.max \in webhook'[WebhookOf[s.d]].offered
      BY <2>1, <2>2 DEF HookOf, OfferedInv
    <2>4. QED
      BY <1>d, <2>2, <2>3, DeliveryTasks
  <1>2. ASSUME NEW d \in Deliveries, CreateDelivery(d)
        PROVE  OfferedInv'
    <2> DEFINE t == DispatchTask(d)
               s == [task[t] EXCEPT !.pc = "send"]
    <2>1. t \in Tasks /\ task[t] \in TaskState /\ task[t].pc = "create" /\ (Goto(t, s) \/ Finish(t))
      BY <1>2, DeliveryTasks DEF CreateDelivery, TypeOK
    <2>2. s.max = task[t].max /\ s.d = task[t].d
      BY <2>1 DEF TaskState
    <2> HIDE DEF s
    <2>3. QED
      BY <1>b, <1>d, <1>e, <2>1, <2>2
  <1>3. ASSUME NEW t \in Tasks, SendRequest(t)
        PROVE  OfferedInv'
    <2> DEFINE s == [task[t] EXCEPT !.pc = "fetch"]
    <2>1. task[t] \in TaskState /\ task[t].pc = "send" /\ Goto(t, s)
      BY <1>3 DEF SendRequest, TypeOK
    <2>2. s.max = task[t].max /\ s.d = task[t].d
      BY <2>1 DEF TaskState
    <2> HIDE DEF s
    <2>3. QED
      BY <1>b, <1>d, <2>1, <2>2 DEF SendSteps
  <1>4. ASSUME NEW t \in Tasks, NEW o \in Outcomes, FetchReturns(t, o)
        PROVE  OfferedInv'
    <2> DEFINE s == [task[t] EXCEPT !.pc = "read", !.result = AttemptStatus(o)]
    <2>1. task[t] \in TaskState /\ task[t].pc = "fetch" /\ Goto(t, s)
      BY <1>4 DEF FetchReturns, TypeOK
    <2>2. s.max = task[t].max /\ s.d = task[t].d
      BY <2>1 DEF TaskState
    <2> HIDE DEF s
    <2>3. QED
      BY <1>b, <1>d, <2>1, <2>2 DEF SendSteps
  <1>5. ASSUME NEW t \in Tasks, ReadDelivery(t)
        PROVE  OfferedInv'
    <2> DEFINE s == [task[t] EXCEPT !.pc = "write", !.attempts = delivery[task[t].d].attempts]
    <2>1. task[t] \in TaskState /\ task[t].pc = "read" /\ (Goto(t, s) \/ Finish(t))
      BY <1>5 DEF ReadDelivery, TypeOK
    <2>2. s.max = task[t].max /\ s.d = task[t].d
      BY <2>1 DEF TaskState
    <2> HIDE DEF s
    <2>3. QED
      BY <1>b, <1>d, <1>e, <2>1, <2>2 DEF SendSteps
  <1>6. ASSUME NEW t \in Tasks, WriteDelivery(t) \/ MarkFailed(t) \/ CallFails(t) \/ RecordingFails(t)
                                 \/ MarkFailedFails(t)
        PROVE  OfferedInv'
    BY <1>e, <1>6 DEF WriteDelivery, MarkFailed, CallFails, RecordingFails, MarkFailedFails
  <1>7. ASSUME NEW t \in Tasks, GetWebhook(t) \/ GetWebhookFails(t)
        PROVE  OfferedInv'
    <2> DEFINE s == [task[t] EXCEPT !.pc = "send", !.max = HookOf(task[t].d).maxRetries]
               f == [task[t] EXCEPT !.pc = "fail"]
    <2>1. task[t] \in TaskState /\ (Goto(t, s) \/ Goto(t, f)) /\ UNCHANGED webhook
      BY <1>7 DEF GetWebhook, GetWebhookFails, TypeOK
    <2>2. task[t].d \in Deliveries
      BY <1>7 DEF GetWebhook, GetWebhookFails, TaskShape
    <2>3. WebhookOf[task[t].d] \in Webhooks
      BY <2>2, WebhookAssumption
    <2>4. s.max = HookOf(task[t].d).maxRetries /\ s.d = task[t].d /\ f.pc = "fail"
      BY <2>1 DEF TaskState
    <2> HIDE DEF s, f
    <2>5. s.max \in webhook'[WebhookOf[s.d]].offered
      BY <2>1, <2>3, <2>4 DEF HookOf, OfferedInv
    <2>6. QED
      BY <1>d, <2>1, <2>4, <2>5 DEF SendSteps
  <1>8. ASSUME NEW D \in SUBSET Deliveries, ProcessRetries(D)
        PROVE  OfferedInv'
    <2>1. \A t \in Tasks : task'[t] = task[t] \/ task'[t] = NewTask("hook", t[2])
      BY <1>8 DEF ProcessRetries
    <2>2. \A e : NewTask("hook", e).pc = "hook"
      BY DEF NewTask, NoTask
    <2>3. QED
      BY <1>b, <1>c, <2>1, <2>2 DEF SendSteps
  <1>9. ASSUME NEW c \in Clients, NEW d \in Deliveries, ManualRetry(c, d) \/ RequeueDelivery(c, d)
        PROVE  OfferedInv'
    <2>1. /\ NewTask("requeue", d).pc = "requeue"
          /\ [NewTask("policy", d) EXCEPT !.status = delivery[d].status,
                                          !.attempts = delivery[d].attempts].pc = "policy"
      BY DEF NewTask, NoTask
    <2>2. \E r : Goto(ClientTask(c), r) /\ r.pc \in {"requeue", "policy"}
      BY <1>9, <2>1 DEF ManualRetry, RequeueDelivery
    <2>3. QED
      BY <1>d, <2>2, ClientTasks DEF SendSteps
  <1>10. ASSUME NEW c \in Clients, ClientStep(c)
         PROVE  OfferedInv'
    <2> DEFINE t == ClientTask(c)
    <2>1. t \in Tasks /\ task[t] \in TaskState
      BY ClientTasks DEF TypeOK
    <2>2. /\ [task[t] EXCEPT !.pc = "reset"].pc = "reset"
          /\ NewTask("hook", task[t].d).pc = "hook"
      BY <2>1 DEF TaskState, NewTask, NoTask
    <2>3. \E s : Goto(t, s) /\ s.pc \in {"idle", "reset", "hook"}
      BY <1>10, <2>2, TaskRecords DEF ClientStep, ManualPolicy, ManualReset, RequeueReset, Finish
    <2>4. QED
      BY <1>d, <2>1, <2>3 DEF SendSteps
  <1>11. CASE ShutdownCompletes \/ ShutdownForced \/ Crash
    <2>1. \A t \in Tasks : task'[t].pc = "idle"
      BY <1>11, TaskRecords DEF ShutdownCompletes, ShutdownForced, Crash, ProcessEnds
    <2>2. QED
      BY <1>c, <2>1 DEF SendSteps
  <1>12. CASE UNCHANGED task
    BY <1>b, <1>c, <1>12
  <1>13. ASSUME \/ NothingToRetry \/ BatchSettled \/ UNCHANGED vars \/ BeginShutdown \/ Restart
                \/ \E d \in Deliveries : BackoffElapses(d) \/ PruneOldDelivery(d)
                \/ \E w \in Webhooks, e \in BOOLEAN, m \in RetryLimits : UpdateWebhook(w, e, m)
                \/ \E w \in Webhooks : DeleteWebhook(w)
         PROVE  UNCHANGED task
    BY <1>13 DEF NothingToRetry, BatchSettled, vars, BeginShutdown, Restart, BackoffElapses,
                 PruneOldDelivery, UpdateWebhook, DeleteWebhook
  <1>14. QED
    BY <1>1, <1>2, <1>3, <1>4, <1>5, <1>6, <1>7, <1>8, <1>9, <1>10, <1>11, <1>12, <1>13
       DEF Next, SendStep, RetryStep, FaultStep

\* The policy a chain counts against is one its webhook has had.
LEMMA OfferedCorrect == Spec => []OfferedInv
  <1>1. Init => OfferedInv
    <2> SUFFICES ASSUME Init PROVE OfferedInv
      OBVIOUS
    <2>1. \A t \in Tasks : task[t].pc = "idle"
      BY TaskRecords DEF Init
    <2>2. \A w \in Webhooks : webhook[w].maxRetries \in webhook[w].offered
      BY DEF Init
    <2>3. QED
      BY <2>1, <2>2 DEF OfferedInv, SendSteps
  <1>2. QED
    BY <1>1, OfferedStep, TypeCorrect, PTL DEF Spec

-----------------------------------------------------------------------------
(* Attempts *)

\* A step that leaves a row's attempts alone, makes it neither pending nor
\* retrying and starts no new write of it keeps its attempts in order.
LEMMA AttemptsKept ==
    ASSUME NEW d \in Deliveries, AttemptsOf(d),
           HookOf(d).offered \subseteq (HookOf(d).offered)',
           delivery'[d].attempts = delivery[d].attempts,
           \/ delivery'[d].status = delivery[d].status
           \/ delivery'[d].status = "failed" /\ Stored(d)
           \/ delivery'[d].status = "deleted",
           \A t \in Tasks : \/ task'[t] = task[t] \/ task'[t].pc # "write" \/ task'[t].d # d
                            \/ task'[t].attempts = delivery[d].attempts
    PROVE  AttemptsOf(d)'
  <1>1. Stored(d)' => Stored(d)
    BY DEF Stored, DeliveryStatus
  <1>2. QED
    BY <1>1 DEF AttemptsOf, Bounded

\* Every step keeps the attempts of untouched rows in order.
LEMMA AttemptStep ==
    TypeOK /\ TaskShape /\ OfferedInv /\ Owners /\ AttemptInv /\ [Next]_vars => AttemptInv'
  <1> SUFFICES ASSUME TypeOK, TaskShape, OfferedInv, Owners, AttemptInv, [Next]_vars
               PROVE  AttemptInv'
    OBVIOUS
  <1>a. ASSUME NEW d \in Deliveries, d \notin touched
        PROVE  /\ AttemptsOf(d) /\ d \in Untouched /\ delivery[d] \in Row
               /\ HookOf(d).offered \subseteq (HookOf(d).offered)'
    <2>1. WebhookOf[d] \in Webhooks
      BY WebhookAssumption
    <2>2. QED
      BY <1>a, <2>1, OfferedGrows DEF AttemptInv, Untouched, TypeOK, HookOf
  <1>b. ASSUME touched \subseteq touched',
               ResultKnown',
               \A d \in Deliveries : d \notin touched' => AttemptsOf(d)'
        PROVE  AttemptInv'
    BY <1>b DEF AttemptInv, Untouched
  <1>c. ASSUME touched \subseteq touched',
               \A t \in Tasks : task'[t] = task[t] \/ task'[t].pc \notin {"read", "write"},
               \A d \in Deliveries : \/ d \in touched'
                                     \/ /\ delivery'[d].attempts = delivery[d].attempts
                                        /\ delivery'[d].status \in {delivery[d].status, "deleted"}
        PROVE  AttemptInv'
    <2>1. ResultKnown'
      BY <1>c DEF AttemptInv, ResultKnown
    <2>2. ASSUME NEW d \in Deliveries, d \notin touched'
          PROVE  AttemptsOf(d)'
      BY <1>a, <1>c, <2>2, AttemptsKept
    <2>3. QED
      BY <1>b, <1>c, <2>1, <2>2
  <1>1. ASSUME NEW d \in Deliveries, DispatchEvent(d)
        PROVE  AttemptInv'
    <2>1. [NewTask("create", d) EXCEPT !.max = HookOf(d).maxRetries].pc = "create"
      BY DEF NewTask, NoTask
    <2>2. \A t \in Tasks : task'[t] = task[t] \/ task'[t].pc = "create"
      <3>1. \E s : Goto(DispatchTask(d), s) /\ s.pc = "create"
        BY <1>1, <2>1 DEF DispatchEvent
      <3>2. QED
        BY <3>1, DeliveryTasks, GotoOthers
    <2>3. QED
      BY <1>1, <1>c, <2>2 DEF DispatchEvent, history
  <1>2. ASSUME NEW d \in Deliveries, CreateDelivery(d)
        PROVE  AttemptInv'
    <2> DEFINE t == DispatchTask(d)
    <2>1. t \in Tasks /\ task[t] \in TaskState /\ task[t].pc = "create" /\ task[t].d = d /\ UNCHANGED touched
      BY <1>2, DeliveryTasks DEF CreateDelivery, TypeOK, TaskShape, history
    <2>2. \A u \in Tasks : \/ u # t /\ task'[u] = task[u]
                           \/ u = t /\ task'[u].pc \in {"idle", "send"}
      <3>1. [task[t] EXCEPT !.pc = "send"].pc = "send"
        BY <2>1 DEF TaskState
      <3>2. \E s : Goto(t, s) /\ s.pc \in {"idle", "send"}
        BY <1>2, <3>1, TaskRecords DEF CreateDelivery, Finish
      <3>3. QED
        BY <2>1, <3>2, GotoOthers
    <2>3. ResultKnown'
      BY <2>2 DEF AttemptInv, ResultKnown
    <2>4. ASSUME NEW e \in Deliveries, e \notin touched
          PROVE  AttemptsOf(e)'
      <3>1. CASE UNCHANGED delivery \/ e # d
        <4>1. delivery'[e] = delivery[e]
          BY <1>2, <3>1 DEF CreateDelivery, TypeOK
        <4>2. QED
          BY <1>a, <2>2, <2>4, <4>1, AttemptsKept
      <3>2. CASE ~UNCHANGED delivery /\ e = d
        <4>1. delivery'[d].status = "pending" /\ delivery'[d].attempts = 0
          BY <1>2, <3>2 DEF CreateDelivery, TypeOK
        <4>2. \A u \in Tasks : ~(task'[u].d = d /\ task'[u].pc = "write")
          <5> SUFFICES ASSUME NEW u \in Tasks, u # t, task[u].d = d, task[u].pc = "write"
                       PROVE  FALSE
            BY <2>2
          <5>1. task[t].pc # "idle" /\ task[u].pc # "idle"
            BY <2>1
          <5>2. QED
            BY <1>a, <2>1, <2>4, <3>2, <5>1, SoleSender DEF RetrySteps, SendSteps
        <4>3. QED
          BY <3>2, <4>1, <4>2 DEF AttemptsOf, Bounded
      <3>3. QED
        BY <3>1, <3>2
    <2>5. QED
      BY <1>b, <2>1, <2>3, <2>4
  <1>3. ASSUME NEW t \in Tasks, SendRequest(t) \/ GetWebhook(t) \/ FaultStep(t)
        PROVE  AttemptInv'
    <2>1. task[t] \in TaskState /\ UNCHANGED <<delivery, touched>>
      BY <1>3 DEF SendRequest, GetWebhook, FaultStep, CallFails, RecordingFails, GetWebhookFails,
                  MarkFailedFails, history, TypeOK
    <2>2. /\ [task[t] EXCEPT !.pc = "fetch"].pc = "fetch"
          /\ [task[t] EXCEPT !.pc = "fail"].pc = "fail"
          /\ [task[t] EXCEPT !.pc = "send", !.max = HookOf(task[t].d).maxRetries].pc = "send"
      BY <2>1 DEF TaskState
    <2>3. \E s : Goto(t, s) /\ s.pc \notin {"read", "write"}
      BY <1>3, <2>2, TaskRecords DEF SendRequest, GetWebhook, FaultStep, CallFails, RecordingFails,
           GetWebhookFails, MarkFailedFails, Finish
    <2>4. \A u \in Tasks : task'[u] = task[u] \/ task'[u].pc \notin {"read", "write"}
      BY <2>3, GotoOthers
    <2>5. QED
      BY <1>c, <2>1, <2>4
  <1>4. ASSUME NEW t \in Tasks, NEW o \in Outcomes, FetchReturns(t, o)
        PROVE  AttemptInv'
    <2> DEFINE s == [task[t] EXCEPT !.pc = "read", !.result = AttemptStatus(o)]
    <2>1. task[t] \in TaskState /\ UNCHANGED <<delivery, touched>> /\ Goto(t, s)
      BY <1>4 DEF FetchReturns, TypeOK
    <2>2. s.result \in {"success", "failed", "retrying"} /\ s.pc = "read"
      BY <2>1 DEF TaskState, AttemptStatus, Outcomes
    <2> HIDE DEF s
    <2>3. ResultKnown'
      BY <2>1, <2>2, GotoOthers DEF AttemptInv, ResultKnown
    <2>4. \A u \in Tasks : task'[u] = task[u] \/ task'[u].pc # "write"
      BY <2>1, <2>2, GotoOthers
    <2>5. \A d \in Deliveries : d \notin touched => AttemptsOf(d)'
      BY <1>a, <2>1, <2>4, AttemptsKept
    <2>6. QED
      BY <1>b, <2>1, <2>3, <2>5
  <1>5. ASSUME NEW t \in Tasks, ReadDelivery(t)
        PROVE  AttemptInv'
    <2> DEFINE s == [task[t] EXCEPT !.pc = "write", !.attempts = delivery[task[t].d].attempts]
    <2>1. task[t] \in TaskState /\ task[t].pc = "read" /\ UNCHANGED <<delivery, touched>>
      BY <1>5 DEF ReadDelivery, history, TypeOK
    <2>2. s.pc = "write" /\ s.d = task[t].d /\ s.result = task[t].result
          /\ s.attempts = delivery[task[t].d].attempts
      BY <2>1 DEF TaskState
    <2>3. Goto(t, s) \/ Finish(t)
      BY <1>5 DEF ReadDelivery
    <2> HIDE DEF s
    <2>4. /\ \A u \in Tasks : u # t => task'[u] = task[u]
          /\ task'[t] = s \/ task'[t].pc = "idle"
      BY <2>3, GotoOthers, TaskRecords DEF Finish
    <2>5. ResultKnown'
      BY <2>1, <2>2, <2>4 DEF AttemptInv, ResultKnown
    <2>6. \A d \in Deliveries : d \notin touched => AttemptsOf(d)'
      BY <1>a, <2>1, <2>2, <2>4, AttemptsKept
    <2>7. QED
      BY <1>b, <2>1, <2>5, <2>6
  <1>6. ASSUME NEW t \in Tasks, WriteDelivery(t)
        PROVE  AttemptInv'
    <2> DEFINE n  == task[t].attempts + 1
               st == StatusAfter(task[t].result, n, task[t].max)
               d  == task[t].d
    <2>1. /\ task[t].pc = "write" /\ d \in Deliveries /\ Finish(t) /\ UNCHANGED touched
          /\ UpdateRow(d, st, n, FALSE)
      BY <1>6 DEF WriteDelivery, history, TaskShape
    <2>2. task[t] \in TaskState /\ task[t].max \in HookOf(d).offered
      BY <2>1 DEF TypeOK, OfferedInv, SendSteps
    <2>3. /\ st \in {"success", "failed", "dead_letter"} \/ (st = "retrying" /\ n < task[t].max)
          /\ n \in Nat
      <3>1. task[t].result \in {"success", "failed", "retrying"}
        BY <2>1 DEF AttemptInv, ResultKnown
      <3>2. n \in Nat /\ task[t].max \in Nat
        BY <2>2 DEF TaskState
      <3> HIDE DEF n
      <3>3. QED
        BY <3>1, <3>2 DEF StatusAfter
    <2> HIDE DEF st, n
    <2>4. \A u \in Tasks : (task'[u] = task[u] /\ u # t) \/ (task'[u].pc = "idle" /\ u = t)
      BY <2>1, GotoOthers, TaskRecords DEF Finish
    <2>5. ResultKnown'
      BY <2>4 DEF AttemptInv, ResultKnown
    <2>6. ASSUME NEW e \in Deliveries, e \notin touched
          PROVE  AttemptsOf(e)'
      <3>1. CASE e # d \/ ~Stored(d)
        <4>1. delivery'[e] = delivery[e]
          BY <2>1, <3>1, UpdateRowOthers
        <4>2. QED
          BY <1>a, <2>4, <2>6, <4>1, AttemptsKept
      <3>2. CASE e = d /\ Stored(d)
        <4>1. delivery'[d].status = st /\ delivery'[d].attempts = n
          <5>1. UpdateRow(d, st, n, FALSE) /\ d \in Deliveries /\ Stored(d)
            BY <2>1, <3>2
          <5> HIDE DEF d
          <5>2. QED
            BY <5>1, UpdateRowOthers
        <4>2. \A u \in Tasks : ~(task'[u].d = d /\ task'[u].pc = "write")
          <5> SUFFICES ASSUME NEW u \in Tasks, u # t, task[u].d = d, task[u].pc = "write"
                       PROVE  FALSE
            BY <2>4
          <5>1. task[t].pc # "idle" /\ task[u].pc # "idle"
            BY <2>1
          <5>2. QED
            BY <1>a, <2>1, <2>6, <3>2, <5>1, SoleSender DEF RetrySteps, SendSteps
        <4>3. /\ delivery[d].status \in {"pending", "retrying"}
              /\ n = delivery[d].attempts + 1 /\ delivery[d].attempts \in Nat
          <5>1. delivery[d].status \in {"pending", "retrying", "deleted"}
            BY <1>a, <2>1, <2>6, <3>2, SoleSender DEF RetrySteps, SendSteps
          <5>2. n = delivery[d].attempts + 1 /\ delivery[d].attempts \in Nat
            BY <1>a, <2>1, <2>6, <3>2 DEF AttemptsOf, Row, n
          <5>3. QED
            BY <3>2, <5>1, <5>2 DEF Stored, DeliveryStatus
        <4>4. Bounded(n, HookOf(d).offered)
          <5>1. CASE delivery[d].status = "pending"
            BY <1>a, <2>6, <3>2, <4>3, <5>1 DEF AttemptsOf, Bounded
          <5>2. CASE delivery[d].status = "retrying"
            <6>1. PICK m \in HookOf(d).offered : delivery[d].attempts < m
              BY <1>a, <2>6, <3>2, <5>2 DEF AttemptsOf
            <6>2. m \in Nat
              BY <2>1, OfferedNat
            <6>3. QED
              BY <4>3, <6>1, <6>2 DEF Bounded
          <5>3. QED
            BY <4>3, <5>1, <5>2
        <4>5. QED
          <5>1. HookOf(e).offered \subseteq (HookOf(e).offered)'
            BY <1>a, <2>6
          <5>2. Bounded(n, HookOf(e).offered) /\ task[t].max \in HookOf(e).offered
            BY <2>2, <3>2, <4>4
          <5>3. delivery'[e].status = st /\ delivery'[e].attempts = n
            BY <3>2, <4>1
          <5>4. \A u \in Tasks : ~(task'[u].d = e /\ task'[u].pc = "write")
            BY <3>2, <4>2
          <5> HIDE DEF d
          <5>5. QED
            BY <2>3, <5>1, <5>2, <5>3, <5>4 DEF AttemptsOf, Bounded
      <3>3. QED
        BY <3>1, <3>2
    <2>7. QED
      BY <1>b, <2>1, <2>5, <2>6
  <1>7. ASSUME NEW t \in Tasks, MarkFailed(t)
        PROVE  AttemptInv'
    <2>1. /\ task[t].d \in Deliveries /\ Finish(t) /\ UNCHANGED touched
          /\ UpdateRow(task[t].d, "failed", delivery[task[t].d].attempts, FALSE)
      BY <1>7 DEF MarkFailed, history, TaskShape
    <2>2. \A u \in Tasks : task'[u] = task[u] \/ task'[u].pc = "idle"
      BY <2>1, GotoOthers, TaskRecords DEF Finish
    <2>3. ResultKnown'
      BY <2>2 DEF AttemptInv, ResultKnown
    <2>4. \A e \in Deliveries : /\ delivery'[e].attempts = delivery[e].attempts
                                /\ \/ delivery'[e].status = delivery[e].status
                                   \/ delivery'[e].status = "failed" /\ Stored(e)
      BY <2>1, UpdateRowOthers
    <2>5. \A e \in Deliveries : e \notin touched => AttemptsOf(e)'
      BY <1>a, <2>2, <2>4, AttemptsKept
    <2>6. QED
      BY <1>b, <2>1, <2>3, <2>5
  <1>8. ASSUME NEW D \in SUBSET Deliveries, ProcessRetries(D)
        PROVE  AttemptInv'
    <2>1. \A t \in Tasks : task'[t] = task[t] \/ task'[t] = NewTask("hook", t[2])
      BY <1>8 DEF ProcessRetries
    <2>2. \A e : NewTask("hook", e).pc = "hook"
      BY DEF NewTask, NoTask
    <2>3. \A t \in Tasks : task'[t] = task[t] \/ task'[t].pc \notin {"read", "write"}
      BY <2>1, <2>2
    <2>4. UNCHANGED <<delivery, touched>>
      BY <1>8 DEF ProcessRetries, history
    <2>5. QED
      BY <1>c, <2>3, <2>4
  <1>9. ASSUME NEW c \in Clients, NEW d \in Deliveries, ManualRetry(c, d) \/ RequeueDelivery(c, d)
        PROVE  AttemptInv'
    <2>1. UNCHANGED <<delivery, touched>> /\ ClientTask(c) \in Tasks
      BY <1>9, ClientTasks DEF ManualRetry, RequeueDelivery, history
    <2>2. /\ NewTask("requeue", d).pc = "requeue"
          /\ [NewTask("policy", d) EXCEPT !.status = delivery[d].status,
                                          !.attempts = delivery[d].attempts].pc = "policy"
      BY DEF NewTask, NoTask
    <2>3. \A u \in Tasks : task'[u] = task[u] \/ task'[u].pc \notin {"read", "write"}
      <3>1. \E r : Goto(ClientTask(c), r) /\ r.pc \in {"requeue", "policy"}
        BY <1>9, <2>2 DEF ManualRetry, RequeueDelivery
      <3>2. QED
        BY <2>1, <3>1, GotoOthers
    <2>4. QED
      BY <1>c, <2>1, <2>3
  <1>10. ASSUME NEW c \in Clients, ClientStep(c)
         PROVE  AttemptInv'
    <2> DEFINE t == ClientTask(c)
    <2>1. t \in Tasks /\ task[t] \in TaskState /\ task[t].d \in Deliveries
      BY <1>10, ClientTasks DEF ClientStep, ManualPolicy, ManualReset, RequeueReset, TypeOK, TaskShape
    <2>2. /\ [task[t] EXCEPT !.pc = "reset"].pc = "reset"
          /\ NewTask("hook", task[t].d).pc = "hook"
      BY <2>1 DEF TaskState, NewTask, NoTask
    <2>3. \A u \in Tasks : task'[u] = task[u] \/ task'[u].pc \notin {"read", "write"}
      <3>1. \E s : Goto(t, s) /\ s.pc \in {"idle", "reset", "hook"}
        BY <1>10, <2>2, TaskRecords DEF ClientStep, ManualPolicy, ManualReset, RequeueReset, Finish
      <3>2. QED
        BY <2>1, <3>1, GotoOthers
    <2>4. CASE ManualPolicy(c)
      <3>1. UNCHANGED <<delivery, touched>>
        BY <2>4 DEF ManualPolicy, history
      <3>2. QED
        BY <1>c, <2>3, <3>1
    <2>5. CASE ManualReset(c) \/ RequeueReset(c)
      <3>1. touched' = touched \cup {task[t].d}
        BY <2>5 DEF ManualReset, RequeueReset
      <3>2. \A e \in Deliveries : e # task[t].d => delivery'[e] = delivery[e]
        BY <2>1, <2>5, UpdateRowOthers DEF ManualReset, RequeueReset
      <3>3. QED
        BY <1>c, <2>3, <3>1, <3>2
    <2>6. QED
      BY <1>10, <2>4, <2>5 DEF ClientStep
  <1>11. ASSUME NEW d \in Deliveries, BackoffElapses(d) \/ PruneOldDelivery(d)
         PROVE  AttemptInv'
    <2>1. \A e \in Deliveries : /\ delivery'[e].attempts = delivery[e].attempts
                                /\ delivery'[e].status \in {delivery[e].status, "deleted"}
      <3>1. CASE BackoffElapses(d)
        BY <3>1 DEF BackoffElapses, TypeOK, Row
      <3>2. CASE PruneOldDelivery(d)
        BY <3>2 DEF PruneOldDelivery, TypeOK, Row
      <3>3. QED
        BY <1>11, <3>1, <3>2
    <2>2. UNCHANGED <<task, touched>>
      BY <1>11 DEF BackoffElapses, PruneOldDelivery, history
    <2>3. QED
      BY <1>c, <2>1, <2>2
  <1>12. ASSUME NEW w \in Webhooks, DeleteWebhook(w)
         PROVE  AttemptInv'
    <2>1. \A e \in Deliveries : /\ delivery'[e].attempts = delivery[e].attempts
                                /\ delivery'[e].status \in {delivery[e].status, "deleted"}
      BY <1>12 DEF DeleteWebhook, TypeOK, Row
    <2>2. QED
      BY <1>c, <1>12, <2>1 DEF DeleteWebhook, history
  <1>13. CASE ShutdownCompletes \/ ShutdownForced \/ Crash
    <2>1. (\A t \in Tasks : task'[t].pc = "idle") /\ UNCHANGED <<delivery, touched>>
      BY <1>13, TaskRecords DEF ShutdownCompletes, ShutdownForced, Crash, ProcessEnds
    <2>2. QED
      BY <1>c, <2>1
  <1>14. CASE \/ NothingToRetry \/ BatchSettled \/ UNCHANGED vars \/ BeginShutdown \/ Restart
              \/ \E w \in Webhooks, e \in BOOLEAN, m \in RetryLimits : UpdateWebhook(w, e, m)
    <2>1. UNCHANGED <<delivery, task, touched>>
      BY <1>14 DEF NothingToRetry, BatchSettled, vars, BeginShutdown, Restart, UpdateWebhook, history
    <2>2. QED
      BY <1>c, <2>1
  <1>15. QED
    BY <1>1, <1>2, <1>3, <1>4, <1>5, <1>6, <1>7, <1>8, <1>9, <1>10, <1>11, <1>12, <1>13, <1>14
       DEF Next, SendStep, RetryStep

\* The webhook's own retry policies bound the recorded attempts of an untouched
\* delivery: a write counts from the row as it is and against a policy the
\* webhook has had when the chain looked it up, and only a retrying row, whose
\* attempts are below such a maxRetries, is sent again.
THEOREM AttemptsBounded == Spec => []AttemptBound
  <1>1. Init => AttemptInv
    <2> SUFFICES ASSUME Init PROVE AttemptInv
      OBVIOUS
    <2>1. /\ \A t \in Tasks : task[t].pc = "idle"
          /\ \A d \in Deliveries : delivery[d].status = "none" /\ delivery[d].attempts = 0
      BY TaskRecords DEF Init
    <2>2. QED
      BY <2>1 DEF AttemptInv, AttemptsOf, ResultKnown, Untouched, Bounded
  <1>2. AttemptInv => AttemptBound
    BY DEF AttemptInv, AttemptsOf, AttemptBound, Bounded
  <1>3. QED
    BY <1>1, <1>2, AttemptStep, OwnersCorrect, OfferedCorrect, PTL DEF Spec

-----------------------------------------------------------------------------
(* Every attempt is accounted for *)

\* A chain with record r has a request for d out, or its answer not recorded.
Flies(r, d)    == r.d = d /\ r.pc \in {"fetch", "read", "write"}
Flying(f, d)   == {t \in Tasks : Flies(f[t], d)}
\* It works on sending d; it holds a 2xx answer it has not recorded.
Busy(r, d)     == r.d = d /\ r.pc \in {"create"} \cup RetrySteps
Answered(r)    == r.pc \in {"read", "write"} /\ r.result = "success"

\* The n attempts to send a delivery with this row, of which l were lost and c
\* are in flight.
Accounted(row, n, l, c) ==
    /\ row.status \in DeliveryStatus => n = row.attempts + l + c
    /\ row.status = "none" => n = 0 /\ l = 0

\* Once d was acknowledged and nothing about it was lost, the only chain left
\* for it is the one that is about to record the success, and the row is not
\* one the retry loop picks up.
Resting(d, row, l, A, f) ==
    d \in A /\ l = 0 =>
      /\ \A t \in Tasks : Busy(f[t], d) => Answered(f[t])
      /\ row.status \in {"success", "deleted"} \/ \E t \in Tasks : Flies(f[t], d)

HistoryOf(d) ==
    /\ Accounted(delivery[d], sent[d], lost[d], Cardinality(Flying(task, d)))
    /\ Resting(d, delivery[d], lost[d], acked, task)
HistoryInv == \A d \in Untouched : HistoryOf(d)

\* The requests in flight can be counted.
LEMMA FlyingFinite ==
    ASSUME NEW f, NEW d
    PROVE  IsFiniteSet(Flying(f, d)) /\ Cardinality(Flying(f, d)) \in Nat
  <1>1. Flying(f, d) \subseteq Tasks
    BY DEF Flying
  <1>2. IsFiniteSet(Flying(f, d))
    BY <1>1, FiniteTasks, FS_Subset
  <1>3. QED
    BY <1>2, FS_CardinalityType

\* A step that starts and ends no request for d keeps their number.
LEMMA FlyingSame ==
    ASSUME NEW f, NEW g, NEW d, \A t \in Tasks : Flies(f[t], d) <=> Flies(g[t], d)
    PROVE  Flying(f, d) = Flying(g, d)
  BY DEF Flying

\* A request leaves.
LEMMA FlyingMore ==
    ASSUME NEW f, NEW g, NEW d, NEW t \in Tasks, ~Flies(f[t], d), Flies(g[t], d),
           \A u \in Tasks : u # t => g[u] = f[u]
    PROVE  Cardinality(Flying(g, d)) = Cardinality(Flying(f, d)) + 1
  <1>1. Flying(g, d) = Flying(f, d) \cup {t} /\ t \notin Flying(f, d)
    BY DEF Flying
  <1>2. QED
    BY <1>1, FlyingFinite, FS_AddElement

\* The outcome of a request is recorded or lost.
LEMMA FlyingLess ==
    ASSUME NEW f, NEW g, NEW d, NEW t \in Tasks, Flies(f[t], d), ~Flies(g[t], d),
           \A u \in Tasks : u # t => g[u] = f[u]
    PROVE  Cardinality(Flying(f, d)) = Cardinality(Flying(g, d)) + 1
  BY FlyingMore

\* A step that is not about d, or only deletes its row, keeps its history.
LEMMA QuietHistory ==
    ASSUME NEW d \in Deliveries, HistoryOf(d),
           sent'[d] = sent[d], lost'[d] = lost[d], d \in acked' => d \in acked,
           delivery'[d].attempts = delivery[d].attempts,
           \/ delivery'[d].status = delivery[d].status
           \/ delivery'[d].status = "deleted" /\ delivery[d].status # "none",
           \A t \in Tasks : task'[t] = task[t] \/ (~Busy(task[t], d) /\ ~Busy(task'[t], d))
    PROVE  HistoryOf(d)'
  <1>1. \A r : Flies(r, d) => Busy(r, d)
    BY DEF Flies, Busy, RetrySteps, SendSteps
  <1>2. \A t \in Tasks : Flies(task[t], d) <=> Flies(task'[t], d)
    BY <1>1
  <1>3. Flying(task', d) = Flying(task, d)
    <2> DEFINE g == task'
    <2>1. \A t \in Tasks : Flies(task[t], d) <=> Flies(g[t], d)
      BY <1>2
    <2> HIDE DEF g
    <2>2. Flying(task, d) = Flying(g, d)
      BY <2>1, FlyingSame
    <2>3. QED
      BY <2>2 DEF g
  <1>4. Accounted(delivery'[d], sent'[d], lost'[d], Cardinality(Flying(task', d)))
    BY <1>3 DEF HistoryOf, Accounted, DeliveryStatus
  <1>5. Resting(d, delivery'[d], lost'[d], acked', task')
    BY <1>1, <1>2 DEF HistoryOf, Resting
  <1>6. QED
    BY <1>4, <1>5 DEF HistoryOf

\* What the step of one chain, from record r to s, leaves alone: every delivery
\* but d.
Spares(r, s, d) ==
    /\ \A e \in Deliveries : e # d => ~Busy(r, e) /\ ~Busy(s, e)
    /\ \A e \in Deliveries : e # d => /\ sent'[e] = sent[e] /\ lost'[e] = lost[e]
                                      /\ e \in acked' => e \in acked
                                      /\ delivery'[e] = delivery[e]

\* A step of one chain about d keeps the history of the other deliveries.
LEMMA OthersHistory ==
    ASSUME TypeOK, HistoryInv, touched \subseteq touched',
           NEW t \in Tasks, NEW s, Goto(t, s), NEW d, Spares(task[t], s, d),
           d \in Deliveries /\ d \notin touched' => HistoryOf(d)'
    PROVE  HistoryInv'
  <1>1. task'[t] = s /\ \A u \in Tasks : u # t => task'[u] = task[u]
    BY GotoOthers
  <1>2. ASSUME NEW e \in Deliveries, e \notin touched', e # d
        PROVE  HistoryOf(e)'
    <2>1. HistoryOf(e)
      BY <1>2 DEF HistoryInv, Untouched
    <2>2. \A u \in Tasks : task'[u] = task[u] \/ (~Busy(task[u], e) /\ ~Busy(task'[u], e))
      BY <1>1, <1>2 DEF Spares
    <2>3. QED
      BY <1>2, <2>1, <2>2, QuietHistory DEF Spares
  <1>3. QED
    BY <1>2 DEF HistoryInv, Untouched

\* Before an untouched, acknowledged delivery of which nothing was lost, no chain
\* is at any step but the recording of the success.
LEMMA AckedAtRest ==
    ASSUME HistoryInv, NEW d \in Untouched, d \in acked, lost[d] = 0,
           NEW t \in Tasks, Busy(task[t], d)
    PROVE  Answered(task[t])
  BY DEF HistoryInv, HistoryOf, Resting

\* The other chains do not send an untouched delivery that chain t is sending.
LEMMA AloneSending ==
    ASSUME TypeOK, TaskShape, Owners, NEW d \in Untouched, NEW t \in Tasks, Busy(task[t], d)
    PROVE  \A u \in Tasks : u # t => ~Busy(task[u], d)
  <1> SUFFICES ASSUME NEW u \in Tasks, u # t, Busy(task[u], d) PROVE FALSE
    OBVIOUS
  <1>1. /\ task[t].d = d /\ task[t].pc \in {"create"} \cup RetrySteps
        /\ task[u].d = d /\ task[u].pc \in {"create"} \cup RetrySteps
    BY DEF Busy
  <1>2. task[t].pc # "idle" /\ task[u].pc # "idle"
    BY <1>1 DEF RetrySteps, SendSteps
  <1>3. QED
    BY <1>1, <1>2, SoleSender

\* A sending chain moves on, the rows and the history of the attempts unchanged.
LEMMA MovedHistory ==
    ASSUME TypeOK, TaskShape, Owners, HistoryInv, NEW t \in Tasks, NEW s, Goto(t, s),
           UNCHANGED <<delivery, touched, sent, lost>>,
           NEW d \in Deliveries, Busy(task[t], d), s.d = d,
           acked' = acked \/ (acked' = acked \cup {d} /\ Answered(s)),
           Flies(task[t], d) <=> Flies(s, d), Answered(task[t]) => Answered(s)
    PROVE  HistoryInv'
  <1> DEFINE g == task'
  <1>1. g[t] = s /\ \A u \in Tasks : u # t => g[u] = task[u]
    BY GotoOthers
  <1>2. Spares(task[t], s, d)
    BY DEF Spares, Busy
  <1>3. ASSUME d \notin touched
        PROVE  HistoryOf(d)'
    <2>1. HistoryOf(d) /\ d \in Untouched
      BY <1>3 DEF HistoryInv, Untouched
    <2> HIDE DEF g
    <2>2. \A u \in Tasks : Flies(task[u], d) <=> Flies(g[u], d)
      BY <1>1
    <2>3. Flying(task, d) = Flying(g, d)
      BY <2>2, FlyingSame
    <2>4. Accounted(delivery[d], sent[d], lost[d], Cardinality(Flying(g, d)))
      BY <2>1, <2>3 DEF HistoryOf
    <2>5. Resting(d, delivery[d], lost[d], acked', g)
      <3> SUFFICES ASSUME d \in acked', lost[d] = 0
                   PROVE  /\ \A u \in Tasks : Busy(g[u], d) => Answered(g[u])
                          /\ delivery[d].status \in {"success", "deleted"} \/ \E u \in Tasks : Flies(g[u], d)
        BY DEF Resting
      <3>1. \A u \in Tasks : u # t => ~Busy(g[u], d)
        BY <1>1, <2>1, AloneSending
      <3>2. CASE d \in acked
        <4>1. Answered(task[t])
          BY <2>1, <3>2, AckedAtRest
        <4>2. Flies(task[t], d)
          BY <4>1 DEF Answered, Flies, Busy
        <4>3. QED
          BY <1>1, <3>1, <4>1, <4>2
      <3>3. CASE d \notin acked
        <4>1. Answered(s)
          BY <3>3
        <4>2. Flies(s, d)
          BY <4>1 DEF Answered, Flies
        <4>3. QED
          BY <1>1, <3>1, <4>1, <4>2
      <3>4. QED
        BY <3>2, <3>3
    <2>6. Accounted(delivery'[d], sent'[d], lost'[d], Cardinality(Flying(task', d)))
      BY <2>4 DEF g
    <2>7. Resting(d, delivery'[d], lost'[d], acked', task')
      BY <2>5 DEF g
    <2>8. QED
      BY <2>6, <2>7 DEF HistoryOf
  <1>4. QED
    BY <1>2, <1>3, OthersHistory

\* A chain with nothing in flight moves on or ends, and sends no delivery it was
\* not sending before.
LEMMA GroundedHistory ==
    ASSUME TypeOK, HistoryInv, NEW t \in Tasks, NEW s, Goto(t, s),
           UNCHANGED <<delivery, touched, sent, lost, acked>>,
           \A e \in Deliveries : /\ ~Flies(task[t], e) /\ ~Flies(s, e)
                                 /\ Busy(s, e) => Busy(task[t], e)
    PROVE  HistoryInv'
  <1> DEFINE g == task'
  <1>1. g[t] = s /\ \A u \in Tasks : u # t => g[u] = task[u]
    BY GotoOthers
  <1>2. ASSUME NEW e \in Deliveries, e \notin touched
        PROVE  HistoryOf(e)'
    <2>1. HistoryOf(e) /\ e \in Untouched
      BY <1>2 DEF HistoryInv, Untouched
    <2> HIDE DEF g
    <2>2. \A u \in Tasks : Flies(task[u], e) <=> Flies(g[u], e)
      BY <1>1
    <2>3. Flying(task, e) = Flying(g, e)
      BY <2>2, FlyingSame
    <2>4. ~Answered(task[t]) \/ ~Busy(task[t], e)
      BY DEF Answered, Flies, Busy
    <2>5. Resting(e, delivery[e], lost[e], acked, g)
      BY <1>1, <2>1, <2>2, <2>4 DEF HistoryOf, Resting
    <2>6. Accounted(delivery'[e], sent'[e], lost'[e], Cardinality(Flying(task', e)))
      BY <2>1, <2>3 DEF HistoryOf, g
    <2>7. Resting(e, delivery'[e], lost'[e], acked', task')
      BY <2>5 DEF g
    <2>8. QED
      BY <2>6, <2>7 DEF HistoryOf
  <1>3. QED
    BY <1>2 DEF HistoryInv, Untouched

\* The row of an untouched delivery that some chain sends.
LEMMA SentRow ==
    ASSUME TypeOK, TaskShape, Owners, NEW d \in Untouched, NEW t \in Tasks, Busy(task[t], d),
           task[t].pc # "create"
    PROVE  /\ delivery[d].status \in {"pending", "retrying", "deleted"}
           /\ delivery[d].status = "retrying" => task[RetryTask(d)].pc # "idle"
  <1>1. /\ task[t].d = d /\ task[t].pc \in {"create"} \cup RetrySteps /\ task[t].pc # "idle"
        /\ d \in Deliveries /\ RowOwner(d)
    BY DEF Busy, RetrySteps, SendSteps, Untouched, Owners, Ownership
  <1>2. /\ \/ t = DispatchTask(d) /\ task[RetryTask(d)].pc = "idle"
           \/ t = RetryTask(d) /\ task[DispatchTask(d)].pc = "idle"
        /\ delivery[d].status \in {"pending", "retrying", "deleted"}
    BY <1>1, SoleSender
  <1>3. CASE t = RetryTask(d)
    BY <1>1, <1>2, <1>3
  <1>4. CASE t = DispatchTask(d)
    <2>1. task[t].pc \in SendSteps
      BY <1>1, <1>4 DEF TaskShape
    <2>2. QED
      BY <1>1, <1>2, <1>4, <2>1 DEF RowOwner
  <1>5. QED
    BY <1>2, <1>3, <1>4

\* A row that waits for its first insert or for the retry loop, with no retry
\* under way, is not acknowledged, or something about it was lost.
LEMMA WaitingUnacked ==
    ASSUME TypeOK, TaskShape, Owners, HistoryInv, NEW d \in Untouched,
           \/ delivery[d].status = "none"
           \/ delivery[d].status = "retrying" /\ task[RetryTask(d)].pc = "idle"
    PROVE  /\ ~(d \in acked /\ lost[d] = 0)
           /\ \A t \in Tasks : ~Flies(task[t], d)
  <1>1. ASSUME NEW t \in Tasks, Flies(task[t], d)
        PROVE  FALSE
    <2>1. Busy(task[t], d) /\ task[t].pc # "create"
      BY <1>1 DEF Flies, Busy, RetrySteps, SendSteps
    <2>2. QED
      BY <2>1, SentRow
  <1>2. QED
    BY <1>1 DEF HistoryInv, HistoryOf, Resting

\* A process that ends counts what was in flight as lost.
LEMMA EndedHistory ==
    ASSUME TypeOK, TaskShape, Owners, HistoryInv, ProcessEnds
    PROVE  HistoryInv'
  <1> DEFINE g == task'
  <1>1. /\ \A t \in Tasks : g[t] = NoTask
        /\ UNCHANGED <<delivery, touched, sent, acked>>
    BY DEF ProcessEnds
  <1>2. ASSUME NEW d \in Deliveries, d \notin touched
        PROVE  HistoryOf(d)'
    <2> DEFINE c == Cardinality(Flying(task, d))
    <2>1. HistoryOf(d)
      BY <1>2 DEF HistoryInv, Untouched
    <2>2. lost'[d] = lost[d] + c
      BY DEF ProcessEnds, Flying, Flies, InFlight
    <2>3. /\ c \in Nat /\ lost[d] \in Nat /\ sent[d] \in Nat /\ delivery[d] \in Row
          /\ c = 0 => Flying(task, d) = {}
      BY FlyingFinite, FS_EmptySet DEF TypeOK
    <2>4. \A t \in Tasks : ~Busy(g[t], d) /\ ~Flies(g[t], d)
      BY <1>1, TaskRecords DEF Busy, Flies, RetrySteps, SendSteps
    <2> HIDE DEF g
    <2>5. Cardinality(Flying(g, d)) = 0
      BY <2>4, FS_EmptySet DEF Flying
    <2>6. Accounted(delivery[d], sent[d], lost[d], c)
      BY <2>1 DEF HistoryOf
    <2>7. delivery[d].status = "none" => c = 0
      <3> SUFFICES ASSUME delivery[d].status = "none" PROVE Flying(task, d) = {}
        BY FS_EmptySet
      <3>1. \A t \in Tasks : ~Flies(task[t], d)
        BY <1>2, WaitingUnacked DEF Untouched
      <3>2. QED
        BY <3>1 DEF Flying
    <2>8. \A l : l = lost[d] + c => Resting(d, delivery[d], l, acked, g)
      <3> SUFFICES ASSUME d \in acked, lost[d] + c = 0
                   PROVE  delivery[d].status \in {"success", "deleted"}
        BY <2>4 DEF Resting
      <3>1. lost[d] = 0 /\ c = 0
        BY <2>3
      <3>2. QED
        BY <2>1, <2>3, <3>1 DEF HistoryOf, Resting, Flying
    <2> HIDE DEF c
    <2>9. \A l : l = lost[d] + c => Accounted(delivery[d], sent[d], l, 0)
      BY <2>3, <2>6, <2>7 DEF Accounted, Row
    <2>10. /\ Accounted(delivery'[d], sent'[d], lost'[d], Cardinality(Flying(task', d)))
           /\ Resting(d, delivery'[d], lost'[d], acked', task')
      BY <1>1, <2>2, <2>5, <2>8, <2>9 DEF g
    <2>11. QED
      BY <2>10 DEF HistoryOf
  <1>3. QED
    BY <1>1, <1>2 DEF HistoryInv, Untouched

\* A sending chain records or drops what it holds and ends.  The row of its
\* delivery d, and what was lost of it, tell the rest.
LEMMA LandedHistory ==
    ASSUME TypeOK, TaskShape, Owners, HistoryInv, NEW t \in Tasks, Finish(t),
           NEW d \in Deliveries, Busy(task[t], d),
           UNCHANGED <<touched, sent, acked>>,
           \A e \in Deliveries : e # d => delivery'[e] = delivery[e] /\ lost'[e] = lost[e],
           d \notin touched => Accounted(delivery'[d], sent[d], lost'[d], Cardinality(Flying(task', d))),
           d \notin touched /\ d \in acked /\ lost'[d] = 0 => delivery'[d].status \in {"success", "deleted"}
    PROVE  HistoryInv'
  <1> DEFINE g == task'
  <1>1. Goto(t, NoTask) /\ \A e : ~Busy(NoTask, e) /\ ~Flies(NoTask, e)
    BY TaskRecords DEF Finish, Busy, Flies, RetrySteps, SendSteps
  <1>2. g[t] = NoTask /\ \A u \in Tasks : u # t => g[u] = task[u]
    BY <1>1, GotoOthers
  <1>3. Spares(task[t], NoTask, d)
    BY <1>1 DEF Spares, Busy
  <1>4. ASSUME d \notin touched
        PROVE  HistoryOf(d)'
    <2>1. \A u \in Tasks : u # t => ~Busy(task[u], d)
      BY <1>4, AloneSending DEF Untouched
    <2> HIDE DEF g
    <2>2. \A u \in Tasks : ~Busy(g[u], d)
      BY <1>1, <1>2, <2>1
    <2>3. \A l : (l = 0 /\ d \in acked => delivery'[d].status \in {"success", "deleted"})
                  => Resting(d, delivery'[d], l, acked, g)
      BY <2>2 DEF Resting
    <2>4. Resting(d, delivery'[d], lost'[d], acked', task')
      BY <1>4, <2>3 DEF g
    <2>5. Accounted(delivery'[d], sent'[d], lost'[d], Cardinality(Flying(task', d)))
      BY <1>4
    <2>6. QED
      BY <2>4, <2>5 DEF HistoryOf
  <1>5. QED
    BY <1>1, <1>3, <1>4, OthersHistory

\* Every step keeps the attempts accounted for and the acknowledged deliveries
\* at rest.
LEMMA HistoryStep ==
    TypeOK /\ TaskShape /\ Owners /\ AttemptInv /\ HistoryInv /\ [Next]_vars => HistoryInv'
  <1> SUFFICES ASSUME TypeOK, TaskShape, Owners, AttemptInv, HistoryInv, [Next]_vars
               PROVE  HistoryInv'
    OBVIOUS
  <1>a. ASSUME NEW t \in Tasks, task[t].pc \in {"create"} \cup RetrySteps
        PROVE  /\ task[t] \in TaskState /\ task[t].d \in Deliveries
               /\ Busy(task[t], task[t].d)
    BY <1>a DEF TypeOK, TaskShape, Busy, RetrySteps, SendSteps
  <1>b. ASSUME NEW d \in Deliveries, d \notin touched
        PROVE  /\ d \in Untouched /\ HistoryOf(d) /\ delivery[d] \in Row
               /\ sent[d] \in Nat /\ lost[d] \in Nat
    BY <1>b DEF HistoryInv, Untouched, TypeOK
  <1>c. ASSUME UNCHANGED <<task, sent, lost, acked, touched>>,
               \A e \in Deliveries : /\ delivery'[e].attempts = delivery[e].attempts
                                     /\ \/ delivery'[e].status = delivery[e].status
                                        \/ delivery'[e].status = "deleted" /\ delivery[e].status # "none"
        PROVE  HistoryInv'
    <2>1. ASSUME NEW d \in Deliveries, d \notin touched PROVE HistoryOf(d)'
      BY <1>b, <1>c, <2>1, QuietHistory
    <2>2. QED
      BY <1>c, <2>1 DEF HistoryInv, Untouched
  <1>1. ASSUME NEW d \in Deliveries, DispatchEvent(d)
        PROVE  HistoryInv'
    <2> DEFINE t == DispatchTask(d)
               s == [NewTask("create", d) EXCEPT !.max = HookOf(d).maxRetries]
               g == task'
    <2>1. /\ t \in Tasks /\ task[t].pc = "idle" /\ delivery[d].status = "none"
          /\ UNCHANGED <<delivery, touched, sent, lost, acked>>
      BY <1>1, DeliveryTasks DEF DispatchEvent, history
    <2>2. s.pc = "create" /\ s.d = d /\ Goto(t, s)
      BY <1>1 DEF DispatchEvent, NewTask, NoTask
    <2> HIDE DEF s
    <2>3. g[t] = s /\ \A u \in Tasks : u # t => g[u] = task[u]
      BY <2>1, <2>2, GotoOthers
    <2>4. Spares(task[t], s, d)
      BY <2>1, <2>2 DEF Spares, Busy, RetrySteps, SendSteps
    <2>5. ASSUME d \notin touched
          PROVE  HistoryOf(d)'
      <3> HIDE DEF g
      <3>1. ~Flies(task[t], d) /\ ~Flies(s, d)
        BY <2>1, <2>2 DEF Flies
      <3>2. \A u \in Tasks : Flies(task[u], d) <=> Flies(g[u], d)
        BY <2>3, <3>1
      <3>3. Flying(task, d) = Flying(g, d)
        BY <3>2, FlyingSame
      <3>4. ~(d \in acked /\ lost[d] = 0)
        BY <1>b, <2>1, <2>5, WaitingUnacked
      <3>5. Accounted(delivery'[d], sent'[d], lost'[d], Cardinality(Flying(task', d)))
        BY <1>b, <2>1, <2>5, <3>3 DEF HistoryOf, g
      <3>6. Resting(d, delivery'[d], lost'[d], acked', task')
        BY <2>1, <3>4 DEF Resting
      <3>7. QED
        BY <3>5, <3>6 DEF HistoryOf
    <2>6. QED
      BY <2>1, <2>2, <2>4, <2>5, OthersHistory
  <1>2. ASSUME NEW d \in Deliveries, CreateDelivery(d)
        PROVE  HistoryInv'
    <2> DEFINE t == DispatchTask(d)
               s == [task[t] EXCEPT !.pc = "send"]
               g == task'
    <2>1. /\ t \in Tasks /\ task[t].pc = "create" /\ task[t].d = d /\ task[t] \in TaskState
          /\ Busy(task[t], d) /\ \A e : ~Flies(task[t], e)
          /\ UNCHANGED <<touched, sent, lost, acked>>
      BY <1>2, <1>a, DeliveryTasks DEF CreateDelivery, TaskShape, history, Flies
    <2>2. CASE Finish(t) /\ UNCHANGED delivery
      <3>1. Goto(t, NoTask) /\ \A e : ~Busy(NoTask, e) /\ ~Flies(NoTask, e)
        BY <2>2, TaskRecords DEF Finish, Busy, Flies, RetrySteps, SendSteps
      <3>2. QED
        BY <2>1, <2>2, <3>1, GroundedHistory
    <2>3. CASE ~(Finish(t) /\ UNCHANGED delivery)
      <3>1. Goto(t, s)
            /\ delivery' = [delivery EXCEPT ![d] = [status |-> "pending", attempts |-> 0, due |-> FALSE]]
        BY <1>2, <2>3 DEF CreateDelivery
      <3>2. s.pc = "send" /\ s.d = d
        BY <2>1 DEF TaskState
      <3> HIDE DEF s
      <3>3. /\ delivery'[d].status = "pending" /\ delivery'[d].attempts = 0
            /\ \A e \in Deliveries : e # d => delivery'[e] = delivery[e]
        BY <3>1 DEF TypeOK
      <3>4. g[t] = s /\ \A u \in Tasks : u # t => g[u] = task[u]
        BY <2>1, <3>1, GotoOthers
      <3>5. Spares(task[t], s, d)
        BY <2>1, <3>2, <3>3 DEF Spares, Busy
      <3>6. ASSUME d \notin touched
            PROVE  HistoryOf(d)'
        <4> HIDE DEF g
        <4>1. delivery[d].status = "none"
          BY <2>1, <3>6 DEF Owners, Ownership, Untouched, RowOwner
        <4>2. ~(d \in acked /\ lost[d] = 0) /\ \A u \in Tasks : ~Flies(task[u], d)
          BY <1>b, <3>6, <4>1, WaitingUnacked
        <4>3. \A u \in Tasks : ~Flies(g[u], d)
          BY <3>2, <3>4, <4>2 DEF Flies
        <4>4. Cardinality(Flying(g, d)) = 0
          BY <4>3, FS_EmptySet DEF Flying
        <4>5. sent[d] = 0 /\ lost[d] = 0
          BY <1>b, <3>6, <4>1 DEF HistoryOf, Accounted
        <4>6. Accounted(delivery'[d], sent'[d], lost'[d], Cardinality(Flying(task', d)))
          BY <2>1, <3>3, <4>4, <4>5 DEF Accounted, g
        <4>7. Resting(d, delivery'[d], lost'[d], acked', task')
          BY <2>1, <4>2 DEF Resting
        <4>8. QED
          BY <4>6, <4>7 DEF HistoryOf
      <3>7. QED
        BY <2>1, <3>1, <3>5, <3>6, OthersHistory
    <2>4. QED
      BY <2>2, <2>3
  <1>3. ASSUME NEW t \in Tasks, SendRequest(t)
        PROVE  HistoryInv'
    <2> DEFINE s == [task[t] EXCEPT !.pc = "fetch"]
               g == task'
    <2>1. /\ task[t].pc = "send" /\ UNCHANGED <<delivery, touched, lost, acked>>
          /\ task[t] \in TaskState /\ task[t].d \in Deliveries /\ Busy(task[t], task[t].d)
      BY <1>3, <1>a DEF SendRequest, RetrySteps, SendSteps
    <2>2. PICK d \in Deliveries : d = task[t].d
      BY <2>1
    <2>3. /\ sent'[d] = sent[d] + 1 /\ \A e \in Deliveries : e # d => sent'[e] = sent[e]
          /\ Goto(t, s) /\ s.pc = "fetch" /\ s.d = d
      BY <1>3, <2>1, <2>2 DEF SendRequest, TypeOK, TaskState
    <2> HIDE DEF s
    <2>4. g[t] = s /\ \A u \in Tasks : u # t => g[u] = task[u]
      BY <2>3, GotoOthers
    <2>5. Spares(task[t], s, d)
      BY <2>1, <2>2, <2>3 DEF Spares, Busy
    <2>6. ASSUME d \notin touched
          PROVE  HistoryOf(d)'
      <3> HIDE DEF g
      <3>1. delivery[d].status # "none"
        BY <1>b, <2>1, <2>2, <2>6, SentRow
      <3>2. ~(d \in acked /\ lost[d] = 0)
        BY <1>b, <2>1, <2>2, <2>6, AckedAtRest DEF Answered
      <3>3. ~Flies(task[t], d) /\ Flies(s, d)
        BY <2>1, <2>3 DEF Flies
      <3>4. Cardinality(Flying(g, d)) = Cardinality(Flying(task, d)) + 1
        BY <2>4, <3>3, FlyingMore
      <3> DEFINE c == Cardinality(Flying(task, d))
      <3>5. c \in Nat /\ Accounted(delivery[d], sent[d], lost[d], c)
        BY <1>b, <2>6, FlyingFinite DEF HistoryOf
      <3> HIDE DEF c
      <3>6. Accounted(delivery[d], sent[d] + 1, lost[d], c + 1)
        BY <1>b, <2>6, <3>1, <3>5 DEF Accounted, Row
      <3>7. Accounted(delivery'[d], sent'[d], lost'[d], Cardinality(Flying(task', d)))
        BY <2>1, <2>3, <3>4, <3>6 DEF g, c
      <3>8. Resting(d, delivery'[d], lost'[d], acked', task')
        BY <2>1, <3>2 DEF Resting
      <3>9. QED
        BY <3>7, <3>8 DEF HistoryOf
    <2>7. QED
      BY <2>1, <2>3, <2>5, <2>6, OthersHistory
  <1>4. ASSUME NEW t \in Tasks, NEW o \in Outcomes, FetchReturns(t, o)
        PROVE  HistoryInv'
    <2> DEFINE s == [task[t] EXCEPT !.pc = "read", !.result = AttemptStatus(o)]
    <2>1. /\ task[t].pc = "fetch" /\ UNCHANGED <<delivery, touched, sent, lost>>
          /\ task[t] \in TaskState /\ task[t].d \in Deliveries /\ Busy(task[t], task[t].d)
          /\ acked' = IF o = "2xx" THEN acked \cup {task[t].d} ELSE acked
      BY <1>4, <1>a DEF FetchReturns, RetrySteps, SendSteps
    <2>2. PICK d \in Deliveries : d = task[t].d
      BY <2>1
    <2>3. Goto(t, s) /\ s.pc = "read" /\ s.d = d /\ (o = "2xx" => s.result = "success")
      BY <1>4, <2>1, <2>2 DEF FetchReturns, TaskState, AttemptStatus
    <2> HIDE DEF s
    <2>4. /\ Flies(task[t], d) /\ Flies(s, d) /\ ~Answered(task[t])
          /\ acked' = acked \/ (acked' = acked \cup {d} /\ Answered(s))
      BY <2>1, <2>2, <2>3 DEF Flies, Answered
    <2>5. QED
      BY <2>1, <2>2, <2>3, <2>4, MovedHistory
  <1>5. ASSUME NEW t \in Tasks, ReadDelivery(t)
        PROVE  HistoryInv'
    <2> DEFINE s == [task[t] EXCEPT !.pc = "write", !.attempts = delivery[task[t].d].attempts]
    <2>1. /\ task[t].pc = "read" /\ UNCHANGED <<delivery, touched, sent, lost, acked>>
          /\ task[t] \in TaskState /\ task[t].d \in Deliveries /\ Busy(task[t], task[t].d)
      BY <1>5, <1>a DEF ReadDelivery, RetrySteps, SendSteps, history
    <2>2. PICK d \in Deliveries : d = task[t].d
      BY <2>1
    <2>3. CASE Stored(d)
      <3>1. Goto(t, s) /\ s.pc = "write" /\ s.d = d /\ s.result = task[t].result
        BY <1>5, <2>1, <2>2, <2>3 DEF ReadDelivery, TaskState
      <3> HIDE DEF s
      <3>2. Flies(task[t], d) /\ Flies(s, d) /\ (Answered(task[t]) => Answered(s))
        BY <2>1, <2>2, <3>1 DEF Flies, Answered
      <3>3. QED
        BY <2>1, <2>2, <3>1, <3>2, MovedHistory
    <2>4. CASE ~Stored(d)
      <3>1. Finish(t)
        BY <1>5, <2>2, <2>4 DEF ReadDelivery
      <3>2. ASSUME d \notin touched PROVE delivery[d].status = "deleted"
        BY <1>b, <2>1, <2>2, <2>4, <3>2, SentRow DEF Stored, DeliveryStatus
      <3>3. d \notin touched => Accounted(delivery'[d], sent[d], lost'[d], Cardinality(Flying(task', d)))
        BY <2>1, <3>2 DEF Accounted, DeliveryStatus
      <3>4. QED
        BY <2>1, <2>2, <3>1, <3>2, <3>3, LandedHistory
    <2>5. QED
      BY <2>3, <2>4
  <1>6. ASSUME NEW t \in Tasks, WriteDelivery(t)
        PROVE  HistoryInv'
    <2> DEFINE n  == task[t].attempts + 1
               st == StatusAfter(task[t].result, n, task[t].max)
               g  == task'
    <2>1. /\ task[t].pc = "write" /\ UNCHANGED <<touched, sent, lost, acked>> /\ Finish(t)
          /\ task[t] \in TaskState /\ task[t].d \in Deliveries /\ Busy(task[t], task[t].d)
      BY <1>6, <1>a DEF WriteDelivery, RetrySteps, SendSteps, history
    <2>2. PICK d \in Deliveries : d = task[t].d
      BY <2>1
    <2>3. UpdateRow(d, st, n, FALSE)
      BY <1>6, <2>2 DEF WriteDelivery
    <2>4. (task[t].result = "success" => st = "success") /\ st # "none"
      BY <2>1 DEF StatusAfter, TaskState, DeliveryStatus
    <2> HIDE DEF st
    <2>5. /\ \A e \in Deliveries : e # d => delivery'[e] = delivery[e]
          /\ ~Stored(d) => delivery'[d] = delivery[d]
          /\ Stored(d) => delivery'[d].status = st /\ delivery'[d].attempts = n
      <3> HIDE DEF n
      <3>1. QED
        BY <2>3, UpdateRowOthers
    <2>6. ASSUME d \notin touched
          PROVE  /\ Accounted(delivery'[d], sent[d], lost'[d], Cardinality(Flying(task', d)))
                 /\ d \in acked /\ lost'[d] = 0 => delivery'[d].status \in {"success", "deleted"}
      <3>1. /\ delivery[d].status \in {"pending", "retrying", "deleted"}
            /\ d \in acked /\ lost[d] = 0 => task[t].result = "success"
        BY <1>b, <2>1, <2>2, <2>6, SentRow, AckedAtRest DEF Answered
      <3>2. CASE ~Stored(d)
        <4>1. delivery'[d].status = "deleted"
          BY <2>5, <3>1, <3>2 DEF Stored, DeliveryStatus
        <4>2. QED
          BY <4>1 DEF Accounted, DeliveryStatus
      <3>3. CASE Stored(d)
        <4>1. n = delivery[d].attempts + 1 /\ delivery[d].attempts \in Nat
          BY <1>b, <2>1, <2>2, <2>6, <3>3 DEF AttemptInv, AttemptsOf, Row
        <4>2. g[t] = NoTask /\ \A u \in Tasks : u # t => g[u] = task[u]
          BY <2>1, GotoOthers DEF Finish
        <4> HIDE DEF g, n
        <4>3. Flies(task[t], d) /\ ~Flies(g[t], d)
          BY <2>1, <2>2, <4>2, TaskRecords DEF Flies
        <4> DEFINE c == Cardinality(Flying(task, d))
                   k == Cardinality(Flying(g, d))
        <4>4. c = k + 1 /\ k \in Nat
          BY <4>2, <4>3, FlyingLess, FlyingFinite
        <4>5. Accounted(delivery[d], sent[d], lost[d], c)
          BY <1>b, <2>6 DEF HistoryOf
        <4> HIDE DEF c, k
        <4>6. sent[d] = n + lost[d] + k
          BY <1>b, <2>6, <3>3, <4>1, <4>4, <4>5 DEF Accounted, Stored
        <4>7. Accounted(delivery'[d], sent[d], lost[d], k)
          BY <2>4, <2>5, <3>3, <4>6 DEF Accounted
        <4>8. QED
          BY <2>1, <2>4, <2>5, <3>1, <3>3, <4>7 DEF k, g
      <3>4. QED
        BY <3>2, <3>3
    <2>7. QED
      BY <2>1, <2>2, <2>5, <2>6, LandedHistory
  <1>7. ASSUME NEW t \in Tasks, RecordingFails(t)
        PROVE  HistoryInv'
    <2> DEFINE g == task'
    <2>1. /\ task[t].pc \in {"read", "write"} /\ UNCHANGED <<delivery, touched, sent, acked>> /\ Finish(t)
          /\ task[t] \in TaskState /\ task[t].d \in Deliveries /\ Busy(task[t], task[t].d)
      BY <1>7, <1>a DEF RecordingFails, RetrySteps, SendSteps
    <2>2. PICK d \in Deliveries : d = task[t].d
      BY <2>1
    <2>3. lost'[d] = lost[d] + 1 /\ \A e \in Deliveries : e # d => lost'[e] = lost[e]
      BY <1>7, <2>2 DEF RecordingFails, TypeOK
    <2>4. ASSUME d \notin touched
          PROVE  /\ Accounted(delivery[d], sent[d], lost[d] + 1, Cardinality(Flying(g, d)))
                 /\ lost'[d] # 0
      <3>1. g[t] = NoTask /\ \A u \in Tasks : u # t => g[u] = task[u]
        BY <2>1, GotoOthers DEF Finish
      <3> HIDE DEF g
      <3>2. Flies(task[t], d) /\ ~Flies(g[t], d)
        BY <2>1, <2>2, <3>1, TaskRecords DEF Flies
      <3> DEFINE c == Cardinality(Flying(task, d))
                 k == Cardinality(Flying(g, d))
      <3>3. c = k + 1 /\ k \in Nat
        BY <3>1, <3>2, FlyingLess, FlyingFinite
      <3>4. Accounted(delivery[d], sent[d], lost[d], c) /\ delivery[d].status # "none"
        BY <1>b, <2>1, <2>2, <2>4, SentRow DEF HistoryOf
      <3> HIDE DEF c, k
      <3>5. Accounted(delivery[d], sent[d], lost[d] + 1, k)
        BY <1>b, <2>4, <3>3, <3>4 DEF Accounted, Row
      <3>6. QED
        BY <1>b, <2>3, <2>4, <3>5 DEF k
    <2>5. QED
      BY <2>1, <2>2, <2>3, <2>4, LandedHistory
  <1>8. ASSUME NEW t \in Tasks, GetWebhook(t) \/ GetWebhookFails(t)
        PROVE  HistoryInv'
    <2>1. /\ task[t].pc = "hook" /\ task[t] \in TaskState
          /\ UNCHANGED <<delivery, touched, sent, lost, acked>>
      BY <1>8 DEF GetWebhook, GetWebhookFails, TypeOK, history
    <2>2. PICK s : Goto(t, s) /\ s.d = task[t].d /\ s.pc \in {"send", "fail"}
      <3> DEFINE r == [task[t] EXCEPT !.pc = "send", !.max = HookOf(task[t].d).maxRetries]
                 f == [task[t] EXCEPT !.pc = "fail"]
      <3>1. r.d = task[t].d /\ r.pc = "send" /\ f.d = task[t].d /\ f.pc = "fail"
        BY <2>1 DEF TaskState
      <3>2. Goto(t, r) \/ Goto(t, f)
        BY <1>8 DEF GetWebhook, GetWebhookFails
      <3> HIDE DEF r, f
      <3>3. QED
        BY <3>1, <3>2
    <2>3. \A e \in Deliveries : /\ ~Flies(task[t], e) /\ ~Flies(s, e)
                                /\ Busy(s, e) => Busy(task[t], e)
      BY <2>1, <2>2 DEF Flies, Busy, RetrySteps
    <2>4. QED
      BY <2>1, <2>2, <2>3, GroundedHistory
  <1>9. ASSUME NEW t \in Tasks, CallFails(t) \/ MarkFailedFails(t)
        PROVE  HistoryInv'
    <2>1. /\ task[t].pc \in {"create", "policy", "reset", "requeue", "fail"}
          /\ UNCHANGED <<delivery, touched, sent, lost, acked>> /\ Finish(t)
      BY <1>9 DEF CallFails, MarkFailedFails, history
    <2>2. Goto(t, NoTask) /\ \A e \in Deliveries : /\ ~Flies(task[t], e) /\ ~Flies(NoTask, e)
                                                   /\ ~Busy(NoTask, e)
      BY <2>1, TaskRecords DEF Finish, Flies, Busy, RetrySteps, SendSteps
    <2>3. QED
      BY <2>1, <2>2, GroundedHistory
  <1>10. ASSUME NEW t \in Tasks, MarkFailed(t)
         PROVE  HistoryInv'
    <2> DEFINE g == task'
    <2>1. /\ task[t].pc = "fail" /\ UNCHANGED <<touched, sent, lost, acked>> /\ Finish(t)
          /\ task[t].d \in Deliveries /\ Busy(task[t], task[t].d)
      BY <1>10, <1>a DEF MarkFailed, RetrySteps, history
    <2>2. PICK d \in Deliveries : d = task[t].d
      BY <2>1
    <2>3. UpdateRow(d, "failed", delivery[d].attempts, FALSE)
      BY <1>10, <2>2 DEF MarkFailed
    <2>4. /\ \A e \in Deliveries : e # d => delivery'[e] = delivery[e]
          /\ ~Stored(d) => delivery'[d] = delivery[d]
          /\ Stored(d) => delivery'[d].status = "failed" /\ delivery'[d].attempts = delivery[d].attempts
      BY <2>3, UpdateRowOthers
    <2>5. ASSUME d \notin touched
          PROVE  /\ Accounted(delivery'[d], sent[d], lost[d], Cardinality(Flying(g, d)))
                 /\ ~(d \in acked /\ lost[d] = 0)
      <3>1. g[t] = NoTask /\ \A u \in Tasks : u # t => g[u] = task[u]
        BY <2>1, GotoOthers DEF Finish
      <3> HIDE DEF g
      <3>2. ~Flies(task[t], d) /\ ~Flies(g[t], d)
        BY <2>1, <3>1, TaskRecords DEF Flies
      <3>3. \A u \in Tasks : Flies(task[u], d) <=> Flies(g[u], d)
        BY <3>1, <3>2
      <3>4. Flying(task, d) = Flying(g, d)
        BY <3>3, FlyingSame
      <3>5. ~(d \in acked /\ lost[d] = 0)
        BY <1>b, <2>1, <2>2, <2>5, AckedAtRest DEF Answered
      <3>6. Accounted(delivery[d], sent[d], lost[d], Cardinality(Flying(g, d)))
        BY <1>b, <2>5, <3>4 DEF HistoryOf
      <3>7. QED
        BY <2>4, <3>5, <3>6 DEF Accounted, Stored
    <2>6. QED
      BY <2>1, <2>2, <2>4, <2>5, LandedHistory
  <1>11. ASSUME NEW D \in SUBSET Deliveries, ProcessRetries(D)
         PROVE  HistoryInv'
    <2> DEFINE g == task'
    <2>1. /\ ~processing /\ UNCHANGED <<delivery, touched, sent, lost, acked>>
          /\ \A d \in D : delivery[d].status = "retrying"
      BY <1>11 DEF ProcessRetries, RetriableBatch, Due, history
    <2>2. \A d \in Deliveries : task[RetryTask(d)].pc = "idle"
      BY <2>1 DEF Owners, BatchGuarded
    <2>3. \A t \in Tasks : \/ g[t] = task[t]
                           \/ /\ t[1] = "retry" /\ t[2] \in D
                              /\ g[t] = NewTask("hook", t[2])
      BY <1>11 DEF ProcessRetries
    <2>4. \A t \in Tasks : t[1] = "retry" => t[2] \in Deliveries /\ t = RetryTask(t[2])
      BY DEF Tasks, RetryTask
    <2>5. \A e \in Deliveries : NewTask("hook", e).pc = "hook" /\ NewTask("hook", e).d = e
      BY TaskRecords DEF Steps
    <2>6. \A t \in Tasks : \/ g[t] = task[t]
                           \/ task[t].pc = "idle" /\ g[t].pc = "hook" /\ g[t].d \in D
      BY <2>2, <2>3, <2>4, <2>5
    <2>7. ASSUME NEW d \in Deliveries, d \notin touched
          PROVE  HistoryOf(d)'
      <3>1. CASE d \notin D
        <4>1. \A t \in Tasks : task'[t] = task[t] \/ (~Busy(task[t], d) /\ ~Busy(task'[t], d))
          BY <2>6, <3>1 DEF Busy, RetrySteps, SendSteps
        <4>2. QED
          BY <1>b, <2>1, <2>7, <4>1, QuietHistory
      <3>2. CASE d \in D
        <4> HIDE DEF g
        <4>1. ~(d \in acked /\ lost[d] = 0)
          BY <1>b, <2>1, <2>2, <2>7, <3>2, WaitingUnacked
        <4>2. \A t \in Tasks : Flies(task[t], d) <=> Flies(g[t], d)
          BY <2>6 DEF Flies
        <4>3. Flying(task, d) = Flying(g, d)
          BY <4>2, FlyingSame
        <4>4. Accounted(delivery'[d], sent'[d], lost'[d], Cardinality(Flying(task', d)))
          BY <1>b, <2>1, <2>7, <4>3 DEF HistoryOf, g
        <4>5. Resting(d, delivery'[d], lost'[d], acked', task')
          BY <2>1, <4>1 DEF Resting
        <4>6. QED
          BY <4>4, <4>5 DEF HistoryOf
      <3>3. QED
        BY <3>1, <3>2
    <2>8. QED
      BY <2>1, <2>7 DEF HistoryInv, Untouched
  <1>12. ASSUME NEW c \in Clients, NEW d \in Deliveries, ManualRetry(c, d) \/ RequeueDelivery(c, d)
         PROVE  HistoryInv'
    <2> DEFINE t == ClientTask(c)
    <2>1. /\ t \in Tasks /\ task[t].pc = "idle" /\ UNCHANGED <<delivery, touched, sent, lost, acked>>
      BY <1>12, ClientTasks DEF ManualRetry, RequeueDelivery, history
    <2>2. PICK s : Goto(t, s) /\ s.pc \in {"policy", "requeue"}
      <3>1. /\ NewTask("requeue", d).pc = "requeue"
            /\ [NewTask("policy", d) EXCEPT !.status = delivery[d].status,
                                            !.attempts = delivery[d].attempts].pc = "policy"
        BY DEF NewTask, NoTask
      <3>2. QED
        BY <1>12, <3>1 DEF ManualRetry, RequeueDelivery
    <2>3. \A e \in Deliveries : ~Flies(task[t], e) /\ ~Flies(s, e) /\ ~Busy(s, e)
      BY <2>1, <2>2 DEF Flies, Busy, RetrySteps, SendSteps
    <2>4. QED
      BY <2>1, <2>2, <2>3, GroundedHistory
  <1>13. ASSUME NEW c \in Clients, ManualPolicy(c)
         PROVE  HistoryInv'
    <2> DEFINE t == ClientTask(c)
    <2>1. /\ t \in Tasks /\ task[t] \in TaskState /\ task[t].pc = "policy"
          /\ UNCHANGED <<delivery, touched, sent, lost, acked>>
      BY <1>13, ClientTasks DEF ManualPolicy, TypeOK, history
    <2>2. PICK s : Goto(t, s) /\ s.pc \in {"idle", "reset"}
      BY <1>13, <2>1, TaskRecords DEF ManualPolicy, TaskState, Finish
    <2>3. \A e \in Deliveries : ~Flies(task[t], e) /\ ~Flies(s, e) /\ ~Busy(s, e)
      BY <2>1, <2>2 DEF Flies, Busy, RetrySteps, SendSteps
    <2>4. QED
      BY <2>1, <2>2, <2>3, GroundedHistory
  <1>14. ASSUME NEW c \in Clients, ManualReset(c) \/ RequeueReset(c)
         PROVE  HistoryInv'
    <2> DEFINE t == ClientTask(c)
    <2>1. /\ t \in Tasks /\ task[t].d \in Deliveries /\ task[t].pc \in {"reset", "requeue"}
          /\ UNCHANGED <<sent, lost, acked>>
          /\ touched' = touched \cup {task[t].d}
      BY <1>14, ClientTasks DEF ManualReset, RequeueReset, TaskShape
    <2>2. PICK d \in Deliveries : d = task[t].d
      BY <2>1
    <2>3. \A e \in Deliveries : e # d => delivery'[e] = delivery[e]
      BY <1>14, <2>2, UpdateRowOthers DEF ManualReset, RequeueReset
    <2>4. PICK s : Goto(t, s) /\ (s.pc = "idle" \/ s.d = d)
      <3>1. NewTask("hook", d).d = d
        BY TaskRecords DEF Steps
      <3>2. QED
        BY <1>14, <2>2, <3>1, TaskRecords DEF ManualReset, RequeueReset, Finish
    <2>5. Spares(task[t], s, d)
      BY <2>1, <2>2, <2>3, <2>4 DEF Spares, Busy, RetrySteps, SendSteps
    <2>6. QED
      BY <2>1, <2>2, <2>4, <2>5, OthersHistory
  <1>15. ASSUME NEW d \in Deliveries, BackoffElapses(d) \/ PruneOldDelivery(d)
         PROVE  HistoryInv'
    <2>1. UNCHANGED <<task, sent, lost, acked, touched>>
      BY <1>15 DEF BackoffElapses, PruneOldDelivery, history
    <2>2. \A e \in Deliveries : /\ delivery'[e].attempts = delivery[e].attempts
                                /\ \/ delivery'[e].status = delivery[e].status
                                   \/ delivery'[e].status = "deleted" /\ delivery[e].status # "none"
      <3>1. CASE BackoffElapses(d)
        BY <3>1 DEF BackoffElapses, TypeOK, Row
      <3>2. CASE PruneOldDelivery(d)
        BY <3>2 DEF PruneOldDelivery, TypeOK, Row, Stored, DeliveryStatus
      <3>3. QED
        BY <1>15, <3>1, <3>2
    <2>3. QED
      BY <1>c, <2>1, <2>2
  <1>16. ASSUME NEW w \in Webhooks, DeleteWebhook(w)
         PROVE  HistoryInv'
    <2>1. \A e \in Deliveries : /\ delivery'[e].attempts = delivery[e].attempts
                                /\ \/ delivery'[e].status = delivery[e].status
                                   \/ delivery'[e].status = "deleted" /\ delivery[e].status # "none"
      BY <1>16 DEF DeleteWebhook, TypeOK, Row, Stored, DeliveryStatus
    <2>2. QED
      BY <1>c, <1>16, <2>1 DEF DeleteWebhook, history
  <1>17. CASE ShutdownCompletes \/ ShutdownForced \/ Crash
    BY <1>17, EndedHistory DEF ShutdownCompletes, ShutdownForced, Crash
  <1>18. CASE \/ NothingToRetry \/ BatchSettled \/ UNCHANGED vars \/ BeginShutdown \/ Restart
              \/ \E w \in Webhooks, e \in BOOLEAN, m \in RetryLimits : UpdateWebhook(w, e, m)
    <2>1. UNCHANGED <<delivery, task, sent, lost, acked, touched>>
      BY <1>18 DEF NothingToRetry, BatchSettled, vars, BeginShutdown, Restart, UpdateWebhook, history
    <2>2. QED
      BY <1>c, <2>1
  <1>19. QED
    BY <1>1, <1>2, <1>3, <1>4, <1>5, <1>6, <1>7, <1>8, <1>9, <1>10, <1>11, <1>12, <1>13, <1>14,
       <1>15, <1>16, <1>17, <1>18
       DEF Next, SendStep, RetryStep, FaultStep, ClientStep

\* The inductive invariant of the pipeline.
LEMMA HistoryCorrect == Spec => [](TypeOK /\ TaskShape /\ Owners /\ AttemptInv /\ HistoryInv)
  <1>1. Init => AttemptInv /\ HistoryInv
    <2> SUFFICES ASSUME Init PROVE AttemptInv /\ HistoryInv
      OBVIOUS
    <2>1. /\ \A t \in Tasks : task[t].pc = "idle"
          /\ \A d \in Deliveries : delivery[d].status = "none" /\ delivery[d].attempts = 0
          /\ \A d \in Deliveries : sent[d] = 0 /\ lost[d] = 0
          /\ acked = {}
      BY TaskRecords DEF Init
    <2>2. AttemptInv
      BY <2>1 DEF AttemptInv, AttemptsOf, ResultKnown, Untouched, Bounded
    <2>3. HistoryInv
      BY <2>1 DEF HistoryInv, HistoryOf, Accounted, Resting, Untouched, DeliveryStatus
    <2>4. QED
      BY <2>2, <2>3
  <1>2. QED
    BY <1>1, AttemptStep, HistoryStep, OwnersCorrect, OfferedCorrect, PTL DEF Spec

\* No attempt of an untouched delivery goes missing: the attempts of its row,
\* the losses to crashes and failed writes, and the requests in flight add up
\* to the requests sendWebhook made, because a writer counts from the row as it
\* is (updateDelivery reads it again) and has no rival.
THEOREM AttemptsAccounted == Spec => []AttemptAccounting
  <1>1. HistoryInv => AttemptAccounting
    <2> SUFFICES ASSUME HistoryInv, NEW d \in Untouched, Stored(d)
                 PROVE  sent[d] = delivery[d].attempts + lost[d] + Cardinality({t \in Tasks : InFlight(t, d)})
      BY DEF AttemptAccounting
    <2>1. {t \in Tasks : InFlight(t, d)} = Flying(task, d)
      BY DEF Flying, Flies, InFlight
    <2>2. QED
      BY <2>1 DEF HistoryInv, HistoryOf, Accounted, Stored
  <1>2. QED
    BY <1>1, HistoryCorrect, PTL

\* An acknowledged delivery is not sent again: neither the retry loop nor the
\* dispatcher finds work in its row, unless the acknowledgement was lost
\* between the response and the write of updateDelivery.
THEOREM NoResend == Spec => AckedNotResent
  <1>1. ASSUME TypeOK, TaskShape, HistoryInv, [Next]_vars,
               NEW d \in Deliveries \ touched', d \in acked, lost[d] = 0
        PROVE  sent'[d] = sent[d]
    <2>1. CASE UNCHANGED sent
      BY <2>1
    <2>2. ASSUME NEW t \in Tasks, SendRequest(t)
          PROVE  sent'[d] = sent[d]
      <3>1. task[t].pc = "send" /\ UNCHANGED touched
        BY <2>2 DEF SendRequest
      <3>2. task[t].d # d
        BY <1>1, <3>1, AckedAtRest DEF Untouched, Busy, Answered, RetrySteps, SendSteps
      <3>3. QED
        BY <1>1, <2>2, <3>2 DEF SendRequest, TypeOK
    <2>3. QED
      BY <1>1, <2>1, <2>2
         DEF Next, SendStep, RetryStep, FaultStep, ClientStep, vars, history, DispatchEvent,
             CreateDelivery, BackoffElapses, FetchReturns, ReadDelivery, WriteDelivery, CallFails,
             RecordingFails, GetWebhookFails, MarkFailed, MarkFailedFails, ProcessRetries,
             NothingToRetry, BatchSettled, GetWebhook, ManualRetry, ManualPolicy, ManualReset,
             RequeueDelivery, RequeueReset, UpdateWebhook, DeleteWebhook, PruneOldDelivery,
             BeginShutdown, ShutdownCompletes, ShutdownForced, Crash, ProcessEnds, Restart
  <1>2. TypeOK /\ TaskShape /\ HistoryInv /\ [Next]_vars
          => [\A d \in Deliveries \ touched' :
                 d \in acked /\ lost[d] = 0 => sent'[d] = sent[d]]_vars
    BY <1>1
  <1>3. QED
    BY <1>2, HistoryCorrect, PTL DEF Spec, AckedNotResent

-----------------------------------------------------------------------------
(* What the history says of the endpoint and of the pending rows *)

\* The requests an endpoint sees for an untouched delivery, beyond those whose
\* result was lost: no more than a maxRetries its webhook has had (or one).
RequestBound ==
    \A d \in Untouched : Stored(d) =>
        \/ sent[d] <= 1 + lost[d]
        \/ \E m \in HookOf(d).offered : sent[d] <= m + lost[d]

\* While a request for an untouched delivery is out, its row's attempts leave
\* room for it under a maxRetries its webhook had, or it is the first.
LEMMA RoomInFlight ==
    ASSUME TypeOK, TaskShape, Owners, AttemptInv, NEW d \in Untouched, Stored(d),
           NEW t \in Tasks, t \in Flying(task, d)
    PROVE  /\ Flying(task, d) = {t}
           /\ \/ delivery[d].attempts = 0
              \/ \E m \in HookOf(d).offered : delivery[d].attempts < m
  <1>1. task[t].d = d /\ task[t].pc \in {"create"} \cup RetrySteps /\ task[t].pc # "create"
    BY DEF Flying, Flies, RetrySteps, SendSteps
  <1>2. Busy(task[t], d)
    BY <1>1 DEF Busy
  <1>3. \A u \in Tasks : u # t => ~Busy(task[u], d)
    BY <1>2, AloneSending
  <1>4. \A u \in Tasks : Flies(task[u], d) => Busy(task[u], d)
    BY DEF Flies, Busy, RetrySteps, SendSteps
  <1>5. Flying(task, d) = {t}
    BY <1>3, <1>4 DEF Flying
  <1>6. delivery[d].status \in {"pending", "retrying"}
    BY <1>1, SoleSender DEF Stored, DeliveryStatus
  <1>7. QED
    BY <1>5, <1>6 DEF AttemptInv, AttemptsOf

\* The retry policy bounds what the endpoint sees, not only what the row says:
\* sendWebhook sends an untouched delivery at most as often as the largest
\* maxRetries its webhook has had (once when that is zero) plus once for every result that a crash or a failed write of
\* updateDelivery lost.
THEOREM RequestsBounded == Spec => []RequestBound
  <1>1. ASSUME TypeOK, TaskShape, Owners, AttemptInv, HistoryInv,
               NEW d \in Untouched, Stored(d)
        PROVE  \/ sent[d] <= 1 + lost[d]
               \/ \E m \in HookOf(d).offered : sent[d] <= m + lost[d]
    <2>1. /\ d \in Deliveries /\ sent[d] \in Nat /\ lost[d] \in Nat
          /\ delivery[d].attempts \in Nat
          /\ HookOf(d).offered \subseteq Nat
      BY <1>1, OfferedNat DEF Untouched, TypeOK, Row
    <2>2. sent[d] = delivery[d].attempts + lost[d] + Cardinality(Flying(task, d))
      BY <1>1 DEF HistoryInv, HistoryOf, Accounted, Stored
    <2>3. CASE Flying(task, d) = {}
      <3>1. Cardinality(Flying(task, d)) = 0
        BY <2>3, FS_EmptySet
      <3>2. sent[d] = delivery[d].attempts + lost[d]
        BY <2>1, <2>2, <3>1
      <3>3. Bounded(delivery[d].attempts, HookOf(d).offered)
        BY <1>1 DEF AttemptInv, AttemptsOf
      <3>4. QED
        BY <2>1, <3>2, <3>3 DEF Bounded
    <2>4. ASSUME NEW t \in Flying(task, d)
          PROVE  \/ sent[d] <= 1 + lost[d]
                 \/ \E m \in HookOf(d).offered : sent[d] <= m + lost[d]
      <3>1. t \in Tasks
        BY <2>4 DEF Flying
      <3>2. /\ Flying(task, d) = {t}
            /\ \/ delivery[d].attempts = 0
               \/ \E m \in HookOf(d).offered : delivery[d].attempts < m
        BY <1>1, <2>4, <3>1, RoomInFlight
      <3>3. Cardinality(Flying(task, d)) = 1
        BY <3>2, FS_Singleton
      <3>4. sent[d] = delivery[d].attempts + lost[d] + 1
        BY <2>2, <3>3
      <3>5. QED
        BY <2>1, <3>2, <3>4
    <2>5. QED
      BY <2>3, <2>4
  <1>2. TypeOK /\ TaskShape /\ Owners /\ AttemptInv /\ HistoryInv => RequestBound
    BY <1>1 DEF RequestBound
  <1>3. QED
    BY <1>2, HistoryCorrect, PTL

\* As long as nothing failed or was stopped, a pending row, whether or not an
\* API caller has reset it before, has its first attempt under way.
PendingUnderWay ==
    \A d \in Deliveries : delivery[d].status = "pending" =>
        faults > 0 \/ task[DispatchTask(d)].pc \in SendSteps
\* The process is up unless it was stopped or crashed.
UpUnlessFaults == phase = "up" \/ faults > 0

\* No step other than a fault or the end of the process leaves a pending row
\* without its first attempt.
LEMMA PendingStep ==
    ASSUME TypeOK, TaskShape, ResultKnown, PendingUnderWay, UpUnlessFaults, [Next]_vars
    PROVE  PendingUnderWay' /\ UpUnlessFaults'
  <1>1. faults \in Nat /\ faults' \in Nat
    BY ShapeStep DEF TypeOK
  <1>2. CASE faults' > 0
    BY <1>2 DEF PendingUnderWay, UpUnlessFaults
  <1>3. CASE faults' = 0
    <2>1. faults = 0 /\ phase = "up" /\ phase' = "up"
      <3>1. CASE faults' = faults /\ phase' = phase
        BY <1>3, <3>1 DEF UpUnlessFaults
      <3>2. faults' # faults + 1
        BY <1>1, <1>3
      <3>3. ASSUME NEW d \in Deliveries,
                   DispatchEvent(d) \/ CreateDelivery(d) \/ BackoffElapses(d) \/ PruneOldDelivery(d)
            PROVE  faults' = faults /\ phase' = phase
        BY <3>3 DEF DispatchEvent, CreateDelivery, BackoffElapses, PruneOldDelivery, budget
      <3>4. ASSUME NEW t \in Tasks, SendStep(t) \/ RetryStep(t)
            PROVE  faults' = faults /\ phase' = phase
        BY <3>4 DEF SendStep, RetryStep, SendRequest, FetchReturns, ReadDelivery, WriteDelivery,
                    GetWebhook, MarkFailed, budget
      <3>5. ASSUME NEW t \in Tasks, FaultStep(t)
            PROVE  faults' = faults + 1
        BY <3>5 DEF FaultStep, CallFails, RecordingFails, GetWebhookFails, MarkFailedFails,
                    StorageFault
      <3>6. ASSUME NEW c \in Clients, NEW d \in Deliveries,
                   ManualRetry(c, d) \/ RequeueDelivery(c, d)
            PROVE  faults' = faults /\ phase' = phase
        BY <3>6 DEF ManualRetry, RequeueDelivery
      <3>7. ASSUME NEW c \in Clients, ClientStep(c)
            PROVE  faults' = faults /\ phase' = phase
        BY <3>7 DEF ClientStep, ManualPolicy, ManualReset, RequeueReset, budget
      <3>8. ASSUME \/ \E D \in SUBSET Deliveries : ProcessRetries(D)
                   \/ NothingToRetry \/ BatchSettled \/ UNCHANGED vars
                   \/ \E w \in Webhooks, e \in BOOLEAN, m \in RetryLimits : UpdateWebhook(w, e, m)
                   \/ \E w \in Webhooks : DeleteWebhook(w)
            PROVE  faults' = faults /\ phase' = phase
        BY <3>8 DEF ProcessRetries, NothingToRetry, BatchSettled, UpdateWebhook, DeleteWebhook,
                    vars, budget
      <3>9. ASSUME BeginShutdown \/ Crash
            PROVE  faults' = faults + 1
        BY <3>9 DEF BeginShutdown, Crash, StorageFault
      <3>10. ASSUME ShutdownCompletes \/ ShutdownForced \/ Restart
             PROVE  faults' = faults /\ phase # "up"
        BY <3>10 DEF ShutdownCompletes, ShutdownForced, Restart, budget
      <3>11. QED
        BY <1>3, <3>1, <3>2, <3>3, <3>4, <3>5, <3>6, <3>7, <3>8, <3>9, <3>10
           DEF Next, UpUnlessFaults
    <2> SUFFICES ASSUME NEW d \in Deliveries, delivery'[d].status = "pending"
                 PROVE  task'[DispatchTask(d)].pc \in SendSteps
      BY <1>3, <2>1 DEF PendingUnderWay, UpUnlessFaults
    <2> DEFINE u == DispatchTask(d)
    <2>2. u \in Tasks
      BY DeliveryTasks
    <2>3. delivery[d].status = "pending" => task[u].pc \in SendSteps /\ task[u].d = d
      BY <2>1 DEF PendingUnderWay, TaskShape, SendSteps
    <2>4. CASE UNCHANGED task /\ delivery'[d].status = delivery[d].status
      BY <2>3, <2>4
    <2>5. ASSUME NEW t \in Tasks, NEW r, Goto(t, r),
                 task[t].pc \in SendSteps /\ t = u => r.pc \in SendSteps,
                 delivery'[d].status = delivery[d].status
          PROVE  task'[u].pc \in SendSteps
      BY <2>2, <2>3, <2>5, GotoOthers
    <2>6. ASSUME NEW e \in Deliveries, DispatchEvent(e)
          PROVE  task'[u].pc \in SendSteps
      <3>1. task[DispatchTask(e)].pc \notin SendSteps /\ DispatchTask(e) \in Tasks
        BY <2>6, DeliveryTasks DEF DispatchEvent, SendSteps
      <3>2. QED
        BY <2>5, <2>6, <3>1 DEF DispatchEvent
    <2>7. ASSUME NEW e \in Deliveries, CreateDelivery(e)
          PROVE  task'[u].pc \in SendSteps
      <3>1. task[DispatchTask(e)].pc \notin SendSteps /\ DispatchTask(e) \in Tasks
        BY <2>7, DeliveryTasks DEF CreateDelivery, SendSteps
      <3>2. CASE e = d /\ HookOf(e).exists
        <4>1. Goto(u, [task[u] EXCEPT !.pc = "send"])
          BY <2>7, <3>2 DEF CreateDelivery
        <4>2. QED
          BY <2>2, <4>1, GotoOthers DEF TypeOK, TaskState, SendSteps
      <3>3. CASE ~(e = d /\ HookOf(e).exists)
        <4>1. delivery'[d].status = delivery[d].status
          BY <2>7, <3>3 DEF CreateDelivery, TypeOK
        <4>2. QED
          BY <2>5, <2>7, <3>1, <4>1 DEF CreateDelivery, Finish
      <3>4. QED
        BY <3>2, <3>3
    <2>8. ASSUME NEW t \in Tasks, SendStep(t)
          PROVE  task'[u].pc \in SendSteps
      <3>0. task[t] \in TaskState
        BY DEF TypeOK
      <3>1. CASE SendRequest(t)
        BY <2>5, <3>0, <3>1 DEF SendRequest, SendSteps, TaskState
      <3>2. ASSUME NEW o \in Outcomes, FetchReturns(t, o)
            PROVE  task'[u].pc \in SendSteps
        BY <2>5, <3>0, <3>2 DEF FetchReturns, SendSteps, TaskState
      <3>3. CASE ReadDelivery(t)
        <4>1. delivery'[d] = delivery[d]
          BY <3>3 DEF ReadDelivery
        <4>2. CASE Stored(task[t].d)
          BY <2>5, <3>0, <3>3, <4>1, <4>2 DEF ReadDelivery, SendSteps, TaskState
        <4>3. CASE ~Stored(task[t].d)
          <5>1. t # u
            BY <2>3, <4>1, <4>3 DEF Stored, DeliveryStatus
          <5>2. QED
            BY <2>5, <3>3, <4>1, <4>3, <5>1 DEF ReadDelivery, Finish
        <4>4. QED
          BY <4>2, <4>3
      <3>4. CASE WriteDelivery(t)
        <4>1. task[t].pc = "write" /\ Finish(t)
          BY <3>4 DEF WriteDelivery
        <4>2. StatusAfter(task[t].result, task[t].attempts + 1, task[t].max) # "pending"
          BY <4>1 DEF StatusAfter, ResultKnown
        <4>3. delivery'[d].status = delivery[d].status /\ task[t].d # d
          BY <3>4, <4>2 DEF WriteDelivery, UpdateRow, Stored, DeliveryStatus, TypeOK
        <4>4. t # u
          BY <2>3, <4>3
        <4>5. QED
          BY <2>5, <4>1, <4>3, <4>4 DEF Finish
      <3>5. QED
        BY <2>8, <3>1, <3>2, <3>3, <3>4 DEF SendStep
    <2>9. ASSUME NEW t \in Tasks, RetryStep(t)
          PROVE  task'[u].pc \in SendSteps
      <3>1. task[t].pc \in {"hook", "fail"} /\ task[t].pc \notin SendSteps
        BY <2>9 DEF RetryStep, GetWebhook, MarkFailed, SendSteps
      <3>2. delivery'[d].status = delivery[d].status
        BY <2>9 DEF RetryStep, GetWebhook, MarkFailed, UpdateRow, TypeOK
      <3>3. QED
        BY <2>5, <2>9, <3>1, <3>2 DEF RetryStep, GetWebhook, MarkFailed, Finish
    <2>10. ASSUME NEW t \in Tasks, FaultStep(t)
           PROVE  FALSE
      BY <1>1, <1>3, <2>1, <2>10
         DEF FaultStep, CallFails, RecordingFails, GetWebhookFails, MarkFailedFails, StorageFault
    <2>11. ASSUME NEW D \in SUBSET Deliveries, ProcessRetries(D)
           PROVE  task'[u].pc \in SendSteps
      <3>1. delivery' = delivery /\ task'[u] = task[u]
        BY <2>2, <2>11, DeliveryTasks DEF ProcessRetries
      <3>2. QED
        BY <2>3, <3>1
    <2>12. ASSUME NEW c \in Clients, NEW e \in Deliveries, ManualRetry(c, e) \/ RequeueDelivery(c, e)
           PROVE  task'[u].pc \in SendSteps
      <3>1. ClientTask(c) \in Tasks /\ ClientTask(c) # u
        BY ClientTasks, TasksDiffer
      <3>2. QED
        BY <2>5, <2>12, <3>1 DEF ManualRetry, RequeueDelivery
    <2>13. ASSUME NEW c \in Clients, ClientStep(c)
           PROVE  task'[u].pc \in SendSteps
      <3>1. ClientTask(c) \in Tasks /\ ClientTask(c) # u
        BY ClientTasks, TasksDiffer
      <3>2. delivery'[d].status = delivery[d].status
        BY <2>13 DEF ClientStep, ManualPolicy, ManualReset, RequeueReset, UpdateRow, TypeOK
      <3>3. QED
        BY <2>5, <2>13, <3>1, <3>2
           DEF ClientStep, ManualPolicy, ManualReset, RequeueReset, Finish
    <2>14. ASSUME \/ \E e \in Deliveries : BackoffElapses(e) \/ PruneOldDelivery(e)
                  \/ \E w \in Webhooks : DeleteWebhook(w)
           PROVE  task'[u].pc \in SendSteps
      <3>1. UNCHANGED task /\ delivery'[d].status = delivery[d].status
        BY <2>14 DEF BackoffElapses, PruneOldDelivery, DeleteWebhook, TypeOK, Row
      <3>2. QED
        BY <2>4, <3>1
    <2>15. CASE \/ \E w \in Webhooks, e \in BOOLEAN, m \in RetryLimits : UpdateWebhook(w, e, m)
                \/ NothingToRetry \/ BatchSettled \/ UNCHANGED vars
      BY <2>4, <2>15 DEF UpdateWebhook, NothingToRetry, BatchSettled, vars
    <2>16. ASSUME BeginShutdown \/ ShutdownCompletes \/ ShutdownForced \/ Crash \/ Restart
           PROVE  FALSE
      BY <1>1, <1>3, <2>1, <2>16
         DEF BeginShutdown, ShutdownCompletes, ShutdownForced, Crash, Restart, StorageFault
    <2>17. QED
      BY <2>6, <2>7, <2>8, <2>9, <2>10, <2>11, <2>12, <2>13, <2>14, <2>15, <2>16 DEF Next
  <1>4. QED
    BY <1>1, <1>2, <1>3

\* The only way to the forgotten pending row that the shutdown comment rules
\* out and ShutdownLosesNothing shows: without a shutdown, a crash or a failed
\* storage call, a row inserted by dispatchToWebhook stays pending only while
\* its first attempt is being made, whatever edits, retries and requeues happen.
THEOREM PendingAttempted == Spec => []PendingUnderWay
  <1>1. Init => PendingUnderWay /\ UpUnlessFaults
    BY DEF Init, PendingUnderWay, UpUnlessFaults
  <1>2. AttemptInv => ResultKnown
    BY DEF AttemptInv
  <1>3. QED
    BY <1>1, <1>2, PendingStep, HistoryCorrect, PTL DEF Spec

=============================================================================
