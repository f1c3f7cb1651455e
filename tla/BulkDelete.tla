------------------------------ MODULE BulkDelete ------------------------------
(***************************************************************************)
(* BulkDeleteService and the SCAN / UNLINK engine it runs as a background  *)
(* job: starting, cancelling and walking, the audit row of an execute run, *)
(* and the reconciliation of that row after a crash.                       *)
(*                                                                         *)
(* A job is one asynchronous chain.  Its pc names the reply it waits for;  *)
(* cancel requests, other jobs and a crash come between the replies.       *)
(***************************************************************************)
EXTENDS Naturals, FiniteSets, FiniteSetsExt

CONSTANTS
    Jobs,         \* job ids
    Databases,    \* connections
    Primaries,    \* the nodes of a database; a walk visits one or all of them
    HomeNode,     \* the node a connection is connected to
    Keys,         \* the keys that match the pattern
    KeyHome,      \* the node of each key
    Limits,       \* values of maxKeys
    MaxBulkFaults \* bound: crashes, failed writes and commands

ASSUME BulkAssumption ==
    /\ HomeNode \in Primaries
    /\ KeyHome \in [Keys -> Primaries]
    /\ Limits \subseteq Nat \ {0}
    /\ Databases # {} /\ Limits # {}
    /\ MaxBulkFaults \in Nat
    /\ IsFiniteSet(Keys)

VARIABLES
    job,         \* the chains and the in-memory record each one updates
    jobs,        \* ids in the service's map
    auditRow,    \* bulk_delete_audits: status and deleted count
    firstWrite,  \* the "running" row written at the start, until it lands
    present,     \* [database -> keys it holds]
    bulkUp,      \* the process is running
    bulkFaults,  \* faults so far
    base,        \* history: keys of the walked nodes when the walk began
    reported,    \* history: keys a job has matched
    late         \* history: batches removed after the cancel request

bulkVars == <<job, jobs, auditRow, firstWrite, present, bulkUp, bulkFaults, base, reported, late>>
bulkHistory == <<base, reported, late>>

-----------------------------------------------------------------------------
JobStatus == {"running", "completed", "failed", "cancelled"}
JobStep == {"none", "targets", "scan", "unlink", "batch", "audit", "done"}
Job == [pc: JobStep, db: Databases, mode: {"dry-run", "execute"}, status: JobStatus,
        limit: Limits, cancelRequested: BOOLEAN,
        todo: SUBSET Primaries, node: Primaries, cursorEnd: BOOLEAN, unseen: SUBSET Keys,
        batch: SUBSET Keys, matched: Nat, deleted: Nat, truncated: BOOLEAN, cancelled: BOOLEAN]

BulkTypeOK ==
    /\ job \in [Jobs -> Job]
    /\ jobs \subseteq Jobs
    /\ auditRow \in [Jobs -> [status: JobStatus \cup {"none"}, deleted: Nat]]
    /\ firstWrite \in [Jobs -> {"none", "pending", "settled"}]
    /\ present \in [Databases -> SUBSET Keys]
    /\ bulkUp \in BOOLEAN /\ bulkFaults \in Nat
    /\ base \in [Jobs -> SUBSET Keys] /\ reported \in [Jobs -> SUBSET Keys]
    /\ late \in [Jobs -> Nat]

NoJob == [pc |-> "none", db |-> CHOOSE d \in Databases : TRUE, mode |-> "dry-run",
          status |-> "completed", limit |-> CHOOSE l \in Limits : TRUE, cancelRequested |-> FALSE,
          todo |-> {}, node |-> HomeNode, cursorEnd |-> FALSE, unseen |-> {}, batch |-> {},
          matched |-> 0, deleted |-> 0, truncated |-> FALSE, cancelled |-> FALSE]

BulkInit ==
    /\ job = [j \in Jobs |-> NoJob]
    /\ jobs = {}
    /\ auditRow = [j \in Jobs |-> [status |-> "none", deleted |-> 0]]
    /\ firstWrite = [j \in Jobs |-> "none"]
    /\ present = [d \in Databases |-> Keys]
    /\ bulkUp = TRUE /\ bulkFaults = 0
    /\ base = [j \in Jobs |-> {}] /\ reported = [j \in Jobs |-> {}]
    /\ late = [j \in Jobs |-> 0]

BulkFault == bulkFaults < MaxBulkFaults /\ bulkFaults' = bulkFaults + 1
OnNode(d, n) == {k \in present[d] : KeyHome[k] = n}
Becomes(j, r) == job' = [job EXCEPT ![j] = r]

-----------------------------------------------------------------------------
(* Starting and cancelling *)

\* pruneJobs: drop finished jobs that have aged out (which ones is time's choice).
Finished == {j \in jobs : job[j].status # "running"}
PruneJobs(added) == \E gone \in SUBSET Finished : jobs' = (jobs \ gone) \cup added

\* findActiveJob
ActiveJobs(d) == {j \in jobs : job[j].db = d /\ job[j].status = "running"}

\* startJob: one walk per connection; an execute run sends its "running" row
\* off without waiting for it.
StartJob(j, d, mode, limit) ==
    /\ bulkUp /\ job[j].pc = "none" /\ j \notin jobs
    /\ ActiveJobs(d) = {}
    /\ Becomes(j, [NoJob EXCEPT !.pc = "targets", !.db = d, !.mode = mode,
                                !.status = "running", !.limit = limit])
    /\ PruneJobs({j})
    /\ firstWrite' = [firstWrite EXCEPT ![j] = IF mode = "execute" THEN "pending" ELSE "none"]
    /\ UNCHANGED <<auditRow, present, bulkUp, bulkFaults, bulkHistory>>

\* persistAudit of the running row: it lands, or the error is logged.
FirstAuditLands(j) ==
    /\ bulkUp /\ firstWrite[j] = "pending"
    /\ firstWrite' = [firstWrite EXCEPT ![j] = "settled"]
    /\ \/ /\ auditRow' = [auditRow EXCEPT ![j] = [status |-> "running", deleted |-> 0]]
          /\ UNCHANGED bulkFaults
       \/ BulkFault /\ UNCHANGED auditRow
    /\ UNCHANGED <<job, jobs, present, bulkUp, bulkHistory>>

\* cancelJob
CancelJob(j) ==
    /\ bulkUp /\ j \in jobs /\ job[j].status = "running" /\ ~job[j].cancelRequested
    /\ job' = [job EXCEPT ![j].cancelRequested = TRUE]
    /\ UNCHANGED <<jobs, auditRow, firstWrite, present, bulkUp, bulkFaults, bulkHistory>>

-----------------------------------------------------------------------------
(* The walk: runBulkDelete inside runJob *)

\* runJob's last part: the engine's locals are gone, the status is final, an
\* execute run goes on to the audit.
Ended(r, status) ==
    [r EXCEPT !.status = status, !.pc = IF r.mode = "execute" THEN "audit" ELSE "done",
              !.todo = {}, !.node = HomeNode, !.cursorEnd = FALSE, !.unseen = {}, !.batch = {}]
Stopped(r) == Ended(r, IF r.cancelled THEN "cancelled" ELSE "completed")

\* Mutant of LoopTop: the walk never looks at the cancel request again.
LoopTopDeaf(r) ==
    CASE r.limit <= r.matched -> Stopped([r EXCEPT !.truncated = TRUE])
      [] OTHER -> [r EXCEPT !.pc = "scan"]

\* Mutant of LoopTop: reaching maxKeys ends the walk without saying so.
LoopTopQuiet(r) ==
    CASE r.cancelRequested -> Stopped([r EXCEPT !.cancelled = TRUE])
      [] ~r.cancelRequested /\ r.limit <= r.matched -> Stopped(r)
      [] OTHER -> [r EXCEPT !.pc = "scan"]

\* The top of the do-while loop: cancelled, out of keys to take, or SCAN.
LoopTop(r) ==
    CASE r.cancelRequested -> Stopped([r EXCEPT !.cancelled = TRUE])
      [] ~r.cancelRequested /\ r.limit <= r.matched -> Stopped([r EXCEPT !.truncated = TRUE])
      [] OTHER -> [r EXCEPT !.pc = "scan"]

\* Turn to node n.
Visit(r, n) ==
    LoopTop([r EXCEPT !.todo = @ \ {n}, !.node = n, !.cursorEnd = FALSE, !.unseen = OnNode(r.db, n)])

\* buildTargets: the connected node, or the primaries that can be reached; a
\* run with none fails.
BuildTargets(j) ==
    /\ bulkUp /\ job[j].pc = "targets"
    /\ \E targets \in {{HomeNode}} \cup SUBSET Primaries :
         /\ base' = [base EXCEPT ![j] = UNION {OnNode(job[j].db, n) : n \in targets}]
         /\ IF targets = {}
            THEN Becomes(j, Ended(job[j], "failed"))
            ELSE \E n \in targets : Becomes(j, Visit([job[j] EXCEPT !.todo = targets], n))
    /\ UNCHANGED <<jobs, auditRow, firstWrite, present, bulkUp, bulkFaults, reported, late>>

\* A reply of SCAN (external): some keys of the node; the cursor comes back
\* to 0 only when every key that was there throughout has been returned.
ScanReply(r, found, end) ==
    /\ found \subseteq OnNode(r.db, r.node)
    /\ end => r.unseen \cap present[r.db] \subseteq found

\* Mutant of Taken: the batch is not cut to what maxKeys leaves.
TakenUncut(r, found, taken) == taken = found

\* keys.slice(0, remaining)
Taken(r, found, taken) ==
    /\ taken \subseteq found
    /\ Cardinality(taken) = Min({Cardinality(found), r.limit - r.matched})

\* The reply of SCAN arrives.
Scan(j) ==
    LET r == job[j] IN
    /\ bulkUp /\ r.pc = "scan"
    /\ \E found \in SUBSET present[r.db], end \in BOOLEAN : \E taken \in SUBSET found :
         /\ ScanReply(r, found, end) /\ Taken(r, found, taken)
         /\ Becomes(j, [r EXCEPT !.cursorEnd = end, !.unseen = @ \ found,
                          !.batch = IF r.mode = "execute" THEN taken ELSE {},
                          !.matched = @ + Cardinality(taken),
                          !.truncated = @ \/ Cardinality(found) > r.limit - r.matched,
                          !.pc = IF r.mode = "execute" /\ taken # {} THEN "unlink" ELSE "batch"])
         /\ reported' = [reported EXCEPT ![j] = @ \cup taken]
    /\ UNCHANGED <<jobs, auditRow, firstWrite, present, bulkUp, bulkFaults, base, late>>

\* The replies of the UNLINK pipeline arrive: a command that fails leaves its
\* key, or removes it without being counted.
Unlink(j) ==
    LET r == job[j]
        there == r.batch \cap present[r.db] IN
    /\ bulkUp /\ r.pc = "unlink"
    /\ \E gone \in SUBSET there : \E counted \in 0..Cardinality(gone) :
         /\ \/ gone = there /\ counted = Cardinality(there) /\ UNCHANGED bulkFaults
            \/ BulkFault
         /\ present' = [present EXCEPT ![r.db] = @ \ gone]
         /\ Becomes(j, [r EXCEPT !.deleted = @ + counted, !.batch = {}, !.pc = "batch"])
         /\ late' = [late EXCEPT ![j] = IF r.cancelRequested /\ gone # {} THEN @ + 1 ELSE @]
    /\ UNCHANGED <<jobs, auditRow, firstWrite, bulkUp, base, reported>>

\* The batch is done, and the pause after it: stop, the next node, or again.
AfterBatch(j) ==
    LET r == job[j] IN
    /\ bulkUp /\ r.pc = "batch"
    /\ CASE r.truncated /\ r.matched >= r.limit -> Becomes(j, Stopped(r))
         [] ~(r.truncated /\ r.matched >= r.limit) /\ ~r.cursorEnd -> Becomes(j, LoopTop(r))
         [] OTHER -> IF r.todo = {} THEN Becomes(j, Stopped(r))
                     ELSE \E n \in r.todo : Becomes(j, Visit(r, n))
    /\ UNCHANGED <<jobs, auditRow, firstWrite, present, bulkUp, bulkFaults, bulkHistory>>

\* A command throws: runJob's catch.
WalkFails(j) ==
    /\ bulkUp /\ job[j].pc \in {"targets", "scan", "unlink"} /\ BulkFault
    /\ Becomes(j, Ended(job[j], "failed"))
    /\ UNCHANGED <<jobs, auditRow, firstWrite, present, bulkUp, bulkHistory>>

\* Mutant of FinalAudit: the final row does not wait for the first one.
FinalAuditUnordered(j) ==
    /\ bulkUp /\ job[j].pc = "audit"
    /\ \/ /\ auditRow' = [auditRow EXCEPT ![j] = [status |-> job[j].status, deleted |-> job[j].deleted]]
          /\ UNCHANGED bulkFaults
       \/ BulkFault /\ UNCHANGED auditRow
    /\ job' = [job EXCEPT ![j].pc = "done"]
    /\ PruneJobs({})
    /\ UNCHANGED <<firstWrite, present, bulkUp, bulkHistory>>

\* runJob's finally: wait for the first audit write, then write the outcome
\* (best effort).
FinalAudit(j) ==
    /\ bulkUp /\ job[j].pc = "audit" /\ firstWrite[j] # "pending"
    /\ \/ /\ auditRow' = [auditRow EXCEPT ![j] = [status |-> job[j].status, deleted |-> job[j].deleted]]
          /\ UNCHANGED bulkFaults
       \/ BulkFault /\ UNCHANGED auditRow
    /\ job' = [job EXCEPT ![j].pc = "done"]
    /\ PruneJobs({})
    /\ UNCHANGED <<firstWrite, present, bulkUp, bulkHistory>>

-----------------------------------------------------------------------------
(* Crash and restart *)

\* The process dies: the chains, the map and the writes under way are gone.
BulkCrash ==
    /\ bulkUp /\ BulkFault
    /\ bulkUp' = FALSE /\ jobs' = {}
    /\ job' = [j \in Jobs |-> IF job[j].pc = "none" THEN job[j] ELSE [job[j] EXCEPT !.pc = "done"]]
    /\ firstWrite' = [j \in Jobs |-> IF firstWrite[j] = "pending" THEN "settled" ELSE firstWrite[j]]
    /\ UNCHANGED <<auditRow, present, bulkHistory>>

\* onModuleInit: every row still running is marked failed, if the update
\* succeeds; requests are served after it either way.
BulkBoot ==
    /\ ~bulkUp /\ bulkUp' = TRUE
    /\ \/ /\ auditRow' = [j \in Jobs |-> IF auditRow[j].status = "running"
                                         THEN [auditRow[j] EXCEPT !.status = "failed"]
                                         ELSE auditRow[j]]
          /\ UNCHANGED bulkFaults
       \/ BulkFault /\ UNCHANGED auditRow
    /\ UNCHANGED <<job, jobs, firstWrite, present, bulkHistory>>

BulkStep(j) == BuildTargets(j) \/ Scan(j) \/ Unlink(j) \/ AfterBatch(j) \/ WalkFails(j) \/ FinalAudit(j)

BulkNext ==
    \/ \E j \in Jobs :
         \/ \E d \in Databases, mode \in {"dry-run", "execute"}, limit \in Limits :
              StartJob(j, d, mode, limit)
         \/ FirstAuditLands(j) \/ CancelJob(j) \/ BulkStep(j)
    \/ BulkCrash \/ BulkBoot

BulkSpec == BulkInit /\ [][BulkNext]_bulkVars

-----------------------------------------------------------------------------
(* Properties *)

\* The audit row of a run, once it has an outcome, keeps it: the slow "running"
\* write of the start, the walk, a crash or the reconciliation at boot never
\* put it back or change it (runJob, persistAudit, onModuleInit).
BulkAuditSettles ==
    [][\A j \in Jobs : auditRow[j].status \in {"completed", "cancelled", "failed"} =>
         auditRow'[j] = auditRow[j]]_bulkVars

\* maxKeys bounds what a run may touch: no more keys are matched, hence
\* removed, than it allows, whatever SCAN returns (runBulkDelete).
BulkLimitKept ==
    \A j \in Jobs : job[j].matched <= job[j].limit /\ Cardinality(reported[j]) <= job[j].matched

\* A run that ends as completed and not truncated has dealt with every key
\* that was on its nodes when the walk began: one still there was matched, and
\* if it was to be removed the counters show that it was not (runBulkDelete).
BulkComplete ==
    \A j \in Jobs :
      LET left == base[j] \cap present[job[j].db] IN
      job[j].status = "completed" /\ job[j].pc # "none" /\ ~job[j].truncated =>
        /\ left \subseteq reported[j]
        /\ left # {} /\ job[j].mode = "execute" => job[j].deleted < job[j].matched

\* A cancel request lets at most the batch under way finish (isCancelled).
BulkCancelPrompt == \A j \in Jobs : late[j] <= 1
=============================================================================
