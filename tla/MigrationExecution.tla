-------------------------- MODULE MigrationExecution --------------------------
(***************************************************************************)
(* MigrationExecutionService: accepting a run, RedisShake mode (probe,     *)
(* pre-flush, child process, clean-up), command mode (the batch worker),   *)
(* stopping, and the bounded map of runs.                                  *)
(*                                                                         *)
(* A run is one asynchronous chain; its pc names what it waits for.  The   *)
(* child process is a separate actor: it exits when it likes, and may      *)
(* ignore SIGTERM.                                                         *)
(***************************************************************************)
EXTENDS Naturals, Sequences, SequencesExt, FiniteSets

CONSTANTS
    Runs,        \* run ids
    MaxJobs,     \* MAX_JOBS
    Masters,     \* the number of masters of a cluster target
    MaxMigFaults \* bound: crashes, failed commands and file operations

ASSUME MigrationAssumption ==
    MaxJobs \in Nat \ {0} /\ Masters \in Nat \ {0} /\ MaxMigFaults \in Nat

VARIABLES
    exec,      \* the chains, and the job record each one updates
    slots,     \* the map of runs, oldest first
    child,     \* the RedisShake process of each run
    killTimer, \* the SIGKILL timer stopExecution arms
    dialing,   \* masters of the target that will be sent FLUSHALL once connected
    flushes,   \* FLUSHALLs sent to the target
    toml,      \* the runs whose configuration file, with passwords, is on disk
    migFaults, \* faults so far
    orphaned   \* history: runs under which the service died or could not write
               \* or delete the whole file

migVars == <<exec, slots, child, killTimer, dialing, flushes, toml, migFaults, orphaned>>
flushVars == <<dialing, flushes>>

-----------------------------------------------------------------------------
ExecStatus == {"pending", "running", "completed", "failed", "cancelled"}
Terminal == {"completed", "failed", "cancelled"}
ExecStep == {"none", "probe", "nodes", "flush", "wait", "worker", "copy", "stuck", "done"}
Exec == [pc: ExecStep, status: ExecStatus, emptyDb: BOOLEAN, cluster: BOOLEAN, process: BOOLEAN]

MigTypeOK ==
    /\ exec \in [Runs -> Exec]
    /\ slots \in Seq(Runs)
    /\ child \in [Runs -> {"none", "alive", "exited"}]
    /\ killTimer \in [Runs -> BOOLEAN]
    /\ dialing \in [Runs -> Nat] /\ flushes \in [Runs -> Nat]
    /\ toml \subseteq Runs /\ orphaned \subseteq Runs
    /\ migFaults \in Nat

NoExec == [pc |-> "none", status |-> "pending", emptyDb |-> FALSE, cluster |-> FALSE,
           process |-> FALSE]

MigInit ==
    /\ exec = [r \in Runs |-> NoExec]
    /\ slots = <<>>
    /\ child = [r \in Runs |-> "none"]
    /\ killTimer = [r \in Runs |-> FALSE]
    /\ dialing = [r \in Runs |-> 0] /\ flushes = [r \in Runs |-> 0]
    /\ toml = {} /\ orphaned = {}
    /\ migFaults = 0

MigFault == migFaults < MaxMigFaults /\ migFaults' = migFaults + 1
InProgress(r) == exec[r].pc \notin {"none", "stuck", "done"}
Cancelled(r) == exec[r].status = "cancelled"
ExecBecomes(r, e) == exec' = [exec EXCEPT ![r] = e]

-----------------------------------------------------------------------------
(* Accepting a run *)

\* Mutant of EvictOldJobs: the oldest run makes room, finished or not.
EvictOldest(kept) ==
    kept = IF Len(slots) < MaxJobs THEN slots ELSE Tail(slots)

\* evictOldJobs: when the map is full the oldest finished run makes room; when
\* all are unfinished the request is refused.
EvictOldJobs(kept) ==
    \/ Len(slots) < MaxJobs /\ kept = slots
    \/ /\ Len(slots) >= MaxJobs
       /\ \E i \in 1..Len(slots) :
            /\ exec[slots[i]].status \in Terminal
            /\ \A k \in 1..(i - 1) : exec[slots[k]].status \notin Terminal
            /\ kept = RemoveAt(slots, i)

\* The awaits of the start are over: spawn sets the process and the status.
Spawned(e) == [e EXCEPT !.pc = "wait", !.status = "running", !.process = TRUE]

\* flushTargetBeforeSync up to its first await: a standalone target is sent
\* FLUSHALL at once, a cluster is first asked for its nodes.
BeginFlush(r, e) ==
    /\ ExecBecomes(r, [e EXCEPT !.pc = IF e.cluster THEN "nodes" ELSE "flush"])
    /\ flushes' = [flushes EXCEPT ![r] = IF e.cluster THEN @ ELSE @ + 1]
    /\ UNCHANGED <<child, dialing>>

\* startExecution for a RedisShake mode, up to the chain's first await: the
\* run is in the map before its configuration file is written, and stays there
\* when that fails, perhaps with a part of the file on disk that nothing deletes.
StartRedisShake(r, excludeFunctions, emptyDb, cluster) ==
    LET e == [NoExec EXCEPT !.emptyDb = emptyDb, !.cluster = cluster] IN
    /\ exec[r].pc = "none"
    /\ \E kept \in {slots} \cup {RemoveAt(slots, i) : i \in 1..Len(slots)} :
         EvictOldJobs(kept) /\ slots' = Append(kept, r)
    /\ \/ /\ toml' = toml \cup {r}
          /\ \/ /\ excludeFunctions
                /\ ExecBecomes(r, [e EXCEPT !.pc = "probe"])
                /\ UNCHANGED <<child, flushVars>>
             \/ ~excludeFunctions /\ emptyDb /\ BeginFlush(r, e)
             \/ /\ ~excludeFunctions /\ ~emptyDb
                /\ ExecBecomes(r, Spawned(e))
                /\ child' = [child EXCEPT ![r] = "alive"]
                /\ UNCHANGED flushVars
          /\ UNCHANGED <<migFaults, orphaned>>
       \/ /\ MigFault /\ ExecBecomes(r, [e EXCEPT !.pc = "stuck"])
          /\ \/ UNCHANGED <<toml, orphaned>>
             \/ toml' = toml \cup {r} /\ orphaned' = orphaned \cup {r}
          /\ UNCHANGED <<child, flushVars>>
    /\ UNCHANGED killTimer

\* startExecution for command mode.
StartCommandMode(r) ==
    /\ exec[r].pc = "none"
    /\ \E kept \in {slots} \cup {RemoveAt(slots, i) : i \in 1..Len(slots)} :
         EvictOldJobs(kept) /\ slots' = Append(kept, r)
    /\ ExecBecomes(r, [NoExec EXCEPT !.pc = "worker", !.status = "running"])
    /\ UNCHANGED <<child, killTimer, flushVars, toml, migFaults, orphaned>>

-----------------------------------------------------------------------------
(* RedisShake mode *)

\* Mutant of Finalize: an early return skips the clean-up.
FinalizeNoUnlink(r, status) ==
    /\ ExecBecomes(r, [exec[r] EXCEPT !.pc = "done", !.status = status, !.process = FALSE])
    /\ UNCHANGED <<toml, migFaults, orphaned>>

\* runRedisShake's finally: the files are deleted (errors are ignored) and the
\* process is forgotten.
Finalize(r, status) ==
    /\ ExecBecomes(r, [exec[r] EXCEPT !.pc = "done", !.status = status, !.process = FALSE])
    /\ \/ toml' = toml \ {r} /\ UNCHANGED <<migFaults, orphaned>>
       \/ MigFault /\ orphaned' = orphaned \cup {r} /\ UNCHANGED toml

\* What the chain does when the awaits before the spawn are over.
SpawnStep(r) ==
    /\ ExecBecomes(r, Spawned(exec[r]))
    /\ child' = [child EXCEPT ![r] = "alive"]
    /\ UNCHANGED <<flushVars, toml, migFaults, orphaned>>

\* Mutant of AfterProbe: the cancel request made during the probe is not seen.
AfterProbeBlind(r) ==
    /\ exec[r].pc = "probe"
    /\ \/ exec[r].emptyDb /\ BeginFlush(r, exec[r]) /\ UNCHANGED <<toml, migFaults, orphaned>>
       \/ ~exec[r].emptyDb /\ SpawnStep(r)
    /\ UNCHANGED <<slots, killTimer>>

\* The function probe is over (it never throws).
AfterProbe(r) ==
    /\ exec[r].pc = "probe"
    /\ \/ Cancelled(r) /\ Finalize(r, "cancelled") /\ UNCHANGED <<child, flushVars>>
       \/ /\ ~Cancelled(r) /\ exec[r].emptyDb
          /\ BeginFlush(r, exec[r]) /\ UNCHANGED <<toml, migFaults, orphaned>>
       \/ ~Cancelled(r) /\ ~exec[r].emptyDb /\ SpawnStep(r)
    /\ UNCHANGED <<slots, killTimer>>

\* getClusterNodes has answered: a connection to every master is opened, with
\* no look at the status.
NodesListed(r) ==
    /\ exec[r].pc = "nodes"
    /\ ExecBecomes(r, [exec[r] EXCEPT !.pc = "flush"])
    /\ dialing' = [dialing EXCEPT ![r] = Masters]
    /\ UNCHANGED <<slots, child, killTimer, flushes, toml, migFaults, orphaned>>

\* A master is connected and is sent FLUSHALL: also when the chain has ended
\* because another master failed, for Promise.all stops none of them.
FlushMaster(r) ==
    /\ dialing[r] > 0
    /\ dialing' = [dialing EXCEPT ![r] = @ - 1]
    /\ flushes' = [flushes EXCEPT ![r] = @ + 1]
    /\ UNCHANGED <<exec, slots, child, killTimer, toml, migFaults, orphaned>>

\* The target has been flushed.
AfterFlush(r) ==
    /\ exec[r].pc = "flush" /\ dialing[r] = 0
    /\ \/ Cancelled(r) /\ Finalize(r, "cancelled") /\ UNCHANGED <<child, flushVars>>
       \/ ~Cancelled(r) /\ SpawnStep(r)
    /\ UNCHANGED <<slots, killTimer>>

\* The child process exits (external): by itself, or of a signal.
ChildExits(r) ==
    /\ child[r] = "alive"
    /\ child' = [child EXCEPT ![r] = "exited"]
    /\ UNCHANGED <<exec, slots, killTimer, flushVars, toml, migFaults, orphaned>>

\* The outcome of a chain that ends with a result, or an error: a cancelled
\* run stays cancelled.
Outcome(r, status) == IF Cancelled(r) THEN "cancelled" ELSE status

\* 'close' after the exit: completed or failed by the exit code.
AfterClose(r) ==
    /\ exec[r].pc = "wait" /\ child[r] = "exited"
    /\ \E status \in {"completed", "failed"} : Finalize(r, Outcome(r, status))
    /\ UNCHANGED <<slots, child, killTimer, flushVars>>

\* The flush throws (a FLUSHALL, or the connection to a master, fails), or the
\* process cannot be started ('error').
ShakeFails(r) ==
    /\ \/ /\ exec[r].pc \in {"nodes", "flush"}
          /\ dialing' \in {dialing, [dialing EXCEPT ![r] = IF @ > 0 THEN @ - 1 ELSE @]}
          /\ UNCHANGED child
       \/ /\ exec[r].pc = "wait" /\ child[r] = "alive"
          /\ child' = [child EXCEPT ![r] = "none"]
          /\ UNCHANGED dialing
    /\ migFaults < MaxMigFaults
    /\ ExecBecomes(r, [exec[r] EXCEPT !.pc = "done", !.status = Outcome(r, "failed"), !.process = FALSE])
    /\ toml' = toml \ {r} /\ migFaults' = migFaults + 1
    /\ UNCHANGED <<slots, killTimer, flushes, orphaned>>

-----------------------------------------------------------------------------
(* Command mode: runCommandMigration *)

\* Between two batches: return when cancelled or at the end of the keys, or
\* send the next batch.
Worker(r) ==
    /\ exec[r].pc = "worker"
    /\ \/ Cancelled(r) /\ ExecBecomes(r, [exec[r] EXCEPT !.pc = "done"])
       \/ ~Cancelled(r) /\ ExecBecomes(r, [exec[r] EXCEPT !.pc = "copy"])
       \/ ~Cancelled(r) /\ ExecBecomes(r, [exec[r] EXCEPT !.pc = "done", !.status = "completed"])
    /\ UNCHANGED <<slots, child, killTimer, flushVars, toml, migFaults, orphaned>>

\* The batch has been copied.
BatchCopied(r) ==
    /\ exec[r].pc = "copy"
    /\ ExecBecomes(r, [exec[r] EXCEPT !.pc = "worker"])
    /\ UNCHANGED <<slots, child, killTimer, flushVars, toml, migFaults, orphaned>>

WorkerFails(r) ==
    /\ exec[r].pc \in {"worker", "copy"} /\ MigFault
    /\ ExecBecomes(r, [exec[r] EXCEPT !.pc = "done", !.status = Outcome(r, "failed")])
    /\ UNCHANGED <<slots, child, killTimer, flushVars, toml, orphaned>>

-----------------------------------------------------------------------------
(* Stopping *)

\* stopExecution: the status first; a process gets SIGTERM (it may ignore it)
\* and the timer that follows up.
StopExecution(r) ==
    /\ \E i \in 1..Len(slots) : slots[i] = r
    /\ exec[r].status \notin Terminal
    /\ exec' = [exec EXCEPT ![r].status = "cancelled"]
    /\ killTimer' = [killTimer EXCEPT ![r] = exec[r].process]
    /\ UNCHANGED <<slots, child, flushVars, toml, migFaults, orphaned>>

\* Mutant of KillTimerFires: the timer looks the run up in the map first.
KillTimerFiresListed(r) ==
    /\ killTimer[r]
    /\ killTimer' = [killTimer EXCEPT ![r] = FALSE]
    /\ child' = [child EXCEPT ![r] =
                   IF @ = "alive" /\ \E i \in 1..Len(slots) : slots[i] = r THEN "exited" ELSE @]
    /\ UNCHANGED <<exec, slots, flushVars, toml, migFaults, orphaned>>

\* Three seconds later: SIGKILL if the process is still there.
KillTimerFires(r) ==
    /\ killTimer[r]
    /\ killTimer' = [killTimer EXCEPT ![r] = FALSE]
    /\ child' = [child EXCEPT ![r] = IF exec[r].process /\ @ = "alive" THEN "exited" ELSE @]
    /\ UNCHANGED <<exec, slots, flushVars, toml, migFaults, orphaned>>

-----------------------------------------------------------------------------
\* The service dies: chains, map, connections and timers are gone, the files and the
\* child processes stay; nothing at start looks for either.
MigCrash ==
    /\ MigFault
    /\ orphaned' = orphaned \cup {r \in Runs : InProgress(r)}
    /\ exec' = [r \in Runs |-> IF exec[r].pc = "none" THEN exec[r]
                                ELSE [exec[r] EXCEPT !.pc = "done", !.process = FALSE]]
    /\ slots' = <<>>
    /\ killTimer' = [r \in Runs |-> FALSE]
    /\ dialing' = [r \in Runs |-> 0]
    /\ UNCHANGED <<child, flushes, toml>>

MigStep(r) ==
    \/ AfterProbe(r) \/ NodesListed(r) \/ FlushMaster(r) \/ AfterFlush(r) \/ AfterClose(r)
    \/ Worker(r) \/ BatchCopied(r)

MigNext ==
    \/ \E r \in Runs :
         \/ \E excludeFunctions, emptyDb, cluster \in BOOLEAN :
              StartRedisShake(r, excludeFunctions, emptyDb, cluster)
         \/ StartCommandMode(r) \/ StopExecution(r) \/ KillTimerFires(r)
         \/ MigStep(r) \/ ChildExits(r) \/ ShakeFails(r) \/ WorkerFails(r)
    \/ MigCrash

MigSpec == MigInit /\ [][MigNext]_migVars

-----------------------------------------------------------------------------
(* Properties *)

\* A cancelled run stays cancelled and begins nothing further: the pre-flush is
\* not entered, no process is started and no batch is sent after the cancel,
\* wherever it falls between the awaits of the chain, and FLUSHALL is sent only
\* to the masters of a pre-flush that was under way.  No other outcome changes
\* once it is set (runRedisShake, runCommandMode, stopExecution).
MigCancelHolds ==
    [][\A r \in Runs : exec[r].status \in Terminal =>
         /\ exec'[r].status = exec[r].status
         /\ child'[r] = "alive" => child[r] = "alive"
         /\ exec'[r].pc = "copy" => exec[r].pc = "copy"
         /\ exec'[r].pc \in {"nodes", "flush"} => exec[r].pc \in {"nodes", "flush"}
         /\ flushes'[r] # flushes[r] => dialing[r] > 0]_migVars

\* "Guarded on cancel so we never wipe a target for a run the caller already
\* stopped" (runRedisShake): no FLUSHALL is sent for a cancelled run.
NoFlushAfterStop == [][\A r \in Runs : Cancelled(r) => flushes'[r] = flushes[r]]_migVars

\* A run whose work goes on can be stopped: it is in the map unless it has been
\* cancelled already, and the map holds no more than MAX_JOBS (evictOldJobs).
MigStoppable ==
    /\ Len(slots) <= MaxJobs
    /\ \A r \in Runs : InProgress(r) /\ ~Cancelled(r) => \E i \in 1..Len(slots) : slots[i] = r

\* The configuration file with the credentials is on disk only while its run
\* is going, unless the service died under it or the file could not be written
\* whole or not be deleted (runRedisShake: "the credential-bearing TOML never lingers").
MigCleanedUp == \A r \in toml : InProgress(r) \/ r \in orphaned

\* A child process of a run that was stopped does not outlive it: it ends even
\* when it ignores SIGTERM and when the run has left the map (stopExecution).
MigStoppedProcessEnds ==
    \A r \in Runs : []<>(Cancelled(r) /\ child[r] = "alive" => r \in orphaned)
=============================================================================
