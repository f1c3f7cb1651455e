--------------------------- MODULE MigrationProofs ---------------------------
(***************************************************************************)
(* Proofs about MigrationExecution, for any number of runs, any MAX_JOBS   *)
(* and any number of faults.                                               *)
(***************************************************************************)
EXTENDS MigrationExecution, SequenceTheorems, TLAPS

-----------------------------------------------------------------------------
(* The inductive invariant *)

\* A record that never ran is pending; completed and failed are set by the
\* chain's last step, so only a cancelled run may still be going with an outcome.
RecordOk(e) ==
    /\ e.pc = "none" => e.status = "pending"
    /\ e.status \in {"completed", "failed"} => e.pc = "done"
Records == \A r \in Runs : RecordOk(exec[r])

\* A configuration file belongs to a RedisShake run, and outlives it only as
\* an orphan.
Files ==
    \A r \in toml : /\ exec[r].pc \notin {"none", "worker", "copy"}
                    /\ exec[r].pc \in {"stuck", "done"} => r \in orphaned

Listed(s, r) == \E i \in 1..Len(s) : s[i] = r
\* Every run in the map was started.
Started == \A i \in 1..Len(slots) : exec[slots[i]].pc # "none"
MigInv == MigTypeOK /\ Records /\ Files /\ Started /\ MigStoppable

-----------------------------------------------------------------------------
(* The map of runs *)

\* Dropping one entry shortens the map by one and keeps the others.
LEMMA RemoveAtProperties ==
    ASSUME NEW S, NEW s \in Seq(S), NEW i \in 1..Len(s)
    PROVE  /\ RemoveAt(s, i) \in Seq(S)
           /\ Len(RemoveAt(s, i)) = Len(s) - 1
           /\ \A k \in 1..Len(s) : k # i => Listed(RemoveAt(s, i), s[k])
           /\ \A k \in 1..(Len(s) - 1) : Listed(s, RemoveAt(s, i)[k])
<1> DEFINE a == SubSeq(s, 1, i - 1)
           b == SubSeq(s, i + 1, Len(s))
<1>1. /\ a \in Seq(S) /\ Len(a) = i - 1 /\ \A k \in 1..(i - 1) : a[k] = s[k]
  OBVIOUS
<1>2. /\ b \in Seq(S) /\ Len(b) = Len(s) - i /\ \A k \in 1..(Len(s) - i) : b[k] = s[k + i]
  OBVIOUS
<1> HIDE DEF a, b
<1>3. /\ a \o b \in Seq(S) /\ Len(a \o b) = Len(s) - 1
      /\ \A k \in 1..(i - 1) : (a \o b)[k] = s[k]
      /\ \A k \in 1..(Len(s) - i) : (a \o b)[k + i - 1] = s[k + i]
  <2>1. /\ a \o b \in Seq(S) /\ Len(a \o b) = Len(a) + Len(b)
        /\ \A k \in 1..(Len(a) + Len(b)) : (a \o b)[k] = IF k <= Len(a) THEN a[k] ELSE b[k - Len(a)]
    BY <1>1, <1>2, ConcatProperties
  <2>2. \A k \in 1..(i - 1) : (a \o b)[k] = s[k]
    BY <1>1, <1>2, <2>1
  <2>3. ASSUME NEW k \in 1..(Len(s) - i)
        PROVE  (a \o b)[k + i - 1] = s[k + i]
    <3>1. k + i - 1 \in 1..(Len(a) + Len(b)) /\ ~(k + i - 1 <= Len(a)) /\ k + i - 1 - Len(a) = k
      BY <1>1, <1>2
    <3>2. QED
      BY <1>2, <2>1, <3>1
  <2>4. QED
    BY <1>1, <1>2, <2>1, <2>2, <2>3
<1>4. RemoveAt(s, i) = a \o b
  BY DEF RemoveAt, a, b
<1>5. ASSUME NEW k \in 1..Len(s), k # i
      PROVE  \E m \in 1..Len(a \o b) : (a \o b)[m] = s[k]
  <2>1. CASE k < i
    <3>1. k \in 1..(i - 1) /\ k \in 1..Len(a \o b)
      BY <1>3, <2>1
    <3>2. QED
      BY <1>3, <3>1
  <2>2. CASE k > i
    <3>1. k - i \in 1..(Len(s) - i) /\ k - 1 \in 1..Len(a \o b) /\ (k - i) + i - 1 = k - 1 /\ (k - i) + i = k
      BY <1>3, <2>2
    <3>2. (a \o b)[k - 1] = s[k]
      BY <1>3, <3>1
    <3>3. QED
      BY <3>1, <3>2
  <2>3. QED
    BY <1>5, <2>1, <2>2
<1>6. ASSUME NEW k \in 1..(Len(s) - 1)
      PROVE  \E m \in 1..Len(s) : s[m] = (a \o b)[k]
  <2>1. CASE k < i
    <3>1. k \in 1..(i - 1) /\ k \in 1..Len(s)
      BY <2>1
    <3>2. QED
      BY <1>3, <3>1
  <2>2. CASE k >= i
    <3>1. /\ k + 1 - i \in 1..(Len(s) - i) /\ k + 1 \in 1..Len(s)
          /\ (k + 1 - i) + i - 1 = k /\ (k + 1 - i) + i = k + 1
      BY <2>2
    <3>2. (a \o b)[k] = s[k + 1]
      BY <1>3, <3>1
    <3>3. QED
      BY <3>1, <3>2
  <2>3. k < i \/ k >= i
    OBVIOUS
  <2>4. QED
    BY <2>1, <2>2, <2>3
<1>7. QED
  BY <1>3, <1>4, <1>5, <1>6 DEF Listed

\* What a start leaves in the map: no more than MAX_JOBS runs, the new one
\* among them, and every run that is not over.
LEMMA Admitted ==
    ASSUME MigTypeOK, MigStoppable, NEW r \in Runs,
           \E kept \in {slots} \cup {RemoveAt(slots, i) : i \in 1..Len(slots)} :
              EvictOldJobs(kept) /\ slots' = Append(kept, r)
    PROVE  /\ slots' \in Seq(Runs) /\ Len(slots') <= MaxJobs
           /\ Listed(slots', r)
           /\ \A i \in 1..Len(slots') : slots'[i] = r \/ Listed(slots, slots'[i])
           /\ \A q \in Runs : Listed(slots, q) /\ exec[q].status \notin Terminal => Listed(slots', q)
<1> USE MigrationAssumption
<1>1. PICK kept : EvictOldJobs(kept) /\ slots' = Append(kept, r)
  OBVIOUS
<1>2. /\ kept \in Seq(Runs) /\ Len(kept) < MaxJobs
      /\ \A k \in 1..Len(kept) : Listed(slots, kept[k])
      /\ \A q \in Runs : Listed(slots, q) /\ exec[q].status \notin Terminal => Listed(kept, q)
  <2>1. CASE Len(slots) < MaxJobs /\ kept = slots
    <3>1. \A k \in 1..Len(slots) : Listed(slots, slots[k])
      BY DEF Listed
    <3>2. slots \in Seq(Runs)
      BY DEF MigTypeOK
    <3>3. QED
      BY <2>1, <3>1, <3>2
  <2>2. ASSUME NEW i \in 1..Len(slots), exec[slots[i]].status \in Terminal, kept = RemoveAt(slots, i)
        PROVE  /\ kept \in Seq(Runs) /\ Len(kept) < MaxJobs
               /\ \A k \in 1..Len(kept) : Listed(slots, kept[k])
               /\ \A q \in Runs : Listed(slots, q) /\ exec[q].status \notin Terminal => Listed(kept, q)
    <3>1. slots \in Seq(Runs) /\ Len(slots) <= MaxJobs /\ Len(slots) \in Nat
      BY DEF MigTypeOK, MigStoppable
    <3>2. /\ kept \in Seq(Runs) /\ Len(kept) = Len(slots) - 1
          /\ \A k \in 1..Len(slots) : k # i => Listed(kept, slots[k])
          /\ \A k \in 1..(Len(slots) - 1) : Listed(slots, kept[k])
      BY <2>2, <3>1, RemoveAtProperties
    <3>3. ASSUME NEW q \in Runs, Listed(slots, q), exec[q].status \notin Terminal
          PROVE  Listed(kept, q)
      <4>1. PICK k \in 1..Len(slots) : slots[k] = q
        BY <3>3 DEF Listed
      <4>2. k # i
        BY <2>2, <3>3, <4>1
      <4>3. QED
        BY <3>2, <4>1, <4>2
    <3>4. QED
      BY <3>1, <3>2, <3>3
  <2>3. QED
    BY <1>1, <2>1, <2>2 DEF EvictOldJobs
<1>3. /\ slots' \in Seq(Runs) /\ Len(slots') = Len(kept) + 1 /\ slots'[Len(kept) + 1] = r
      /\ \A k \in 1..Len(kept) : slots'[k] = kept[k]
  BY <1>1, <1>2, AppendProperties
<1>4. Len(kept) \in Nat
  BY <1>2
<1>5. \A q : Listed(kept, q) => Listed(slots', q)
  BY <1>3, <1>4 DEF Listed
<1>6. Listed(slots', r)
  BY <1>3, <1>4 DEF Listed
<1>7. \A i \in 1..Len(slots') : slots'[i] = r \/ Listed(slots, slots'[i])
  <2>1. \A i \in 1..Len(slots') : i \in 1..Len(kept) \/ i = Len(kept) + 1
    BY <1>3, <1>4
  <2>2. QED
    BY <1>2, <1>3, <2>1
<1>8. QED
  BY <1>2, <1>3, <1>4, <1>5, <1>6, <1>7

-----------------------------------------------------------------------------
(* Types *)

\* Only the awaits of the chain itself and a stop change a run's record.
LEMMA BecomesType ==
    ASSUME MigTypeOK, NEW r \in Runs, NEW e \in Exec, ExecBecomes(r, e)
    PROVE  exec' \in [Runs -> Exec] /\ exec'[r] = e /\ \A q \in Runs : q # r => exec'[q] = exec[q]
  BY DEF MigTypeOK, ExecBecomes

\* The record of a run that never started.
LEMMA NoExecType == NoExec \in Exec /\ NoExec.pc = "none" /\ NoExec.status = "pending"
  BY DEF NoExec, Exec, ExecStep, ExecStatus

-----------------------------------------------------------------------------
(* One step of a run *)

\* An outcome is final, and a run that has one starts nothing.
OutcomeKept(r) ==
    exec[r].status \in Terminal =>
      /\ exec'[r].status = exec[r].status
      /\ child'[r] = "alive" => child[r] = "alive"
      /\ exec'[r].pc = "copy" => exec[r].pc = "copy"
      /\ exec'[r].pc \in {"nodes", "flush"} => exec[r].pc \in {"nodes", "flush"}
      /\ flushes'[r] # flushes[r] => dialing[r] > 0

\* What a step of run r may do to its record and its files ...
RecordMoves(r) ==
    /\ exec' \in [Runs -> Exec] /\ \A q \in Runs \ {r} : exec'[q] = exec[q]
    /\ RecordOk(exec'[r])
    /\ toml' \subseteq Runs /\ toml' \subseteq toml \cup {r}
    /\ orphaned' \subseteq Runs /\ orphaned \subseteq orphaned'
    /\ r \in toml' => /\ exec'[r].pc \notin {"none", "worker", "copy"}
                      /\ exec'[r].pc \in {"stuck", "done"} => r \in orphaned'
    /\ migFaults' \in Nat
\* ... to its process and its flush, and to the map.
ProcessMoves(r) ==
    /\ child' \in [Runs -> {"none", "alive", "exited"}] /\ killTimer' \in [Runs -> BOOLEAN]
    /\ dialing' \in [Runs -> Nat] /\ flushes' \in [Runs -> Nat]
    /\ \A q \in Runs \ {r} : child'[q] = child[q] /\ flushes'[q] = flushes[q]
SlotsMove(r) ==
    \/ /\ slots' = slots
       /\ exec'[r].pc = "none" => exec[r].pc = "none"
       /\ exec'[r].pc \notin {"none", "stuck", "done"} /\ exec'[r].status # "cancelled"
          => InProgress(r) /\ ~Cancelled(r)
    \/ /\ slots' \in Seq(Runs) /\ Len(slots') <= MaxJobs
       /\ Listed(slots', r)
       /\ exec'[r].pc # "none" /\ \A i \in 1..Len(slots') : slots'[i] = r \/ Listed(slots, slots'[i])
       /\ \A q \in Runs : Listed(slots, q) /\ exec[q].status \notin Terminal => Listed(slots', q)
RunMoves(r) == RecordMoves(r) /\ ProcessMoves(r) /\ SlotsMove(r) /\ OutcomeKept(r)

\* The pre-flush begins: the chain waits for the nodes or for FLUSHALL.
LEMMA BeginFlushBecomes ==
    ASSUME MigTypeOK, NEW r \in Runs, NEW e \in Exec, BeginFlush(r, e)
    PROVE  /\ \E f \in Exec : /\ ExecBecomes(r, f) /\ f.pc \in {"nodes", "flush"}
                              /\ f.status = e.status
           /\ dialing' \in [Runs -> Nat] /\ flushes' \in [Runs -> Nat] /\ child' = child
           /\ \A q \in Runs \ {r} : flushes'[q] = flushes[q]
<1>1. PICK f : f = [e EXCEPT !.pc = IF e.cluster THEN "nodes" ELSE "flush"]
  OBVIOUS
<1>2. f \in Exec /\ f.pc \in {"nodes", "flush"} /\ f.status = e.status
  BY <1>1 DEF Exec, ExecStep
<1>3. ExecBecomes(r, f)
  BY <1>1 DEF BeginFlush
<1>4. QED
  BY <1>2, <1>3 DEF BeginFlush, MigTypeOK

\* A run starts: it is in the map, and its file is whole only if it is going.
LEMMA StartMoves ==
    ASSUME MigInv, NEW r \in Runs, NEW x \in BOOLEAN, NEW b \in BOOLEAN, NEW c \in BOOLEAN,
           StartRedisShake(r, x, b, c) \/ StartCommandMode(r)
    PROVE  RunMoves(r)
<1>0. MigTypeOK /\ MigStoppable /\ exec[r].pc = "none" /\ exec[r].status = "pending" /\ r \notin toml
  BY DEF MigInv, Records, RecordOk, Files, StartRedisShake, StartCommandMode
<1>1. exec'[r].pc # "none" => SlotsMove(r)
  BY <1>0, Admitted DEF StartRedisShake, StartCommandMode, SlotsMove
<1>2. OutcomeKept(r)
  BY <1>0 DEF OutcomeKept, Terminal
<1>3. CASE StartCommandMode(r)
  <2> DEFINE e == [NoExec EXCEPT !.pc = "worker", !.status = "running"]
  <2>1. e \in Exec /\ e.pc = "worker" /\ e.status = "running"
    BY NoExecType DEF Exec, ExecStep, ExecStatus
  <2>2. exec' \in [Runs -> Exec] /\ exec'[r] = e /\ \A q \in Runs : q # r => exec'[q] = exec[q]
    BY <1>0, <1>3, <2>1, BecomesType DEF StartCommandMode
  <2> HIDE DEF e
  <2>3. RecordMoves(r)
    BY <1>0, <1>3, <2>1, <2>2 DEF StartCommandMode, RecordMoves, RecordOk, MigTypeOK
  <2>4. ProcessMoves(r)
    BY <1>0, <1>3 DEF StartCommandMode, ProcessMoves, MigTypeOK, flushVars
  <2>5. QED
    BY <1>1, <1>2, <2>1, <2>2, <2>3, <2>4 DEF RunMoves
<1>4. CASE StartRedisShake(r, x, b, c)
  <2> DEFINE f == [NoExec EXCEPT !.emptyDb = b, !.cluster = c]
  <2>1. f \in Exec /\ f.pc = "none" /\ f.status = "pending"
    BY NoExecType DEF Exec, ExecStep, ExecStatus
  <2>2. /\ [f EXCEPT !.pc = "probe"] \in Exec /\ [f EXCEPT !.pc = "probe"].pc = "probe"
        /\ [f EXCEPT !.pc = "probe"].status = "pending"
        /\ [f EXCEPT !.pc = "stuck"] \in Exec /\ [f EXCEPT !.pc = "stuck"].pc = "stuck"
        /\ [f EXCEPT !.pc = "stuck"].status = "pending"
        /\ Spawned(f) \in Exec /\ Spawned(f).pc = "wait" /\ Spawned(f).status = "running"
    BY <2>1 DEF Exec, ExecStep, ExecStatus, Spawned
  <2>3. PICK e \in Exec :
           /\ ExecBecomes(r, e)
           /\ \/ e.pc \in {"probe", "nodes", "flush"} /\ e.status = "pending"
              \/ e.pc = "wait" /\ e.status = "running"
              \/ e.pc = "stuck" /\ e.status = "pending" /\ (r \in toml' => r \in orphaned')
    <3>1. CASE ExecBecomes(r, [f EXCEPT !.pc = "probe"])
      BY <2>2, <3>1
    <3>2. CASE BeginFlush(r, f)
      <4> HIDE DEF f
      <4>1. PICK g \in Exec : ExecBecomes(r, g) /\ g.pc \in {"nodes", "flush"} /\ g.status = f.status
        BY <1>0, <2>1, <3>2, BeginFlushBecomes
      <4>2. QED
        BY <2>1, <4>1
    <3>3. CASE ExecBecomes(r, Spawned(f))
      BY <2>2, <3>3
    <3>4. CASE ExecBecomes(r, [f EXCEPT !.pc = "stuck"]) /\ (r \in toml' => r \in orphaned')
      BY <2>2, <3>4
    <3>5. QED
      BY <1>0, <1>4, <3>1, <3>2, <3>3, <3>4 DEF StartRedisShake
  <2>4. exec' \in [Runs -> Exec] /\ exec'[r] = e /\ \A q \in Runs : q # r => exec'[q] = exec[q]
    BY <1>0, <2>3, BecomesType
  <2>5. RecordMoves(r)
    BY <1>0, <1>4, <2>3, <2>4 DEF StartRedisShake, RecordMoves, RecordOk, MigFault, MigTypeOK
  <2>6. ProcessMoves(r)
    <3>0. child \in [Runs -> {"none", "alive", "exited"}] /\ killTimer \in [Runs -> BOOLEAN]
      BY <1>0 DEF MigTypeOK
    <3>1. CASE BeginFlush(r, f)
      <4>1. /\ dialing' \in [Runs -> Nat] /\ flushes' \in [Runs -> Nat] /\ child' = child
            /\ \A q \in Runs \ {r} : flushes'[q] = flushes[q]
        BY <1>0, <2>1, <3>1, BeginFlushBecomes
      <4>2. killTimer' = killTimer
        BY <1>4 DEF StartRedisShake
      <4>3. QED
        BY <3>0, <4>1, <4>2 DEF ProcessMoves
    <3>2. CASE UNCHANGED flushVars /\ (UNCHANGED child \/ child' = [child EXCEPT ![r] = "alive"])
      BY <1>0, <1>4, <3>2 DEF StartRedisShake, ProcessMoves, MigTypeOK, flushVars
    <3>3. QED
      BY <1>4, <3>1, <3>2 DEF StartRedisShake
  <2>7. QED
    BY <1>1, <1>2, <2>3, <2>4, <2>5, <2>6 DEF RunMoves
<1>5. QED
  BY <1>3, <1>4

\* A RedisShake chain ends: its status is final and its file is gone, or the
\* deletion failed.
LEMMA FinalizeMoves ==
    ASSUME MigInv, NEW r \in Runs, NEW s \in Terminal, Finalize(r, s)
    PROVE  /\ RecordMoves(r) /\ exec'[r].pc = "done" /\ exec'[r].status = s
<1>1. MigTypeOK /\ exec[r] \in Exec
  BY DEF MigInv, MigTypeOK
<1> DEFINE e == [exec[r] EXCEPT !.pc = "done", !.status = s, !.process = FALSE]
<1>2. e \in Exec /\ e.pc = "done" /\ e.status = s
  BY <1>1 DEF Exec, ExecStep, ExecStatus, Terminal
<1>3. exec' \in [Runs -> Exec] /\ exec'[r] = e /\ \A q \in Runs : q # r => exec'[q] = exec[q]
  BY <1>1, <1>2, BecomesType DEF Finalize
<1> HIDE DEF e
<1>4. QED
  BY <1>1, <1>2, <1>3 DEF Finalize, RecordMoves, RecordOk, MigFault, MigTypeOK

\* A chain gets past its awaits and starts the process.
LEMMA SpawnMoves ==
    ASSUME MigInv, NEW r \in Runs, exec[r].pc \in {"probe", "flush"}, ~Cancelled(r), SpawnStep(r),
           UNCHANGED <<slots, killTimer>>
    PROVE  RunMoves(r)
<1>1. /\ MigTypeOK /\ exec[r] \in Exec /\ exec[r].status \notin Terminal
  BY DEF MigInv, MigTypeOK, Records, RecordOk, Terminal, Cancelled
<1> DEFINE e == Spawned(exec[r])
<1>2. e \in Exec /\ e.pc = "wait" /\ e.status = "running"
  BY <1>1 DEF Exec, ExecStep, ExecStatus, Spawned
<1>3. exec' \in [Runs -> Exec] /\ exec'[r] = e /\ \A q \in Runs : q # r => exec'[q] = exec[q]
  BY <1>1, <1>2, BecomesType DEF SpawnStep
<1> HIDE DEF e
<1>4. RecordMoves(r)
  BY <1>1, <1>2, <1>3 DEF SpawnStep, RecordMoves, RecordOk, MigTypeOK
<1>5. ProcessMoves(r)
  BY <1>1 DEF SpawnStep, ProcessMoves, MigTypeOK, flushVars
<1>6. SlotsMove(r)
  BY <1>2, <1>3 DEF SlotsMove, InProgress
<1>7. QED
  BY <1>1, <1>4, <1>5, <1>6 DEF RunMoves, OutcomeKept

\* A chain that moves to another await, or returns, with its status kept or set.
LEMMA ChainMoves ==
    ASSUME MigInv, NEW r \in Runs, NEW e \in Exec, ExecBecomes(r, e), e.pc # "none",
           exec[r].pc \notin {"none", "done", "stuck"},
           e.status = exec[r].status \/ (exec[r].status \notin Terminal /\ e.status \in Terminal),
           exec[r].status \in Terminal /\ e.pc \in {"nodes", "flush", "copy"} =>
             exec[r].pc = "nodes" /\ e.pc = "flush",
           e.status \in {"completed", "failed"} => e.pc = "done",
           r \notin toml' \/ e.pc \notin {"worker", "copy", "stuck", "done"},
           toml' \subseteq toml, orphaned' = orphaned, migFaults' \in Nat,
           child' = child \/ child' = [child EXCEPT ![r] = "none"], UNCHANGED <<slots, killTimer>>,
           dialing' \in [Runs -> Nat], flushes' \in [Runs -> Nat],
           \A q \in Runs \ {r} : flushes'[q] = flushes[q],
           exec[r].status \in Terminal => flushes' = flushes
    PROVE  RunMoves(r)
<1>1. MigTypeOK
  BY DEF MigInv
<1>2. exec' \in [Runs -> Exec] /\ exec'[r] = e /\ \A q \in Runs : q # r => exec'[q] = exec[q]
  BY <1>1, BecomesType
<1>3. RecordMoves(r)
  BY <1>1, <1>2 DEF RecordMoves, RecordOk, MigTypeOK
<1>4. ProcessMoves(r)
  BY <1>1 DEF ProcessMoves, MigTypeOK
<1>5. SlotsMove(r)
  BY <1>2 DEF SlotsMove, InProgress, Cancelled, Terminal
<1>6. OutcomeKept(r)
  BY <1>1, <1>2 DEF OutcomeKept, MigTypeOK
<1>7. QED
  BY <1>3, <1>4, <1>5, <1>6 DEF RunMoves

\* Every step of a run keeps to RunMoves.
LEMMA RunStep ==
    ASSUME MigInv, NEW r \in Runs,
           \/ \E x, b, c \in BOOLEAN : StartRedisShake(r, x, b, c)
           \/ StartCommandMode(r) \/ StopExecution(r) \/ KillTimerFires(r)
           \/ MigStep(r) \/ ChildExits(r) \/ ShakeFails(r) \/ WorkerFails(r)
    PROVE  RunMoves(r)
<1>0. /\ MigTypeOK /\ RecordOk(exec[r]) /\ exec[r] \in Exec
      /\ exec[r].pc \in {"worker", "copy"} => r \notin toml
      /\ exec[r].pc \in ExecStep /\ exec[r].status \in ExecStatus
  BY DEF MigInv, MigTypeOK, Records, Files, Exec
<1>1. CASE (\E x, b, c \in BOOLEAN : StartRedisShake(r, x, b, c)) \/ StartCommandMode(r)
  BY <1>1, StartMoves
<1>2. CASE StopExecution(r)
  <2> DEFINE e == [exec[r] EXCEPT !.status = "cancelled"]
  <2>1. e \in Exec /\ e.pc = exec[r].pc /\ e.status = "cancelled"
    BY <1>0 DEF Exec, ExecStatus
  <2>2. exec' \in [Runs -> Exec] /\ exec'[r] = e /\ \A q \in Runs \ {r} : exec'[q] = exec[q]
    BY <1>0, <1>2, <2>1 DEF StopExecution, MigTypeOK
  <2>3. exec[r].pc # "none"
    <3>1. PICK i \in 1..Len(slots) : slots[i] = r
      BY <1>2 DEF StopExecution
    <3>2. QED
      BY <3>1 DEF MigInv, Started
  <2> HIDE DEF e
  <2>4. RecordMoves(r)
    BY <1>0, <1>2, <2>1, <2>2, <2>3 DEF StopExecution, RecordMoves, RecordOk, MigInv, Files, MigTypeOK
  <2>5. ProcessMoves(r)
    BY <1>0, <1>2 DEF StopExecution, ProcessMoves, MigTypeOK, Exec, flushVars
  <2>6. QED
    BY <1>2, <2>1, <2>2, <2>4, <2>5 DEF StopExecution, RunMoves, SlotsMove, OutcomeKept, flushVars
<1>3. CASE KillTimerFires(r) \/ ChildExits(r)
  BY <1>0, <1>3 DEF KillTimerFires, ChildExits, RunMoves, RecordMoves, ProcessMoves, SlotsMove,
                    OutcomeKept, InProgress, Cancelled, MigInv, Files, MigTypeOK, flushVars
<1>4. CASE AfterProbe(r) /\ Cancelled(r)
  BY <1>0, <1>4, FinalizeMoves DEF AfterProbe, RunMoves, ProcessMoves, SlotsMove, OutcomeKept,
                                   Cancelled, Terminal, MigTypeOK, flushVars
<1>5. CASE AfterProbe(r) /\ ~Cancelled(r) /\ exec[r].emptyDb
  <2>1. BeginFlush(r, exec[r])
    BY <1>5 DEF AfterProbe
  <2>2. /\ dialing' \in [Runs -> Nat] /\ flushes' \in [Runs -> Nat] /\ child' = child
        /\ \A q \in Runs \ {r} : flushes'[q] = flushes[q]
    BY <1>0, <2>1, BeginFlushBecomes
  <2>3. PICK e \in Exec : ExecBecomes(r, e) /\ e.pc \in {"nodes", "flush"} /\ e.status = exec[r].status
    BY <1>0, <2>1, BeginFlushBecomes
  <2>4. /\ exec[r].status \notin Terminal /\ exec[r].pc = "probe" /\ migFaults \in Nat
        /\ UNCHANGED <<slots, killTimer, toml, migFaults, orphaned>>
    BY <1>0, <1>5 DEF AfterProbe, RecordOk, Cancelled, Terminal, MigTypeOK
  <2>5. QED
    BY <2>2, <2>3, <2>4, ChainMoves DEF Terminal
<1>6. CASE AfterProbe(r) /\ ~Cancelled(r) /\ ~exec[r].emptyDb
  BY <1>6, SpawnMoves DEF AfterProbe
<1>7. CASE AfterFlush(r) /\ Cancelled(r)
  BY <1>0, <1>7, FinalizeMoves DEF AfterFlush, RunMoves, ProcessMoves, SlotsMove, OutcomeKept,
                                   Cancelled, Terminal, MigTypeOK, flushVars
<1>8. CASE AfterFlush(r) /\ ~Cancelled(r)
  BY <1>8, SpawnMoves DEF AfterFlush
<1>9. CASE AfterClose(r)
  <2>1. PICK s \in Terminal : Finalize(r, s) /\ (Cancelled(r) => s = "cancelled")
    BY <1>9 DEF AfterClose, Outcome, Terminal
  <2>2. exec[r].status \in Terminal => exec[r].status = "cancelled"
    BY <1>0, <1>9 DEF AfterClose, RecordOk, Terminal
  <2>3. QED
    BY <1>0, <1>9, <2>1, <2>2, FinalizeMoves DEF AfterClose, RunMoves, ProcessMoves, SlotsMove,
                                                 OutcomeKept, Cancelled, MigTypeOK, flushVars
<1>10. CASE ShakeFails(r)
  <2>1. /\ Outcome(r, "failed") \in ExecStatus
        /\ \/ Outcome(r, "failed") = exec[r].status
           \/ exec[r].status \notin Terminal /\ Outcome(r, "failed") \in Terminal
    BY <1>0, <1>10 DEF ShakeFails, RecordOk, Outcome, Cancelled, Terminal, ExecStatus
  <2> DEFINE e == [exec[r] EXCEPT !.pc = "done", !.status = Outcome(r, "failed"), !.process = FALSE]
  <2>2. /\ ExecBecomes(r, e)
        /\ exec[r].pc \in {"nodes", "flush", "wait"} /\ r \notin toml' /\ toml' \subseteq toml
        /\ flushes' = flushes /\ orphaned' = orphaned /\ UNCHANGED <<slots, killTimer>>
        /\ child' = child \/ child' = [child EXCEPT ![r] = "none"]
    BY <1>0, <1>10 DEF ShakeFails, MigTypeOK
  <2>3. flushes \in [Runs -> Nat] /\ dialing \in [Runs -> Nat] /\ migFaults \in Nat
    BY <1>0 DEF MigTypeOK
  <2>4. /\ migFaults' = migFaults + 1
        /\ dialing' \in {dialing, [dialing EXCEPT ![r] = IF @ > 0 THEN @ - 1 ELSE @]}
    BY <1>10 DEF ShakeFails
  <2>5. migFaults' \in Nat /\ dialing' \in [Runs -> Nat]
    <3>1. dialing[r] \in Nat /\ (IF dialing[r] > 0 THEN dialing[r] - 1 ELSE dialing[r]) \in Nat
      BY <2>3
    <3>2. QED
      BY <2>3, <2>4, <3>1
  <2>6. e \in Exec /\ e.pc = "done" /\ e.status = Outcome(r, "failed")
    BY <1>0, <2>1 DEF Exec, ExecStep
  <2> HIDE DEF e
  <2>7. QED
    BY <2>1, <2>2, <2>3, <2>5, <2>6, ChainMoves
<1>11. CASE WorkerFails(r)
  <2>1. /\ Outcome(r, "failed") \in ExecStatus
        /\ \/ Outcome(r, "failed") = exec[r].status
           \/ exec[r].status \notin Terminal /\ Outcome(r, "failed") \in Terminal
    BY <1>0, <1>11 DEF WorkerFails, RecordOk, Outcome, Cancelled, Terminal, ExecStatus
  <2> DEFINE e == [exec[r] EXCEPT !.pc = "done", !.status = Outcome(r, "failed")]
  <2>2. /\ ExecBecomes(r, e)
        /\ exec[r].pc \in {"worker", "copy"} /\ r \notin toml /\ toml' = toml
        /\ orphaned' = orphaned /\ migFaults' \in Nat /\ UNCHANGED <<slots, killTimer, child>>
        /\ UNCHANGED flushVars /\ dialing' \in [Runs -> Nat] /\ flushes' \in [Runs -> Nat]
    BY <1>0, <1>11 DEF WorkerFails, MigFault, MigTypeOK, flushVars
  <2>3. e \in Exec /\ e.pc = "done" /\ e.status = Outcome(r, "failed")
    BY <1>0, <2>1 DEF Exec, ExecStep
  <2> HIDE DEF e
  <2>4. QED
    BY <2>1, <2>2, <2>3, ChainMoves DEF flushVars
<1>12. CASE Worker(r)
  <2>1. /\ exec[r].pc = "worker" /\ r \notin toml
        /\ exec[r].status \in Terminal => Cancelled(r)
        /\ UNCHANGED <<slots, child, killTimer, toml, migFaults, orphaned>>
        /\ UNCHANGED <<dialing, flushes>> /\ dialing' \in [Runs -> Nat] /\ flushes' \in [Runs -> Nat]
    BY <1>0, <1>12 DEF Worker, RecordOk, Cancelled, Terminal, flushVars, MigTypeOK
  <2>2. ASSUME NEW e \in Exec, ExecBecomes(r, e),
               \/ e.pc = "done" /\ e.status = exec[r].status
               \/ ~Cancelled(r) /\ e.pc = "copy" /\ e.status = exec[r].status
               \/ ~Cancelled(r) /\ e.pc = "done" /\ e.status = "completed"
        PROVE  RunMoves(r)
    <3>1. migFaults' \in Nat /\ (exec[r].status \in {"completed", "failed"} => e.pc = "done")
      BY <1>0, <2>1 DEF MigTypeOK, RecordOk
    <3>2. QED
      BY <2>1, <2>2, <3>1, ChainMoves DEF Terminal
  <2>3. /\ [exec[r] EXCEPT !.pc = "done"] \in Exec
        /\ [exec[r] EXCEPT !.pc = "done"].pc = "done"
        /\ [exec[r] EXCEPT !.pc = "done"].status = exec[r].status
    BY <1>0 DEF Exec, ExecStep
  <2>4. /\ [exec[r] EXCEPT !.pc = "copy"] \in Exec
        /\ [exec[r] EXCEPT !.pc = "copy"].pc = "copy"
        /\ [exec[r] EXCEPT !.pc = "copy"].status = exec[r].status
    BY <1>0 DEF Exec, ExecStep
  <2>5. /\ [exec[r] EXCEPT !.pc = "done", !.status = "completed"] \in Exec
        /\ [exec[r] EXCEPT !.pc = "done", !.status = "completed"].pc = "done"
        /\ [exec[r] EXCEPT !.pc = "done", !.status = "completed"].status = "completed"
    BY <1>0 DEF Exec, ExecStep, ExecStatus
  <2>6. QED
    BY <1>12, <2>2, <2>3, <2>4, <2>5 DEF Worker
<1>13. CASE BatchCopied(r)
  <2> DEFINE e == [exec[r] EXCEPT !.pc = "worker"]
  <2>1. /\ exec[r].pc = "copy" /\ r \notin toml
        /\ UNCHANGED <<slots, child, killTimer, toml, migFaults, orphaned>>
        /\ UNCHANGED <<dialing, flushes>> /\ dialing' \in [Runs -> Nat] /\ flushes' \in [Runs -> Nat]
        /\ ExecBecomes(r, e)
    BY <1>0, <1>13 DEF BatchCopied, flushVars, MigTypeOK
  <2>2. exec[r].status \notin {"completed", "failed"}
    BY <1>0, <2>1 DEF RecordOk
  <2>3. e \in Exec /\ e.pc = "worker" /\ e.status = exec[r].status /\ migFaults \in Nat
    BY <1>0 DEF Exec, ExecStep, MigTypeOK
  <2> HIDE DEF e
  <2>4. QED
    BY <2>1, <2>2, <2>3, ChainMoves
<1>14. CASE NodesListed(r)
  <2> DEFINE e == [exec[r] EXCEPT !.pc = "flush"]
  <2>1. /\ exec[r].pc = "nodes" /\ ExecBecomes(r, e)
        /\ UNCHANGED <<slots, child, killTimer, flushes, toml, migFaults, orphaned>>
        /\ dialing' \in [Runs -> Nat] /\ flushes' \in [Runs -> Nat]
    BY <1>0, <1>14, MigrationAssumption DEF NodesListed, MigTypeOK
  <2>2. exec[r].status \notin {"completed", "failed"}
    BY <1>0, <2>1 DEF RecordOk
  <2>3. e \in Exec /\ e.pc = "flush" /\ e.status = exec[r].status /\ migFaults \in Nat
    BY <1>0 DEF Exec, ExecStep, MigTypeOK
  <2> HIDE DEF e
  <2>4. QED
    BY <2>1, <2>2, <2>3, ChainMoves
<1>15. CASE FlushMaster(r)
  BY <1>0, <1>15 DEF FlushMaster, RunMoves, RecordMoves, ProcessMoves, SlotsMove,
                     OutcomeKept, InProgress, Cancelled, MigInv, Files, MigTypeOK
<1>16. QED
  BY <1>1, <1>2, <1>3, <1>4, <1>5, <1>6, <1>7, <1>8, <1>9, <1>10, <1>11, <1>12, <1>13, <1>14, <1>15
     DEF MigStep, AfterProbe, AfterFlush

-----------------------------------------------------------------------------
(* The invariant *)

\* A step of one run keeps the invariant.
LEMMA RunKeeps ==
    ASSUME MigInv, NEW r \in Runs, RunMoves(r)
    PROVE  MigInv'
<1>1. MigTypeOK /\ Records /\ Files /\ Started /\ MigStoppable
  BY DEF MigInv
<1>2. RecordMoves(r) /\ ProcessMoves(r) /\ SlotsMove(r)
  BY DEF RunMoves
<1>3. slots' \in Seq(Runs)
  BY <1>1, <1>2 DEF SlotsMove, MigTypeOK
<1>4. MigTypeOK'
  BY <1>1, <1>2, <1>3 DEF RecordMoves, ProcessMoves, MigTypeOK
<1>5. Records'
  BY <1>1, <1>2 DEF RecordMoves, Records
<1>6. Files'
  BY <1>1, <1>2 DEF RecordMoves, Files
<1>7. Started'
  <2> SUFFICES ASSUME NEW i \in 1..Len(slots')
               PROVE  exec'[slots'[i]].pc # "none"
    BY DEF Started
  <2>1. slots'[i] \in Runs
    BY <1>3
  <2>2. \A q \in Runs : Listed(slots, q) => exec[q].pc # "none"
    BY <1>1 DEF Started, Listed
  <2>3. CASE slots' = slots /\ (exec'[r].pc = "none" => exec[r].pc = "none")
    BY <1>1, <1>2, <2>1, <2>3 DEF RecordMoves, Started
  <2>4. CASE exec'[r].pc # "none" /\ (slots'[i] = r \/ Listed(slots, slots'[i]))
    BY <1>2, <2>1, <2>2, <2>4 DEF RecordMoves
  <2>5. QED
    BY <1>2, <2>3, <2>4 DEF SlotsMove
<1>8. MigStoppable'
  <2>1. Len(slots') <= MaxJobs
    BY <1>1, <1>2 DEF SlotsMove, MigStoppable
  <2>2. ASSUME NEW q \in Runs, exec'[q].pc \notin {"none", "stuck", "done"}, exec'[q].status # "cancelled"
        PROVE  Listed(slots', q)
    <3>1. CASE q # r
      <4>1. exec'[q] = exec[q] /\ InProgress(q) /\ ~Cancelled(q)
        BY <1>2, <2>2, <3>1 DEF RecordMoves, InProgress, Cancelled
      <4>2. Listed(slots, q)
        BY <1>1, <4>1 DEF MigStoppable, Listed
      <4>3. exec[q].status \notin Terminal
        BY <1>1, <2>2, <4>1 DEF Records, RecordOk, Terminal, InProgress, Cancelled
      <4>4. QED
        BY <1>2, <4>2, <4>3 DEF SlotsMove
    <3>2. CASE q = r
      <4>1. InProgress(r) /\ ~Cancelled(r) => Listed(slots, r)
        BY <1>1 DEF MigStoppable, Listed
      <4>2. QED
        BY <1>2, <2>2, <3>2, <4>1 DEF SlotsMove
    <3>3. QED
      BY <3>1, <3>2
  <2>3. QED
    BY <2>1, <2>2 DEF MigStoppable, InProgress, Cancelled, Listed
<1>9. QED
  BY <1>4, <1>5, <1>6, <1>7, <1>8 DEF MigInv

\* So does the death of the service: every chain is over, the map is empty.
LEMMA CrashKeeps ==
    ASSUME MigInv, MigCrash
    PROVE  /\ MigInv'
           /\ \A r \in Runs : OutcomeKept(r)
<1>1. MigTypeOK /\ Records /\ Files
  BY DEF MigInv
<1>2. ASSUME NEW r \in Runs
      PROVE  /\ exec'[r] \in Exec /\ exec'[r].status = exec[r].status
             /\ exec[r].pc = "none" => exec'[r].pc = "none"
             /\ exec[r].pc # "none" => exec'[r].pc = "done"
  <2>1. exec[r] \in Exec
    BY <1>1 DEF MigTypeOK
  <2>2. CASE exec[r].pc = "none"
    BY <2>1, <2>2 DEF MigCrash
  <2>3. CASE exec[r].pc # "none"
    <3>1. exec'[r] = [exec[r] EXCEPT !.pc = "done", !.process = FALSE]
      BY <2>3 DEF MigCrash
    <3>2. QED
      BY <2>1, <2>3, <3>1 DEF Exec, ExecStep
  <2>4. QED
    BY <2>2, <2>3
<1>3. exec' \in [Runs -> Exec]
  <2>1. DOMAIN exec' = Runs /\ exec' = [r \in Runs |-> exec'[r]]
    BY DEF MigCrash
  <2>2. QED
    BY <1>2, <2>1
<1>4. MigTypeOK'
  <2>0. slots' = <<>> /\ migFaults' = migFaults + 1 /\ UNCHANGED <<child, toml>>
    BY Zenon DEF MigCrash, MigFault
  <2>1. slots' \in Seq(Runs)
    BY <2>0, EmptySeq
  <2>2. killTimer' \in [Runs -> BOOLEAN]
    BY Zenon DEF MigCrash
  <2>3. orphaned' \subseteq Runs
    BY <1>1 DEF MigCrash, MigTypeOK
  <2>4. migFaults' \in Nat
    BY <1>1, <2>0 DEF MigTypeOK
  <2>5. dialing' \in [Runs -> Nat] /\ flushes' \in [Runs -> Nat]
    BY <1>1 DEF MigCrash, MigTypeOK
  <2>6. QED
    BY <1>1, <1>3, <2>0, <2>1, <2>2, <2>3, <2>4, <2>5 DEF MigTypeOK
<1>5. Records'
  BY <1>1, <1>2 DEF Records, RecordOk
<1>6. Files'
  <2> SUFFICES ASSUME NEW r \in toml
               PROVE  /\ exec'[r].pc \notin {"none", "worker", "copy"}
                      /\ exec'[r].pc \in {"stuck", "done"} => r \in orphaned'
    BY DEF MigCrash, Files
  <2>1. r \in Runs /\ exec[r].pc \notin {"none", "worker", "copy"} /\ exec'[r].pc = "done"
    BY <1>1, <1>2 DEF MigTypeOK, Files
  <2>2. r \in orphaned'
    BY <1>1, <2>1 DEF MigCrash, InProgress, Files
  <2>3. QED
    BY <2>1, <2>2
<1>7. Started' /\ MigStoppable'
  <2>1. slots' = <<>> /\ Len(slots') = 0
    BY DEF MigCrash
  <2>2. \A r \in Runs : exec'[r].pc \in {"none", "done"}
    BY <1>2
  <2>3. Started'
    BY <2>1 DEF Started
  <2>4. QED
    BY <2>1, <2>2, <2>3, MigrationAssumption DEF MigStoppable, InProgress
<1>8. \A r \in Runs : OutcomeKept(r)
  BY <1>2 DEF MigCrash, OutcomeKept
<1>9. QED
  BY <1>4, <1>5, <1>6, <1>7, <1>8 DEF MigInv

\* No run has been started initially.
LEMMA MigInvInit == MigInit => MigInv
<1> SUFFICES ASSUME MigInit
             PROVE  MigInv
  OBVIOUS
<1>1. slots = <<>> /\ Len(slots) = 0 /\ slots \in Seq(Runs)
  BY DEF MigInit
<1>2. MigTypeOK /\ Records /\ Files
  BY <1>1, NoExecType DEF MigInit, MigTypeOK, Records, RecordOk, Files
<1>3. Started /\ MigStoppable
  BY <1>1, NoExecType, MigrationAssumption DEF MigInit, Started, MigStoppable, InProgress
<1>4. QED
  BY <1>2, <1>3 DEF MigInv

\* Every step keeps the invariant, and every outcome.
LEMMA MigInvStep ==
    ASSUME MigInv, [MigNext]_migVars
    PROVE  MigInv' /\ \A r \in Runs : OutcomeKept(r)
<1>1. ASSUME NEW r \in Runs, RunMoves(r)
      PROVE  \A q \in Runs : OutcomeKept(q)
  BY <1>1 DEF RunMoves, RecordMoves, ProcessMoves, OutcomeKept
<1>2. CASE UNCHANGED migVars
  <2>1. MigInv'
    BY <1>2 DEF migVars, MigInv, MigTypeOK, Records, Files, Started, MigStoppable, InProgress, Cancelled
  <2>2. QED
    BY <1>2, <2>1 DEF migVars, OutcomeKept
<1>3. CASE MigCrash
  BY <1>3, CrashKeeps
<1>4. CASE MigNext /\ ~MigCrash
  BY <1>1, <1>4, RunStep, RunKeeps DEF MigNext
<1>5. QED
  BY <1>2, <1>3, <1>4

-----------------------------------------------------------------------------
(* The theorems *)

\* The inductive invariant: types, records and outcomes, files, the map.
THEOREM MigrationInvariant == MigSpec => []MigInv
<1>1. MigInv /\ [MigNext]_migVars => MigInv'
  BY MigInvStep
<1>2. QED
  BY <1>1, MigInvInit, PTL DEF MigSpec

\* The records, the map, the processes and the files stay well typed.
THEOREM MigrationTypes == MigSpec => []MigTypeOK
<1>1. MigInv => MigTypeOK
  BY DEF MigInv
<1>2. QED
  BY <1>1, MigrationInvariant, PTL

\* The map never exceeds MAX_JOBS, and eviction never takes a run whose work
\* goes on, so that stopExecution finds it.
THEOREM RunsStoppable == MigSpec => []MigStoppable
<1>1. MigInv => MigStoppable
  BY DEF MigInv
<1>2. QED
  BY <1>1, MigrationInvariant, PTL

\* The configuration file with the credentials goes with its run, on every
\* way out of runRedisShake.
THEOREM FilesCleanedUp == MigSpec => []MigCleanedUp
<1>1. ASSUME MigInv, NEW r \in toml
      PROVE  InProgress(r) \/ r \in orphaned
  BY <1>1 DEF MigInv, Files, InProgress
<1>2. MigInv => MigCleanedUp
  BY <1>1 DEF MigCleanedUp
<1>3. QED
  BY <1>2, MigrationInvariant, PTL

\* An outcome is final and a cancelled run enters no pre-flush and starts no
\* process or batch, wherever between the awaits the stop falls; what FLUSHALL
\* is still sent belongs to a pre-flush whose connections were being opened.
THEOREM CancelHolds == MigSpec => MigCancelHolds
<1>1. MigInv /\ [MigNext]_migVars =>
        [\A r \in Runs : exec[r].status \in Terminal =>
           /\ exec'[r].status = exec[r].status
           /\ child'[r] = "alive" => child[r] = "alive"
           /\ exec'[r].pc = "copy" => exec[r].pc = "copy"
           /\ exec'[r].pc \in {"nodes", "flush"} => exec[r].pc \in {"nodes", "flush"}
           /\ flushes'[r] # flushes[r] => dialing[r] > 0]_migVars
  BY MigInvStep DEF OutcomeKept
<1>2. QED
  BY <1>1, MigrationInvariant, PTL DEF MigSpec, MigCancelHolds
=============================================================================
