-------------------------- MODULE BulkDeleteProofs --------------------------
(***************************************************************************)
(* Proofs about BulkDelete, for any number of jobs, databases, nodes and   *)
(* faults, any finite set of keys and any limits.                          *)
(***************************************************************************)
EXTENDS BulkDelete, FiniteSetTheorems, TLAPS

-----------------------------------------------------------------------------
(* The inductive invariant *)

Walk == {"scan", "unlink", "batch"}

\* The counters of a job with record r, given the keys R it matched, the keys
\* P its database still holds and the late batches n.
CountersOk(r, P, R, n) ==
    /\ r.matched <= r.limit /\ Cardinality(R) <= r.matched
    /\ n \in {0, 1}
    \* A key that was matched, is still there and is in no batch under way was
    \* not deleted, so the counters differ.
    /\ r.status # "failed" =>
         /\ r.deleted + Cardinality(r.batch) <= r.matched
         /\ (R \cap P) \ r.batch # {} => r.deleted + Cardinality(r.batch) < r.matched

\* The walk of a job whose nodes held the keys b when it began: every key that
\* is still there was matched, has yet to be returned by this node's SCAN, or
\* is on a node to come.
WalkOk(r, P, b, R) ==
    /\ ~r.truncated => \A k \in b \cap P : k \in R \/ k \in r.unseen \/ KeyHome[k] \in r.todo
    /\ r.cursorEnd => r.unseen \cap P = {}

\* A record at the top of the loop, where nothing is in a batch.
AtLoopTop(r, P, b, R, n) ==
    /\ CountersOk(r, P, R, n) /\ WalkOk(r, P, b, R)
    /\ r.status = "running" /\ ~r.cancelled /\ r.batch = {}
    /\ n = 1 => r.cancelRequested

JobOk(r, P, b, R, n) ==
    /\ CountersOk(r, P, R, n)
    /\ r.pc = "none" => r = NoJob /\ R = {} /\ n = 0
    /\ r.pc \in {"targets"} \cup Walk => r.status = "running" /\ ~r.cancelled
    /\ r.pc \in {"targets", "scan", "batch"} \/ r.status # "running" => r.batch = {}
    /\ n = 1 => r.cancelRequested /\ r.pc \in {"batch", "audit", "done"}
    /\ r.pc \in Walk => WalkOk(r, P, b, R)
    /\ r.status = "completed" /\ r.pc # "none" /\ ~r.truncated => b \cap P \subseteq R
JobsOk == \A j \in Jobs : JobOk(job[j], present[job[j].db], base[j], reported[j], late[j])

\* The audit row of a job: a run that was never started has none, an outcome
\* is written last, and while the process is down nothing is under way.
Outcomes == {"completed", "cancelled", "failed"}
AuditOk(r, a, f) ==
    /\ r.pc = "none" => a.status = "none" /\ f = "none"
    /\ a.status \in Outcomes => r.pc = "done" /\ f # "pending"
AuditsOk ==
    /\ \A j \in Jobs : AuditOk(job[j], auditRow[j], firstWrite[j])
    /\ ~bulkUp => \A j \in Jobs : job[j].pc \in {"none", "done"} /\ firstWrite[j] # "pending"

BulkInv == BulkTypeOK /\ JobsOk /\ AuditsOk

-----------------------------------------------------------------------------
(* The records of a job *)

\* The record of a job that was never started.
LEMMA NoJobType == NoJob \in Job
  BY BulkAssumption DEF NoJob, Job, JobStep, JobStatus

\* runJob's last part keeps the counters and what they are about.
LEMMA EndedRecord ==
    ASSUME NEW r \in Job, NEW s \in JobStatus
    PROVE  /\ Ended(r, s) \in Job /\ Ended(r, s).status = s
           /\ Ended(r, s).pc \in {"audit", "done"} /\ Ended(r, s).batch = {}
           /\ Ended(r, s).matched = r.matched /\ Ended(r, s).deleted = r.deleted
           /\ Ended(r, s).limit = r.limit /\ Ended(r, s).db = r.db
           /\ Ended(r, s).cancelRequested = r.cancelRequested
           /\ Ended(r, s).truncated = r.truncated
  BY BulkAssumption DEF Ended, Job, JobStep, JobStatus

\* A finite set of keys has a size; part of it has less.
LEMMA KeySets ==
    ASSUME NEW A \in SUBSET Keys, NEW B \in SUBSET A
    PROVE  /\ IsFiniteSet(A) /\ Cardinality(A) \in Nat
           /\ IsFiniteSet(B) /\ Cardinality(B) \in Nat /\ Cardinality(B) <= Cardinality(A)
           /\ Cardinality(B) = Cardinality(A) => B = A
<1>1. IsFiniteSet(A)
  BY BulkAssumption, FS_Subset
<1>2. IsFiniteSet(B) /\ Cardinality(B) <= Cardinality(A) /\ (Cardinality(B) = Cardinality(A) => B = A)
  BY <1>1, FS_Subset
<1>3. QED
  BY <1>1, <1>2, FS_CardinalityType

\* A union is no larger than its parts together.
LEMMA KeyUnion ==
    ASSUME NEW A \in SUBSET Keys, NEW B \in SUBSET Keys
    PROVE  Cardinality(A \cup B) <= Cardinality(A) + Cardinality(B)
<1>1. IsFiniteSet(A) /\ IsFiniteSet(B) /\ Cardinality(A) \in Nat /\ Cardinality(B) \in Nat
  BY KeySets
<1>2. A \cap B \in SUBSET Keys
  OBVIOUS
<1>3. Cardinality(A \cap B) \in Nat
  BY <1>2, KeySets
<1>4. Cardinality(A \cup B) = Cardinality(A) + Cardinality(B) - Cardinality(A \cap B)
  BY <1>1, FS_Union
<1>5. QED
  BY <1>1, <1>3, <1>4

\* A stopped walk: cancelled, truncated, or with nothing left unmatched.
LEMMA StoppedOk ==
    ASSUME NEW r \in Job, NEW P, NEW b, NEW R, NEW n, CountersOk(r, P, R, n),
           r.status = "running", r.batch = {}, n = 1 => r.cancelRequested,
           r.cancelled \/ r.truncated \/ b \cap P \subseteq R
    PROVE  /\ Stopped(r) \in Job /\ JobOk(Stopped(r), P, b, R, n)
           /\ Stopped(r).db = r.db /\ Stopped(r).pc \in {"audit", "done"}
<1>1. PICK s \in JobStatus : /\ s = (IF r.cancelled THEN "cancelled" ELSE "completed")
                             /\ s \in {"cancelled", "completed"}
                             /\ r.cancelled => s = "cancelled"
  BY DEF JobStatus
<1>2. Stopped(r) = Ended(r, s)
  BY <1>1 DEF Stopped
<1>3. PICK e \in Job : e = Ended(r, s)
  BY EndedRecord
<1>4. /\ e.status = s /\ e.pc \in {"audit", "done"} /\ e.batch = {}
      /\ e.matched = r.matched /\ e.deleted = r.deleted /\ e.limit = r.limit /\ e.db = r.db
      /\ e.cancelRequested = r.cancelRequested /\ e.truncated = r.truncated
  BY <1>3, EndedRecord
<1>5. CountersOk(e, P, R, n)
  BY <1>1, <1>4 DEF CountersOk
<1>6. JobOk(e, P, b, R, n)
  BY <1>1, <1>4, <1>5 DEF JobOk, Walk
<1>7. QED
  BY <1>2, <1>3, <1>4, <1>6

\* The top of the loop: cancelled, truncated, or on to the next SCAN.
LEMMA LoopTopOk ==
    ASSUME NEW r \in Job, NEW P, NEW b, NEW R, NEW n, AtLoopTop(r, P, b, R, n)
    PROVE  /\ LoopTop(r) \in Job /\ JobOk(LoopTop(r), P, b, R, n)
           /\ LoopTop(r).db = r.db /\ LoopTop(r).pc # "none"
<1>1. CASE r.cancelRequested
  <2>1. PICK c : c = [r EXCEPT !.cancelled = TRUE]
    OBVIOUS
  <2>2. /\ c \in Job /\ c.cancelled /\ c.status = r.status /\ c.batch = r.batch
        /\ c.matched = r.matched /\ c.deleted = r.deleted /\ c.limit = r.limit /\ c.db = r.db
        /\ c.cancelRequested = r.cancelRequested
    BY <2>1 DEF Job
  <2>3. LoopTop(r) = Stopped(c)
    BY <1>1, <2>1 DEF LoopTop
  <2>4. CountersOk(c, P, R, n)
    BY <2>2 DEF AtLoopTop, CountersOk
  <2>5. QED
    BY <2>2, <2>3, <2>4, StoppedOk DEF AtLoopTop
<1>2. CASE ~r.cancelRequested /\ r.limit <= r.matched
  <2>1. PICK c : c = [r EXCEPT !.truncated = TRUE]
    OBVIOUS
  <2>2. /\ c \in Job /\ c.truncated /\ c.status = r.status /\ c.batch = r.batch
        /\ c.matched = r.matched /\ c.deleted = r.deleted /\ c.limit = r.limit /\ c.db = r.db
        /\ c.cancelRequested = r.cancelRequested
    BY <2>1 DEF Job
  <2>3. LoopTop(r) = Stopped(c)
    BY <1>2, <2>1 DEF LoopTop
  <2>4. CountersOk(c, P, R, n)
    BY <2>2 DEF AtLoopTop, CountersOk
  <2>5. QED
    BY <2>2, <2>3, <2>4, StoppedOk DEF AtLoopTop
<1>3. CASE ~r.cancelRequested /\ ~(r.limit <= r.matched)
  <2>1. PICK c : c = [r EXCEPT !.pc = "scan"]
    OBVIOUS
  <2>2. /\ c \in Job /\ c.pc = "scan" /\ c.status = r.status /\ c.batch = r.batch
        /\ c.matched = r.matched /\ c.deleted = r.deleted /\ c.limit = r.limit /\ c.db = r.db
        /\ c.cancelRequested = r.cancelRequested /\ c.cancelled = r.cancelled
        /\ c.truncated = r.truncated /\ c.todo = r.todo /\ c.unseen = r.unseen
        /\ c.cursorEnd = r.cursorEnd
    BY <2>1 DEF Job, JobStep
  <2>3. LoopTop(r) = c
    BY <1>3, <2>1 DEF LoopTop
  <2>4. CountersOk(c, P, R, n) /\ WalkOk(c, P, b, R)
    BY <2>2 DEF AtLoopTop, CountersOk, WalkOk
  <2>5. JobOk(c, P, b, R, n)
    BY <1>3, <2>2, <2>4 DEF AtLoopTop, JobOk, Walk
  <2>6. QED
    BY <2>2, <2>3, <2>5
<1>4. QED
  BY <1>1, <1>2, <1>3

\* A record between two nodes.
BetweenNodes(r, P, b, R, n) ==
    /\ CountersOk(r, P, R, n)
    /\ r.status = "running" /\ ~r.cancelled /\ r.batch = {}
    /\ n = 1 => r.cancelRequested
    /\ ~r.truncated => \A k \in b \cap P : k \in R \/ KeyHome[k] \in r.todo

\* Turning to a node: its keys are to be returned by the SCAN that begins.
LEMMA VisitOk ==
    ASSUME BulkTypeOK, NEW r \in Job, NEW P, P = present[r.db], NEW b, NEW R, NEW n,
           NEW m \in Primaries, BetweenNodes(r, P, b, R, n)
    PROVE  /\ Visit(r, m) \in Job /\ JobOk(Visit(r, m), P, b, R, n)
           /\ Visit(r, m).db = r.db /\ Visit(r, m).pc # "none"
<1>1. PICK u, t : u = OnNode(r.db, m) /\ t = r.todo \ {m}
  OBVIOUS
<1>2. u \in SUBSET Keys /\ t \in SUBSET Primaries
  BY <1>1 DEF OnNode, BulkTypeOK, Job
<1>3. PICK c : c = [r EXCEPT !.todo = t, !.node = m, !.cursorEnd = FALSE, !.unseen = u]
  OBVIOUS
<1>4. /\ c \in Job /\ c.status = r.status /\ c.batch = r.batch
      /\ c.matched = r.matched /\ c.deleted = r.deleted /\ c.limit = r.limit /\ c.db = r.db
      /\ c.cancelRequested = r.cancelRequested /\ c.cancelled = r.cancelled
      /\ c.truncated = r.truncated /\ c.todo = t /\ c.unseen = u /\ c.cursorEnd = FALSE
  BY <1>2, <1>3 DEF Job
<1>5. Visit(r, m) = LoopTop(c)
  BY <1>1, <1>3 DEF Visit
<1>6. WalkOk(c, P, b, R)
  BY <1>1, <1>4 DEF BetweenNodes, WalkOk, OnNode
<1>7. CountersOk(c, P, R, n)
  BY <1>4 DEF BetweenNodes, CountersOk
<1>8. AtLoopTop(c, P, b, R, n)
  BY <1>4, <1>6, <1>7 DEF BetweenNodes, AtLoopTop
<1>9. QED
  BY <1>4, <1>5, <1>8, LoopTopOk

\* What maxKeys leaves, or what was found.
LEMMA MinOfTwo ==
    ASSUME NEW x \in Nat, NEW y \in Nat
    PROVE  /\ Min({x, y}) \in Nat /\ Min({x, y}) <= x /\ Min({x, y}) <= y
           /\ x <= y => Min({x, y}) = x
<1>1. \E z \in {x, y} : \A w \in {x, y} : z =< w
  <2>1. CASE x <= y
    BY <2>1
  <2>2. CASE ~(x <= y)
    BY <2>2
  <2>3. QED
    BY <2>1, <2>2
<1>2. Min({x, y}) \in {x, y} /\ \A w \in {x, y} : Min({x, y}) =< w
  BY <1>1 DEF Min
<1>3. QED
  BY <1>2

\* Keys leave a database, by whatever hand: what is known of a job stays true.
LEMMA JobShrinks ==
    ASSUME NEW r, NEW P, NEW Q \in SUBSET P, NEW b, NEW R, NEW n, JobOk(r, P, b, R, n)
    PROVE  JobOk(r, Q, b, R, n)
<1>1. CountersOk(r, Q, R, n)
  BY DEF JobOk, CountersOk
<1>2. r.pc \in Walk => WalkOk(r, Q, b, R)
  BY DEF JobOk, WalkOk
<1>3. QED
  BY <1>1, <1>2 DEF JobOk

\* c is r after the keys found, of which taken were kept.
ScannedTo(r, P, found, taken, end, c) ==
    /\ found \subseteq P /\ taken \subseteq found /\ end \in BOOLEAN
    /\ end => r.unseen \cap P \subseteq found
    /\ Taken(r, found, taken)
    /\ c.status = r.status /\ c.limit = r.limit /\ c.deleted = r.deleted
    /\ c.cancelled = r.cancelled /\ c.cancelRequested = r.cancelRequested /\ c.todo = r.todo
    /\ c.cursorEnd = end /\ c.unseen = r.unseen \ found
    /\ c.batch = (IF r.mode = "execute" THEN taken ELSE {})
    /\ c.matched = r.matched + Cardinality(taken)
    /\ c.truncated <=> (r.truncated \/ Cardinality(found) > r.limit - r.matched)
    /\ c.pc = (IF r.mode = "execute" /\ taken # {} THEN "unlink" ELSE "batch")

\* A SCAN reply: what is cut off is admitted by truncated, what is taken is
\* within the limit.
LEMMA ScanOk ==
    ASSUME NEW r \in Job, NEW P \in SUBSET Keys, NEW b, NEW R \in SUBSET Keys, NEW n,
           JobOk(r, P, b, R, n), r.pc = "scan",
           NEW found, NEW taken, NEW end, NEW c \in Job, ScannedTo(r, P, found, taken, end, c)
    PROVE  JobOk(c, P, b, R \cup taken, n)
<1> USE DEF ScannedTo
<1>1. PICK F \in Nat, T \in Nat, rest \in Nat :
         /\ F = Cardinality(found) /\ T = Cardinality(taken) /\ rest = r.limit - r.matched
         /\ T <= F /\ T <= rest /\ (F <= rest => taken = found)
  <2>1. /\ Cardinality(found) \in Nat /\ Cardinality(taken) \in Nat
        /\ Cardinality(taken) <= Cardinality(found)
        /\ Cardinality(taken) = Cardinality(found) => taken = found
    BY KeySets
  <2>2. r.limit - r.matched \in Nat
    <3>1. r.limit \in Nat /\ r.matched \in Nat
      BY BulkAssumption DEF Job
    <3>2. r.matched <= r.limit
      BY DEF JobOk, CountersOk
    <3>3. QED
      BY <3>1, <3>2
  <2>3. Cardinality(taken) = Min({Cardinality(found), r.limit - r.matched})
    BY DEF Taken
  <2>4. /\ Cardinality(taken) <= r.limit - r.matched
        /\ Cardinality(found) <= r.limit - r.matched => Cardinality(taken) = Cardinality(found)
    BY <2>1, <2>2, <2>3, MinOfTwo
  <2>5. QED
    BY <2>1, <2>2, <2>4
<1>2. PICK x \in SUBSET Keys, u \in SUBSET Keys, mt \in Nat :
         /\ x = (IF r.mode = "execute" THEN taken ELSE {}) /\ u = r.unseen \ found /\ mt = r.matched + T
         /\ c.batch = x /\ c.unseen = u /\ c.matched = mt
  BY <1>1 DEF Job
<1>3. c.truncated <=> (r.truncated \/ F > rest)
  BY <1>1
<1>5. /\ r.status = "running" /\ r.batch = {} /\ ~r.cancelled /\ n = 0
      /\ CountersOk(r, P, R, n) /\ WalkOk(r, P, b, R)
  BY DEF JobOk, Walk, CountersOk
<1>6. /\ r.limit \in Nat /\ r.matched \in Nat /\ r.deleted \in Nat /\ Cardinality(R) \in Nat
      /\ r.deleted <= r.matched /\ (R \cap P # {} => r.deleted < r.matched)
  <2>1. Cardinality(r.batch) = 0
    BY <1>5, FS_EmptySet
  <2>2. r.limit \in Nat /\ r.matched \in Nat /\ r.deleted \in Nat /\ Cardinality(R) \in Nat
    BY KeySets, BulkAssumption DEF Job
  <2>3. QED
    BY <1>5, <2>1, <2>2 DEF CountersOk
<1>7. Cardinality(R \cup taken) <= mt /\ Cardinality(R \cup taken) \in Nat
  <2>1. taken \in SUBSET Keys /\ R \cup taken \in SUBSET Keys
    OBVIOUS
  <2>2. Cardinality(R \cup taken) <= Cardinality(R) + T /\ Cardinality(R \cup taken) \in Nat
    BY <1>1, <2>1, KeyUnion, KeySets
  <2>3. QED
    BY <1>1, <1>2, <1>5, <1>6, <2>2 DEF CountersOk
<1>8. /\ r.deleted + Cardinality(x) <= mt
      /\ ((R \cup taken) \cap P) \ x # {} => r.deleted + Cardinality(x) < mt
  <2>1. Cardinality({}) = 0 /\ (taken # {} => T > 0)
    BY <1>1, FS_EmptySet, KeySets
  <2>2. CASE r.mode = "execute"
    BY <1>1, <1>2, <1>6, <2>2
  <2>3. CASE r.mode # "execute"
    BY <1>1, <1>2, <1>6, <2>1, <2>3
  <2>4. QED
    BY <2>2, <2>3
<1>9. CountersOk(c, P, R \cup taken, n)
  BY <1>1, <1>2, <1>5, <1>6, <1>7, <1>8 DEF CountersOk
<1>10. WalkOk(c, P, b, R \cup taken)
  <2>1. ASSUME ~c.truncated, NEW k \in b \cap P
        PROVE  k \in R \cup taken \/ k \in u \/ KeyHome[k] \in r.todo
    <3>1. ~r.truncated /\ taken = found
      BY <1>1, <1>3, <2>1
    <3>2. QED
      BY <1>2, <1>5, <2>1, <3>1 DEF WalkOk
  <2>2. end => u \cap P = {}
    BY <1>2
  <2>3. QED
    BY <1>2, <2>1, <2>2 DEF WalkOk
<1>11. c.pc \in {"unlink", "batch"} /\ (c.pc = "batch" => x = {})
  BY <1>2
<1>12. QED
  BY <1>5, <1>9, <1>10, <1>11 DEF JobOk, Walk

\* c is r after the keys gone were removed, and m counts the late batches.
UnlinkedTo(r, P, n, gone, counted, c, m) ==
    /\ gone \subseteq r.batch \cap P /\ counted \in 0..Cardinality(gone)
    /\ c = [r EXCEPT !.deleted = r.deleted + counted, !.batch = {}, !.pc = "batch"]
    /\ m = IF r.cancelRequested /\ gone # {} THEN n + 1 ELSE n

\* The UNLINK replies: a key that stays is a key not counted.
LEMMA UnlinkOk ==
    ASSUME NEW r \in Job, NEW P \in SUBSET Keys, NEW b, NEW R \in SUBSET Keys, NEW n,
           JobOk(r, P, b, R, n), r.pc = "unlink",
           NEW gone, NEW counted, NEW c, NEW m, UnlinkedTo(r, P, n, gone, counted, c, m)
    PROVE  c \in Job /\ c.db = r.db /\ c.pc # "none" /\ JobOk(c, P \ gone, b, R, m)
<1> USE DEF UnlinkedTo
<1>1. PICK G \in Nat, B \in Nat : /\ G = Cardinality(gone) /\ B = Cardinality(r.batch)
                                  /\ G <= B /\ (gone # r.batch => G < B)
  <2>1. r.batch \in SUBSET Keys /\ gone \in SUBSET r.batch
    BY DEF Job
  <2>2. QED
    BY <2>1, KeySets
<1>2. PICK del \in Nat : del = r.deleted + counted
  BY <1>1 DEF Job
<1>3. /\ c \in Job /\ c.db = r.db /\ c.status = r.status /\ c.limit = r.limit /\ c.deleted = del
      /\ c.cancelled = r.cancelled /\ c.cancelRequested = r.cancelRequested /\ c.todo = r.todo
      /\ c.cursorEnd = r.cursorEnd /\ c.unseen = r.unseen /\ c.batch = {} /\ c.matched = r.matched
      /\ c.truncated = r.truncated /\ c.pc = "batch"
  BY <1>2 DEF Job, JobStep
<1>4. /\ r.status = "running" /\ ~r.cancelled /\ n = 0
      /\ CountersOk(r, P, R, n) /\ WalkOk(r, P, b, R)
  BY DEF JobOk, Walk, CountersOk
<1>5. m \in {0, 1} /\ (m = 1 => r.cancelRequested)
  BY <1>4
<1>6. r.matched \in Nat /\ r.deleted \in Nat /\ Cardinality({}) = 0
  BY FS_EmptySet DEF Job
<1>7. del <= r.matched /\ (R \cap (P \ gone) # {} => del < r.matched)
  <2>1. del <= r.deleted + G /\ r.deleted + B <= r.matched
    BY <1>1, <1>2, <1>4, <1>6 DEF CountersOk
  <2>2. ASSUME NEW k \in R \cap (P \ gone)
        PROVE  del < r.matched
    <3>1. CASE k \in r.batch
      <4>1. G < B
        BY <1>1, <2>2, <3>1
      <4>2. QED
        BY <1>1, <1>2, <1>6, <2>1, <4>1
    <3>2. CASE k \notin r.batch
      <4>1. r.deleted + B < r.matched
        BY <1>1, <1>4, <2>2, <3>2 DEF CountersOk
      <4>2. QED
        BY <1>1, <1>2, <1>6, <2>1, <4>1
    <3>3. QED
      BY <3>1, <3>2
  <2>3. QED
    BY <1>1, <1>2, <1>6, <2>1, <2>2
<1>8. CountersOk(c, P \ gone, R, m)
  BY <1>3, <1>4, <1>5, <1>6, <1>7 DEF CountersOk
<1>9. WalkOk(c, P \ gone, b, R)
  BY <1>3, <1>4 DEF WalkOk
<1>10. JobOk(c, P \ gone, b, R, m)
  BY <1>3, <1>4, <1>5, <1>8, <1>9 DEF JobOk, Walk
<1>11. QED
  BY <1>3, <1>5, <1>10

\* A command throws: the counters stay what they are, and the run is failed.
LEMMA FailedOk ==
    ASSUME NEW r \in Job, NEW P, NEW b, NEW R, NEW n, JobOk(r, P, b, R, n), NEW d
    PROVE  /\ Ended(r, "failed") \in Job /\ JobOk(Ended(r, "failed"), P, d, R, n)
           /\ Ended(r, "failed").db = r.db /\ Ended(r, "failed").pc # "none"
<1>1. PICK e : e = Ended(r, "failed")
  OBVIOUS
<1>2. /\ e \in Job /\ e.status = "failed" /\ e.pc \in {"audit", "done"} /\ e.batch = {}
      /\ e.matched = r.matched /\ e.limit = r.limit /\ e.db = r.db
      /\ e.cancelRequested = r.cancelRequested
  <2>1. "failed" \in JobStatus
    BY DEF JobStatus
  <2>2. QED
    BY <1>1, <2>1, EndedRecord
<1>3. CountersOk(e, P, R, n)
  BY <1>2 DEF CountersOk, JobOk
<1>4. JobOk(e, P, d, R, n)
  BY <1>2, <1>3 DEF JobOk, Walk
<1>5. QED
  BY <1>1, <1>2, <1>4

-----------------------------------------------------------------------------
(* The steps *)

\* An outcome in the audit table stays.
Settles == \A j \in Jobs : auditRow[j].status \in Outcomes => auditRow'[j] = auditRow[j]

\* A step of one job's chain that writes no audit row: every other job keeps
\* its record, and may only see keys disappear.
LEMMA ChainMoves ==
    ASSUME BulkInv, bulkUp, NEW j \in Jobs, NEW c \in Job, Becomes(j, c),
           UNCHANGED <<jobs, auditRow, firstWrite, bulkUp>>, bulkFaults' \in Nat,
           job[j].pc # "none", c.pc # "none", job[j].pc = "done" => c.pc = "done",
           present' \in [Databases -> SUBSET Keys],
           \A d \in Databases : present'[d] \subseteq present[d],
           base' \in [Jobs -> SUBSET Keys], reported' \in [Jobs -> SUBSET Keys],
           late' \in [Jobs -> Nat],
           \A i \in Jobs \ {j} : base'[i] = base[i] /\ reported'[i] = reported[i] /\ late'[i] = late[i],
           JobOk(c, present'[c.db], base'[j], reported'[j], late'[j])
    PROVE  BulkInv' /\ Settles
<1>1. job' \in [Jobs -> Job] /\ job'[j] = c /\ \A i \in Jobs \ {j} : job'[i] = job[i]
  BY DEF Becomes, BulkInv, BulkTypeOK
<1>2. BulkTypeOK'
  BY <1>1 DEF BulkInv, BulkTypeOK
<1>3. JobsOk'
  <2>1. ASSUME NEW i \in Jobs
        PROVE  JobOk(job'[i], present'[job'[i].db], base'[i], reported'[i], late'[i])
    <3>1. CASE i = j
      BY <1>1, <3>1
    <3>2. CASE i # j
      <4>1. /\ job'[i] = job[i] /\ base'[i] = base[i] /\ reported'[i] = reported[i] /\ late'[i] = late[i]
        BY <1>1, <3>2
      <4>2. job[i].db \in Databases
        BY DEF BulkInv, BulkTypeOK, Job
      <4>3. present'[job[i].db] \in SUBSET present[job[i].db]
        BY <4>2
      <4>4. JobOk(job[i], present[job[i].db], base[i], reported[i], late[i])
        BY DEF BulkInv, JobsOk
      <4>5. JobOk(job[i], present'[job[i].db], base[i], reported[i], late[i])
        BY <4>3, <4>4, JobShrinks
      <4>6. QED
        BY <4>1, <4>5
    <3>3. QED
      BY <3>1, <3>2
  <2>2. QED
    BY <2>1 DEF JobsOk
<1>4. AuditsOk'
  <2>1. ASSUME NEW i \in Jobs
        PROVE  AuditOk(job'[i], auditRow[i], firstWrite[i])
    BY <1>1 DEF BulkInv, AuditsOk, AuditOk
  <2>2. QED
    BY <2>1 DEF AuditsOk
<1>5. QED
  BY <1>2, <1>3, <1>4 DEF BulkInv, Settles

\* What the invariant says of one job.
LEMMA OneJob ==
    ASSUME BulkInv, NEW j \in Jobs
    PROVE  /\ job[j] \in Job /\ job[j].db \in Databases /\ present[job[j].db] \in SUBSET Keys
           /\ base[j] \in SUBSET Keys /\ reported[j] \in SUBSET Keys /\ late[j] \in Nat
           /\ JobOk(job[j], present[job[j].db], base[j], reported[j], late[j])
           /\ AuditOk(job[j], auditRow[j], firstWrite[j])
<1>1. job[j] \in Job
  BY DEF BulkInv, BulkTypeOK
<1>2. job[j].db \in Databases
  BY <1>1 DEF Job
<1>3. QED
  BY <1>1, <1>2 DEF BulkInv, BulkTypeOK, JobsOk, AuditsOk

\* startJob
LEMMA StartJobStep ==
    ASSUME BulkInv, NEW j \in Jobs, NEW d \in Databases, NEW mode \in {"dry-run", "execute"},
           NEW limit \in Limits, StartJob(j, d, mode, limit)
    PROVE  BulkInv' /\ Settles
<1>1. PICK c : c = [NoJob EXCEPT !.pc = "targets", !.db = d, !.mode = mode,
                                 !.status = "running", !.limit = limit]
  OBVIOUS
<1>2. /\ c \in Job /\ c.pc = "targets" /\ c.status = "running" /\ c.limit = limit /\ c.db = d
      /\ c.matched = 0 /\ c.deleted = 0 /\ c.batch = {} /\ ~c.cancelled
  BY <1>1, BulkAssumption DEF NoJob, Job, JobStep, JobStatus
<1>3. /\ bulkUp /\ job[j].pc = "none" /\ Becomes(j, c)
      /\ jobs' \subseteq Jobs
      /\ firstWrite' = [firstWrite EXCEPT ![j] = IF mode = "execute" THEN "pending" ELSE "none"]
      /\ UNCHANGED <<auditRow, present, bulkUp, bulkFaults, base, reported, late>>
  BY <1>1 DEF StartJob, PruneJobs, Finished, bulkHistory, BulkInv, BulkTypeOK
<1>4. job' \in [Jobs -> Job] /\ job'[j] = c /\ \A i \in Jobs \ {j} : job'[i] = job[i]
  BY <1>2, <1>3 DEF Becomes, BulkInv, BulkTypeOK
<1>5. /\ firstWrite' \in [Jobs -> {"none", "pending", "settled"}]
      /\ \A i \in Jobs \ {j} : firstWrite'[i] = firstWrite[i]
  BY <1>3 DEF BulkInv, BulkTypeOK
<1>6. BulkTypeOK'
  BY <1>3, <1>4, <1>5 DEF BulkInv, BulkTypeOK
<1>7. JobOk(c, present[d], base[j], reported[j], late[j])
  <2>1. reported[j] = {} /\ late[j] = 0
    BY <1>3, OneJob DEF JobOk
  <2>2. Cardinality({}) = 0 /\ limit \in Nat
    BY FS_EmptySet, BulkAssumption
  <2>3. CountersOk(c, present[d], reported[j], late[j])
    BY <1>2, <2>1, <2>2 DEF CountersOk
  <2>4. QED
    BY <1>2, <2>1, <2>3 DEF JobOk, Walk
<1>8. JobsOk'
  BY <1>2, <1>3, <1>4, <1>7 DEF BulkInv, JobsOk
<1>9. AuditsOk'
  <2>1. auditRow[j].status = "none"
    BY <1>3, OneJob DEF AuditOk
  <2>2. AuditOk(c, auditRow[j], firstWrite'[j])
    BY <1>2, <2>1 DEF AuditOk, Outcomes
  <2>3. QED
    BY <1>3, <1>4, <1>5, <2>2 DEF BulkInv, AuditsOk
<1>10. QED
  BY <1>3, <1>6, <1>8, <1>9 DEF BulkInv, Settles

\* persistAudit of the running row: the job has begun and has no outcome yet.
LEMMA FirstAuditStep ==
    ASSUME BulkInv, NEW j \in Jobs, FirstAuditLands(j)
    PROVE  BulkInv' /\ Settles
<1>1. /\ bulkUp /\ firstWrite[j] = "pending"
      /\ firstWrite' = [firstWrite EXCEPT ![j] = "settled"]
      /\ \/ auditRow' = [auditRow EXCEPT ![j] = [status |-> "running", deleted |-> 0]]
         \/ auditRow' = auditRow
      /\ bulkFaults' \in Nat
      /\ UNCHANGED <<job, jobs, present, bulkUp, base, reported, late>>
  BY DEF FirstAuditLands, BulkFault, bulkHistory, BulkInv, BulkTypeOK
<1>2. PICK a : a = [status |-> "running", deleted |-> 0]
  OBVIOUS
<1>3. a \in [status: JobStatus \cup {"none"}, deleted: Nat] /\ a.status = "running"
  BY <1>2 DEF JobStatus
<1>4. /\ firstWrite' \in [Jobs -> {"none", "pending", "settled"}] /\ firstWrite'[j] = "settled"
      /\ \A i \in Jobs \ {j} : firstWrite'[i] = firstWrite[i]
  BY <1>1 DEF BulkInv, BulkTypeOK
<1>5. /\ auditRow' \in [Jobs -> [status: JobStatus \cup {"none"}, deleted: Nat]]
      /\ auditRow'[j] \in {a, auditRow[j]}
      /\ \A i \in Jobs \ {j} : auditRow'[i] = auditRow[i]
  BY <1>1, <1>2, <1>3 DEF BulkInv, BulkTypeOK
<1>6. job[j].pc # "none" /\ auditRow[j].status \notin Outcomes
  BY <1>1, OneJob DEF AuditOk
<1>7. BulkTypeOK'
  BY <1>1, <1>4, <1>5 DEF BulkInv, BulkTypeOK
<1>8. JobsOk'
  BY <1>1 DEF BulkInv, JobsOk
<1>9. AuditsOk'
  <2>1. AuditOk(job[j], auditRow'[j], firstWrite'[j])
    BY <1>3, <1>4, <1>5, <1>6 DEF AuditOk, Outcomes
  <2>2. QED
    BY <1>1, <1>4, <1>5, <2>1 DEF BulkInv, AuditsOk
<1>10. QED
  BY <1>5, <1>6, <1>7, <1>8, <1>9 DEF BulkInv, Settles

\* cancelJob: only the request is noted.
LEMMA CancelJobStep ==
    ASSUME BulkInv, NEW j \in Jobs, CancelJob(j)
    PROVE  BulkInv' /\ Settles
<1>1. PICK r \in Job : r = job[j]
  BY OneJob
<1>2. PICK c : c = [r EXCEPT !.cancelRequested = TRUE]
  OBVIOUS
<1>3. /\ c \in Job /\ c.db = r.db /\ c.status = r.status /\ c.limit = r.limit /\ c.deleted = r.deleted
      /\ c.cancelled = r.cancelled /\ c.cancelRequested /\ c.todo = r.todo
      /\ c.cursorEnd = r.cursorEnd /\ c.unseen = r.unseen /\ c.batch = r.batch /\ c.matched = r.matched
      /\ c.truncated = r.truncated /\ c.pc = r.pc
  BY <1>2 DEF Job
<1>4. /\ bulkUp /\ r.status = "running" /\ Becomes(j, c)
      /\ UNCHANGED <<jobs, auditRow, firstWrite, present, bulkUp, bulkFaults, base, reported, late>>
  BY <1>1, <1>2, Zenon DEF CancelJob, Becomes, bulkHistory
<1>5. PICK P, b, R, n : /\ P = present[r.db] /\ b = base[j] /\ R = reported[j] /\ n = late[j]
                        /\ JobOk(r, P, b, R, n)
  BY <1>1, OneJob
<1>6. r.pc # "none"
  BY <1>4, <1>5 DEF JobOk, NoJob
<1>7. CountersOk(c, P, R, n) /\ (r.pc \in Walk => WalkOk(c, P, b, R))
  BY <1>3, <1>5 DEF JobOk, CountersOk, WalkOk
<1>8. JobOk(c, P, b, R, n)
  BY <1>3, <1>5, <1>6, <1>7 DEF JobOk
<1>9. JobOk(c, present'[c.db], base'[j], reported'[j], late'[j])
  BY <1>3, <1>4, <1>5, <1>8
<1>10. bulkFaults' \in Nat /\ present' \in [Databases -> SUBSET Keys] /\ base' \in [Jobs -> SUBSET Keys]
       /\ reported' \in [Jobs -> SUBSET Keys] /\ late' \in [Jobs -> Nat]
  BY <1>4 DEF BulkInv, BulkTypeOK
<1>11. QED
  BY <1>1, <1>3, <1>4, <1>6, <1>9, <1>10, ChainMoves

\* A step that only replaces the record of one job.
LEMMA RecordMoves ==
    ASSUME BulkInv, bulkUp, NEW j \in Jobs, NEW c \in Job, Becomes(j, c),
           UNCHANGED <<jobs, auditRow, firstWrite, present, bulkUp, base, reported, late>>,
           bulkFaults' \in Nat, job[j].pc \notin {"none", "done"}, c.pc # "none", c.db = job[j].db,
           JobOk(c, present[job[j].db], base[j], reported[j], late[j])
    PROVE  BulkInv' /\ Settles
<1>1. /\ present' \in [Databases -> SUBSET Keys] /\ base' \in [Jobs -> SUBSET Keys]
      /\ reported' \in [Jobs -> SUBSET Keys] /\ late' \in [Jobs -> Nat]
  BY DEF BulkInv, BulkTypeOK
<1>2. JobOk(c, present'[c.db], base'[j], reported'[j], late'[j])
  OBVIOUS
<1>3. QED
  BY <1>1, <1>2, ChainMoves

\* buildTargets: the keys the walk answers for are those of its targets.
LEMMA BuildTargetsStep ==
    ASSUME BulkInv, NEW j \in Jobs, BuildTargets(j)
    PROVE  BulkInv' /\ Settles
<1>1. PICK r \in Job : r = job[j]
  BY OneJob
<1>2. PICK P, R \in SUBSET Keys, n \in Nat :
         /\ P = present[r.db] /\ R = reported[j] /\ n = late[j] /\ JobOk(r, P, base[j], R, n)
  BY <1>1, OneJob
<1>3. PICK targets \in {{HomeNode}} \cup SUBSET Primaries :
         /\ base' = [base EXCEPT ![j] = UNION {OnNode(job[j].db, m) : m \in targets}]
         /\ IF targets = {}
            THEN Becomes(j, Ended(job[j], "failed"))
            ELSE \E m \in targets : Becomes(j, Visit([job[j] EXCEPT !.todo = targets], m))
  BY Zenon DEF BuildTargets
<1>4. /\ bulkUp /\ r.pc = "targets"
      /\ UNCHANGED <<jobs, auditRow, firstWrite, present, bulkUp, bulkFaults, reported, late>>
  BY <1>1, Zenon DEF BuildTargets
<1>5. targets \in SUBSET Primaries
  BY <1>3, BulkAssumption
<1> DEFINE b == UNION {OnNode(r.db, m) : m \in targets}
<1>6. b \in SUBSET Keys /\ \A k \in b : KeyHome[k] \in targets
  <2>1. \A m \in targets : OnNode(r.db, m) \in SUBSET Keys /\ \A k \in OnNode(r.db, m) : KeyHome[k] = m
    BY <1>2 DEF OnNode
  <2>2. QED
    BY <2>1
<1>7. base' \in [Jobs -> SUBSET Keys] /\ base'[j] = b /\ \A i \in Jobs \ {j} : base'[i] = base[i]
  <2>1. base' = [base EXCEPT ![j] = b]
    BY <1>1, <1>3, Zenon
  <2> HIDE DEF b
  <2>2. QED
    BY <1>6, <2>1 DEF BulkInv, BulkTypeOK
<1> HIDE DEF b
<1>8. /\ bulkFaults' \in Nat /\ present' \in [Databases -> SUBSET Keys]
      /\ reported' \in [Jobs -> SUBSET Keys] /\ late' \in [Jobs -> Nat]
  BY <1>4 DEF BulkInv, BulkTypeOK
<1>9. PICK c \in Job : Becomes(j, c) /\ c.db = r.db /\ c.pc # "none" /\ JobOk(c, P, b, R, n)
  <2>1. CASE targets = {}
    <3>1. Becomes(j, Ended(r, "failed"))
      BY <1>1, <1>3, <2>1
    <3>2. QED
      BY <1>2, <3>1, FailedOk
  <2>2. CASE targets # {}
    <3>1. PICK m \in targets : Becomes(j, Visit([r EXCEPT !.todo = targets], m))
      BY <1>1, <1>3, <2>2
    <3>2. PICK v : v = [r EXCEPT !.todo = targets]
      OBVIOUS
    <3>3. /\ v \in Job /\ v.db = r.db /\ v.status = r.status /\ v.limit = r.limit
          /\ v.deleted = r.deleted /\ v.cancelled = r.cancelled /\ v.batch = r.batch
          /\ v.cancelRequested = r.cancelRequested /\ v.matched = r.matched /\ v.todo = targets
      BY <1>5, <3>2 DEF Job
    <3>4. CountersOk(v, P, R, n)
      BY <1>2, <3>3 DEF JobOk, CountersOk
    <3>5. r.status = "running" /\ ~r.cancelled /\ r.batch = {} /\ (n = 1 => r.cancelRequested)
      BY <1>2, <1>4 DEF JobOk
    <3>6. BetweenNodes(v, P, b, R, n)
      BY <1>6, <3>3, <3>4, <3>5 DEF BetweenNodes
    <3>7. m \in Primaries /\ present[v.db] = P /\ BulkTypeOK
      BY <1>2, <1>5, <3>3 DEF BulkInv
    <3>8. /\ Visit(v, m) \in Job /\ JobOk(Visit(v, m), P, b, R, n)
          /\ Visit(v, m).db = r.db /\ Visit(v, m).pc # "none"
      BY <3>3, <3>6, <3>7, VisitOk
    <3>9. Becomes(j, Visit(v, m))
      BY <3>1, <3>2
    <3>10. QED
      BY <3>8, <3>9
  <2>3. QED
    BY <2>1, <2>2
<1>10. JobOk(c, present'[c.db], base'[j], reported'[j], late'[j])
  BY <1>2, <1>4, <1>7, <1>9
<1>11. QED
  BY <1>1, <1>4, <1>7, <1>8, <1>9, <1>10, ChainMoves

\* The reply of SCAN.
LEMMA ScanStep ==
    ASSUME BulkInv, NEW j \in Jobs, Scan(j)
    PROVE  BulkInv' /\ Settles
<1> DEFINE r == job[j]
           P == present[r.db]
           b == base[j]
           R == reported[j]
           n == late[j]
<1>1. r \in Job
  BY OneJob
<1>2. P \in SUBSET Keys /\ R \in SUBSET Keys /\ JobOk(r, P, b, R, n)
  BY OneJob
<1>3. PICK found \in SUBSET P, end \in BOOLEAN : \E taken \in SUBSET found :
         /\ ScanReply(r, found, end) /\ Taken(r, found, taken)
         /\ Becomes(j, [r EXCEPT !.cursorEnd = end, !.unseen = r.unseen \ found,
                          !.batch = IF r.mode = "execute" THEN taken ELSE {},
                          !.matched = r.matched + Cardinality(taken),
                          !.truncated = r.truncated \/ Cardinality(found) > r.limit - r.matched,
                          !.pc = IF r.mode = "execute" /\ taken # {} THEN "unlink" ELSE "batch"])
         /\ reported' = [reported EXCEPT ![j] = reported[j] \cup taken]
  BY Zenon DEF Scan
<1>4. PICK taken \in SUBSET found :
         /\ ScanReply(r, found, end) /\ Taken(r, found, taken)
         /\ Becomes(j, [r EXCEPT !.cursorEnd = end, !.unseen = r.unseen \ found,
                          !.batch = IF r.mode = "execute" THEN taken ELSE {},
                          !.matched = r.matched + Cardinality(taken),
                          !.truncated = r.truncated \/ Cardinality(found) > r.limit - r.matched,
                          !.pc = IF r.mode = "execute" /\ taken # {} THEN "unlink" ELSE "batch"])
         /\ reported' = [reported EXCEPT ![j] = reported[j] \cup taken]
  BY <1>3, Zenon
<1>5. ScanReply(r, found, end) /\ Taken(r, found, taken)
  BY <1>4, Zenon
<1>6. /\ bulkUp /\ r.pc = "scan"
      /\ UNCHANGED <<jobs, auditRow, firstWrite, present, bulkUp, bulkFaults, base, late>>
  BY Zenon DEF Scan
<1>7. r = job[j] /\ P = present[r.db] /\ b = base[j] /\ R = reported[j] /\ n = late[j]
  OBVIOUS
<1>8. reported' = [reported EXCEPT ![j] = R \cup taken]
  BY <1>4, Zenon
<1> HIDE DEF r, P, b, R, n
<1>9. PICK x \in SUBSET Keys : x = (IF r.mode = "execute" THEN taken ELSE {})
  BY <1>2
<1>10. PICK u \in SUBSET Keys : u = r.unseen \ found
  BY <1>1 DEF Job
<1>11. PICK p \in {"unlink", "batch"} : p = (IF r.mode = "execute" /\ taken # {} THEN "unlink" ELSE "batch")
  OBVIOUS
<1>12. PICK t \in BOOLEAN : t = (r.truncated \/ Cardinality(found) > r.limit - r.matched)
  BY Zenon
<1>13. PICK m \in Nat : m = r.matched + Cardinality(taken)
  <2>1. Cardinality(taken) \in Nat
    BY <1>2, KeySets
  <2>2. QED
    BY <1>1, <2>1 DEF Job
<1>14. PICK c : c = [r EXCEPT !.cursorEnd = end, !.unseen = u, !.batch = x, !.matched = m,
                              !.truncated = t, !.pc = p]
  OBVIOUS
<1>15. Becomes(j, c)
  BY <1>4, <1>9, <1>10, <1>11, <1>12, <1>13, <1>14, Zenon
<1>16. /\ c \in Job /\ c.db = r.db /\ c.status = r.status /\ c.limit = r.limit /\ c.deleted = r.deleted
       /\ c.cancelled = r.cancelled /\ c.cancelRequested = r.cancelRequested /\ c.todo = r.todo
       /\ c.cursorEnd = end /\ c.unseen = u /\ c.batch = x /\ c.matched = m /\ c.truncated = t
       /\ c.pc = p
  BY <1>1, <1>14 DEF Job, JobStep
<1>17. end => r.unseen \cap P \subseteq found
  BY <1>7, <1>5 DEF ScanReply
<1>18. JobOk(c, P, b, R \cup taken, n)
  <2>1. ScannedTo(r, P, found, taken, end, c)
    BY <1>5, <1>9, <1>10, <1>11, <1>12, <1>13, <1>16, <1>17 DEF ScannedTo
  <2>2. QED
    BY <1>1, <1>2, <1>6, <1>16, <2>1, ScanOk
<1>19. /\ reported' \in [Jobs -> SUBSET Keys] /\ reported'[j] = R \cup taken
       /\ \A i \in Jobs \ {j} : reported'[i] = reported[i]
  BY <1>2, <1>8 DEF BulkInv, BulkTypeOK
<1>20. /\ bulkFaults' \in Nat /\ present' \in [Databases -> SUBSET Keys]
       /\ base' \in [Jobs -> SUBSET Keys] /\ late' \in [Jobs -> Nat]
  BY <1>6 DEF BulkInv, BulkTypeOK
<1>21. JobOk(c, present'[c.db], base'[j], reported'[j], late'[j])
  BY <1>7, <1>6, <1>16, <1>18, <1>19
<1>22. c.pc # "none"
  BY <1>16
<1>23. QED
  BY <1>7, <1>6, <1>15, <1>16, <1>19, <1>20, <1>21, <1>22, ChainMoves

\* The replies of UNLINK.
LEMMA UnlinkStep ==
    ASSUME BulkInv, NEW j \in Jobs, Unlink(j)
    PROVE  BulkInv' /\ Settles
<1>1. PICK r \in Job : r = job[j]
  BY OneJob
<1>2. PICK P \in SUBSET Keys, b, R \in SUBSET Keys, n \in Nat :
         /\ P = present[r.db] /\ b = base[j] /\ R = reported[j] /\ n = late[j] /\ JobOk(r, P, b, R, n)
  BY <1>1, OneJob
<1>3. PICK gone \in SUBSET (r.batch \cap P) : \E counted \in 0..Cardinality(gone) :
         /\ bulkFaults' = bulkFaults \/ BulkFault
         /\ present' = [present EXCEPT ![r.db] = present[r.db] \ gone]
         /\ Becomes(j, [r EXCEPT !.deleted = r.deleted + counted, !.batch = {}, !.pc = "batch"])
         /\ late' = [late EXCEPT ![j] = IF r.cancelRequested /\ gone # {} THEN late[j] + 1 ELSE late[j]]
  BY <1>1, <1>2, Zenon DEF Unlink
<1>4. PICK counted \in 0..Cardinality(gone) :
         Becomes(j, [r EXCEPT !.deleted = r.deleted + counted, !.batch = {}, !.pc = "batch"])
  BY <1>3
<1>5. /\ bulkUp /\ r.pc = "unlink"
      /\ UNCHANGED <<jobs, auditRow, firstWrite, bulkUp, base, reported>>
  BY <1>1, Zenon DEF Unlink
<1>6. PICK c : c = [r EXCEPT !.deleted = r.deleted + counted, !.batch = {}, !.pc = "batch"]
  OBVIOUS
<1>7. PICK m : m = IF r.cancelRequested /\ gone # {} THEN n + 1 ELSE n
  OBVIOUS
<1>8. UnlinkedTo(r, P, n, gone, counted, c, m)
  BY <1>6, <1>7, Zenon DEF UnlinkedTo
<1>9. c \in Job /\ c.db = r.db /\ c.pc # "none" /\ JobOk(c, P \ gone, b, R, m)
  <2>1. JobOk(r, P, b, R, n) /\ r.pc = "unlink"
    BY <1>2, <1>5
  <2>2. QED
    BY <1>8, <2>1, UnlinkOk
<1>10. m \in Nat
  BY <1>7
<1>11. late' = [late EXCEPT ![j] = m] /\ Becomes(j, c)
  BY <1>2, <1>3, <1>4, <1>6, <1>7, Zenon
<1>12. late' \in [Jobs -> Nat] /\ late'[j] = m /\ \A i \in Jobs \ {j} : late'[i] = late[i]
  BY <1>10, <1>11 DEF BulkInv, BulkTypeOK
<1>13. r.db \in Databases
  BY DEF Job
<1>14. /\ present' \in [Databases -> SUBSET Keys] /\ present'[r.db] = P \ gone
       /\ \A d \in Databases : present'[d] \subseteq present[d]
  BY <1>2, <1>3, <1>13 DEF BulkInv, BulkTypeOK
<1>15. bulkFaults' \in Nat /\ base' \in [Jobs -> SUBSET Keys] /\ reported' \in [Jobs -> SUBSET Keys]
  BY <1>3, <1>5 DEF BulkFault, BulkInv, BulkTypeOK
<1>16. JobOk(c, present'[c.db], base'[j], reported'[j], late'[j])
  BY <1>2, <1>5, <1>9, <1>12, <1>14
<1>17. QED
  BY <1>1, <1>5, <1>9, <1>11, <1>12, <1>14, <1>15, <1>16, ChainMoves

\* After a batch: what stops without being truncated has nothing left.
LEMMA AfterBatchStep ==
    ASSUME BulkInv, NEW j \in Jobs, AfterBatch(j)
    PROVE  BulkInv' /\ Settles
<1>1. PICK r \in Job : r = job[j]
  BY OneJob
<1>2. PICK P, b, R \in SUBSET Keys, n \in Nat :
         /\ P = present[r.db] /\ b = base[j] /\ R = reported[j] /\ n = late[j] /\ JobOk(r, P, b, R, n)
  BY <1>1, OneJob
<1>3. /\ bulkUp /\ r.pc = "batch"
      /\ UNCHANGED <<jobs, auditRow, firstWrite, present, bulkUp, bulkFaults, base, reported, late>>
  BY <1>1, Zenon DEF AfterBatch, bulkHistory
<1>4. /\ r.status = "running" /\ ~r.cancelled /\ r.batch = {} /\ (n = 1 => r.cancelRequested)
      /\ CountersOk(r, P, R, n) /\ WalkOk(r, P, b, R)
  BY <1>2, <1>3 DEF JobOk, Walk
<1>5. PICK c \in Job : Becomes(j, c) /\ c.db = r.db /\ c.pc # "none" /\ JobOk(c, P, b, R, n)
  <2>1. CASE r.truncated /\ r.matched >= r.limit
    <3>1. Becomes(j, Stopped(r))
      BY <1>1, <2>1 DEF AfterBatch
    <3>2. QED
      BY <1>4, <2>1, <3>1, StoppedOk
  <2>2. CASE ~(r.truncated /\ r.matched >= r.limit) /\ ~r.cursorEnd
    <3>1. Becomes(j, LoopTop(r))
      BY <1>1, <2>2 DEF AfterBatch
    <3>2. AtLoopTop(r, P, b, R, n)
      BY <1>4 DEF AtLoopTop
    <3>3. QED
      BY <3>1, <3>2, LoopTopOk
  <2>3. CASE ~(r.truncated /\ r.matched >= r.limit) /\ r.cursorEnd
    <3>1. IF r.todo = {} THEN Becomes(j, Stopped(r)) ELSE \E m \in r.todo : Becomes(j, Visit(r, m))
      BY <1>1, <2>3 DEF AfterBatch
    <3>2. ~r.truncated => \A k \in b \cap P : k \in R \/ KeyHome[k] \in r.todo
      BY <1>4, <2>3 DEF WalkOk
    <3>3. CASE r.todo = {}
      <4>1. r.truncated \/ b \cap P \subseteq R
        BY <3>2, <3>3
      <4>2. Becomes(j, Stopped(r))
        BY <3>1, <3>3
      <4>3. QED
        BY <1>4, <4>1, <4>2, StoppedOk
    <3>4. CASE r.todo # {}
      <4>1. PICK m \in r.todo : Becomes(j, Visit(r, m))
        BY <3>1, <3>4
      <4>2. m \in Primaries /\ BulkTypeOK
        BY DEF Job, BulkInv
      <4>3. BetweenNodes(r, P, b, R, n)
        BY <1>4, <3>2 DEF BetweenNodes
      <4>4. /\ Visit(r, m) \in Job /\ JobOk(Visit(r, m), P, b, R, n)
            /\ Visit(r, m).db = r.db /\ Visit(r, m).pc # "none"
        BY <1>2, <4>3, <4>2, VisitOk
      <4>5. QED
        BY <4>1, <4>4
    <3>5. QED
      BY <3>3, <3>4
  <2>4. QED
    BY <2>1, <2>2, <2>3
<1>6. bulkFaults' \in Nat
  BY <1>3 DEF BulkInv, BulkTypeOK
<1>7. QED
  BY <1>1, <1>2, <1>3, <1>5, <1>6, RecordMoves

\* runJob's catch.
LEMMA WalkFailsStep ==
    ASSUME BulkInv, NEW j \in Jobs, WalkFails(j)
    PROVE  BulkInv' /\ Settles
<1>1. PICK c : c = Ended(job[j], "failed")
  OBVIOUS
<1>2. /\ bulkUp /\ job[j].pc \notin {"none", "done"} /\ Becomes(j, c)
      /\ bulkFaults' \in Nat
      /\ UNCHANGED <<jobs, auditRow, firstWrite, present, bulkUp, base, reported, late>>
  BY <1>1 DEF WalkFails, BulkFault, bulkHistory, BulkInv, BulkTypeOK
<1>3. job[j] \in Job /\ JobOk(job[j], present[job[j].db], base[j], reported[j], late[j])
  BY OneJob
<1>4. /\ c \in Job /\ JobOk(c, present[job[j].db], base[j], reported[j], late[j])
      /\ c.db = job[j].db /\ c.pc # "none"
  BY <1>1, <1>3, FailedOk
<1>5. QED
  BY <1>2, <1>4, RecordMoves

\* runJob's finally: the first write has landed or failed, so the outcome is
\* the last word.
LEMMA FinalAuditStep ==
    ASSUME BulkInv, NEW j \in Jobs, FinalAudit(j)
    PROVE  BulkInv' /\ Settles
<1>1. PICK r \in Job : r = job[j]
  BY OneJob
<1>2. PICK a : a = [status |-> r.status, deleted |-> r.deleted]
  OBVIOUS
<1>3. a \in [status: JobStatus \cup {"none"}, deleted: Nat]
  BY <1>2 DEF Job
<1>4. PICK c : c = [r EXCEPT !.pc = "done"]
  OBVIOUS
<1>5. /\ c \in Job /\ c.db = r.db /\ c.status = r.status /\ c.limit = r.limit /\ c.deleted = r.deleted
      /\ c.cancelRequested = r.cancelRequested /\ c.batch = r.batch /\ c.matched = r.matched
      /\ c.truncated = r.truncated /\ c.pc = "done"
  BY <1>4 DEF Job, JobStep
<1>6. /\ bulkUp /\ r.pc = "audit" /\ firstWrite[j] # "pending"
      /\ auditRow' = [auditRow EXCEPT ![j] = a] \/ auditRow' = auditRow
      /\ UNCHANGED <<firstWrite, present, bulkUp, base, reported, late>>
  BY <1>1, <1>2, Zenon DEF FinalAudit, bulkHistory
<1>7. Becomes(j, c)
  BY <1>1, <1>4, Zenon DEF FinalAudit, Becomes
<1>8. bulkFaults' \in Nat /\ jobs' \subseteq Jobs
  BY DEF FinalAudit, BulkFault, PruneJobs, Finished, BulkInv, BulkTypeOK
<1>9. job' \in [Jobs -> Job] /\ job'[j] = c /\ \A i \in Jobs \ {j} : job'[i] = job[i]
  BY <1>5, <1>7 DEF Becomes, BulkInv, BulkTypeOK
<1>10. /\ auditRow' \in [Jobs -> [status: JobStatus \cup {"none"}, deleted: Nat]]
       /\ \A i \in Jobs \ {j} : auditRow'[i] = auditRow[i]
  BY <1>3, <1>6 DEF BulkInv, BulkTypeOK
<1>11. BulkTypeOK'
  BY <1>6, <1>8, <1>9, <1>10 DEF BulkInv, BulkTypeOK
<1>12. PICK P, b, R, n : /\ P = present[r.db] /\ b = base[j] /\ R = reported[j] /\ n = late[j]
                         /\ JobOk(r, P, b, R, n)
  BY <1>1, OneJob
<1>13. JobOk(c, P, b, R, n)
  <2>1. CountersOk(c, P, R, n)
    BY <1>5, <1>12 DEF JobOk, CountersOk
  <2>2. QED
    BY <1>5, <1>6, <1>12, <2>1 DEF JobOk, Walk
<1>14. JobsOk'
  BY <1>5, <1>6, <1>9, <1>12, <1>13 DEF BulkInv, JobsOk
<1>15. AuditsOk'
  <2>1. AuditOk(c, auditRow'[j], firstWrite[j])
    BY <1>5, <1>6 DEF AuditOk
  <2>2. QED
    BY <1>6, <1>9, <1>10, <2>1 DEF BulkInv, AuditsOk
<1>16. auditRow[j].status \notin Outcomes
  BY <1>1, <1>6, OneJob DEF AuditOk
<1>17. QED
  BY <1>10, <1>11, <1>14, <1>15, <1>16 DEF BulkInv, Settles

\* The process dies: what was under way is over, the rows are what they were.
LEMMA BulkCrashStep ==
    ASSUME BulkInv, BulkCrash
    PROVE  BulkInv' /\ Settles
<1>1. /\ ~bulkUp' /\ bulkUp' \in BOOLEAN /\ jobs' = {} /\ bulkFaults' \in Nat
      /\ UNCHANGED <<auditRow, present, base, reported, late>>
  <2>1. bulkUp' = FALSE /\ jobs' = {} /\ BulkFault /\ UNCHANGED <<auditRow, present, bulkHistory>>
    BY Zenon DEF BulkCrash
  <2>2. bulkFaults' \in Nat
    BY <2>1 DEF BulkFault, BulkInv, BulkTypeOK
  <2>3. ~bulkUp' /\ bulkUp' \in BOOLEAN
    BY <2>1
  <2>4. UNCHANGED <<base, reported, late>>
    BY <2>1 DEF bulkHistory
  <2>5. QED
    BY <2>1, <2>2, <2>3, <2>4
<1>2. firstWrite' = [j \in Jobs |-> IF firstWrite[j] = "pending" THEN "settled" ELSE firstWrite[j]]
  BY Zenon DEF BulkCrash
<1>3. job' = [j \in Jobs |-> IF job[j].pc = "none" THEN job[j] ELSE [job[j] EXCEPT !.pc = "done"]]
  BY Zenon DEF BulkCrash
<1>4. /\ firstWrite' \in [Jobs -> {"none", "pending", "settled"}]
      /\ \A j \in Jobs : firstWrite'[j] # "pending" /\ (firstWrite[j] = "none" => firstWrite'[j] = "none")
  BY <1>2 DEF BulkInv, BulkTypeOK
<1>5. ASSUME NEW j \in Jobs
      PROVE  /\ job'[j] \in Job /\ job'[j].pc \in {"none", "done"}
             /\ JobOk(job'[j], present[job'[j].db], base[j], reported[j], late[j])
             /\ AuditOk(job'[j], auditRow[j], firstWrite'[j])
  <2>1. PICK r \in Job : r = job[j]
    BY OneJob
  <2>2. PICK P, b, R, n : /\ P = present[r.db] /\ b = base[j] /\ R = reported[j] /\ n = late[j]
                          /\ JobOk(r, P, b, R, n)
    BY <2>1, OneJob
  <2>3. AuditOk(r, auditRow[j], firstWrite[j])
    BY <2>1, OneJob
  <2>4. CASE r.pc = "none"
    <3>1. job'[j] = r
      BY <1>3, <2>1, <2>4, Zenon
    <3>2. AuditOk(r, auditRow[j], firstWrite'[j])
      BY <1>4, <2>3, <2>4 DEF AuditOk
    <3>3. QED
      BY <2>2, <2>4, <3>1, <3>2
  <2>5. CASE r.pc # "none"
    <3>1. PICK c : c = [r EXCEPT !.pc = "done"]
      OBVIOUS
    <3>2. job'[j] = c
      BY <1>3, <2>1, <2>5, <3>1, Zenon
    <3>3. /\ c \in Job /\ c.db = r.db /\ c.status = r.status /\ c.limit = r.limit /\ c.deleted = r.deleted
          /\ c.cancelRequested = r.cancelRequested /\ c.batch = r.batch /\ c.matched = r.matched
          /\ c.truncated = r.truncated /\ c.pc = "done"
      BY <3>1 DEF Job, JobStep
    <3>4. CountersOk(c, P, R, n)
      BY <2>2, <3>3 DEF JobOk, CountersOk
    <3>5. JobOk(c, P, b, R, n)
      BY <2>2, <2>5, <3>3, <3>4 DEF JobOk, Walk
    <3>6. AuditOk(c, auditRow[j], firstWrite'[j])
      BY <1>4, <3>3 DEF AuditOk
    <3>7. QED
      BY <2>2, <3>2, <3>3, <3>5, <3>6
  <2>6. QED
    BY <2>4, <2>5
<1>6. job' \in [Jobs -> Job]
  <2>1. DOMAIN job' = Jobs /\ job' = [j \in Jobs |-> job'[j]]
    BY <1>3, Zenon
  <2>2. QED
    BY <1>5, <2>1
<1>7. BulkTypeOK'
  BY <1>1, <1>4, <1>6 DEF BulkInv, BulkTypeOK
<1>8. JobsOk'
  BY <1>1, <1>5 DEF JobsOk
<1>9. AuditsOk'
  BY <1>1, <1>4, <1>5 DEF AuditsOk
<1>10. QED
  BY <1>1, <1>7, <1>8, <1>9 DEF BulkInv, Settles

\* onModuleInit: a row still running belongs to a run that is over.
LEMMA BulkBootStep ==
    ASSUME BulkInv, BulkBoot
    PROVE  BulkInv' /\ Settles
<1>1. /\ ~bulkUp /\ bulkUp' \in BOOLEAN /\ bulkFaults' \in Nat
      /\ UNCHANGED <<job, jobs, firstWrite, present, base, reported, late>>
  BY DEF BulkBoot, BulkFault, bulkHistory, BulkInv, BulkTypeOK
<1>2. \/ auditRow' = [j \in Jobs |-> IF auditRow[j].status = "running"
                                     THEN [auditRow[j] EXCEPT !.status = "failed"]
                                     ELSE auditRow[j]]
      \/ auditRow' = auditRow
  BY Zenon DEF BulkBoot
<1>3. ASSUME NEW j \in Jobs
      PROVE  /\ auditRow'[j] \in [status: JobStatus \cup {"none"}, deleted: Nat]
             /\ auditRow'[j] # auditRow[j] => auditRow[j].status = "running"
  <2>1. PICK a \in [status: JobStatus \cup {"none"}, deleted: Nat] : a = auditRow[j]
    BY DEF BulkInv, BulkTypeOK
  <2>2. auditRow'[j] = a \/ (a.status = "running" /\ auditRow'[j] = [a EXCEPT !.status = "failed"])
    BY <1>2, <2>1, Zenon
  <2>3. [a EXCEPT !.status = "failed"] \in [status: JobStatus \cup {"none"}, deleted: Nat]
    BY DEF JobStatus
  <2>4. QED
    BY <2>1, <2>2, <2>3
<1>4. auditRow' \in [Jobs -> [status: JobStatus \cup {"none"}, deleted: Nat]]
  <2>1. auditRow' = [j \in Jobs |-> auditRow'[j]]
    <3>1. auditRow = [j \in Jobs |-> auditRow[j]]
      BY DEF BulkInv, BulkTypeOK
    <3>2. QED
      BY <1>2, <3>1, Zenon
  <2>2. QED
    BY <1>3, <2>1
<1>5. BulkTypeOK'
  BY <1>1, <1>4 DEF BulkInv, BulkTypeOK
<1>6. JobsOk'
  BY <1>1 DEF BulkInv, JobsOk
<1>7. ASSUME NEW j \in Jobs
      PROVE  AuditOk(job[j], auditRow'[j], firstWrite[j]) /\ job[j].pc \in {"none", "done"}
             /\ firstWrite[j] # "pending"
  <2>1. /\ AuditOk(job[j], auditRow[j], firstWrite[j])
        /\ job[j].pc \in {"none", "done"} /\ firstWrite[j] # "pending"
    BY <1>1 DEF BulkInv, AuditsOk
  <2>2. job[j].pc = "none" => auditRow'[j] = auditRow[j]
    BY <1>3, <2>1 DEF AuditOk
  <2>3. QED
    BY <2>1, <2>2 DEF AuditOk
<1>8. AuditsOk'
  BY <1>1, <1>7 DEF AuditsOk
<1>9. Settles
  BY <1>3 DEF Settles, Outcomes
<1>10. QED
  BY <1>5, <1>6, <1>8, <1>9 DEF BulkInv

\* Every step, and a stutter.
LEMMA BulkPreserved ==
    ASSUME BulkInv, [BulkNext]_bulkVars
    PROVE  BulkInv' /\ Settles
<1>1. ASSUME NEW j \in Jobs, NEW d \in Databases, NEW mode \in {"dry-run", "execute"},
             NEW limit \in Limits, StartJob(j, d, mode, limit)
      PROVE  BulkInv' /\ Settles
  BY <1>1, StartJobStep
<1>2. ASSUME NEW j \in Jobs, FirstAuditLands(j) \/ CancelJob(j)
      PROVE  BulkInv' /\ Settles
  BY <1>2, FirstAuditStep, CancelJobStep
<1>3. ASSUME NEW j \in Jobs, BulkStep(j)
      PROVE  BulkInv' /\ Settles
  BY <1>3, BuildTargetsStep, ScanStep, UnlinkStep, AfterBatchStep, WalkFailsStep, FinalAuditStep
     DEF BulkStep
<1>4. CASE BulkCrash
  BY <1>4, BulkCrashStep
<1>5. CASE BulkBoot
  BY <1>5, BulkBootStep
<1>6. CASE UNCHANGED bulkVars
  BY <1>6 DEF bulkVars, BulkInv, BulkTypeOK, JobsOk, AuditsOk, Settles
<1>7. QED
  BY <1>1, <1>2, <1>3, <1>4, <1>5, <1>6 DEF BulkNext

\* Before the first request.
LEMMA BulkStarts ==
    ASSUME BulkInit
    PROVE  BulkInv
<1>1. BulkTypeOK
  BY NoJobType DEF BulkInit, BulkTypeOK
<1>2. JobsOk
  <2>1. ASSUME NEW j \in Jobs
        PROVE  JobOk(job[j], present[job[j].db], base[j], reported[j], late[j])
    <3>1. job[j] = NoJob /\ reported[j] = {} /\ late[j] = 0
      BY DEF BulkInit
    <3>2. /\ NoJob.pc = "none" /\ NoJob.status = "completed" /\ NoJob.batch = {}
          /\ NoJob.matched = 0 /\ NoJob.deleted = 0 /\ NoJob.limit \in Nat
      <4>1. NoJob.limit \in Limits
        BY NoJobType DEF Job
      <4>2. QED
        BY <4>1, BulkAssumption DEF NoJob
    <3>3. Cardinality({}) = 0
      BY FS_EmptySet
    <3>4. CountersOk(NoJob, present[NoJob.db], {}, 0)
      BY <3>2, <3>3 DEF CountersOk
    <3>5. QED
      BY <3>1, <3>2, <3>4 DEF JobOk, Walk
  <2>2. QED
    BY <2>1 DEF JobsOk
<1>3. AuditsOk
  <2>1. \A j \in Jobs : auditRow[j].status = "none" /\ firstWrite[j] = "none"
    BY DEF BulkInit
  <2>2. bulkUp
    BY DEF BulkInit
  <2>3. QED
    BY <2>1, <2>2 DEF AuditsOk, AuditOk, Outcomes
<1>4. QED
  BY <1>1, <1>2, <1>3 DEF BulkInv

-----------------------------------------------------------------------------
(* The theorems *)

\* The inductive invariant of the service and its engine: counters, coverage of
\* the walk, and what the audit table may hold (startJob, cancelJob, runJob,
\* runBulkDelete, persistAudit, onModuleInit).
THEOREM BulkInvariant == BulkSpec => []BulkInv
<1>1. BulkInit => BulkInv
  BY BulkStarts
<1>2. BulkInv /\ [BulkNext]_bulkVars => BulkInv'
  BY BulkPreserved
<1>3. QED
  BY <1>1, <1>2, PTL DEF BulkSpec

\* Every record, row and counter of the service keeps its type.
THEOREM BulkTypes == BulkSpec => []BulkTypeOK
<1>1. BulkInv => BulkTypeOK
  BY DEF BulkInv
<1>2. QED
  BY <1>1, BulkInvariant, PTL

\* runBulkDelete never matches, hence never removes, more keys than maxKeys,
\* whatever SCAN returns and however often.
THEOREM LimitKept == BulkSpec => []BulkLimitKept
<1>1. BulkInv => BulkLimitKept
  BY DEF BulkInv, JobsOk, JobOk, CountersOk, BulkLimitKept
<1>2. QED
  BY <1>1, BulkInvariant, PTL

\* A run of runBulkDelete that ends completed and not truncated has matched
\* every key its nodes held when it began that is still there, and its counters
\* admit the ones it could not remove.
THEOREM WalkComplete == BulkSpec => []BulkComplete
<1>1. ASSUME BulkInv PROVE BulkComplete
  <2>1. SUFFICES ASSUME NEW j \in Jobs, job[j].status = "completed", job[j].pc # "none",
                        ~job[j].truncated
                 PROVE  /\ base[j] \cap present[job[j].db] \subseteq reported[j]
                        /\ (base[j] \cap present[job[j].db] # {}) => job[j].deleted < job[j].matched
    BY DEF BulkComplete
  <2>2. PICK r \in Job, P, b, R \in SUBSET Keys, n \in Nat :
          /\ r = job[j] /\ P = present[r.db] /\ b = base[j] /\ R = reported[j] /\ n = late[j]
          /\ JobOk(r, P, b, R, n)
    BY <1>1, OneJob
  <2>3. b \cap P \subseteq R /\ r.batch = {} /\ CountersOk(r, P, R, n)
    BY <2>1, <2>2 DEF JobOk
  <2>4. Cardinality({}) = 0 /\ r.deleted \in Nat
    BY FS_EmptySet DEF Job
  <2>5. b \cap P # {} => r.deleted < r.matched
    BY <2>1, <2>2, <2>3, <2>4 DEF CountersOk
  <2>6. QED
    BY <2>2, <2>3, <2>5
<1>2. QED
  BY <1>1, BulkInvariant, PTL

\* After cancelJob at most the batch under way is removed: the loop looks at
\* the request before it asks for another one.
THEOREM CancelPrompt == BulkSpec => []BulkCancelPrompt
<1>1. BulkInv => BulkCancelPrompt
  BY DEF BulkInv, JobsOk, JobOk, CountersOk, BulkCancelPrompt
<1>2. QED
  BY <1>1, BulkInvariant, PTL

\* An outcome in the audit table is final: no late "running" write, no other
\* job, no crash and no reconciliation at boot changes it.
THEOREM AuditSettles == BulkSpec => BulkAuditSettles
<1>1. BulkInv /\ [BulkNext]_bulkVars
        => [\A j \in Jobs : auditRow[j].status \in {"completed", "cancelled", "failed"} =>
              auditRow'[j] = auditRow[j]]_bulkVars
  BY BulkPreserved DEF Settles, Outcomes
<1>2. QED
  BY <1>1, BulkInvariant, PTL DEF BulkSpec, BulkAuditSettles
=============================================================================
