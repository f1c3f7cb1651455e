------------------------- MODULE CaptureWriterProofs -------------------------
(***************************************************************************)
(* Proofs about the writers of a capture session (CaptureWriter), for any   *)
(* number of cluster primaries, any caps and thresholds, and any number of  *)
(* failing storage calls.                                                   *)
(***************************************************************************)
EXTENDS CaptureWriter, FiniteSetTheorems, SequenceTheorems, TLAPS

-----------------------------------------------------------------------------
(* The inductive invariant *)

Chunk == [index: Nat, lines: Nat]
Over  == {"draining", "ended"}

WriterTypeOK ==
  /\ opening \in Nat
  /\ wstate \in [Writers -> {"unopened", "running"} \cup Over]
  /\ outcome \in [Writers -> {"running", "completed", "truncated", "failed"}]
  /\ lines \in [Writers -> Nat] /\ buffer \in [Writers -> Nat] /\ flushed \in [Writers -> Nat]
  /\ queue \in [Writers -> Seq(Chunk)]
  /\ chunks \subseteq Chunk

\* The chunks in queue q of writer w, which has flushed f, are the last ones it
\* flushed, in order.
Queued(w, q, f) ==
  /\ Len(q) <= f
  /\ \A i \in 1..Len(q) : q[i].index = StartIndex(w) + (f - Len(q)) + (i - 1)

\* A writer with state st, outcome o, n lines taken in and b of them buffered
\* has flushed f chunks, of at least a line each.
Counts(st, o, n, b, q, f) ==
  /\ f + b <= n /\ n <= LineCap
  /\ st \in {"unopened", "running"} => n < LineCap
  /\ st # "running" => b = 0
  /\ st \in {"unopened", "ended"} => q = <<>>
  /\ st \in Over => o # "running"
  /\ o = "completed" => st \in Over /\ n < LineCap

WritersOk ==
  \A w \in Writers : /\ Counts(wstate[w], outcome[w], lines[w], buffer[w], queue[w], flushed[w])
                     /\ Queued(w, queue[w], flushed[w])
                     /\ w >= opening => wstate[w] = "unopened"

\* A stored chunk left the queue of some writer.
From(w, c, q, f) == StartIndex(w) <= c.index /\ c.index < StartIndex(w) + (f - Len(q))
ChunksOk == \A c \in chunks : \E w \in Writers : From(w, c, queue[w], flushed[w])

RowOk ==
  /\ RowEnded => finalized
  /\ finalized => \A w \in Writers : wstate[w] = "ended"
  /\ finalized => opening > NumWriters
  /\ captureRow.status = "completed" => \A w \in Writers : outcome[w] = "completed"

WriterInv == WriterTypeOK /\ WritersOk /\ ChunksOk /\ RowOk

\* The primary key refuses no chunk: the index of the one to be stored next is
\* free, although all writers of the session share one index space.
IndexFree == \A w \in Writers : queue[w] # <<>> => \A c \in chunks : c.index # Head(queue[w]).index

-----------------------------------------------------------------------------
(* Indexes and queues *)

\* Where a writer's index range begins.
LEMMA StartType ==
  ASSUME NEW w \in Writers
  PROVE  StartIndex(w) \in Nat
<1>1. w - 1 \in Nat /\ Namespace \in Nat
  BY WriterAssumption DEF Writers
<1>2. \A a, b \in Nat : a * b \in Nat
  OBVIOUS
<1>3. QED
  BY <1>1, <1>2 DEF StartIndex

\* The index ranges of two writers do not meet.
LEMMA StartApart ==
  ASSUME NEW w \in Writers, NEW v \in Writers, w < v
  PROVE  StartIndex(w) + Namespace <= StartIndex(v)
<1>1. PICK k \in Nat : v = w + 1 + k
  <2>1. v - w - 1 \in Nat /\ v = w + 1 + (v - w - 1)
    BY WriterAssumption DEF Writers
  <2>2. QED
    BY <2>1
<1>2. w - 1 \in Nat /\ Namespace \in Nat
  BY WriterAssumption DEF Writers
<1>3. v - 1 = (w - 1) + (1 + k)
  BY <1>1 DEF Writers
<1>4. \A a, b, n \in Nat : (a + (1 + b)) * n = a * n + n + b * n
  OBVIOUS
<1>5. \A a, b \in Nat : a * b \in Nat
  OBVIOUS
<1>6. (v - 1) * Namespace = (w - 1) * Namespace + Namespace + k * Namespace
  BY <1>1, <1>2, <1>3, <1>4
<1>7. k * Namespace \in Nat /\ (w - 1) * Namespace \in Nat
  BY <1>1, <1>2, <1>5
<1>8. QED
  BY <1>2, <1>6, <1>7 DEF StartIndex

\* A flushed chunk goes to the end of the queue with the next index.
LEMMA QueuedAppend ==
  ASSUME NEW w \in Writers, NEW q \in Seq(Chunk), NEW f \in Nat, Queued(w, q, f),
         NEW c \in Chunk, c.index = StartIndex(w) + f
  PROVE  /\ Append(q, c) \in Seq(Chunk)
         /\ Queued(w, Append(q, c), f + 1)
         /\ (f + 1) - Len(Append(q, c)) = f - Len(q)
<1>1. Len(Append(q, c)) = Len(q) + 1 /\ Len(q) \in Nat /\ Append(q, c) \in Seq(Chunk)
  OBVIOUS
<1>2. ASSUME NEW i \in 1..Len(Append(q, c))
      PROVE  Append(q, c)[i].index = StartIndex(w) + (f - Len(q)) + (i - 1)
  <2>1. CASE i = Len(q) + 1
    BY <1>1, <2>1, StartType DEF Queued
  <2>2. CASE i # Len(q) + 1
    <3>1. i \in 1..Len(q) /\ Append(q, c)[i] = q[i]
      BY <1>1, <1>2, <2>2
    <3>2. QED
      BY <3>1 DEF Queued
  <2>3. QED
    BY <2>1, <2>2
<1>3. QED
  BY <1>1, <1>2 DEF Queued

\* The chunk at the head of the queue has the lowest index of those not stored.
LEMMA QueuedTail ==
  ASSUME NEW w \in Writers, NEW q \in Seq(Chunk), NEW f \in Nat, Queued(w, q, f), q # <<>>
  PROVE  /\ Head(q) \in Chunk /\ Head(q).index = StartIndex(w) + (f - Len(q))
         /\ Tail(q) \in Seq(Chunk) /\ Queued(w, Tail(q), f)
         /\ Len(q) \in Nat \ {0} /\ Len(Tail(q)) = Len(q) - 1
<1>1. /\ Len(q) \in Nat \ {0} /\ Len(q) <= f
      /\ Tail(q) \in Seq(Chunk) /\ Len(Tail(q)) = Len(q) - 1
      /\ \A i \in 1..Len(Tail(q)) : Tail(q)[i] = q[i + 1] /\ i + 1 \in 1..Len(q)
  BY DEF Queued
<1>2. Head(q) = q[1] /\ 1 \in 1..Len(q)
  BY <1>1
<1>3. q[1] \in Chunk /\ q[1].index = StartIndex(w) + (f - Len(q))
  BY <1>1, <1>2, StartType DEF Queued
<1>4. ASSUME NEW i \in 1..Len(Tail(q))
      PROVE  Tail(q)[i].index = StartIndex(w) + (f - (Len(q) - 1)) + (i - 1)
  <2>1. q[i + 1].index = StartIndex(w) + (f - Len(q)) + ((i + 1) - 1)
    BY <1>1 DEF Queued
  <2>2. QED
    BY <1>1, <2>1, StartType
<1>5. QED
  BY <1>1, <1>2, <1>3, <1>4 DEF Queued

\* flush, seen from one writer: with n lines buffered, none are left if it
\* flushes, and it has at most that many more chunks.
LEMMA Flushes ==
  ASSUME WriterTypeOK, WritersOk, NEW W \in SUBSET Writers, NEW buf \in [Writers -> Nat],
         Flush(W, buf)
  PROVE  /\ buffer' \in [Writers -> Nat] /\ flushed' \in [Writers -> Nat]
         /\ queue' \in [Writers -> Seq(Chunk)]
         /\ \A v \in Writers :
              /\ Queued(v, queue'[v], flushed'[v])
              /\ flushed'[v] - Len(queue'[v]) = flushed[v] - Len(queue[v])
              /\ flushed'[v] + buffer'[v] <= flushed[v] + buf[v]
              /\ v \in W => buffer'[v] = 0
              /\ v \notin W => buffer'[v] = buf[v] /\ queue'[v] = queue[v] /\ flushed'[v] = flushed[v]
<1>1. /\ \A v \in Writers : buffer'[v] = IF v \in W THEN 0 ELSE buf[v]
      /\ \A v \in Writers : flushed'[v] = IF v \in W /\ buf[v] > 0 THEN flushed[v] + 1 ELSE flushed[v]
      /\ \A v \in Writers : queue'[v] =
           IF v \in W /\ buf[v] > 0
           THEN Append(queue[v], [index |-> StartIndex(v) + flushed[v], lines |-> buf[v]])
           ELSE queue[v]
  BY DEF Flush
<1>2. buffer' \in [Writers -> Nat] /\ flushed' \in [Writers -> Nat]
  BY DEF Flush, WriterTypeOK
<1>3. ASSUME NEW v \in Writers
      PROVE  /\ queue'[v] \in Seq(Chunk)
             /\ Queued(v, queue'[v], flushed'[v])
             /\ flushed'[v] - Len(queue'[v]) = flushed[v] - Len(queue[v])
             /\ flushed'[v] + buffer'[v] <= flushed[v] + buf[v]
             /\ v \in W => buffer'[v] = 0
             /\ v \notin W => buffer'[v] = buf[v] /\ queue'[v] = queue[v] /\ flushed'[v] = flushed[v]
  <2>1. /\ queue[v] \in Seq(Chunk) /\ flushed[v] \in Nat /\ buf[v] \in Nat
        /\ Queued(v, queue[v], flushed[v])
    BY DEF WriterTypeOK, WritersOk
  <2>2. CASE v \in W /\ buf[v] > 0
    <3>1. PICK c : c = [index |-> StartIndex(v) + flushed[v], lines |-> buf[v]]
      OBVIOUS
    <3>2. c \in Chunk /\ c.index = StartIndex(v) + flushed[v]
      BY <2>1, <3>1, StartType DEF Chunk
    <3>3. queue'[v] = Append(queue[v], c) /\ flushed'[v] = flushed[v] + 1 /\ buffer'[v] = 0
      BY <1>1, <2>2, <3>1
    <3>4. QED
      BY <2>1, <2>2, <3>2, <3>3, QueuedAppend
  <2>3. CASE ~(v \in W /\ buf[v] > 0)
    <3>1. queue'[v] = queue[v] /\ flushed'[v] = flushed[v]
      BY <1>1, <2>3
    <3>2. buffer'[v] = buf[v] /\ (v \in W => buffer'[v] = 0)
      BY <1>1, <2>1, <2>3
    <3>3. QED
      BY <2>1, <3>1, <3>2
  <2>4. QED
    BY <2>2, <2>3
<1>4. queue' \in [Writers -> Seq(Chunk)]
  BY <1>3 DEF Flush
<1>5. QED
  BY <1>2, <1>3, <1>4

\* A step that stores nothing and takes nothing off a queue keeps the origin of
\* every stored chunk.
LEMMA ChunksStay ==
  ASSUME ChunksOk, UNCHANGED chunks,
         \A v \in Writers : flushed'[v] - Len(queue'[v]) = flushed[v] - Len(queue[v])
  PROVE  ChunksOk'
  BY DEF ChunksOk, From, StartIndex

\* The index of a queued chunk is free.
LEMMA HeadIsFree ==
  ASSUME WriterInv, NEW w \in Writers, queue[w] # <<>>, NEW c \in chunks
  PROVE  c.index # Head(queue[w]).index
<1>1. ASSUME NEW v \in Writers
      PROVE  /\ queue[v] \in Seq(Chunk) /\ flushed[v] \in Nat /\ Len(queue[v]) \in Nat
             /\ Queued(v, queue[v], flushed[v]) /\ Len(queue[v]) <= flushed[v]
             /\ flushed[v] <= LineCap
  <2>1. /\ queue[v] \in Seq(Chunk) /\ flushed[v] \in Nat /\ lines[v] \in Nat /\ buffer[v] \in Nat
        /\ Queued(v, queue[v], flushed[v])
        /\ flushed[v] + buffer[v] <= lines[v] /\ lines[v] <= LineCap
    BY DEF WriterInv, WriterTypeOK, WritersOk, Counts
  <2>2. QED
    BY <2>1, WriterAssumption DEF Queued
<1>2. Head(queue[w]).index = StartIndex(w) + (flushed[w] - Len(queue[w]))
  BY <1>1, QueuedTail
<1>3. PICK v \in Writers : From(v, c, queue[v], flushed[v])
  BY DEF WriterInv, ChunksOk
<1>4. /\ StartIndex(w) \in Nat /\ StartIndex(v) \in Nat
      /\ LineCap \in Nat /\ Namespace \in Nat /\ LineCap <= Namespace
      /\ w \in Nat /\ v \in Nat
  BY StartType, WriterAssumption DEF Writers
<1>5. c.index \in Nat
  <2>1. c \in Chunk
    BY DEF WriterInv, WriterTypeOK
  <2>2. QED
    BY <2>1 DEF Chunk
<1>6. CASE v = w
  BY <1>1, <1>2, <1>3, <1>4, <1>5, <1>6 DEF From
<1>7. CASE v < w
  <2>1. StartIndex(v) + Namespace <= StartIndex(w)
    BY <1>7, StartApart
  <2>2. c.index < StartIndex(v) + Namespace
    BY <1>1, <1>3, <1>4, <1>5 DEF From
  <2>3. StartIndex(w) <= Head(queue[w]).index
    BY <1>1, <1>2, <1>4
  <2>4. QED
    BY <1>1, <1>2, <1>4, <1>5, <2>1, <2>2, <2>3
<1>8. CASE w < v
  <2>1. StartIndex(w) + Namespace <= StartIndex(v)
    BY <1>8, StartApart
  <2>2. Head(queue[w]).index < StartIndex(w) + Namespace
    <3>1. Len(queue[w]) # 0
      BY <1>1
    <3>2. QED
      BY <1>1, <1>2, <1>4, <3>1
  <2>3. StartIndex(v) <= c.index
    BY <1>3 DEF From
  <2>4. QED
    BY <1>1, <1>2, <1>4, <1>5, <2>1, <2>2, <2>3
<1>9. QED
  BY <1>4, <1>6, <1>7, <1>8

\* A step of the writers that leaves the session's row alone.
RowAlone == UNCHANGED <<captureRow, finalized>>

\* What a step does to the writers: those in E stop, a running writer may take in
\* a line, which buf holds, and only running writers, W, flush.
Moving(W, E, buf) ==
  /\ \A v \in Writers : v \notin E => wstate'[v] = wstate[v] /\ outcome'[v] = outcome[v]
  /\ \A v \in E : /\ wstate[v] = "running" /\ wstate'[v] = "draining" /\ outcome'[v] # "running"
                  /\ outcome'[v] = "completed" => lines'[v] < LineCap
  /\ \A v \in Writers : \/ lines'[v] = lines[v] /\ buf[v] = buffer[v]
                        \/ /\ wstate[v] = "running" /\ lines'[v] = lines[v] + 1
                           /\ buf[v] = buffer[v] + 1 /\ (v \notin E => lines'[v] < LineCap)
  /\ \A v \in W : wstate[v] = "running"

\* Taking in, flushing and terminating: the running writers W go on with n lines,
\* of which those in buf are buffered, and those in E of them stop.
LEMMA WritersMove ==
  ASSUME WriterInv, NEW W \in SUBSET Writers, NEW E \in SUBSET W, NEW buf \in [Writers -> Nat],
         Flush(W, buf), RowAlone, UNCHANGED <<opening, chunks>>,
         lines' \in [Writers -> Nat],
         wstate' \in [Writers -> {"unopened", "running"} \cup Over],
         outcome' \in [Writers -> {"running", "completed", "truncated", "failed"}],
         Moving(W, E, buf)
  PROVE  WriterInv'
<1>1. WriterTypeOK /\ WritersOk /\ ChunksOk /\ RowOk
  BY DEF WriterInv
<1>2. /\ buffer' \in [Writers -> Nat] /\ flushed' \in [Writers -> Nat]
      /\ queue' \in [Writers -> Seq(Chunk)]
      /\ \A v \in Writers :
           /\ Queued(v, queue'[v], flushed'[v])
           /\ flushed'[v] - Len(queue'[v]) = flushed[v] - Len(queue[v])
           /\ flushed'[v] + buffer'[v] <= flushed[v] + buf[v]
           /\ v \in W => buffer'[v] = 0
           /\ v \notin W => buffer'[v] = buf[v] /\ queue'[v] = queue[v] /\ flushed'[v] = flushed[v]
  BY <1>1, Flushes
<1>3. WriterTypeOK'
  BY <1>1, <1>2 DEF WriterTypeOK
<1>4. ChunksOk'
  BY <1>1, <1>2, ChunksStay
<1>5. ASSUME NEW v \in Writers
      PROVE  /\ Counts(wstate'[v], outcome'[v], lines'[v], buffer'[v], queue'[v], flushed'[v])
             /\ v >= opening => wstate'[v] = "unopened"
  <2>1. /\ Counts(wstate[v], outcome[v], lines[v], buffer[v], queue[v], flushed[v])
        /\ v >= opening => wstate[v] = "unopened"
        /\ lines[v] \in Nat /\ buffer[v] \in Nat /\ flushed[v] \in Nat /\ LineCap \in Nat
        /\ lines'[v] \in Nat /\ buffer'[v] \in Nat /\ flushed'[v] \in Nat /\ buf[v] \in Nat
    BY <1>1, <1>2, WriterAssumption DEF WritersOk, WriterTypeOK
  <2>2. flushed'[v] + buffer'[v] <= lines'[v] /\ lines'[v] <= LineCap
    <3>1. /\ flushed'[v] + buffer'[v] <= flushed[v] + buf[v]
          /\ flushed[v] + buffer[v] <= lines[v] /\ lines[v] <= LineCap
          /\ wstate[v] = "running" => lines[v] < LineCap
      BY <1>2, <2>1 DEF Counts
    <3>2. \/ lines'[v] = lines[v] /\ buf[v] = buffer[v]
          \/ wstate[v] = "running" /\ lines'[v] = lines[v] + 1 /\ buf[v] = buffer[v] + 1
      BY DEF Moving
    <3>3. QED
      BY <2>1, <3>1, <3>2
  <2>3. CASE v \in E
    BY <1>2, <2>1, <2>2, <2>3 DEF Counts, Over, Moving
  <2>4. CASE v \notin E
    BY <1>2, <2>1, <2>2, <2>4 DEF Counts, Over, Moving
  <2>5. QED
    BY <2>3, <2>4
<1>6. WritersOk'
  BY <1>2, <1>5 DEF WritersOk, Queued, StartIndex
<1>7. RowOk'
  <2>1. ASSUME finalized PROVE E = {}
    BY <1>1, <2>1 DEF RowOk, Moving
  <2>2. ASSUME captureRow.status = "completed" PROVE finalized
    BY <1>1, <2>2 DEF RowOk, RowEnded
  <2>3. QED
    BY <1>1, <2>1, <2>2 DEF RowOk, RowAlone, RowEnded, Moving
<1>8. QED
  BY <1>3, <1>4, <1>6, <1>7 DEF WriterInv

\* The first state of a session.
LEMMA WriterStarts == WriterInit => WriterInv
<1> SUFFICES ASSUME WriterInit PROVE WriterInv
  OBVIOUS
<1>1. WriterTypeOK
  BY DEF WriterInit, WriterTypeOK, Over
<1>2. WritersOk
  BY WriterAssumption DEF WriterInit, WritersOk, Counts, Queued, Over
<1>3. ChunksOk /\ RowOk
  BY DEF WriterInit, ChunksOk, RowOk, RowEnded
<1>4. QED
  BY <1>1, <1>2, <1>3 DEF WriterInv

\* The loop opens the next node.
LEMMA OpenKeeps ==
  ASSUME WriterInv, NEW w \in Writers, OpenNode(w)
  PROVE  WriterInv'
<1>1. WriterTypeOK /\ WritersOk /\ ChunksOk /\ RowOk
  BY DEF WriterInv
<1>2. /\ opening = w /\ opening' = w + 1 /\ wstate[w] = "unopened" /\ w \in Nat
      /\ UNCHANGED <<lines, buffer, queue, flushed, chunks, captureRow, finalized>>
  BY <1>1 DEF OpenNode, WritersOk, Writers
<1>3. /\ wstate' \in [Writers -> {"unopened", "running"} \cup Over]
      /\ outcome' \in [Writers -> {"running", "completed", "truncated", "failed"}]
      /\ \A v \in Writers : v # w => wstate'[v] = wstate[v] /\ outcome'[v] = outcome[v]
      /\ \/ wstate'[w] = "running" /\ outcome'[w] = outcome[w]
         \/ wstate'[w] = "ended" /\ outcome'[w] = "failed"
  BY <1>1 DEF OpenNode, WriterTypeOK, Over
<1>4. WriterTypeOK'
  BY <1>1, <1>2, <1>3 DEF WriterTypeOK
<1>5. ASSUME NEW v \in Writers
      PROVE  /\ Counts(wstate'[v], outcome'[v], lines[v], buffer[v], queue[v], flushed[v])
             /\ v >= w + 1 => wstate'[v] = "unopened"
  <2>1. /\ Counts(wstate[v], outcome[v], lines[v], buffer[v], queue[v], flushed[v])
        /\ v >= w => wstate[v] = "unopened"
        /\ v \in Nat
    BY <1>1, <1>2 DEF WritersOk, Writers
  <2>2. CASE v = w
    <3>1. ~(v >= w + 1)
      BY <1>2, <2>2
    <3>2. QED
      BY <1>2, <1>3, <2>1, <2>2, <3>1 DEF Counts, Over
  <2>3. CASE v # w
    BY <1>2, <1>3, <2>1, <2>3
  <2>4. QED
    BY <2>2, <2>3
<1>6. WritersOk'
  BY <1>1, <1>2, <1>5 DEF WritersOk, Queued, StartIndex
<1>7. ChunksOk'
  BY <1>1, <1>2, ChunksStay
<1>8. RowOk'
  <2>1. ~finalized
    BY <1>1, <1>2, WriterAssumption DEF RowOk, Writers
  <2>2. QED
    BY <1>1, <1>2, <2>1 DEF RowOk, RowEnded
<1>9. QED
  BY <1>4, <1>6, <1>7, <1>8 DEF WriterInv

\* A line is taken in.
LEMMA LineKeeps ==
  ASSUME WriterInv, NEW w \in Writers, HandleLine(w)
  PROVE  WriterInv'
<1> DEFINE buf == [buffer EXCEPT ![w] = @ + 1]
<1>1. /\ WriterTypeOK /\ LineCap \in Nat /\ wstate[w] = "running" /\ lines[w] < LineCap
      /\ lines[w] \in Nat /\ RowAlone /\ UNCHANGED <<opening, chunks>>
  BY WriterAssumption DEF WriterInv, WritersOk, Counts, WriterTypeOK, HandleLine, RowAlone
<1>2. /\ lines' \in [Writers -> Nat] /\ lines'[w] = lines[w] + 1
      /\ \A v \in Writers : v # w => lines'[v] = lines[v]
      /\ buf \in [Writers -> Nat] /\ buf[w] = buffer[w] + 1
      /\ \A v \in Writers : v # w => buf[v] = buffer[v]
  BY <1>1 DEF HandleLine, WriterTypeOK
<1>3. CASE lines[w] + 1 >= LineCap /\ Terminate({w}, "truncated", buf)
  <2>1. /\ wstate' = [v \in Writers |-> IF v \in {w} THEN "draining" ELSE wstate[v]]
        /\ outcome' = [v \in Writers |-> IF v \in {w} THEN "truncated" ELSE outcome[v]]
        /\ Flush({w}, buf)
    BY <1>3 DEF Terminate
  <2> HIDE DEF buf
  <2>2. /\ wstate' \in [Writers -> {"unopened", "running"} \cup Over]
        /\ outcome' \in [Writers -> {"running", "completed", "truncated", "failed"}]
        /\ \A v \in Writers : v \notin {w} => wstate'[v] = wstate[v] /\ outcome'[v] = outcome[v]
        /\ wstate'[w] = "draining" /\ outcome'[w] = "truncated"
    BY <1>1, <2>1 DEF WriterTypeOK, Over
  <2>3. Moving({w}, {w}, buf)
    BY <1>1, <1>2, <2>2 DEF Moving
  <2>4. {w} \in SUBSET Writers /\ {w} \in SUBSET {w}
    OBVIOUS
  <2>5. QED
    BY <1>1, <1>2, <2>1, <2>2, <2>3, <2>4, WritersMove
<1>4. CASE /\ lines[w] + 1 < LineCap /\ UNCHANGED <<wstate, outcome>>
           /\ Flush(IF buf[w] >= FlushThreshold THEN {w} ELSE {}, buf)
  <2>1. PICK W \in SUBSET {w} : Flush(W, buf)
    BY <1>4
  <2> HIDE DEF buf
  <2>2. /\ W \in SUBSET Writers /\ {} \in SUBSET W
        /\ \A v \in W : wstate[v] = "running"
        /\ wstate' \in [Writers -> {"unopened", "running"} \cup Over]
        /\ outcome' \in [Writers -> {"running", "completed", "truncated", "failed"}]
    BY <1>1, <1>4 DEF WriterTypeOK
  <2>3. Moving(W, {}, buf)
    BY <1>1, <1>2, <1>4, <2>2 DEF Moving
  <2>4. QED
    BY <1>1, <1>2, <2>1, <2>2, <2>3, WritersMove
<1>5. QED
  BY <1>3, <1>4 DEF HandleLine

\* The writers W stop with status st: the source's end, or stopSession.
LEMMA TerminateKeeps ==
  ASSUME WriterInv, NEW W \in SUBSET Writers, NEW st \in {"completed", "failed"},
         \A v \in W : wstate[v] = "running", Terminate(W, st, buffer), RowAlone,
         UNCHANGED <<opening, lines, chunks>>
  PROVE  WriterInv'
<1>1. /\ WriterTypeOK /\ Flush(W, buffer) /\ buffer \in [Writers -> Nat] /\ lines \in [Writers -> Nat]
      /\ \A v \in W : lines[v] < LineCap
  BY DEF WriterInv, WritersOk, Counts, WriterTypeOK, Terminate
<1>2. /\ wstate' \in [Writers -> {"unopened", "running"} \cup Over]
      /\ outcome' \in [Writers -> {"running", "completed", "truncated", "failed"}]
      /\ \A v \in Writers : v \notin W => wstate'[v] = wstate[v] /\ outcome'[v] = outcome[v]
      /\ \A v \in W : wstate'[v] = "draining" /\ outcome'[v] = st
  BY <1>1 DEF Terminate, WriterTypeOK, Over
<1>3. W \in SUBSET W /\ lines' \in [Writers -> Nat]
  BY <1>1
<1>4. Moving(W, W, buffer)
  BY <1>1, <1>2 DEF Moving
<1>5. QED
  BY <1>1, <1>2, <1>3, <1>4, WritersMove

\* The flush timer.
LEMMA TimerKeeps ==
  ASSUME WriterInv, NEW w \in Writers, FlushTimer(w)
  PROVE  WriterInv'
<1>1. /\ WriterTypeOK /\ wstate[w] = "running" /\ Flush({w}, buffer) /\ RowAlone
      /\ UNCHANGED <<opening, chunks, lines, wstate, outcome>>
  BY DEF WriterInv, FlushTimer, RowAlone
<1>2. /\ {w} \in SUBSET Writers /\ {} \in SUBSET {w} /\ buffer \in [Writers -> Nat]
      /\ lines' \in [Writers -> Nat]
      /\ wstate' \in [Writers -> {"unopened", "running"} \cup Over]
      /\ outcome' \in [Writers -> {"running", "completed", "truncated", "failed"}]
  BY <1>1 DEF WriterTypeOK
<1>3. Moving({w}, {}, buffer)
  BY <1>1 DEF Moving
<1>4. QED
  BY <1>1, <1>2, <1>3, WritersMove

\* The head of a queue is stored or dropped.
LEMMA StoreKeeps ==
  ASSUME WriterInv, NEW w \in Writers, StoreChunk(w)
  PROVE  /\ WriterInv'
         /\ chunks' = chunks \union {Head(queue[w])} \/ dropped' = dropped + Head(queue[w]).lines
<1>1. WriterTypeOK /\ WritersOk /\ ChunksOk /\ RowOk
  BY DEF WriterInv
<1>2. /\ queue[w] # <<>> /\ queue' = [queue EXCEPT ![w] = Tail(queue[w])]
      /\ UNCHANGED <<opening, wstate, outcome, lines, buffer, flushed, captureRow, finalized>>
  BY DEF StoreChunk
<1>3. \/ chunks' = chunks \union {Head(queue[w])}
      \/ UNCHANGED chunks /\ dropped' = dropped + Head(queue[w]).lines
  <2>1. ~\E d \in chunks : d.index = Head(queue[w]).index
    BY <1>2, HeadIsFree
  <2>2. QED
    BY <2>1 DEF StoreChunk
<1>4. queue[w] \in Seq(Chunk) /\ flushed[w] \in Nat /\ Queued(w, queue[w], flushed[w])
  BY <1>1 DEF WriterTypeOK, WritersOk
<1>5. /\ Head(queue[w]) \in Chunk /\ Head(queue[w]).index = StartIndex(w) + (flushed[w] - Len(queue[w]))
      /\ Tail(queue[w]) \in Seq(Chunk) /\ Queued(w, Tail(queue[w]), flushed[w])
      /\ Len(queue[w]) \in Nat \ {0} /\ Len(Tail(queue[w])) = Len(queue[w]) - 1
  BY <1>2, <1>4, QueuedTail
<1>6. /\ queue' \in [Writers -> Seq(Chunk)] /\ queue'[w] = Tail(queue[w])
      /\ \A v \in Writers : v # w => queue'[v] = queue[v]
  BY <1>1, <1>2, <1>5 DEF WriterTypeOK
<1>7. WriterTypeOK'
  BY <1>1, <1>2, <1>3, <1>5, <1>6 DEF WriterTypeOK
<1>8. ASSUME NEW v \in Writers
      PROVE  /\ Counts(wstate[v], outcome[v], lines[v], buffer[v], queue'[v], flushed[v])
             /\ Queued(v, queue'[v], flushed[v])
  <2>1. /\ Counts(wstate[v], outcome[v], lines[v], buffer[v], queue[v], flushed[v])
        /\ Queued(v, queue[v], flushed[v])
    BY <1>1 DEF WritersOk
  <2>2. QED
    BY <1>2, <1>5, <1>6, <2>1 DEF Counts
<1>9. WritersOk'
  BY <1>1, <1>2, <1>8 DEF WritersOk, Queued, StartIndex
<1>10. ASSUME NEW c \in chunks'
       PROVE  \E v \in Writers : From(v, c, queue'[v], flushed[v])
  <2>1. CASE c = Head(queue[w])
    <3>1. Len(queue[w]) <= flushed[w] /\ StartIndex(w) \in Nat
      BY <1>4, StartType DEF Queued
    <3>2. From(w, c, queue'[w], flushed[w])
      BY <1>4, <1>5, <1>6, <2>1, <3>1 DEF From
    <3>3. QED
      BY <3>2
  <2>2. CASE c \in chunks
    <3>1. PICK v \in Writers : From(v, c, queue[v], flushed[v])
      BY <1>1, <2>2 DEF ChunksOk
    <3>2. CASE v # w
      BY <1>6, <3>1, <3>2
    <3>3. CASE v = w
      <4>1. c.index \in Nat /\ StartIndex(w) \in Nat
        <5>1. c \in Chunk
          BY <1>1, <2>2 DEF WriterTypeOK
        <5>2. QED
          BY <5>1, StartType DEF Chunk
      <4>2. From(w, c, queue'[w], flushed[w])
        BY <1>4, <1>5, <1>6, <3>1, <3>3, <4>1 DEF From
      <4>3. QED
        BY <4>2
    <3>4. QED
      BY <3>2, <3>3
  <2>3. QED
    BY <1>3, <2>1, <2>2
<1>11. ChunksOk'
  BY <1>2, <1>10 DEF ChunksOk, From, StartIndex
<1>12. RowOk'
  BY <1>1, <1>2 DEF RowOk, RowEnded
<1>13. QED
  BY <1>3, <1>7, <1>9, <1>11, <1>12 DEF WriterInv

\* A drained writer ends.
LEMMA EndKeeps ==
  ASSUME WriterInv, NEW w \in Writers, WriterEnds(w)
  PROVE  WriterInv'
<1>1. WriterTypeOK /\ WritersOk /\ ChunksOk /\ RowOk
  BY DEF WriterInv
<1>2. /\ wstate[w] = "draining" /\ queue[w] = <<>>
      /\ UNCHANGED <<opening, outcome, lines, buffer, queue, flushed, chunks, captureRow, finalized>>
      /\ wstate' \in [Writers -> {"unopened", "running"} \cup Over]
      /\ wstate'[w] = "ended" /\ \A v \in Writers : v # w => wstate'[v] = wstate[v]
  BY <1>1 DEF WriterEnds, WriterTypeOK, Over
<1>3. WriterTypeOK'
  BY <1>1, <1>2 DEF WriterTypeOK
<1>4. ASSUME NEW v \in Writers
      PROVE  /\ Counts(wstate'[v], outcome[v], lines[v], buffer[v], queue[v], flushed[v])
             /\ v >= opening => wstate'[v] = "unopened"
  <2>1. /\ Counts(wstate[v], outcome[v], lines[v], buffer[v], queue[v], flushed[v])
        /\ v >= opening => wstate[v] = "unopened"
    BY <1>1 DEF WritersOk
  <2>2. QED
    BY <1>2, <2>1 DEF Counts, Over
<1>5. WritersOk'
  BY <1>1, <1>2, <1>4 DEF WritersOk, Queued, StartIndex
<1>6. ChunksOk'
  BY <1>1, <1>2, ChunksStay
<1>7. RowOk'
  BY <1>1, <1>2 DEF RowOk, RowEnded
<1>8. QED
  BY <1>3, <1>5, <1>6, <1>7 DEF WriterInv

\* The last write of the row.
LEMMA FinalKeeps ==
  ASSUME WriterInv, FinalizeFanOut
  PROVE  WriterInv'
<1>1. WriterTypeOK /\ WritersOk /\ ChunksOk /\ RowOk
  BY DEF WriterInv
<1>2. /\ ~finalized /\ finalized' /\ opening > NumWriters /\ \A w \in Writers : wstate[w] = "ended"
      /\ UNCHANGED <<opening, wstate, outcome, lines, buffer, queue, flushed, chunks>>
      /\ captureRow'.status = AggregateSegmentStatus \/ UNCHANGED captureRow
  BY DEF FinalizeFanOut
<1>3. WriterTypeOK' /\ WritersOk'
  BY <1>1, <1>2 DEF WriterTypeOK, WritersOk, Counts, Queued, StartIndex
<1>4. ChunksOk'
  BY <1>1, <1>2, ChunksStay
<1>5. ASSUME AggregateSegmentStatus = "completed", NEW w \in Writers
      PROVE  outcome[w] = "completed"
  <2>1. outcome[w] # "failed" /\ outcome[w] # "truncated"
    BY <1>5 DEF AggregateSegmentStatus
  <2>2. outcome[w] # "running" /\ outcome[w] \in {"running", "completed", "truncated", "failed"}
    BY <1>1, <1>2 DEF WritersOk, Counts, Over, WriterTypeOK
  <2>3. QED
    BY <2>1, <2>2
<1>6. captureRow.status # "completed"
  BY <1>1, <1>2 DEF RowOk, RowEnded
<1>7. RowOk'
  BY <1>1, <1>2, <1>5, <1>6 DEF RowOk, RowEnded
<1>8. QED
  BY <1>3, <1>4, <1>7 DEF WriterInv

\* Every step of a session keeps the invariant.
LEMMA WriterPreserved == WriterInv /\ [WriterNext]_writerVars => WriterInv'
<1> SUFFICES ASSUME WriterInv, [WriterNext]_writerVars PROVE WriterInv'
  OBVIOUS
<1>1. ASSUME NEW w \in Writers, SourceEnds(w) PROVE WriterInv'
  <2>1. PICK st \in {"completed", "failed"} : Terminate({w}, st, buffer)
    BY <1>1 DEF SourceEnds
  <2>2. /\ {w} \in SUBSET Writers /\ \A v \in {w} : wstate[v] = "running"
        /\ RowAlone /\ UNCHANGED <<opening, lines, chunks>>
    BY <1>1 DEF SourceEnds, RowAlone
  <2>3. QED
    BY <2>1, <2>2, TerminateKeeps
<1>2. ASSUME StopWriters PROVE WriterInv'
  <2>1. PICK W \in SUBSET Writers : W = {w \in Writers : wstate[w] = "running"}
    OBVIOUS
  <2>2. /\ Terminate(W, "completed", buffer) /\ \A v \in W : wstate[v] = "running"
        /\ RowAlone /\ UNCHANGED <<opening, lines, chunks>>
    BY <1>2, <2>1 DEF StopWriters, RowAlone
  <2>3. QED
    BY <2>2, TerminateKeeps
<1>3. CASE UNCHANGED writerVars
  BY <1>3 DEF writerVars, WriterInv, WriterTypeOK, WritersOk, Counts, Queued, StartIndex, ChunksOk, From,
              RowOk, RowEnded
<1>4. QED
  BY <1>1, <1>2, <1>3, OpenKeeps, LineKeeps, TimerKeeps, StoreKeeps, EndKeeps, FinalKeeps
     DEF WriterNext, WriterStep

-----------------------------------------------------------------------------
(* Sums.  The provers have no induction, so a sum is counted: the fold of the *)
(* library yields the number of cells in a set, for every finite set, and the *)
(* rest is about cardinalities.                                               *)

\* The sum of f over S, counted: f[x] cells for each x.
Cells(f, S) == UNION {{x} \X (1..f[x]) : x \in S}
Total(f, S) == Cardinality(Cells(f, S))

\* A family of subsets of a finite set that contains every set all of whose
\* strict subsets it contains has all of them.
LEMMA SubsetInduction ==
  ASSUME NEW S, IsFiniteSet(S), NEW G \in SUBSET SUBSET S,
         \A T \in SUBSET S : (\A x \in T : T \ {x} \in G) => T \in G
  PROVE  S \in G
<1>1. SUFFICES ASSUME S \notin G PROVE FALSE
  OBVIOUS
<1>2. IsWellFoundedOn(StrictSubsetOrdering(S), SUBSET S)
  BY FS_StrictSubsetOrderingWellFounded, FS_FiniteSubsetsOfFinite
<1>3. PICK B : B = (SUBSET S) \ G
  OBVIOUS
<1>4. B \subseteq SUBSET S /\ S \in B
  BY <1>1, <1>3
<1>5. PICK T \in B : \A U \in B : ~(<<U, T>> \in StrictSubsetOrdering(S))
  BY <1>2, <1>4, WFMin
<1>6. ASSUME NEW x \in T PROVE T \ {x} \in G
  <2>1. T \ {x} \in SUBSET S /\ T \in SUBSET S /\ T \ {x} # T /\ T \ {x} \subseteq T
    BY <1>4
  <2>2. <<T \ {x}, T>> \in StrictSubsetOrdering(S)
    BY <2>1 DEF StrictSubsetOrdering
  <2>3. QED
    BY <1>3, <1>5, <2>1, <2>2
<1>7. QED
  BY <1>3, <1>4, <1>5, <1>6

\* One element more adds its value.
LEMMA TotalAdds ==
  ASSUME NEW f, NEW S, NEW x, x \notin S, f[x] \in Nat, IsFiniteSet(Cells(f, S))
  PROVE  IsFiniteSet(Cells(f, S \cup {x})) /\ Total(f, S \cup {x}) = Total(f, S) + f[x]
<1>1. PICK A, B, C, D : /\ A = Cells(f, S) /\ B = {x} /\ C = 1..f[x] /\ D = B \X C
  OBVIOUS
<1>2. Cells(f, S \cup {x}) = A \cup D /\ A \cap D = {}
  BY <1>1 DEF Cells
<1>3. IsFiniteSet(C) /\ Cardinality(C) = f[x]
  BY <1>1, FS_Interval
<1>4. IsFiniteSet(B) /\ Cardinality(B) = 1
  BY <1>1, FS_Singleton
<1>5. IsFiniteSet(D) /\ Cardinality(D) = f[x]
  <2>1. IsFiniteSet(B \X C) /\ Cardinality(B \X C) = Cardinality(B) * Cardinality(C)
    BY <1>3, <1>4, FS_Product, Zenon
  <2>2. \A n \in Nat : 1 * n = n
    OBVIOUS
  <2>3. QED
    BY <1>1, <1>3, <1>4, <2>1, <2>2, Zenon
<1>6. Cardinality(A \cap D) = 0 /\ Cardinality(A) \in Nat
  BY <1>1, <1>2, FS_EmptySet, FS_CardinalityType
<1>7. IsFiniteSet(A \cup D) /\ Cardinality(A \cup D) = Cardinality(A) + Cardinality(D) - Cardinality(A \cap D)
  <2>1. IsFiniteSet(A) /\ IsFiniteSet(D)
    BY <1>1, <1>5, Zenon
  <2>2. QED
    BY <2>1, FS_Union, Zenon
<1>8. \A a, b \in Nat : a + b - 0 = a + b
  OBVIOUS
<1>9. Cardinality(A \cup D) = Cardinality(A) + f[x]
  BY <1>5, <1>6, <1>7, <1>8, Zenon
<1>10. QED
  BY <1>1, <1>2, <1>7, <1>9, Zenon DEF Total

LEMMA TotalNone ==
  ASSUME NEW f PROVE Cells(f, {}) = {} /\ Total(f, {}) = 0
  BY FS_EmptySet DEF Cells, Total

\* A sum of naturals over a finite set is a natural number.
LEMMA TotalType ==
  ASSUME NEW f, NEW S, IsFiniteSet(S), \A x \in S : f[x] \in Nat
  PROVE  IsFiniteSet(Cells(f, S)) /\ Total(f, S) \in Nat
<1>1. PICK G : G = {T \in SUBSET S : IsFiniteSet(Cells(f, T))}
  OBVIOUS
<1>2. ASSUME NEW T \in SUBSET S, \A x \in T : T \ {x} \in G PROVE T \in G
  <2>1. CASE T = {}
    BY <1>1, <2>1, TotalNone, FS_EmptySet
  <2>2. CASE T # {}
    <3>1. PICK x \in T : TRUE
      BY <2>2
    <3>2. T = (T \ {x}) \cup {x} /\ f[x] \in Nat /\ x \notin T \ {x} /\ IsFiniteSet(Cells(f, T \ {x}))
      BY <1>1, <1>2, <3>1
    <3>3. QED
      BY <1>1, <3>2, TotalAdds
  <2>3. QED
    BY <2>1, <2>2
<1>3. S \in G
  BY <1>1, <1>2, SubsetInduction
<1>4. QED
  BY <1>1, <1>3, FS_CardinalityType DEF Total

\* The sums of two functions agree if the functions do.
LEMMA TotalSame ==
  ASSUME NEW f, NEW g, NEW S, \A x \in S : f[x] = g[x]
  PROVE  Total(f, S) = Total(g, S)
<1>1. Cells(f, S) = Cells(g, S)
  BY DEF Cells
<1>2. QED
  BY <1>1 DEF Total

\* The fold of the sum over S, whatever value it has for smaller sets.
SumFold(g, f, S) ==
  g = [s \in SUBSET S |-> IF s = {} THEN 0
                          ELSE f[CHOOSE x \in s : TRUE] + g[s \ {CHOOSE x \in s : TRUE}]]

\* The fold exists, ...
LEMMA FoldExists ==
  ASSUME NEW f, NEW S, IsFiniteSet(S), \A x \in S : f[x] \in Nat
  PROVE  SumFold([s \in SUBSET S |-> Total(f, s)], f, S)
<1> DEFINE g == [s \in SUBSET S |-> Total(f, s)]
<1>1. ASSUME NEW s \in SUBSET S
      PROVE  Total(f, s) = IF s = {} THEN 0
                           ELSE f[CHOOSE x \in s : TRUE] + g[s \ {CHOOSE x \in s : TRUE}]
  <2>1. CASE s = {}
    BY <2>1, TotalNone
  <2>2. CASE s # {}
    <3>1. PICK x : x = CHOOSE y \in s : TRUE
      OBVIOUS
    <3>2. x \in s
      BY <2>2, <3>1
    <3>3. s \ {x} \in SUBSET S /\ s = (s \ {x}) \cup {x} /\ f[x] \in Nat /\ x \notin s \ {x}
      BY <3>2
    <3>4. IsFiniteSet(s \ {x})
      BY <3>3, FS_Subset
    <3>5. IsFiniteSet(Cells(f, s \ {x})) /\ Total(f, s \ {x}) \in Nat
      BY <3>3, <3>4, TotalType
    <3>6. Total(f, s) = Total(f, s \ {x}) + f[x]
      BY <3>3, <3>5, TotalAdds
    <3>7. g[s \ {x}] = Total(f, s \ {x})
      BY <3>3
    <3>8. Total(f, s) = f[x] + g[s \ {x}]
      BY <3>3, <3>5, <3>6, <3>7
    <3>9. QED
      BY <2>2, <3>1, <3>8
  <2>3. QED
    BY <2>1, <2>2
<1>2. QED
  BY <1>1 DEF SumFold

\* ... and is the sum.
LEMMA FoldIsTotal ==
  ASSUME NEW f, NEW S, IsFiniteSet(S), \A x \in S : f[x] \in Nat, NEW g, SumFold(g, f, S)
  PROVE  g[S] = Total(f, S)
<1>1. PICK G : G = {T \in SUBSET S : g[T] = Total(f, T)}
  OBVIOUS
<1>2. ASSUME NEW T \in SUBSET S, \A x \in T : T \ {x} \in G PROVE T \in G
  <2>1. CASE T = {}
    BY <1>1, <2>1, TotalNone DEF SumFold
  <2>2. CASE T # {}
    <3>1. PICK x : x = CHOOSE y \in T : TRUE
      OBVIOUS
    <3>2. x \in T /\ g[T] = f[x] + g[T \ {x}]
      BY <2>2, <3>1 DEF SumFold
    <3>3. g[T \ {x}] = Total(f, T \ {x}) /\ T = (T \ {x}) \cup {x} /\ f[x] \in Nat /\ x \notin T \ {x}
      BY <1>1, <1>2, <3>2
    <3>4. IsFiniteSet(T \ {x})
      BY FS_Subset, T \ {x} \in SUBSET S
    <3>5. IsFiniteSet(Cells(f, T \ {x})) /\ Total(f, T \ {x}) \in Nat
      BY <3>3, <3>4, TotalType
    <3>6. Total(f, T) = Total(f, T \ {x}) + f[x]
      BY <3>3, <3>5, TotalAdds
    <3>7. QED
      BY <1>1, <3>2, <3>3, <3>5, <3>6
  <2>3. QED
    BY <2>1, <2>2
<1>3. S \in G
  BY <1>1, <1>2, SubsetInduction
<1>4. QED
  BY <1>1, <1>3

\* Two functions that differ at one point.
LEMMA TotalChange ==
  ASSUME NEW f, NEW g, NEW S, IsFiniteSet(S), NEW w \in S,
         \A x \in S : f[x] \in Nat /\ g[x] \in Nat, \A x \in S : x # w => f[x] = g[x]
  PROVE  Total(f, S) + g[w] = Total(g, S) + f[w]
<1>1. PICK T : T = S \ {w}
  OBVIOUS
<1>2. S = T \cup {w} /\ w \notin T /\ T \in SUBSET S /\ \A x \in T : f[x] = g[x]
  BY <1>1
<1>3. IsFiniteSet(T)
  BY <1>2, FS_Subset
<1>4. /\ IsFiniteSet(Cells(f, T)) /\ Total(f, T) \in Nat
      /\ IsFiniteSet(Cells(g, T)) /\ Total(g, T) \in Nat
  BY <1>2, <1>3, TotalType
<1>5. Total(f, S) = Total(f, T) + f[w] /\ Total(g, S) = Total(g, T) + g[w]
  BY <1>2, <1>4, TotalAdds
<1>6. Total(f, T) = Total(g, T)
  BY <1>2, TotalSame
<1>7. QED
  BY <1>4, <1>5, <1>6

\* A sum of nothing but zeros.
LEMMA TotalZero ==
  ASSUME NEW f, NEW S, \A x \in S : f[x] = 0
  PROVE  Total(f, S) = 0
<1>1. Cells(f, S) = {}
  BY DEF Cells
<1>2. QED
  BY <1>1, FS_EmptySet DEF Total

\* There are finitely many writers.
LEMMA WritersFinite == IsFiniteSet(Writers)
  BY WriterAssumption, FS_Interval DEF Writers

Lines == [c \in Chunk |-> c.lines]

\* The two sums of the model.
LEMMA TotalLinesCounted ==
  ASSUME \A w \in Writers : lines[w] \in Nat
  PROVE  TotalLines = Total(lines, Writers)
<1>1. PICK g : g = CHOOSE h : SumFold(h, lines, Writers)
  OBVIOUS
<1>2. SumFold(g, lines, Writers)
  BY <1>1, WritersFinite, FoldExists
<1>3. TotalLines = g[Writers]
  BY <1>1 DEF TotalLines, MapThenSumSet, MapThenFoldSet, SumFold
<1>4. QED
  BY <1>2, <1>3, WritersFinite, FoldIsTotal

LEMMA LinesStoredCounted ==
  ASSUME IsFiniteSet(chunks), chunks \subseteq Chunk
  PROVE  LinesStored = Total(Lines, chunks)
<1> DEFINE Fold(h) == h = [s \in SUBSET chunks |->
              IF s = {} THEN 0
              ELSE (CHOOSE x \in s : TRUE).lines + h[s \ {CHOOSE x \in s : TRUE}]]
<1>1. ASSUME NEW s \in SUBSET chunks, s # {}
      PROVE  (CHOOSE x \in s : TRUE).lines = Lines[CHOOSE x \in s : TRUE]
  <2>1. PICK x : x = CHOOSE y \in s : TRUE
    OBVIOUS
  <2>2. x \in Chunk
    BY <1>1, <2>1
  <2>3. QED
    BY <2>1, <2>2 DEF Lines
<1>2. \A h : Fold(h) <=> SumFold(h, Lines, chunks)
  BY <1>1 DEF SumFold
<1>3. \A x \in chunks : Lines[x] \in Nat
  BY DEF Lines, Chunk
<1>4. PICK g : g = CHOOSE h : Fold(h)
  OBVIOUS
<1>5. LinesStored = g[chunks]
  BY <1>4 DEF LinesStored, MapThenSumSet, MapThenFoldSet
<1> HIDE DEF Fold
<1>6. Fold(g)
  BY <1>2, <1>3, <1>4, FoldExists
<1>7. QED
  BY <1>2, <1>3, <1>5, <1>6, FoldIsTotal

-----------------------------------------------------------------------------
(* Lines *)

InQueue(q) == {q[i] : i \in 1..Len(q)}
\* The lines a writer has taken in and not handed to the storage.
Held(b, q) == b + Total(Lines, InQueue(q))
held == [w \in Writers |-> Held(buffer[w], queue[w])]

\* Where the lines are that the writers took in.
SumsOk ==
  /\ IsFiniteSet(chunks) /\ dropped \in Nat
  /\ Total(lines, Writers) = Total(Lines, chunks) + dropped + Total(held, Writers)
  /\ RowEnded => captureRow.lines = Total(lines, Writers)

\* A queue is a finite set of chunks.
LEMMA QueueFinite ==
  ASSUME NEW q \in Seq(Chunk)
  PROVE  /\ InQueue(q) \subseteq Chunk /\ IsFiniteSet(InQueue(q))
         /\ Total(Lines, InQueue(q)) \in Nat /\ IsFiniteSet(Cells(Lines, InQueue(q)))
<1>1. Len(q) \in Nat /\ \A i \in 1..Len(q) : q[i] \in Chunk
  OBVIOUS
<1>2. q \in Surjection(1..Len(q), InQueue(q))
  BY DEF InQueue, Surjection
<1>3. IsFiniteSet(1..Len(q))
  BY <1>1, FS_Interval
<1>4. IsFiniteSet(InQueue(q)) /\ InQueue(q) \subseteq Chunk
  BY <1>1, <1>2, <1>3, FS_Surjection DEF InQueue
<1>5. \A c \in InQueue(q) : Lines[c] \in Nat
  BY <1>4 DEF Lines, Chunk
<1>6. QED
  BY <1>4, <1>5, TotalType

\* Flushing moves lines from the buffer to the queue.
LEMMA HeldAppend ==
  ASSUME NEW w \in Writers, NEW q \in Seq(Chunk), NEW f \in Nat, Queued(w, q, f),
         NEW c \in Chunk, c.index = StartIndex(w) + f
  PROVE  Held(0, Append(q, c)) = Held(c.lines, q)
<1>1. Len(Append(q, c)) = Len(q) + 1 /\ Len(q) \in Nat
      /\ Append(q, c)[Len(q) + 1] = c /\ \A i \in 1..Len(q) : Append(q, c)[i] = q[i]
  OBVIOUS
<1>2. InQueue(Append(q, c)) = InQueue(q) \cup {c}
  BY <1>1 DEF InQueue
<1>3. c \notin InQueue(q)
  <2>1. ASSUME NEW i \in 1..Len(q) PROVE q[i].index # c.index
    BY <1>1, StartType DEF Queued
  <2>2. QED
    BY <2>1 DEF InQueue
<1>4. Lines[c] = c.lines /\ c.lines \in Nat
  BY DEF Lines, Chunk
<1>5. Total(Lines, InQueue(q)) \in Nat /\ IsFiniteSet(Cells(Lines, InQueue(q)))
  BY QueueFinite
<1>6. Total(Lines, InQueue(q) \cup {c}) = Total(Lines, InQueue(q)) + Lines[c]
  BY <1>3, <1>4, <1>5, TotalAdds, Zenon
<1>7. QED
  BY <1>2, <1>4, <1>5, <1>6 DEF Held

\* The chunk at the head leaves the queue.
LEMMA HeldTail ==
  ASSUME NEW w \in Writers, NEW q \in Seq(Chunk), NEW f \in Nat, Queued(w, q, f), q # <<>>,
         NEW b \in Nat
  PROVE  /\ Held(b, Tail(q)) \in Nat /\ Head(q).lines \in Nat
         /\ Held(b, q) = Held(b, Tail(q)) + Head(q).lines
<1>1. /\ Head(q) \in Chunk /\ Tail(q) \in Seq(Chunk) /\ Len(q) \in Nat \ {0}
      /\ Len(Tail(q)) = Len(q) - 1 /\ Head(q).index = StartIndex(w) + (f - Len(q)) /\ Len(q) <= f
  BY QueuedTail DEF Queued
<1>2. Head(q) = q[1] /\ \A i \in 1..Len(Tail(q)) : Tail(q)[i] = q[i + 1] /\ i + 1 \in 1..Len(q)
  BY <1>1
<1>3. InQueue(q) = InQueue(Tail(q)) \cup {Head(q)}
  <2>1. ASSUME NEW i \in 1..Len(q) PROVE q[i] \in InQueue(Tail(q)) \cup {Head(q)}
    <3>1. CASE i = 1
      BY <1>2, <3>1
    <3>2. CASE i # 1
      <4>1. i - 1 \in 1..Len(Tail(q)) /\ (i - 1) + 1 = i
        BY <1>1, <3>2
      <4>2. Tail(q)[i - 1] = q[i]
        BY <1>2, <4>1
      <4>3. QED
        BY <4>1, <4>2 DEF InQueue
    <3>3. QED
      BY <3>1, <3>2
  <2>2. q[1] \in InQueue(q)
    BY <1>1 DEF InQueue
  <2>3. InQueue(q) \subseteq InQueue(Tail(q)) \cup {Head(q)}
    BY <2>1 DEF InQueue
  <2>4. ASSUME NEW c \in InQueue(Tail(q)) PROVE c \in InQueue(q)
    <3>1. PICK i \in 1..Len(Tail(q)) : c = Tail(q)[i]
      BY DEF InQueue
    <3>2. c = q[i + 1] /\ i + 1 \in 1..Len(q)
      BY <1>2, <3>1
    <3>3. QED
      BY <3>2 DEF InQueue
  <2>5. QED
    BY <1>2, <2>2, <2>3, <2>4
<1>4. Head(q) \notin InQueue(Tail(q))
  <2>1. ASSUME NEW i \in 1..Len(Tail(q)) PROVE Tail(q)[i].index # Head(q).index
    <3>1. q[i + 1].index = StartIndex(w) + (f - Len(q)) + ((i + 1) - 1)
      BY <1>2 DEF Queued
    <3>2. QED
      BY <1>1, <1>2, <3>1, StartType
  <2>2. QED
    BY <2>1 DEF InQueue
<1>5. Lines[Head(q)] = Head(q).lines /\ Head(q).lines \in Nat
  BY <1>1 DEF Lines, Chunk
<1>6. Total(Lines, InQueue(Tail(q))) \in Nat /\ IsFiniteSet(Cells(Lines, InQueue(Tail(q))))
  BY <1>1, QueueFinite
<1>7. Total(Lines, InQueue(q)) = Total(Lines, InQueue(Tail(q))) + Lines[Head(q)]
  BY <1>3, <1>4, <1>5, <1>6, TotalAdds, Zenon
<1>8. QED
  BY <1>5, <1>6, <1>7 DEF Held

\* What every writer holds is a number.
LEMMA HeldType ==
  ASSUME WriterTypeOK
  PROVE  /\ \A w \in Writers : held[w] = Held(buffer[w], queue[w]) /\ held[w] \in Nat
         /\ Total(held, Writers) \in Nat /\ Total(lines, Writers) \in Nat
<1>1. ASSUME NEW w \in Writers PROVE held[w] = Held(buffer[w], queue[w]) /\ held[w] \in Nat
  <2>1. buffer[w] \in Nat /\ queue[w] \in Seq(Chunk)
    BY DEF WriterTypeOK
  <2>2. QED
    BY <2>1, QueueFinite DEF held, Held
<1>2. \A w \in Writers : lines[w] \in Nat
  BY DEF WriterTypeOK
<1>3. QED
  BY <1>1, <1>2, WritersFinite, TotalType

\* flush hands nothing to the storage: what a writer holds is what buf and its
\* queue held.
LEMMA FlushHolds ==
  ASSUME WriterTypeOK, WritersOk, NEW W \in SUBSET Writers, NEW buf \in [Writers -> Nat], Flush(W, buf),
         NEW v \in Writers
  PROVE  Held(buffer'[v], queue'[v]) = Held(buf[v], queue[v])
<1>1. /\ queue[v] \in Seq(Chunk) /\ flushed[v] \in Nat /\ buf[v] \in Nat
      /\ Queued(v, queue[v], flushed[v])
  BY DEF WriterTypeOK, WritersOk
<1>2. /\ buffer'[v] = IF v \in W THEN 0 ELSE buf[v]
      /\ queue'[v] = IF v \in W /\ buf[v] > 0
                     THEN Append(queue[v], [index |-> StartIndex(v) + flushed[v], lines |-> buf[v]])
                     ELSE queue[v]
  BY DEF Flush
<1>3. CASE v \in W /\ buf[v] > 0
  <2>1. PICK c : c = [index |-> StartIndex(v) + flushed[v], lines |-> buf[v]]
    OBVIOUS
  <2>2. c \in Chunk /\ c.index = StartIndex(v) + flushed[v] /\ c.lines = buf[v]
    BY <1>1, <2>1, StartType DEF Chunk
  <2>3. queue'[v] = Append(queue[v], c) /\ buffer'[v] = 0
    BY <1>2, <1>3, <2>1
  <2>4. Held(0, Append(queue[v], c)) = Held(c.lines, queue[v])
    BY <1>1, <2>2, HeldAppend
  <2>5. QED
    BY <2>2, <2>3, <2>4
<1>4. CASE ~(v \in W /\ buf[v] > 0)
  <2>1. buffer'[v] = buf[v] /\ queue'[v] = queue[v]
    BY <1>1, <1>2, <1>4
  <2>2. QED
    BY <2>1
<1>5. QED
  BY <1>3, <1>4

\* The sums hold at first.
LEMMA SumsStart == WriterInit => SumsOk
<1> SUFFICES ASSUME WriterInit PROVE SumsOk
  OBVIOUS
<1>1. IsFiniteSet(chunks) /\ dropped = 0 /\ Total(Lines, chunks) = 0 /\ ~RowEnded
  BY TotalNone, FS_EmptySet DEF WriterInit, RowEnded
<1>2. Total(lines, Writers) = 0
  BY TotalZero DEF WriterInit
<1>3. InQueue(<<>>) = {}
  BY DEF InQueue
<1>4. ASSUME NEW w \in Writers PROVE held[w] = 0
  <2>1. buffer[w] = 0 /\ queue[w] = <<>>
    BY DEF WriterInit
  <2>2. Total(Lines, InQueue(queue[w])) = 0
    BY <1>3, <2>1, TotalNone
  <2>3. held[w] = buffer[w] + Total(Lines, InQueue(queue[w]))
    BY DEF held, Held
  <2>4. QED
    BY <2>1, <2>2, <2>3
<1>5. Total(held, Writers) = 0
  BY <1>4, TotalZero
<1>6. QED
  BY <1>1, <1>2, <1>5 DEF SumsOk

\* A step that neither takes in nor hands over a line and leaves the row alone.
LEMMA SumsStay ==
  ASSUME SumsOk, UNCHANGED <<lines, chunks, dropped, captureRow>>,
         \A v \in Writers : Held(buffer'[v], queue'[v]) = Held(buffer[v], queue[v])
  PROVE  SumsOk'
<1>1. held' = held
  BY DEF held
<1>2. Total(held, Writers)' = Total(held, Writers)
  BY <1>1 DEF Total, Cells
<1>3. Total(lines, Writers)' = Total(lines, Writers) /\ Total(Lines, chunks)' = Total(Lines, chunks)
  BY DEF Total, Cells
<1>4. QED
  BY <1>2, <1>3 DEF SumsOk, RowEnded

\* handleLine takes in one line, and it is held.
LEMMA LineSums ==
  ASSUME WriterInv, WriterTypeOK', SumsOk, NEW w \in Writers, HandleLine(w)
  PROVE  SumsOk'
<1> DEFINE buf == [buffer EXCEPT ![w] = @ + 1]
<1>1. /\ WriterTypeOK /\ WritersOk /\ ~RowEnded /\ UNCHANGED <<chunks, dropped, captureRow>>
      /\ lines' = [lines EXCEPT ![w] = @ + 1]
  BY DEF WriterInv, RowOk, HandleLine
<1>2. PICK W \in SUBSET Writers : Flush(W, buf)
  BY DEF HandleLine, Terminate
<1>3. buf \in [Writers -> Nat] /\ buf[w] = buffer[w] + 1 /\ \A v \in Writers : v # w => buf[v] = buffer[v]
  BY <1>1 DEF WriterTypeOK
<1> HIDE DEF buf
<1>4. \A v \in Writers : Held(buffer'[v], queue'[v]) = Held(buf[v], queue[v])
  BY <1>1, <1>2, <1>3, FlushHolds
<1>5. /\ \A v \in Writers : held[v] = Held(buffer[v], queue[v]) /\ held[v] \in Nat
      /\ Total(held, Writers) \in Nat /\ Total(lines, Writers) \in Nat
  BY <1>1, HeldType
<1>6. PICK g : g = held'
  OBVIOUS
<1>7. \A v \in Writers : g[v] = Held(buf[v], queue[v])
  BY <1>4, <1>6 DEF held
<1>8. g[w] = held[w] + 1 /\ \A v \in Writers : v # w => g[v] = held[v]
  <2>1. buffer[w] \in Nat /\ Total(Lines, InQueue(queue[w])) \in Nat
    BY <1>1, QueueFinite DEF WriterTypeOK
  <2>2. QED
    BY <1>3, <1>5, <1>7, <2>1 DEF Held
<1>9. \A v \in Writers : g[v] \in Nat /\ held[v] \in Nat
  BY <1>5, <1>8
<1>10. Total(g, Writers) = Total(held, Writers) + 1
  <2>1. Total(g, Writers) + held[w] = Total(held, Writers) + g[w]
    BY <1>8, <1>9, WritersFinite, TotalChange
  <2>2. Total(g, Writers) \in Nat
    BY <1>9, WritersFinite, TotalType
  <2>3. QED
    BY <1>5, <1>8, <1>9, <2>1, <2>2
<1>11. PICK h : h = lines'
  OBVIOUS
<1>12. /\ h[w] = lines[w] + 1 /\ \A v \in Writers : v # w => h[v] = lines[v]
       /\ \A v \in Writers : h[v] \in Nat /\ lines[v] \in Nat
  BY <1>1, <1>11 DEF WriterTypeOK
<1>13. Total(h, Writers) = Total(lines, Writers) + 1
  <2>1. Total(h, Writers) + lines[w] = Total(lines, Writers) + h[w]
    BY <1>12, WritersFinite, TotalChange
  <2>2. Total(h, Writers) \in Nat
    BY <1>12, WritersFinite, TotalType
  <2>3. QED
    BY <1>5, <1>12, <2>1, <2>2
<1>14. Total(lines, Writers)' = Total(h, Writers) /\ Total(held, Writers)' = Total(g, Writers)
  BY <1>6, <1>11 DEF Total, Cells
<1>15. Total(Lines, chunks)' = Total(Lines, chunks) /\ Total(Lines, chunks) \in Nat
  <2>1. \A c \in chunks : Lines[c] \in Nat
    BY <1>1 DEF WriterTypeOK, Lines, Chunk
  <2>2. Total(Lines, chunks) \in Nat
    BY <2>1, TotalType DEF SumsOk
  <2>3. QED
    BY <1>1, <2>2
<1>16. QED
  BY <1>1, <1>5, <1>10, <1>13, <1>14, <1>15 DEF SumsOk, RowEnded

\* A chunk is stored, or its lines are dropped; nobody holds it any more.
LEMMA StoreSums ==
  ASSUME WriterInv, SumsOk, NEW w \in Writers, StoreChunk(w)
  PROVE  SumsOk'
<1>1. /\ WriterTypeOK /\ WritersOk /\ queue[w] # <<>> /\ queue' = [queue EXCEPT ![w] = Tail(queue[w])]
      /\ UNCHANGED <<lines, buffer, captureRow>>
  BY DEF WriterInv, StoreChunk
<1>2. PICK c : c = Head(queue[w])
  OBVIOUS
<1>3. \/ chunks' = chunks \union {c} /\ UNCHANGED dropped
      \/ UNCHANGED chunks /\ dropped' = dropped + c.lines
  <2>1. ~\E d \in chunks : d.index = Head(queue[w]).index
    BY <1>1, HeadIsFree
  <2>2. QED
    BY <1>2, <2>1 DEF StoreChunk
<1>4. c \notin chunks
  BY <1>1, <1>2, HeadIsFree
<1>5. /\ queue[w] \in Seq(Chunk) /\ flushed[w] \in Nat /\ Queued(w, queue[w], flushed[w])
      /\ buffer[w] \in Nat /\ queue'[w] = Tail(queue[w]) /\ \A v \in Writers : v # w => queue'[v] = queue[v]
  BY <1>1 DEF WriterTypeOK, WritersOk
<1>6. c \in Chunk /\ c.lines \in Nat /\ Lines[c] = c.lines
  <2>1. c \in Chunk
    BY <1>1, <1>2, <1>5, QueuedTail
  <2>2. QED
    BY <2>1 DEF Chunk, Lines
<1>7. /\ \A v \in Writers : held[v] = Held(buffer[v], queue[v]) /\ held[v] \in Nat
      /\ Total(held, Writers) \in Nat /\ Total(lines, Writers) \in Nat
  BY <1>1, HeldType
<1>8. PICK g : g = held'
  OBVIOUS
<1>9. \A v \in Writers : g[v] = Held(buffer[v], queue'[v])
  BY <1>1, <1>8 DEF held
<1>10. /\ g[w] \in Nat /\ held[w] = g[w] + c.lines
       /\ \A v \in Writers : v # w => g[v] = held[v]
  <2>1. /\ Held(buffer[w], Tail(queue[w])) \in Nat
        /\ Held(buffer[w], queue[w]) = Held(buffer[w], Tail(queue[w])) + Head(queue[w]).lines
    BY <1>1, <1>5, HeldTail
  <2>2. g[w] = Held(buffer[w], Tail(queue[w])) /\ held[w] = Held(buffer[w], queue[w])
    BY <1>5, <1>7, <1>9
  <2>3. \A v \in Writers : v # w => g[v] = held[v]
    BY <1>5, <1>7, <1>9
  <2>4. QED
    BY <1>2, <2>1, <2>2, <2>3
<1>11. \A v \in Writers : g[v] \in Nat /\ held[v] \in Nat
  BY <1>7, <1>10
<1>12. Total(held, Writers) = Total(g, Writers) + c.lines /\ Total(g, Writers) \in Nat
  <2>1. Total(g, Writers) + held[w] = Total(held, Writers) + g[w]
    BY <1>10, <1>11, WritersFinite, TotalChange
  <2>2. Total(g, Writers) \in Nat
    BY <1>11, WritersFinite, TotalType
  <2>3. QED
    BY <1>6, <1>7, <1>10, <2>1, <2>2
<1>13. Total(lines, Writers)' = Total(lines, Writers) /\ Total(held, Writers)' = Total(g, Writers)
  BY <1>1, <1>8 DEF Total, Cells
<1>14. /\ Total(Lines, chunks) \in Nat /\ IsFiniteSet(Cells(Lines, chunks))
       /\ IsFiniteSet(chunks) /\ dropped \in Nat
  <2>1. \A d \in chunks : Lines[d] \in Nat
    BY <1>1 DEF WriterTypeOK, Lines, Chunk
  <2>2. QED
    BY <2>1, TotalType DEF SumsOk
<1>15. CASE chunks' = chunks \union {c} /\ UNCHANGED dropped
  <2>1. Total(Lines, chunks \cup {c}) = Total(Lines, chunks) + Lines[c]
    BY <1>4, <1>6, <1>14, TotalAdds, Zenon
  <2>2. IsFiniteSet(chunks \cup {c})
    BY <1>14, FS_AddElement
  <2>3. Total(Lines, chunks)' = Total(Lines, chunks) + c.lines
    BY <1>6, <1>15, <2>1
  <2>4. QED
    BY <1>1, <1>6, <1>12, <1>13, <1>14, <1>15, <2>2, <2>3 DEF SumsOk, RowEnded
<1>16. CASE UNCHANGED chunks /\ dropped' = dropped + c.lines
  <2>1. Total(Lines, chunks)' = Total(Lines, chunks)
    BY <1>16
  <2>2. QED
    BY <1>1, <1>6, <1>12, <1>13, <1>14, <1>16, <2>1 DEF SumsOk, RowEnded
<1>17. QED
  BY <1>3, <1>15, <1>16

\* The row gets the sum of what its writers took in.
LEMMA FinalSums ==
  ASSUME WriterInv, SumsOk, FinalizeFanOut
  PROVE  SumsOk'
<1>1. /\ UNCHANGED <<lines, buffer, queue, chunks, dropped>>
      /\ captureRow'.lines = TotalLines \/ UNCHANGED captureRow
  BY DEF FinalizeFanOut
<1>2. \A w \in Writers : lines[w] \in Nat
  BY DEF WriterInv, WriterTypeOK
<1>3. TotalLines = Total(lines, Writers)
  BY <1>2, TotalLinesCounted
<1>4. held' = held
  BY <1>1 DEF held
<1>5. /\ Total(lines, Writers)' = Total(lines, Writers) /\ Total(Lines, chunks)' = Total(Lines, chunks)
      /\ Total(held, Writers)' = Total(held, Writers)
  BY <1>1, <1>4 DEF Total, Cells
<1>6. QED
  BY <1>1, <1>3, <1>5 DEF SumsOk, RowEnded

\* Every step of a session keeps the sums.
LEMMA SumsPreserved == WriterInv /\ WriterInv' /\ SumsOk /\ [WriterNext]_writerVars => SumsOk'
<1> SUFFICES ASSUME WriterInv, WriterInv', SumsOk, [WriterNext]_writerVars PROVE SumsOk'
  OBVIOUS
<1>1. WriterTypeOK /\ WritersOk /\ WriterTypeOK' /\ buffer \in [Writers -> Nat]
  BY DEF WriterInv, WriterTypeOK
<1>2. ASSUME NEW W \in SUBSET Writers, Flush(W, buffer), UNCHANGED <<lines, chunks, dropped, captureRow>>
      PROVE  SumsOk'
  <2>1. \A v \in Writers : Held(buffer'[v], queue'[v]) = Held(buffer[v], queue[v])
    BY <1>1, <1>2, FlushHolds
  <2>2. QED
    BY <1>2, <2>1, SumsStay
<1>3. ASSUME NEW w \in Writers, FlushTimer(w) \/ SourceEnds(w) PROVE SumsOk'
  <2>1. /\ {w} \in SUBSET Writers /\ Flush({w}, buffer)
        /\ UNCHANGED <<lines, chunks, dropped, captureRow>>
    BY <1>3 DEF FlushTimer, SourceEnds, Terminate
  <2>2. QED
    BY <1>2, <2>1
<1>4. ASSUME StopWriters PROVE SumsOk'
  <2>1. PICK W \in SUBSET Writers : W = {w \in Writers : wstate[w] = "running"}
    OBVIOUS
  <2>2. Flush(W, buffer) /\ UNCHANGED <<lines, chunks, dropped, captureRow>>
    BY <1>4, <2>1 DEF StopWriters, Terminate
  <2>3. QED
    BY <1>2, <2>2
<1>5. ASSUME \/ UNCHANGED writerVars
             \/ \E w \in Writers : OpenNode(w) \/ WriterEnds(w)
      PROVE  SumsOk'
  <2>1. UNCHANGED <<lines, chunks, dropped, captureRow, buffer, queue>>
    BY <1>5 DEF writerVars, OpenNode, WriterEnds
  <2>2. QED
    BY <2>1, SumsStay
<1>6. QED
  BY <1>1, <1>3, <1>4, <1>5, LineSums, StoreSums, FinalSums DEF WriterNext, WriterStep

\* A sum of values up to m.
LEMMA TotalBound ==
  ASSUME NEW f, NEW S, IsFiniteSet(S), NEW m \in Nat, \A x \in S : f[x] \in Nat /\ f[x] <= m
  PROVE  Total(f, S) <= Cardinality(S) * m
<1>1. PICK C, D : C = 1..m /\ D = S \X C
  OBVIOUS
<1>2. IsFiniteSet(C) /\ Cardinality(C) = m
  BY <1>1, FS_Interval
<1>3. IsFiniteSet(D) /\ Cardinality(D) = Cardinality(S) * Cardinality(C)
  BY <1>1, <1>2, FS_Product, Zenon
<1>4. Cells(f, S) \in SUBSET D
  BY <1>1 DEF Cells
<1>5. Cardinality(Cells(f, S)) <= Cardinality(D)
  BY <1>3, <1>4, FS_Subset
<1>6. Cardinality(D) = Cardinality(S) * m
  BY <1>2, <1>3, Zenon
<1>7. QED
  BY <1>5, <1>6, Zenon DEF Total

-----------------------------------------------------------------------------
(* Theorems *)

\* The inductive invariant of a session's writers: each has flushed no more
\* chunks than it took in lines, its queue holds the last of them in order, a
\* stored chunk came from the range of one writer, and the row is written when
\* all have ended (CaptureWriter, startFanOutSession).
THEOREM WriterInvariant == WriterSpec => []WriterInv
<1>1. QED
  BY WriterStarts, WriterPreserved, PTL DEF WriterSpec

\* Every line the writers took in is held by one, stored or dropped (handleLine,
\* flush, saveCaptureChunk).
THEOREM SumsInvariant == WriterSpec => []SumsOk
<1>1. QED
  BY SumsStart, SumsPreserved, WriterInvariant, PTL DEF WriterSpec

\* Whatever the writers of a fan-out session flush, no chunk meets one that is
\* stored under its index: the primary key never refuses a chunk, as the comment
\* on CHUNK_INDEX_NAMESPACE promises, for every number of nodes.
THEOREM IndexesFree == WriterSpec => []IndexFree
<1>1. WriterInv => IndexFree
  BY HeadIsFree DEF IndexFree
<1>2. QED
  BY <1>1, WriterInvariant, PTL

\* The row of an ended session accounts for every line its writers took in, for
\* any number of cluster primaries, caps, thresholds and failing writes: each is in
\* a stored chunk or in one whose write failed and was logged, none is on its way,
\* and completed means captured in full (handleLine, flush, terminate,
\* finalizeFanOutSession).
THEOREM EveryLineAccounted == WriterSpec => []CaptureAccounted
<1>1. ASSUME WriterInv, SumsOk PROVE CaptureAccounted
  <2>1. WritersDrained /\ CompletedInFull
    BY <1>1 DEF WriterInv, WritersOk, Counts, RowOk, WritersDrained, CompletedInFull, RowEnded
  <2>2. ASSUME RowEnded PROVE captureRow.lines = LinesStored + dropped
    <3>1. ASSUME NEW w \in Writers PROVE held[w] = 0
      <4>1. buffer[w] = 0 /\ queue[w] = <<>>
        BY <2>1, <2>2 DEF WritersDrained
      <4>2. InQueue(<<>>) = {}
        BY DEF InQueue
      <4>3. Total(Lines, InQueue(queue[w])) = 0
        BY <4>1, <4>2, TotalNone
      <4>4. held[w] = buffer[w] + Total(Lines, InQueue(queue[w]))
        BY DEF held, Held
      <4>5. QED
        BY <4>1, <4>3, <4>4
    <3>2. Total(held, Writers) = 0
      BY <3>1, TotalZero
    <3>3. chunks \subseteq Chunk /\ IsFiniteSet(chunks) /\ dropped \in Nat
      BY <1>1 DEF WriterInv, WriterTypeOK, SumsOk
    <3>4. LinesStored = Total(Lines, chunks) /\ Total(Lines, chunks) \in Nat
      <4>1. \A c \in chunks : Lines[c] \in Nat
        BY <3>3 DEF Lines, Chunk
      <4>2. QED
        BY <3>3, <4>1, LinesStoredCounted, TotalType
    <3>5. QED
      BY <1>1, <2>2, <3>2, <3>3, <3>4 DEF SumsOk
  <2>3. QED
    BY <2>1, <2>2 DEF CaptureAccounted, LinesAccounted
<1>2. QED
  BY <1>1, SumsInvariant, WriterInvariant, PTL

\* The line cap of a session holds for each node: the row of a fan-out session has
\* up to that many lines for every primary, and never more (handleLine's look at
\* lineCap, finalizeFanOutSession's totalLines).
RowBounded == RowEnded => captureRow.lines <= NumWriters * LineCap
THEOREM SessionBounded == WriterSpec => []RowBounded
<1>1. ASSUME WriterInv, SumsOk PROVE RowBounded
  <2>1. ASSUME NEW w \in Writers PROVE lines[w] \in Nat /\ lines[w] <= LineCap
    BY <1>1 DEF WriterInv, WriterTypeOK, WritersOk, Counts
  <2>2. LineCap \in Nat /\ NumWriters \in Nat
    BY WriterAssumption
  <2>3. Cardinality(Writers) = NumWriters
    BY <2>2, FS_Interval DEF Writers
  <2>4. Total(lines, Writers) <= Cardinality(Writers) * LineCap
    BY <2>1, <2>2, WritersFinite, TotalBound
  <2>5. Total(lines, Writers) <= NumWriters * LineCap
    BY <2>3, <2>4, Zenon
  <2>6. QED
    BY <1>1, <2>5, Zenon DEF SumsOk, RowBounded
<1>2. QED
  BY <1>1, SumsInvariant, WriterInvariant, PTL

=============================================================================
