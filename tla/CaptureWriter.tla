--------------------------- MODULE CaptureWriter ---------------------------
(***************************************************************************)
(* CaptureWriter and startFanOutSession: the writers of one capture        *)
(* session, one per cluster primary, that drain MONITOR lines into chunks  *)
(* and end in one row.                                                     *)
(*                                                                         *)
(* A line is counted, not kept; the byte cap acts like the line cap.  The  *)
(* write queue is the sequence of chunk sizes not yet stored: a chunk's    *)
(* index is the number of chunks flushed before it, offset by the writer's *)
(* namespace.  A single-node session is the instance with one writer: what *)
(* it writes to the row, failed open included, is what the aggregate over  *)
(* one segment would be.                                                   *)
(***************************************************************************)
EXTENDS Naturals, Sequences, FiniteSetsExt

CONSTANTS
  NumWriters,      \* number of cluster primaries, opened in order
  LineCap,         \* the session's line cap, applied to each writer
  FlushThreshold,  \* lines that flush a chunk before its timer
  Namespace,       \* chunk indexes per writer
  MaxWriterFaults  \* failing storage calls, over the whole behaviour

ASSUME WriterAssumption ==
  /\ NumWriters \in Nat /\ LineCap \in Nat \ {0}
  /\ FlushThreshold \in Nat \ {0}
  /\ Namespace \in Nat /\ Namespace >= LineCap
  /\ MaxWriterFaults \in Nat

Writers == 1..NumWriters

VARIABLES
  opening,     \* the next node startFanOutSession opens; past the last one, active
  wstate,      \* per writer: "unopened", "running", "draining", "ended"
  outcome,     \* its status, once it ends or fails to open
  lines,       \* lineCount
  buffer,      \* lines in the current chunk
  queue,       \* chunks that wait to be stored
  flushed,     \* chunks flushed so far
  chunks,      \* stored chunks of the session, by index
  dropped,     \* lines of chunks whose write failed
  captureRow,  \* the session row: status and line count
  finalized,   \* the final write of the row has been made, or has failed
  writerFaults

writerVars == <<opening, wstate, outcome, lines, buffer, queue, flushed, chunks, dropped,
                captureRow, finalized, writerFaults>>

WriterInit ==
  /\ opening = 1
  /\ wstate = [w \in Writers |-> "unopened"]
  /\ outcome = [w \in Writers |-> "running"]
  /\ lines = [w \in Writers |-> 0]
  /\ buffer = [w \in Writers |-> 0]
  /\ queue = [w \in Writers |-> <<>>]
  /\ flushed = [w \in Writers |-> 0]
  /\ chunks = {}
  /\ dropped = 0
  /\ captureRow = [status |-> "running", lines |-> 0]
  /\ finalized = FALSE
  /\ writerFaults = 0

\* Mutant of OpenNode: a node that does not open never ends either.
OpenNodeHangs(w) ==
  /\ opening = w
  /\ opening' = w + 1
  /\ \/ /\ wstate' = [wstate EXCEPT ![w] = "running"]
        /\ UNCHANGED outcome
     \/ /\ outcome' = [outcome EXCEPT ![w] = "failed"]
        /\ UNCHANGED wstate
  /\ UNCHANGED <<lines, buffer, queue, flushed, chunks, dropped, captureRow, finalized, writerFaults>>

\* The loop of startFanOutSession: one node after the other; a node that does
\* not open is a failed segment and the loop goes on.
OpenNode(w) ==
  /\ opening = w
  /\ opening' = w + 1
  /\ \/ /\ wstate' = [wstate EXCEPT ![w] = "running"]
        /\ UNCHANGED outcome
     \/ /\ wstate' = [wstate EXCEPT ![w] = "ended"]
        /\ outcome' = [outcome EXCEPT ![w] = "failed"]
  /\ UNCHANGED <<lines, buffer, queue, flushed, chunks, dropped, captureRow, finalized, writerFaults>>

\* Mutant of StartIndex: every writer counts from 0.
StartIndexShared(w) == 0

StartIndex(w) == (w - 1) * Namespace

\* flush, by the writers W: what `buf` holds becomes a chunk at the end of the
\* write queue.
Flush(W, buf) ==
  /\ buffer' = [w \in Writers |-> IF w \in W THEN 0 ELSE buf[w]]
  /\ queue' = [w \in Writers |->
       IF w \in W /\ buf[w] > 0
       THEN Append(queue[w], [index |-> StartIndex(w) + flushed[w], lines |-> buf[w]])
       ELSE queue[w]]
  /\ flushed' = [w \in Writers |-> IF w \in W /\ buf[w] > 0 THEN flushed[w] + 1 ELSE flushed[w]]

\* terminate, by the writers W, up to its await: what is buffered is flushed.
Terminate(W, st, buf) ==
  /\ wstate' = [w \in Writers |-> IF w \in W THEN "draining" ELSE wstate[w]]
  /\ outcome' = [w \in Writers |-> IF w \in W THEN st ELSE outcome[w]]
  /\ Flush(W, buf)

\* handleLine: count and buffer the line, then look at the caps.
HandleLine(w) ==
  /\ wstate[w] = "running"
  /\ lines' = [lines EXCEPT ![w] = @ + 1]
  /\ LET buf == [buffer EXCEPT ![w] = @ + 1]
     IN \/ /\ lines[w] + 1 >= LineCap
           /\ Terminate({w}, "truncated", buf)
        \/ /\ lines[w] + 1 < LineCap
           /\ Flush(IF buf[w] >= FlushThreshold THEN {w} ELSE {}, buf)
           /\ UNCHANGED <<wstate, outcome>>
  /\ UNCHANGED <<opening, chunks, dropped, captureRow, finalized, writerFaults>>

\* The flush timer, armed by the first line of a chunk.
FlushTimer(w) ==
  /\ wstate[w] = "running"
  /\ buffer[w] > 0
  /\ Flush({w}, buffer)
  /\ UNCHANGED <<opening, wstate, outcome, lines, chunks, dropped, captureRow, finalized, writerFaults>>

\* The duration timer, or the end or an error of the source.
SourceEnds(w) ==
  /\ wstate[w] = "running"
  /\ \E st \in {"completed", "failed"} : Terminate({w}, st, buffer)
  /\ UNCHANGED <<opening, lines, chunks, dropped, captureRow, finalized, writerFaults>>

\* stopSession stops every writer, once the session is in the active map.
StopWriters ==
  /\ opening > NumWriters
  /\ \E w \in Writers : wstate[w] = "running"
  /\ Terminate({w \in Writers : wstate[w] = "running"}, "completed", buffer)
  /\ UNCHANGED <<opening, lines, chunks, dropped, captureRow, finalized, writerFaults>>

\* The head of the queue is stored, or its write fails and is only logged.  An
\* index that is taken is refused by the primary key.
StoreChunk(w) ==
  /\ queue[w] # <<>>
  /\ queue' = [queue EXCEPT ![w] = Tail(@)]
  /\ LET c == Head(queue[w])
     IN \/ /\ chunks' = IF \E d \in chunks : d.index = c.index THEN chunks ELSE chunks \union {c}
           /\ UNCHANGED <<dropped, writerFaults>>
        \/ /\ writerFaults < MaxWriterFaults
           /\ writerFaults' = writerFaults + 1
           /\ dropped' = dropped + c.lines
           /\ UNCHANGED chunks
  /\ UNCHANGED <<opening, wstate, outcome, lines, buffer, flushed, captureRow, finalized>>

\* The queue is drained and the writer's promise resolves.
WriterEnds(w) ==
  /\ wstate[w] = "draining"
  /\ queue[w] = <<>>
  /\ wstate' = [wstate EXCEPT ![w] = "ended"]
  /\ UNCHANGED <<opening, outcome, lines, buffer, queue, flushed, chunks, dropped,
                 captureRow, finalized, writerFaults>>

AggregateSegmentStatus ==
  LET some(st) == \E w \in Writers : outcome[w] = st
  IN IF some("failed") THEN "failed" ELSE IF some("truncated") THEN "truncated" ELSE "completed"

TotalLines == MapThenSumSet(LAMBDA w : lines[w], Writers)

\* Every segment has ended: one write of the row, whose failure is only logged.
FinalizeFanOut ==
  /\ ~finalized
  /\ opening > NumWriters
  /\ \A w \in Writers : wstate[w] = "ended"
  /\ finalized' = TRUE
  /\ \/ /\ captureRow' = [status |-> AggregateSegmentStatus, lines |-> TotalLines]
        /\ UNCHANGED writerFaults
     \/ /\ writerFaults < MaxWriterFaults
        /\ writerFaults' = writerFaults + 1
        /\ UNCHANGED captureRow
  /\ UNCHANGED <<opening, wstate, outcome, lines, buffer, queue, flushed, chunks, dropped>>

WriterStep == \E w \in Writers : OpenNode(w) \/ StoreChunk(w) \/ WriterEnds(w)

WriterNext ==
  \/ WriterStep
  \/ \E w \in Writers : HandleLine(w) \/ FlushTimer(w) \/ SourceEnds(w)
  \/ StopWriters
  \/ FinalizeFanOut

WriterSpec == WriterInit /\ [][WriterNext]_writerVars

-----------------------------------------------------------------------------
RowEnded == captureRow.status # "running"

LinesStored == MapThenSumSet(LAMBDA c : c.lines, chunks)

\* Every line of the row is in a stored chunk or in one whose write failed.
LinesAccounted == RowEnded => captureRow.lines = LinesStored + dropped

\* Nothing is still on its way when the row is written.
WritersDrained == RowEnded => \A w \in Writers : queue[w] = <<>> /\ buffer[w] = 0

\* Only a session whose every node was captured to the end of its time is called
\* completed.
CompletedInFull ==
  captureRow.status = "completed" => \A w \in Writers : outcome[w] = "completed" /\ lines[w] < LineCap

\* The row of an ended session accounts for every line its writers took in: each
\* is in a stored chunk or in one whose write failed, nothing is still on its
\* way, and only a session whose every node was captured to the end of its time
\* is called completed.
CaptureAccounted == LinesAccounted /\ WritersDrained /\ CompletedInFull

\* A session that has begun to open its nodes comes to its final write, whichever
\* of them fail to open, fail later, reach a cap or are stopped.
CaptureFinalized == []<>(opening > 1 => finalized)
=============================================================================
