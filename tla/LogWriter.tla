------------------------------ MODULE LogWriter ------------------------------
(***************************************************************************)
(* The log's writer: goroutines put copies of their lines in a queue of     *)
(* QueueLength, one goroutine writes them out, and Close puts an end marker *)
(* behind what is queued and waits for the writing goroutine or for the end *)
(* of its context.                                                          *)
(***************************************************************************)
EXTENDS Naturals, Sequences, SequencesExt

CONSTANTS Authors, LinesEach, QueueLength

\* A line: its author and its number; the marker is Close's nil.
Marker == <<"end", 0>>

VARIABLES
  lines,     \* lines[a]: lines author a has offered
  queue,     \* lw.ch
  accepted,  \* lines for which Write answered without an error, in order
  written,   \* what reached the underlying writer
  loopDone,  \* lw.done is closed
  closer,    \* Close: "no", "call", "wait" (marker queued), "nil" or "ctx"
  owed,      \* the lines that were accepted when Close was called
  expired    \* the context of Close has ended
logVars == <<lines, queue, accepted, written, loopDone, closer, owed, expired>>

LogInit ==
  /\ lines = [a \in Authors |-> 0]
  /\ queue = <<>> /\ accepted = <<>> /\ written = <<>> /\ owed = <<>>
  /\ loopDone = FALSE /\ closer = "no" /\ expired = FALSE

\* The queue takes one more.
Room == Len(queue) < QueueLength

\* Write: the line is queued, or refused when the queue is full.  It is not told
\* when the writer is closed.
WriteLine(a) ==
  /\ lines[a] < LinesEach
  /\ lines' = [lines EXCEPT ![a] = @ + 1]
  /\ IF Room
     THEN LET line == <<a, lines[a] + 1>> IN
          queue' = Append(queue, line) /\ accepted' = Append(accepted, line)
     ELSE UNCHANGED <<queue, accepted>>
  /\ UNCHANGED <<written, loopDone, closer, owed, expired>>

\* One turn of the writing goroutine.
LoopTurn ==
  /\ ~loopDone /\ queue # <<>>
  /\ queue' = Tail(queue)
  /\ IF Head(queue) = Marker
     THEN loopDone' = TRUE /\ UNCHANGED written
     ELSE written' = Append(written, Head(queue)) /\ UNCHANGED loopDone
  /\ UNCHANGED <<lines, accepted, closer, owed, expired>>

CallClose ==
  /\ closer = "no" /\ closer' = "call" /\ owed' = accepted
  /\ UNCHANGED <<lines, queue, accepted, written, loopDone, expired>>

\* A slip: the marker overtakes the lines.
JumpQueue ==
  /\ closer = "call" /\ Room
  /\ queue' = <<Marker>> \o queue /\ closer' = "wait"
  /\ UNCHANGED <<lines, accepted, written, loopDone, owed, expired>>

\* The first select's send: possible when the queue has room.
QueueMarker ==
  /\ closer = "call" /\ Room
  /\ queue' = Append(queue, Marker) /\ closer' = "wait"
  /\ UNCHANGED <<lines, accepted, written, loopDone, owed, expired>>

CloseReturns ==
  /\ closer \in {"call", "wait"}
  /\ \/ loopDone /\ closer' = "nil"
     \/ expired /\ closer' = "ctx"
  /\ UNCHANGED <<lines, queue, accepted, written, loopDone, owed, expired>>

ExpireClose ==
  /\ closer \in {"call", "wait"} /\ ~expired /\ expired' = TRUE
  /\ UNCHANGED <<lines, queue, accepted, written, loopDone, closer, owed>>

LogNext ==
  \/ \E a \in Authors : WriteLine(a)
  \/ LoopTurn \/ CallClose \/ QueueMarker \/ CloseReturns \/ ExpireClose
LogSpec == LogInit /\ [][LogNext]_logVars

----------------------------------------------------------------------------
\* What is written is what was accepted, in the order in which it was accepted
\* and without a hole: lines are lost only by Write's error, and after Close by
\* standing behind the marker, which is a loss at the end.
NoHole == IsPrefix(written, accepted)

\* Close answers nil only when every line accepted before it was called is out,
\* the full queue and the lines that came meanwhile notwithstanding.
CloseFlushes == closer = "nil" => IsPrefix(owed, written)

\* A line that was accepted is written, in its place, and before Close says so.
LinesKept == NoHole /\ CloseFlushes
=============================================================================
