------------------------------ MODULE Recorder ------------------------------
(***************************************************************************)
(* internal/events/recorder.go: the single-writer JSONL event sink.        *)
(*                                                                         *)
(* Record is a send on a bounded channel, so it blocks while the channel   *)
(* is full.  One writer goroutine ranges over the channel, encodes each    *)
(* event through a bufio.Writer (library code: it spills to the file when  *)
(* its buffer overflows, and after one failed write refuses every later    *)
(* one) and keeps going after an error; it flushes when the channel is     *)
(* closed and drained.  Close closes the channel, waits for the writer and *)
(* returns the first error the writer met.                                 *)
(*                                                                         *)
(* An event is a value of Events; a line that is not entirely in the sink  *)
(* counts as not written.                                                  *)
(***************************************************************************)
EXTENDS Naturals, Sequences

CONSTANTS Events,     \* the events producers may record, each once
          Capacity,   \* capacity of the channel
          BufLines    \* how many lines the bufio.Writer holds at most

ASSUME RecorderAssumption == Capacity \in Nat \ {0} /\ BufLines \in Nat \ {0}

VARIABLES accepted,   \* events whose send on the channel completed, in order
          ch,         \* the channel's contents
          chClosed,   \* close(r.ch) was executed
          writer,     \* where the writer goroutine stands
          buf,        \* complete lines in the bufio.Writer
          broken,     \* the bufio.Writer's sticky error
          sink,       \* complete lines in the file
          firstErr,   \* r.err: an error was kept
          verdict     \* what Close returned

recVars == <<accepted, ch, chClosed, writer, buf, broken, sink, firstErr, verdict>>

ElementsOf(s) == {s[n] : n \in 1..Len(s)}

RecInit ==
  /\ accepted = <<>> /\ ch = <<>> /\ chClosed = FALSE
  /\ writer = "loop"
  /\ buf = <<>> /\ broken = FALSE /\ sink = <<>> /\ firstErr = FALSE
  /\ verdict = "open"

\* Variant: the queue is not bounded.
NoBound == TRUE
RoomInChannel == Len(ch) < Capacity

\* Record: enqueue; disabled (the caller blocks) while the channel is full.
Record(e) ==
  /\ ~chClosed
  /\ RoomInChannel
  /\ ch' = Append(ch, e)
  /\ accepted' = Append(accepted, e)
  /\ UNCHANGED <<chClosed, writer, buf, broken, sink, firstErr, verdict>>

\* Variant: the error is lost.
ForgetErr == UNCHANGED firstErr
\* setErr, seen from Close: the first error stays.
SetErr == firstErr' = TRUE

Receive ==
  /\ writer = "loop"
  /\ ch # <<>>
  /\ ch' = Tail(ch)
  /\ UNCHANGED <<accepted, chClosed, writer, verdict>>

\* bufio.Writer and the file under it: the line stays in the buffer, ...
WriteBuffered(e) ==
  /\ Len(buf) < BufLines
  /\ buf' = Append(buf, e)
  /\ UNCHANGED <<broken, sink, firstErr>>

\* Variant: the line that overflows the buffer is dropped.
WriteSpillDrops(e) ==
  /\ sink' = sink \o buf /\ buf' = <<>>
  /\ UNCHANGED <<broken, firstErr>>

\* ... or overflows it: what was there goes out, the line or its end stays
\* behind (a line larger than the buffer goes out with the rest), ...
WriteSpill(e) ==
  /\ \/ sink' = sink \o buf /\ buf' = <<e>>
     \/ sink' = (sink \o buf) \o <<e>> /\ buf' = <<>>
  /\ UNCHANGED <<broken, firstErr>>

\* ... or the file refuses part of it; the buffer is never written again.
WriteFails ==
  /\ \E n \in 0..Len(buf) : sink' = sink \o SubSeq(buf, 1, n)
  /\ buf' = <<>>
  /\ broken' = TRUE
  /\ SetErr

\* One turn of the writer's loop: receive an event, encode it, keep an error.
Encode ==
  /\ Receive
  /\ ~broken
  /\ \/ WriteBuffered(Head(ch))
     \/ WriteSpill(Head(ch))
     \/ WriteFails

\* Variant: the file is written again after a failure.
WriteResumed(e) == sink' = Append(sink, e) /\ UNCHANGED <<buf, broken>>
WriteRefused(e) == UNCHANGED <<buf, broken, sink>>

\* The same turn once the writer is broken: the event is dropped, the loop
\* goes on, so producers are never left blocked on a dead sink.
EncodeDropped ==
  /\ Receive
  /\ broken
  /\ WriteRefused(Head(ch))
  /\ SetErr

\* Variants: the writer leaves the loop on an error; it never ends after one.
LoopEndsOnError == (chClosed /\ ch = <<>>) \/ broken
LoopEndsIfClean == chClosed /\ ch = <<>> /\ ~broken
LoopEnds == chClosed /\ ch = <<>>

\* Variant: the Flush is forgotten.
Unflushed == sink
Flushed == sink \o buf

\* The range loop ends (channel closed and drained), Flush, close(done).
Flush ==
  /\ writer = "loop"
  /\ LoopEnds
  /\ writer' = "done"
  /\ \/ /\ ~broken
        /\ sink' = Flushed /\ buf' = <<>>
        /\ UNCHANGED <<broken, firstErr>>
     \/ ~broken /\ buf # <<>> /\ WriteFails
     \/ broken /\ SetErr /\ UNCHANGED <<buf, broken, sink>>
  /\ UNCHANGED <<accepted, ch, chClosed, verdict>>

WriterStep == Encode \/ EncodeDropped \/ Flush

\* Close, first half: close(r.ch).  No Record may be under way or follow.
CloseChannel ==
  /\ ~chClosed
  /\ chClosed' = TRUE
  /\ UNCHANGED <<accepted, ch, writer, buf, broken, sink, firstErr, verdict>>

\* Close, second half: wait for the writer and report the first error.
CloseReturn ==
  /\ chClosed /\ writer = "done" /\ verdict = "open"
  /\ verdict' = IF firstErr THEN "failed" ELSE "ok"
  /\ UNCHANGED <<accepted, ch, chClosed, writer, buf, broken, sink, firstErr>>

Next == \/ \E e \in Events \ ElementsOf(accepted) : Record(e)
        \/ WriterStep
        \/ CloseChannel
        \/ CloseReturn

RecSpec == RecInit /\ [][Next]_recVars

\* The Go scheduler runs the writer and the goroutine inside Close; nothing
\* obliges a producer to record or the owner to close.
RecFairSpec == RecSpec /\ WF_recVars(WriterStep) /\ WF_recVars(CloseReturn)

-----------------------------------------------------------------------------
RecTypeOK ==
  /\ accepted \in Seq(Events) /\ ch \in Seq(Events)
  /\ buf \in Seq(Events) /\ sink \in Seq(Events)
  /\ Len(ch) <= Capacity /\ Len(buf) <= BufLines
  /\ chClosed \in BOOLEAN /\ broken \in BOOLEAN /\ firstErr \in BOOLEAN
  /\ writer \in {"loop", "done"}
  /\ verdict \in {"open", "ok", "failed"}

\* Until a write fails every accepted event is in exactly one place, in the
\* order producers handed it over: file, then bufio buffer, then channel.
\* A writer that batched, reordered or dropped a line would break it.
NothingLost == ~broken => accepted = (sink \o buf) \o ch

\* The file is always a prefix of what was accepted, failed writes included:
\* no line is duplicated, reordered, or written after a gap.
SinkIsPrefix ==
  /\ Len(sink) <= Len(accepted)
  /\ \A n \in 1..Len(sink) : sink[n] = accepted[n]

\* Close never reports success over an incomplete file (recorder.go: "drains
\* the queue, flushes, and returns the first write error").
CleanCloseIsComplete == verdict = "ok" => sink = accepted

\* A producer blocked on a full channel is always let through again, also
\* after the sink has failed: backpressure never becomes a deadlock.
FullChannelDrains == (Len(ch) = Capacity) ~> (Len(ch) < Capacity)

\* Close returns.
CloseTerminates == chClosed ~> (verdict # "open")

\* The recorder implements the abstract event log.
Log == INSTANCE EventLog WITH submitted <- accepted, log <- sink
ImplementsEventLog == Log!Spec

=============================================================================
