-------------------------------- MODULE Run ---------------------------------
(***************************************************************************)
(* internal/run/run.go, Execute: one benchmark run.                        *)
(*                                                                         *)
(* One scheduler goroutine walks the precomputed timeline and starts one   *)
(* goroutine per item; each of those performs its request, records one raw *)
(* event, checks the wire-stage watchdog and updates the counters.  They   *)
(* meet in three places: the bounded channel of the recorder (module       *)
(* Recorder, composed here), the one-place channel wireAbort, and the      *)
(* WaitGroup the scheduler drains before it closes the recorder.           *)
(*                                                                         *)
(* Time is a discrete clock that may advance between any two steps, so a   *)
(* goroutine may be arbitrarily late; epoch is 0.  Client.Do is seen from  *)
(* outside (module Client has its inside): its body write finishes at some *)
(* instant or never, and it returns one classified outcome.                *)
(***************************************************************************)
EXTENDS Integers, Sequences, FiniteSets

CONSTANTS N,            \* number of plan items
          Offset,       \* Offset[i]: planned send offset of item i
          MaxSlip,      \* schedule-slip watchdog threshold
          CancelItems,  \* items the plan cancels deliberately
          Outcomes,     \* the outcome statuses requests of the instance have
          Capacity,     \* recorder channel capacity (4096 in the code)
          BufLines,     \* lines the recorder's bufio.Writer holds
          Horizon       \* bound on the clock, in the guard of Tick only

Items == 1..N
Statuses == {"ok", "error", "shed", "canceled"}

ASSUME RunAssumption ==
  /\ N \in Nat /\ MaxSlip \in Nat /\ Horizon \in Nat
  /\ Offset \in [Items -> Nat]
  /\ \A i, j \in Items : i <= j => Offset[i] <= Offset[j]
  /\ \A i \in Items : Offset[i] <= Horizon
  /\ CancelItems \subseteq Items /\ Outcomes \subseteq Statuses
  /\ Capacity \in Nat \ {0} /\ BufLines \in Nat \ {0}

VARIABLES
  now,          \* the clock
  interrupted,  \* ctx is done (SIGINT/SIGTERM)
  pc,           \* the scheduler goroutine
  cur,          \* index of the item the loop is at
  abort,        \* Execute's abort variable
  wire,         \* contents of wireAbort: 0, or the item whose trip it holds
  dispatchSlip, \* res.DispatchSlips, NoTime before the item is reached
  g,            \* g[i]: where the goroutine of item i stands
  sendSlip,     \* wire-stage slip, NoTime unless SendCompleted
  status,       \* outcome status of item i
  counted,      \* res.OK, res.Shed, res.Canceled, res.Errors
  result,       \* what Execute returned
  tripAt        \* history: cur when the first wire trip was posted

VARIABLES accepted, ch, chClosed, writer, buf, broken, sink, firstErr, verdict

Rec == INSTANCE Recorder WITH Events <- Items
recVars == <<accepted, ch, chClosed, writer, buf, broken, sink, firstErr, verdict>>
schedVars == <<pc, cur, abort, dispatchSlip, result>>
reqVars == <<g, sendSlip, status, counted>>
vars == <<now, interrupted, wire, tripAt, schedVars, reqVars, recVars>>

NoTime == -1
NoAbort == [kind |-> "none", item |-> 0]
Abort(kind, item) == [kind |-> kind, item |-> item]

Init ==
  /\ now = 0 /\ interrupted = FALSE
  /\ pc = "top" /\ cur = 1 /\ abort = NoAbort /\ wire = 0 /\ tripAt = 0
  /\ dispatchSlip = [i \in Items |-> NoTime]
  /\ g = [i \in Items |-> "none"]
  /\ sendSlip = [i \in Items |-> NoTime]
  /\ status = [i \in Items |-> "none"]
  /\ counted = [s \in Statuses |-> 0]
  /\ result = "none"
  /\ Rec!RecInit

-----------------------------------------------------------------------------
(* The environment: time passes, the operator interrupts the process.      *)

Tick ==
  /\ result = "none" /\ now < Horizon
  /\ now' = now + 1
  /\ UNCHANGED <<interrupted, wire, tripAt, schedVars, reqVars, recVars>>

Interrupt ==
  /\ result = "none" /\ ~interrupted
  /\ interrupted' = TRUE
  /\ UNCHANGED <<now, wire, tripAt, schedVars, reqVars, recVars>>

-----------------------------------------------------------------------------
(* The scheduler goroutine.                                                *)

SchedulerOnly == UNCHANGED <<now, interrupted, tripAt, reqVars, recVars>>

LeaveLoop(a) == abort' = a /\ pc' = "drain" /\ UNCHANGED <<cur, dispatchSlip, result>>

\* Variant: the loop ends one item early.
LastItemLeft == cur >= N
PlanExhausted == cur > N

\* Is there a next item, and is its target still ahead (time.Until > 0)?
LoopTop ==
  /\ pc = "top"
  /\ pc' = IF PlanExhausted THEN "drain"
           ELSE IF Offset[cur] > now THEN "select" ELSE "poll"
  /\ UNCHANGED <<cur, abort, dispatchSlip, result, wire>>
  /\ SchedulerOnly

\* The select over ctx.Done, wireAbort and the timer.
SelectDone ==
  /\ pc = "select" /\ interrupted
  /\ LeaveLoop(Abort("ctx", 0))
  /\ UNCHANGED wire
  /\ SchedulerOnly

SelectWire ==
  /\ pc = "select" /\ wire # 0
  /\ LeaveLoop(Abort("wire", wire))
  /\ wire' = 0
  /\ SchedulerOnly

\* Variant: closed loop, an item also waits for the end of the one before it.
TimerWaitsForResponse == now >= Offset[cur] /\ (cur > 1 => g[cur - 1] = "done")
TimerFired == now >= Offset[cur]

SelectTimer ==
  /\ pc = "select" /\ TimerFired
  /\ pc' = "poll"
  /\ UNCHANGED <<cur, abort, dispatchSlip, result, wire>>
  /\ SchedulerOnly

\* Variant: wireAbort is read only in the select.
TripNotPolled == FALSE
TripPolled == wire # 0

\* The non-blocking look at wireAbort before every dispatch.
Poll ==
  /\ pc = "poll"
  /\ \/ TripPolled /\ LeaveLoop(Abort("wire", wire)) /\ wire' = 0
     \/ /\ ~TripPolled /\ pc' = "fire"
        /\ UNCHANGED <<cur, abort, dispatchSlip, result, wire>>
  /\ SchedulerOnly

\* Dispatch stage: measure the slip; abort on it, or start the goroutine.
Fire ==
  /\ pc = "fire"
  /\ dispatchSlip' = [dispatchSlip EXCEPT ![cur] = now - Offset[cur]]
  /\ \/ /\ now - Offset[cur] > MaxSlip
        /\ abort' = Abort("dispatch", cur) /\ pc' = "drain"
        /\ UNCHANGED <<cur, g>>
     \/ /\ now - Offset[cur] <= MaxSlip
        /\ g' = [g EXCEPT ![cur] = "spawned"]
        /\ cur' = cur + 1 /\ pc' = "top"
        /\ UNCHANGED abort
  /\ UNCHANGED <<now, interrupted, tripAt, wire, result, sendSlip, status, counted, recVars>>

\* Variants: an abort does not wait; wg.Done comes right after Client.Do.
AbortedOrDrained == abort # NoAbort \/ \A i \in Items : g[i] \in {"none", "done"}
ResponsesDrained == \A i \in Items : g[i] \notin {"spawned", "sent"}
Drained == \A i \in Items : g[i] \in {"none", "done"}

\* wg.Wait.
Drain ==
  /\ pc = "drain"
  /\ Drained
  /\ pc' = "final"
  /\ UNCHANGED <<cur, abort, dispatchSlip, result, wire>>
  /\ SchedulerOnly

\* Variant: nobody looks at wireAbort after the loop.
LateTripIgnored == FALSE
LateTrip == wire # 0

\* A trip that landed after the loop still invalidates the run.
FinalPoll ==
  /\ pc = "final"
  /\ pc' = "close"
  /\ \/ abort = NoAbort /\ LateTrip /\ abort' = Abort("wire", wire) /\ wire' = 0
     \/ (abort # NoAbort \/ ~LateTrip) /\ UNCHANGED <<abort, wire>>
  /\ UNCHANGED <<cur, dispatchSlip, result>>
  /\ SchedulerOnly

CloseRecorder ==
  /\ pc = "close" /\ pc' = "closing"
  /\ Rec!CloseChannel
  /\ UNCHANGED <<now, interrupted, wire, tripAt, cur, abort, dispatchSlip, result, reqVars>>

\* A recorder failure takes precedence over an abort.
ReturnResult ==
  /\ pc = "closing" /\ pc' = "returned"
  /\ Rec!CloseReturn
  /\ result' = IF firstErr THEN "recorder_failure"
               ELSE IF abort # NoAbort THEN abort.kind ELSE "nil"
  /\ UNCHANGED <<now, interrupted, wire, tripAt, cur, abort, dispatchSlip, reqVars>>

SchedulerLoop == LoopTop \/ SelectDone \/ SelectWire \/ SelectTimer \/ Poll \/ Fire
SchedulerStep == SchedulerLoop \/ Drain \/ FinalPoll \/ CloseRecorder \/ ReturnResult

-----------------------------------------------------------------------------
(* The goroutine of item i.                                                *)

\* The request body is on the wire (httptrace.WroteRequest).
SendDone(i) ==
  /\ g[i] = "spawned"
  /\ g' = [g EXCEPT ![i] = "sent"]
  /\ sendSlip' = [sendSlip EXCEPT ![i] = now - Offset[i]]
  /\ UNCHANGED <<now, interrupted, wire, tripAt, schedVars, status, counted, recVars>>

\* Client.Do returns one classified outcome, canceled only when the plan or
\* the operator cancels; from "spawned" the send was not seen to complete.
DoReturns(i) ==
  /\ g[i] \in {"spawned", "sent"}
  /\ g' = [g EXCEPT ![i] = "record"]
  /\ \E s \in Outcomes :
       /\ s = "canceled" => i \in CancelItems \/ interrupted
       /\ status' = [status EXCEPT ![i] = s]
  /\ UNCHANGED <<now, interrupted, wire, tripAt, schedVars, sendSlip, counted, recVars>>

\* Variant: the attempt may be repeated, and records again.
RecordEventRetried(i) ==
  /\ g[i] = "record"
  /\ \E w \in {"watch", "record"} : g' = [g EXCEPT ![i] = w]
  /\ Rec!Record(i)
  /\ UNCHANGED <<now, interrupted, wire, tripAt, schedVars, sendSlip, status, counted>>

\* recorder.Record: blocks while the channel is full.
RecordEvent(i) ==
  /\ g[i] = "record"
  /\ g' = [g EXCEPT ![i] = "watch"]
  /\ Rec!Record(i)
  /\ UNCHANGED <<now, interrupted, wire, tripAt, schedVars, sendSlip, status, counted>>

\* Variant: a slip equal to the threshold trips.
OverrunOrEqual(i) == sendSlip[i] >= MaxSlip
Overrun(i) == sendSlip[i] > MaxSlip

\* Variant: the send on wireAbort has no default case, a second trip waits.
WatchdogBlocks(i) ==
  /\ g[i] = "watch"
  /\ g' = [g EXCEPT ![i] = "count"]
  /\ \/ /\ Overrun(i) /\ wire = 0
        /\ wire' = i
        /\ tripAt' = IF tripAt = 0 THEN cur ELSE tripAt
     \/ ~Overrun(i) /\ UNCHANGED <<wire, tripAt>>
  /\ UNCHANGED <<now, interrupted, schedVars, sendSlip, status, counted, recVars>>

\* Wire stage: non-blocking send on wireAbort, the first trip wins.
Watchdog(i) ==
  /\ g[i] = "watch"
  /\ g' = [g EXCEPT ![i] = "count"]
  /\ \/ /\ Overrun(i) /\ wire = 0
        /\ wire' = i
        /\ tripAt' = IF tripAt = 0 THEN cur ELSE tripAt
     \/ (~Overrun(i) \/ wire # 0) /\ UNCHANGED <<wire, tripAt>>
  /\ UNCHANGED <<now, interrupted, schedVars, sendSlip, status, counted, recVars>>

\* Variant: the switch has no case for canceled.
CounterWithoutCanceled(s) == IF s = "canceled" THEN "error" ELSE s
CounterOf(s) == s

\* The counters, under mu; then wg.Done.
Count(i) ==
  /\ g[i] = "count"
  /\ g' = [g EXCEPT ![i] = "done"]
  /\ counted' = [counted EXCEPT ![CounterOf(status[i])] = @ + 1]
  /\ UNCHANGED <<now, interrupted, wire, tripAt, schedVars, sendSlip, status, recVars>>

RequestStep(i) == SendDone(i) \/ DoReturns(i) \/ RecordEvent(i) \/ Watchdog(i) \/ Count(i)

\* The recorder's own goroutine.
RecorderStep ==
  /\ Rec!WriterStep
  /\ UNCHANGED <<now, interrupted, wire, tripAt, schedVars, reqVars>>

Next == \/ Tick
        \/ Interrupt
        \/ SchedulerStep
        \/ \E i \in Items : RequestStep(i)
        \/ RecorderStep

Spec == Init /\ [][Next]_vars

\* The least the open-loop claim may rest on: time passes and the scheduler
\* loop runs.  No response ever arrives, no event is ever written.
SchedulerAloneSpec == Spec /\ WF_vars(Tick) /\ WF_vars(SchedulerLoop)

\* The rest of what the Go runtime gives: every goroutine that can run does.
\* That Client.Do returns is what module Client shows under the request
\* timeout.  The operator need not interrupt.
GoroutinesRun == /\ WF_vars(SchedulerStep) /\ WF_vars(RecorderStep)
                 /\ \A i \in Items : WF_vars(RequestStep(i))

-----------------------------------------------------------------------------
Dispatched(i) == g[i] # "none"
HasLine(i) == \E n \in 1..Len(sink) : sink[n] = i
HasOneLine(i) == \E n \in 1..Len(sink) : \A m \in 1..Len(sink) : sink[m] = i <=> m = n
Settled(i) == g[i] \in {"none", "done"}

TypeOK ==
  /\ now \in 0..Horizon /\ interrupted \in BOOLEAN
  /\ pc \in {"top", "select", "poll", "fire", "drain", "final", "close",
             "closing", "returned"}
  /\ cur \in 1..(N + 1)
  /\ pc \in {"select", "poll", "fire"} => cur \in Items
  /\ abort \in [kind : {"none", "ctx", "wire", "dispatch"}, item : 0..N]
  /\ wire \in 0..N /\ tripAt \in 0..(N + 1)
  /\ dispatchSlip \in [Items -> Int] /\ sendSlip \in [Items -> Int]
  /\ g \in [Items -> {"none", "spawned", "sent", "record", "watch", "count", "done"}]
  /\ status \in [Items -> Statuses \cup {"none"}]
  /\ counted \in [Statuses -> Nat]
  /\ result \in {"none", "nil", "ctx", "wire", "dispatch", "recorder_failure"}
  /\ Rec!RecTypeOK

\* A nil error from Execute means the whole plan was sent and the file holds
\* exactly one line per item ("emit exactly one raw event" per request).
ValidMeansComplete ==
  result = "nil" => \A i \in Items : g[i] = "done" /\ HasOneLine(i)

\* A nil error means the schedule was kept at both watchdog stages, for every
\* item, also when the late one finished last (run.go: "it still invalidates
\* the run").
ValidMeansOnSchedule ==
  result = "nil" =>
    \A i \in Items : dispatchSlip[i] \in 0..MaxSlip /\ sendSlip[i] <= MaxSlip

\* Also an aborted run leaves one line for each request it sent and none for
\* the others: in-flight requests are drained, not cut off.
OneLinePerRequest ==
  result \notin {"none", "recorder_failure"} =>
    \A i \in Items : IF Dispatched(i) THEN HasOneLine(i) ELSE ~HasLine(i)

\* When the recorder's channel is closed no request goroutine can still send
\* on it (recorder.go: "No Record calls may happen after Close"; it would
\* panic), nor update the counters Execute returns.
CloseFindsNoSender == chClosed => \A i \in Items : Settled(i)

\* After a wire-stage trip is posted the scheduler starts at most the one item
\* it had already committed to.
TripStopsDispatch == tripAt # 0 => cur <= tripAt + 1

\* The abort Execute returns is backed by evidence: a wire abort names an item
\* whose recorded event carries the excess slip, a dispatch abort an item that
\* was not sent, a ctx error an interrupt.
AbortHasEvidence ==
  /\ result = "wire" =>
       /\ sendSlip[abort.item] > MaxSlip
       /\ HasLine(abort.item)
  /\ result = "dispatch" =>
       /\ dispatchSlip[abort.item] > MaxSlip
       /\ ~Dispatched(abort.item)
  /\ result = "ctx" => interrupted

\* The counters in the Result agree with the outcomes that were recorded.
CountersMatchOutcomes ==
  result # "none" =>
    \A s \in Statuses :
      counted[s] = Cardinality({i \in Items : Dispatched(i) /\ status[i] = s})

\* Execute keeps the contract of its recorder, step by step: every step of the
\* run is a step of module Recorder or leaves it alone.
UsesRecorder == Rec!RecSpec

\* Open loop: with every response and the event sink stalled for ever, the
\* scheduler still reaches the end of the timeline or aborts.
OpenLoop == <>(pc \notin {"top", "select", "poll", "fire"})

\* Once all goroutines run, Execute returns: neither a full recorder channel nor
\* a trip that nobody reads keeps a goroutine, and so wg.Wait, for ever.
Terminates == GoroutinesRun => <>(result # "none")

\* run.go: Execute "returns a run-invalidating typed error (ErrScheduleSlip,
\* ErrRecorderFailure, ctx errors) or the Result": a run whose requests the
\* interrupt cut off is not returned as valid.
InterruptInvalidates ==
  result = "nil" => \A i \in Items : status[i] = "canceled" => i \in CancelItems

=============================================================================
