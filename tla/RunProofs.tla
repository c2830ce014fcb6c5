----------------------------- MODULE RunProofs ------------------------------
(***************************************************************************)
(* Proofs about module Run, for every plan, threshold, channel capacity    *)
(* and clock: what a nil error of Execute means, that the recorder is      *)
(* closed with nobody left to send on it, that a watchdog trip stops the   *)
(* dispatch, and that Execute uses its recorder as module Recorder says.   *)
(***************************************************************************)
EXTENDS Run, SequenceTheorems, FiniteSetTheorems, TLAPS

\* The theorems about the recorder, for the recorder of a run.
RP == INSTANCE RecorderProofs WITH Events <- Items

-----------------------------------------------------------------------------
(* The inductive invariant.                                                *)

InLoop == {"top", "select", "poll", "fire"}
Recorded(i) == g[i] \in {"watch", "count", "done"}
Judged(i) == g[i] \in {"count", "done"}

\* Where the scheduler is, against what it has dispatched and decided.
SchedInv ==
  /\ pc \in {"poll", "fire"} => Offset[cur] <= now
  /\ \A i \in Items : Dispatched(i) <=> i < cur
  /\ \A i \in Items : i < cur => dispatchSlip[i] \in 0..MaxSlip
  /\ pc \in InLoop => abort = NoAbort
  /\ pc \notin InLoop /\ abort = NoAbort => cur = N + 1
  /\ pc \in {"final", "close", "closing", "returned"} => \A i \in Items : Settled(i)
  /\ chClosed => pc \in {"closing", "returned"}
  /\ abort.kind = "none" => abort = NoAbort
  /\ result = "none" <=> pc # "returned"
  /\ result = "nil" => abort = NoAbort

\* A judged overrun is in wireAbort or has become the abort; after the first
\* trip at most the item already committed to is dispatched.
TripInv ==
  /\ \A i \in Items : Judged(i) /\ Overrun(i) => wire # 0 \/ abort # NoAbort
  /\ pc \in {"close", "closing", "returned"} /\ abort = NoAbort => wire = 0
  /\ tripAt # 0 => wire # 0 \/ abort # NoAbort
  /\ tripAt # 0 => cur <= tripAt + 1
  /\ tripAt # 0 /\ pc = "fire" => cur <= tripAt

\* The events handed to the recorder are those of the requests that are past
\* Record, each once.
LineInv ==
  /\ \A i \in Items : Recorded(i) <=> \E n \in 1..Len(accepted) : accepted[n] = i
  /\ \A m, n \in 1..Len(accepted) : accepted[m] = accepted[n] => m = n
  /\ result \in {"none", "recorder_failure"} \/ verdict = "ok"

\* What is in wireAbort, and the abort, are backed by what happened.
EvidenceInv ==
  /\ wire # 0 => Judged(wire) /\ Overrun(wire)
  /\ abort.kind = "wire" => abort.item # 0 /\ Judged(abort.item) /\ Overrun(abort.item)
  /\ abort.kind = "dispatch" =>
       abort.item \in Items /\ abort.item = cur /\ dispatchSlip[abort.item] > MaxSlip
  /\ abort.kind = "ctx" => interrupted
  /\ result \in {"wire", "dispatch", "ctx"} => abort.kind = result

RunInv == TypeOK /\ RP!RecInv /\ SchedInv /\ TripInv /\ LineInv /\ EvidenceInv

\* Sequences: appending a new element adds it to the elements and keeps them
\* distinct.
LEMMA AppendOnce ==
  ASSUME NEW S, NEW s \in Seq(S), NEW e \in S
  PROVE  /\ \A j \in S : (\E n \in 1..Len(Append(s, e)) : Append(s, e)[n] = j)
              <=> j = e \/ \E n \in 1..Len(s) : s[n] = j
         /\ (\A n \in 1..Len(s) : s[n] # e) /\ (\A m, n \in 1..Len(s) : s[m] = s[n] => m = n)
            => \A m, n \in 1..Len(Append(s, e)) : Append(s, e)[m] = Append(s, e)[n] => m = n
<1>1. PICK t : t = Append(s, e) OBVIOUS
<1>2. PICK k \in Nat : k = Len(s) BY LenProperties
<1>3. /\ Len(t) = k + 1 /\ t[k + 1] = e
      /\ \A n \in 1..k : t[n] = s[n]
  BY <1>1, <1>2, AppendProperties
<1>4. 1..(k + 1) = (1..k) \cup {k + 1} BY <1>2
<1>5. \A j \in S : (\E n \in 1..Len(t) : t[n] = j) <=> j = e \/ \E n \in 1..k : s[n] = j
  BY <1>3, <1>4
<1>6. ASSUME \A n \in 1..k : s[n] # e, \A m, n \in 1..k : s[m] = s[n] => m = n,
             NEW m \in 1..Len(t), NEW n \in 1..Len(t), t[m] = t[n]
      PROVE  m = n
  BY <1>2, <1>3, <1>4, <1>6
<1>7. QED BY <1>1, <1>2, <1>5, <1>6

-----------------------------------------------------------------------------
(* The recorder inside a run.                                              *)

\* RecorderProofs was written for any set of events; its instance here and
\* the one of module Run are the same recorder: the same start, ...
LEMMA SameInit == Rec!RecInit <=> RP!RecInit
BY DEF Rec!RecInit, RP!RecInit

\* The same types, ...
LEMMA SameTypes == Rec!RecTypeOK <=> RP!RecTypeOK
BY DEF Rec!RecTypeOK, RP!RecTypeOK

\* ... and the same steps.
LEMMA SameNext == Rec!Next <=> RP!Next
BY DEF Rec!Next, RP!Next, Rec!Record, RP!Record, Rec!ElementsOf, RP!ElementsOf,
  Rec!RoomInChannel, RP!RoomInChannel, Rec!WriterStep, RP!WriterStep,
  Rec!Encode, RP!Encode, Rec!EncodeDropped, RP!EncodeDropped, Rec!Flush, RP!Flush,
  Rec!Receive, RP!Receive, Rec!WriteBuffered, RP!WriteBuffered,
  Rec!WriteSpill, RP!WriteSpill, Rec!WriteFails, RP!WriteFails,
  Rec!SetErr, RP!SetErr, Rec!WriteRefused, RP!WriteRefused, Rec!LoopEnds, RP!LoopEnds,
  Rec!Flushed, RP!Flushed, Rec!CloseChannel, RP!CloseChannel, Rec!CloseReturn, RP!CloseReturn

\* A request records only an event that the recorder has not accepted yet, so
\* every step of the run is a step of the recorder or leaves it alone.
LEMMA RecorderSteps ==
  ASSUME RunInv, [Next]_vars PROVE [Rec!Next]_(Rec!recVars)
<1>1. ASSUME NEW i \in Items, RecordEvent(i) PROVE Rec!Next
  <2>1. ~Recorded(i) BY <1>1 DEF RecordEvent, Recorded
  <2>2. i \notin Rec!ElementsOf(accepted) BY <2>1 DEF RunInv, LineInv, Rec!ElementsOf
  <2>3. Rec!Record(i) BY <1>1 DEF RecordEvent
  <2>4. QED BY <2>2, <2>3 DEF Rec!Next
<1>2. ASSUME CloseRecorder PROVE Rec!Next BY <1>2 DEF CloseRecorder, Rec!Next
<1>3. ASSUME ReturnResult PROVE Rec!Next BY <1>3 DEF ReturnResult, Rec!Next
<1>4. ASSUME RecorderStep PROVE Rec!Next BY <1>4 DEF RecorderStep, Rec!Next
<1>5. ASSUME Tick \/ Interrupt \/ SchedulerLoop \/ Drain \/ FinalPoll \/ UNCHANGED vars
      PROVE UNCHANGED Rec!recVars
  BY <1>5 DEF Tick, Interrupt, SchedulerLoop, LoopTop, SelectDone, SelectWire, SelectTimer,
     Poll, Fire, Drain, FinalPoll, SchedulerOnly, vars, recVars, Rec!recVars
<1>6. ASSUME NEW i \in Items, SendDone(i) \/ DoReturns(i) \/ Watchdog(i) \/ Count(i)
      PROVE UNCHANGED Rec!recVars
  BY <1>6 DEF SendDone, DoReturns, Watchdog, Count, recVars, Rec!recVars
<1>7. QED BY <1>1, <1>2, <1>3, <1>4, <1>5, <1>6 DEF Next, SchedulerStep, RequestStep

\* What is proved of the recorder alone holds of the recorder in a run.
LEMMA RecorderInvStep ==
  ASSUME RunInv, [Next]_vars PROVE RP!RecInv'
<1>1. [RP!Next]_(RP!recVars)
  BY RecorderSteps, SameNext DEF Rec!recVars, RP!recVars
<1>2. QED
  BY <1>1, RunAssumption, RP!RecStepInv DEF RunInv, RP!RecorderAssumption

-----------------------------------------------------------------------------
\* A run starts in the inductive invariant.
LEMMA InitInv == Init => RunInv
<1> SUFFICES ASSUME Init PROVE RunInv OBVIOUS
<1>1. RP!RecInv
  BY RunAssumption, RP!RecInitInv, SameInit DEF Init, RP!RecorderAssumption
<1>2. TypeOK
  <2>1. Rec!RecTypeOK BY <1>1, SameTypes DEF RP!RecInv
  <2>2. now \in 0..Horizon /\ cur \in 1..(N + 1) /\ wire \in 0..N /\ tripAt \in 0..(N + 1)
    BY RunAssumption DEF Init
  <2>3. abort \in [kind : {"none", "ctx", "wire", "dispatch"}, item : 0..N]
    BY RunAssumption DEF Init, NoAbort
  <2>4. /\ dispatchSlip \in [Items -> Int] /\ sendSlip \in [Items -> Int]
        /\ counted \in [Statuses -> Nat]
    BY DEF Init, NoTime
  <2>5. /\ g \in [Items -> {"none", "spawned", "sent", "record", "watch", "count", "done"}]
        /\ status \in [Items -> Statuses \cup {"none"}]
    BY DEF Init
  <2>6. pc = "top" /\ interrupted = FALSE /\ result = "none" BY DEF Init
  <2>7. QED BY <2>1, <2>2, <2>3, <2>4, <2>5, <2>6 DEF TypeOK
<1>3. SchedInv
  BY RunAssumption DEF Init, SchedInv, NoAbort, Dispatched, InLoop, Items, Rec!RecInit
<1>4. TripInv BY DEF Init, TripInv, Judged
<1>5. LineInv
  <2>1. Len(accepted) = 0 BY DEF Init, Rec!RecInit
  <2>2. QED BY <2>1 DEF Init, LineInv, Recorded
<1>6. EvidenceInv BY DEF Init, EvidenceInv, NoAbort
<1>7. QED BY <1>1, <1>2, <1>3, <1>4, <1>5, <1>6 DEF RunInv

-----------------------------------------------------------------------------
\* Every step keeps the types.
LEMMA TypesStep ==
  ASSUME RunInv, [Next]_vars, Rec!RecTypeOK' PROVE TypeOK'
<1> USE RunAssumption DEF RunInv, TypeOK, Items, Statuses, NoTime, schedVars, reqVars,
     recVars
<1>1. CASE Tick
  BY <1>1 DEF Tick
<1>2. CASE Interrupt
  BY <1>2 DEF Interrupt
<1>3. CASE LoopTop
  <2>1. pc' \in {"drain", "select", "poll"} /\ (pc' # "drain" => cur \in Items)
    BY <1>3 DEF LoopTop, PlanExhausted
  <2>2. /\ UNCHANGED <<now, interrupted, cur, abort, wire, tripAt, dispatchSlip, sendSlip>>
        /\ UNCHANGED <<g, status, counted, result>>
    BY <1>3 DEF LoopTop, SchedulerOnly
  <2>3. QED BY <2>1, <2>2
<1>4. CASE SelectDone
  BY <1>4 DEF SelectDone, SchedulerOnly, LeaveLoop, Abort
<1>5. CASE SelectWire
  BY <1>5 DEF SelectWire, SchedulerOnly, LeaveLoop, Abort
<1>6. CASE SelectTimer
  BY <1>6 DEF SelectTimer, SchedulerOnly, TimerFired
<1>7. CASE Poll
  <2>1. CASE TripPolled /\ LeaveLoop(Abort("wire", wire)) /\ wire' = 0
    BY <2>1, <1>7 DEF Poll, SchedulerOnly, TripPolled, LeaveLoop, Abort
  <2>2. CASE ~TripPolled /\ pc' = "fire" /\ UNCHANGED <<cur, abort, dispatchSlip, result, wire>>
    BY <2>2, <1>7 DEF Poll, SchedulerOnly, TripPolled
  <2>3. QED BY <2>1, <2>2, <1>7 DEF Poll
<1>8. CASE Fire
  <2>1. cur \in Items /\ now - Offset[cur] \in Int BY <1>8 DEF Fire
  <2>2. dispatchSlip' \in [Items -> Int]
    <3>1. dispatchSlip' = [dispatchSlip EXCEPT ![cur] = now - Offset[cur]] BY <1>8 DEF Fire
    <3>2. dispatchSlip \in [Items -> Int] OBVIOUS
    <3>3. QED BY <2>1, <3>1, <3>2, Zenon
  <2>3. abort' \in [kind : {"none", "ctx", "wire", "dispatch"}, item : 0..N]
    <3>1. abort' = abort \/ abort' = [kind |-> "dispatch", item |-> cur] BY <1>8 DEF Fire, Abort
    <3>2. cur \in 0..N BY <2>1
    <3>3. QED BY <3>1, <3>2
  <2>6. cur' \in 1..(N + 1) /\ pc' \in {"drain", "top"}
    <3>1. cur' \in {cur, cur + 1} /\ pc' \in {"drain", "top"} BY <1>8 DEF Fire
    <3>2. cur + 1 \in 1..(N + 1) BY <2>1
    <3>3. QED BY <3>1, <3>2
  <2>4. g' \in [Items -> {"none", "spawned", "sent", "record", "watch", "count", "done"}]
    BY <1>8 DEF Fire
  <2>5. /\ UNCHANGED <<now, interrupted, wire, tripAt>>
        /\ UNCHANGED <<sendSlip, status, counted, result>>
    BY <1>8 DEF Fire
  <2>7. QED BY <2>2, <2>3, <2>4, <2>5, <2>6
<1>9. CASE Drain
  BY <1>9 DEF Drain, SchedulerOnly, Drained
<1>10. CASE FinalPoll
  <2>1. abort' \in [kind : {"none", "ctx", "wire", "dispatch"}, item : 0..N] /\ wire' \in 0..N
    <3>1. /\ abort' = abort \/ abort' = [kind |-> "wire", item |-> wire]
          /\ wire' = wire \/ wire' = 0
      BY <1>10 DEF FinalPoll, Abort
    <3>2. QED BY <3>1
  <2>2. /\ pc' = "close"
        /\ UNCHANGED <<now, interrupted, cur, tripAt, dispatchSlip, sendSlip>>
        /\ UNCHANGED <<g, status, counted, result>>
    BY <1>10 DEF FinalPoll, SchedulerOnly
  <2>3. QED BY <2>1, <2>2
<1>11. CASE CloseRecorder
  BY <1>11 DEF CloseRecorder, Rec!CloseChannel
<1>12. CASE ReturnResult
  BY <1>12 DEF ReturnResult, Rec!CloseReturn
<1>13. ASSUME NEW i \in Items, SendDone(i) PROVE TypeOK'
  <2>1. now - Offset[i] \in Int OBVIOUS
  <2>2. sendSlip' \in [Items -> Int] BY <2>1, <1>13 DEF SendDone
  <2>3. g' \in [Items -> {"none", "spawned", "sent", "record", "watch", "count", "done"}]
    BY <1>13 DEF SendDone
  <2>4. QED BY <2>2, <2>3, <1>13 DEF SendDone
<1>14. ASSUME NEW i \in Items, DoReturns(i) PROVE TypeOK'
  BY <1>14 DEF DoReturns
<1>15. ASSUME NEW i \in Items, RecordEvent(i) PROVE TypeOK'
  BY <1>15 DEF RecordEvent, Rec!Record
<1>16. ASSUME NEW i \in Items, Watchdog(i) PROVE TypeOK'
  <2>1. wire' \in 0..N /\ tripAt' \in 0..(N + 1)
    <3>1. wire' \in {wire, i} /\ tripAt' \in {tripAt, cur} BY <1>16 DEF Watchdog
    <3>2. i \in 0..N /\ cur \in 0..(N + 1) OBVIOUS
    <3>3. QED BY <3>1, <3>2
  <2>2. g' \in [Items -> {"none", "spawned", "sent", "record", "watch", "count", "done"}]
    BY <1>16 DEF Watchdog
  <2>3. /\ UNCHANGED <<now, interrupted, pc, cur, abort, dispatchSlip>>
        /\ UNCHANGED <<sendSlip, status, counted, result>>
    BY <1>16 DEF Watchdog
  <2>4. QED BY <2>1, <2>2, <2>3
<1>17. ASSUME NEW i \in Items, Count(i) PROVE TypeOK'
  <2>1. counted' \in [Statuses -> Nat]
    <3>1. counted' = [counted EXCEPT ![status[i]] = counted[status[i]] + 1]
      BY <1>17 DEF Count, CounterOf
    <3>2. \A s \in Statuses : counted[s] + 1 \in Nat OBVIOUS
    <3>3. counted \in [Statuses -> Nat] OBVIOUS
    <3>4. CASE status[i] \in Statuses BY <3>1, <3>2, <3>3, <3>4
    <3>5. CASE status[i] \notin Statuses
      <4>1. counted' = counted BY <3>1, <3>3, <3>5
      <4>2. QED BY <4>1, <3>3
    <3>6. QED BY <3>4, <3>5
  <2>2. g' \in [Items -> {"none", "spawned", "sent", "record", "watch", "count", "done"}]
    BY <1>17 DEF Count
  <2>3. /\ UNCHANGED <<now, interrupted, pc, cur, abort, dispatchSlip>>
        /\ UNCHANGED <<wire, tripAt, sendSlip, status, result>>
    BY <1>17 DEF Count
  <2>4. QED BY <2>1, <2>2, <2>3
<1>18. CASE RecorderStep
  BY <1>18 DEF RecorderStep, Rec!WriterStep, Rec!Encode, Rec!EncodeDropped, Rec!Receive,
     Rec!Flush
<1>19. CASE UNCHANGED vars
  BY <1>19 DEF vars
<1>20. QED BY <1>1, <1>2, <1>3, <1>4, <1>5, <1>6, <1>7, <1>8, <1>9, <1>10, <1>11, <1>12,
     <1>13, <1>14, <1>15, <1>16, <1>17, <1>18, <1>19 DEF Next, SchedulerStep,
     SchedulerLoop, RequestStep

\* Every step keeps the scheduler's part.
LEMMA SchedStep ==
  ASSUME RunInv, [Next]_vars PROVE SchedInv'
<1> USE RunAssumption DEF RunInv, TypeOK, SchedInv, InLoop, Dispatched, Settled, NoAbort,
     Items, schedVars, reqVars, recVars
<1>1. CASE Tick
  BY <1>1 DEF Tick
<1>2. CASE Interrupt
  BY <1>2 DEF Interrupt
<1>3. CASE LoopTop
  BY <1>3 DEF LoopTop, SchedulerOnly, PlanExhausted
<1>4. CASE SelectDone
  BY <1>4 DEF SelectDone, SchedulerOnly, LeaveLoop, Abort
<1>5. CASE SelectWire
  BY <1>5 DEF SelectWire, SchedulerOnly, LeaveLoop, Abort
<1>6. CASE SelectTimer
  BY <1>6 DEF SelectTimer, SchedulerOnly, TimerFired
<1>7. CASE Poll
  <2>1. CASE TripPolled /\ LeaveLoop(Abort("wire", wire)) /\ wire' = 0
    BY <2>1, <1>7 DEF Poll, SchedulerOnly, TripPolled, LeaveLoop, Abort
  <2>2. CASE ~TripPolled /\ pc' = "fire" /\ UNCHANGED <<cur, abort, dispatchSlip, result, wire>>
    BY <2>2, <1>7 DEF Poll, SchedulerOnly, TripPolled
  <2>3. QED BY <2>1, <2>2, <1>7 DEF Poll
<1>8. CASE Fire
  <2>1. cur \in Items /\ Offset[cur] \in Int /\ now \in Int /\ 0 <= now - Offset[cur]
    BY <1>8 DEF Fire
  <2>2. /\ dispatchSlip'[cur] = now - Offset[cur]
        /\ \A j \in Items : j # cur => dispatchSlip'[j] = dispatchSlip[j]
    BY <2>1, <1>8 DEF Fire
  <2>3. abort = NoAbort /\ result = "none" /\ ~chClosed BY <1>8 DEF Fire
  <2>4. UNCHANGED <<now, result, chClosed>> BY <1>8 DEF Fire
  <2>5. CASE now - Offset[cur] > MaxSlip
    <3>1. /\ abort' = Abort("dispatch", cur) /\ pc' = "drain"
          /\ UNCHANGED <<cur, g>>
      BY <2>1, <2>5, <1>8 DEF Fire
    <3>2. abort'.kind = "dispatch" /\ abort' # NoAbort BY <3>1 DEF Abort
    <3>3. \A j \in Items : j < cur => dispatchSlip'[j] = dispatchSlip[j] BY <2>1, <2>2
    <3>4. QED BY <2>3, <2>4, <3>1, <3>2, <3>3
  <2>6. CASE now - Offset[cur] <= MaxSlip
    <3>1. /\ g' = [g EXCEPT ![cur] = "spawned"]
          /\ cur' = cur + 1 /\ pc' = "top" /\ UNCHANGED abort
      BY <2>1, <2>6, <1>8 DEF Fire
    <3>2. /\ g'[cur] = "spawned"
          /\ \A j \in Items : j # cur => g'[j] = g[j]
      BY <2>1, <3>1
    <3>3. \A j \in Items : g'[j] # "none" <=> j < cur' BY <2>1, <3>1, <3>2
    <3>4. \A j \in Items : j < cur' => dispatchSlip'[j] \in 0..MaxSlip
      <4>1. now - Offset[cur] \in 0..MaxSlip BY <2>1, <2>6
      <4>2. \A j \in Items : j < cur' => j = cur \/ j < cur BY <2>1, <3>1
      <4>3. QED BY <2>1, <2>2, <4>1, <4>2
    <3>5. QED BY <2>3, <2>4, <3>1, <3>3, <3>4
  <2>7. now - Offset[cur] > MaxSlip \/ now - Offset[cur] <= MaxSlip BY <1>8 DEF Fire
  <2>8. QED BY <2>5, <2>6, <2>7
<1>9. CASE Drain
  BY <1>9 DEF Drain, SchedulerOnly, Drained
<1>10. CASE FinalPoll
  BY <1>10 DEF FinalPoll, SchedulerOnly, LateTrip, Abort
<1>11. CASE CloseRecorder
  BY <1>11 DEF CloseRecorder, Rec!CloseChannel
<1>12. CASE ReturnResult
  BY <1>12 DEF ReturnResult, Rec!CloseReturn
<1>13. ASSUME NEW i \in Items, SendDone(i) PROVE SchedInv'
  BY <1>13 DEF SendDone
<1>14. ASSUME NEW i \in Items, DoReturns(i) PROVE SchedInv'
  BY <1>14 DEF DoReturns
<1>15. ASSUME NEW i \in Items, RecordEvent(i) PROVE SchedInv'
  BY <1>15 DEF RecordEvent, Rec!Record
<1>16. ASSUME NEW i \in Items, Watchdog(i) PROVE SchedInv'
  BY <1>16 DEF Watchdog, Overrun
<1>17. ASSUME NEW i \in Items, Count(i) PROVE SchedInv'
  BY <1>17 DEF Count, CounterOf
<1>18. CASE RecorderStep
  BY <1>18 DEF RecorderStep, Rec!WriterStep, Rec!Encode, Rec!EncodeDropped, Rec!Receive,
     Rec!Flush
<1>19. CASE UNCHANGED vars
  BY <1>19 DEF vars
<1>20. QED BY <1>1, <1>2, <1>3, <1>4, <1>5, <1>6, <1>7, <1>8, <1>9, <1>10, <1>11, <1>12,
     <1>13, <1>14, <1>15, <1>16, <1>17, <1>18, <1>19 DEF Next, SchedulerStep,
     SchedulerLoop, RequestStep

\* Every step keeps the watchdog's part.
LEMMA TripStep ==
  ASSUME RunInv, [Next]_vars PROVE TripInv'
<1> USE RunAssumption DEF RunInv, TypeOK, SchedInv, TripInv, InLoop, Judged, Overrun,
     Settled, NoAbort, Items, schedVars, reqVars, recVars
<1>1. CASE Tick
  BY <1>1 DEF Tick
<1>2. CASE Interrupt
  BY <1>2 DEF Interrupt
<1>3. CASE LoopTop
  BY <1>3 DEF LoopTop, SchedulerOnly, PlanExhausted
<1>4. CASE SelectDone
  BY <1>4 DEF SelectDone, SchedulerOnly, LeaveLoop, Abort
<1>5. CASE SelectWire
  BY <1>5 DEF SelectWire, SchedulerOnly, LeaveLoop, Abort
<1>6. CASE SelectTimer
  BY <1>6 DEF SelectTimer, SchedulerOnly, TimerFired
<1>7. CASE Poll
  <2>1. CASE TripPolled /\ LeaveLoop(Abort("wire", wire)) /\ wire' = 0
    BY <2>1, <1>7 DEF Poll, SchedulerOnly, TripPolled, LeaveLoop, Abort
  <2>2. CASE ~TripPolled /\ pc' = "fire" /\ UNCHANGED <<cur, abort, dispatchSlip, result, wire>>
    BY <2>2, <1>7 DEF Poll, SchedulerOnly, TripPolled
  <2>3. QED BY <2>1, <2>2, <1>7 DEF Poll
<1>8. CASE Fire
  <2>1. cur \in Items /\ g[cur] = "none" /\ abort = NoAbort BY <1>8 DEF Fire, Dispatched
  <2>2. UNCHANGED <<wire, tripAt, sendSlip>> BY <1>8 DEF Fire
  <2>3. CASE now - Offset[cur] > MaxSlip
    <3>0. ~(now - Offset[cur] <= MaxSlip) BY <2>1, <2>3
    <3>1. abort' = Abort("dispatch", cur) /\ pc' = "drain" /\ UNCHANGED <<cur, g>>
      BY <3>0, <1>8, Zenon DEF Fire
    <3>2. abort'.kind = "dispatch" /\ abort' # NoAbort BY <3>1 DEF Abort
    <3>3. tripAt # 0 => cur <= tripAt + 1 OBVIOUS
    <3>4. QED BY <2>2, <3>1, <3>2, <3>3
  <2>4. CASE now - Offset[cur] <= MaxSlip
    <3>1. /\ g' = [g EXCEPT ![cur] = "spawned"]
          /\ cur' = cur + 1 /\ pc' = "top" /\ UNCHANGED abort
      BY <2>1, <2>4, <1>8 DEF Fire
    <3>2. \A j \in Items : g'[j] \in {"count", "done"} => g[j] \in {"count", "done"}
      BY <2>1, <3>1
    <3>3. tripAt # 0 => cur <= tripAt BY <1>8 DEF Fire
    <3>4. \A j \in Items : Judged(j)' /\ Overrun(j)' => wire' # 0 \/ abort' # NoAbort
      BY <2>2, <3>1, <3>2
    <3>5. tripAt' # 0 => wire' # 0 \/ abort' # NoAbort BY <2>2, <3>1
    <3>6. tripAt' # 0 => cur' <= tripAt' + 1 BY <2>1, <2>2, <3>1, <3>3
    <3>7. QED BY <3>1, <3>4, <3>5, <3>6
  <2>5. now - Offset[cur] > MaxSlip \/ now - Offset[cur] <= MaxSlip BY <1>8 DEF Fire
  <2>6. QED BY <2>3, <2>4, <2>5
<1>9. CASE Drain
  BY <1>9 DEF Drain, SchedulerOnly, Drained
<1>10. CASE FinalPoll
  BY <1>10 DEF FinalPoll, SchedulerOnly, LateTrip, Abort
<1>11. CASE CloseRecorder
  BY <1>11 DEF CloseRecorder, Rec!CloseChannel
<1>12. CASE ReturnResult
  BY <1>12 DEF ReturnResult, Rec!CloseReturn
<1>13. ASSUME NEW i \in Items, SendDone(i) PROVE TripInv'
  BY <1>13 DEF SendDone
<1>14. ASSUME NEW i \in Items, DoReturns(i) PROVE TripInv'
  BY <1>14 DEF DoReturns
<1>15. ASSUME NEW i \in Items, RecordEvent(i) PROVE TripInv'
  BY <1>15 DEF RecordEvent, Rec!Record
<1>16. ASSUME NEW i \in Items, Watchdog(i) PROVE TripInv'
  <2>1. CASE wire' = i /\ tripAt' = IF tripAt = 0 THEN cur ELSE tripAt
    BY <2>1, <1>16 DEF Watchdog
  <2>2. CASE UNCHANGED <<wire, tripAt>>
    BY <2>2, <1>16 DEF Watchdog
  <2>3. QED BY <2>1, <2>2, <1>16 DEF Watchdog
<1>17. ASSUME NEW i \in Items, Count(i) PROVE TripInv'
  BY <1>17 DEF Count, CounterOf
<1>18. CASE RecorderStep
  BY <1>18 DEF RecorderStep, Rec!WriterStep, Rec!Encode, Rec!EncodeDropped, Rec!Receive,
     Rec!Flush
<1>19. CASE UNCHANGED vars
  BY <1>19 DEF vars
<1>20. QED BY <1>1, <1>2, <1>3, <1>4, <1>5, <1>6, <1>7, <1>8, <1>9, <1>10, <1>11, <1>12,
     <1>13, <1>14, <1>15, <1>16, <1>17, <1>18, <1>19 DEF Next, SchedulerStep,
     SchedulerLoop, RequestStep

\* Every step keeps the recorder's part.
LEMMA LineStep ==
  ASSUME RunInv, [Next]_vars PROVE LineInv'
<1> USE RunAssumption DEF RunInv, TypeOK, LineInv, Recorded, Items, schedVars, reqVars,
     recVars
<1>1. CASE Tick
  BY <1>1 DEF Tick
<1>2. CASE Interrupt
  BY <1>2 DEF Interrupt
<1>3. CASE LoopTop
  BY <1>3 DEF LoopTop, SchedulerOnly, PlanExhausted
<1>4. CASE SelectDone
  BY <1>4 DEF SelectDone, SchedulerOnly, LeaveLoop, Abort
<1>5. CASE SelectWire
  BY <1>5 DEF SelectWire, SchedulerOnly, LeaveLoop, Abort
<1>6. CASE SelectTimer
  BY <1>6 DEF SelectTimer, SchedulerOnly, TimerFired
<1>7. CASE Poll
  BY <1>7 DEF Poll, SchedulerOnly, TripPolled, LeaveLoop, Abort
<1>8. CASE Fire
  <2>1. cur \in Items /\ g[cur] = "none" BY <1>8 DEF Fire, SchedInv, Dispatched
  <2>2. \A j \in Items : Recorded(j)' <=> Recorded(j) 
    <3>0. g' = g \/ g' = [g EXCEPT ![cur] = "spawned"] BY <1>8 DEF Fire
    <3>1. DOMAIN g = Items OBVIOUS
    <3>2. \A j \in Items : j # cur => g'[j] = g[j] BY ONLY <3>0, <3>1
    <3>3. g'[cur] \in {"none", "spawned"} BY ONLY <2>1, <3>0, <3>1
    <3>4. QED BY <2>1, <3>2, <3>3
  <2>3. UNCHANGED <<accepted, result, verdict>> BY <1>8 DEF Fire
  <2>4. QED BY <2>2, <2>3
<1>9. CASE Drain
  BY <1>9 DEF Drain, SchedulerOnly, Drained
<1>10. CASE FinalPoll
  BY <1>10 DEF FinalPoll, SchedulerOnly, LateTrip, Abort
<1>11. CASE CloseRecorder
  BY <1>11 DEF CloseRecorder, Rec!CloseChannel
<1>12. CASE ReturnResult
  BY <1>12 DEF ReturnResult, Rec!CloseReturn
<1>13. ASSUME NEW i \in Items, SendDone(i) PROVE LineInv'
  <2>1. \A j \in Items : Recorded(j)' <=> Recorded(j) BY <1>13 DEF SendDone
  <2>2. UNCHANGED <<accepted, result, verdict>> BY <1>13 DEF SendDone
  <2>3. QED BY <2>1, <2>2
<1>14. ASSUME NEW i \in Items, DoReturns(i) PROVE LineInv'
  <2>1. \A j \in Items : Recorded(j)' <=> Recorded(j) BY <1>14 DEF DoReturns
  <2>2. UNCHANGED <<accepted, result, verdict>> BY <1>14 DEF DoReturns
  <2>3. QED BY <2>1, <2>2
<1>15. ASSUME NEW i \in Items, RecordEvent(i) PROVE LineInv'
  <2>1. accepted' = Append(accepted, i) /\ UNCHANGED <<result, verdict>>
    BY <1>15 DEF RecordEvent, Rec!Record
  <2>2. accepted \in Seq(1..N) BY DEF Rec!RecTypeOK
  <2>3. \A j \in Items : (\E n \in 1..Len(accepted') : accepted'[n] = j)
                        <=> j = i \/ \E n \in 1..Len(accepted) : accepted[n] = j
    BY ONLY <2>1, <2>2, i \in 1..N, AppendOnce DEF Items
  <2>7. (\A n \in 1..Len(accepted) : accepted[n] # i)
        /\ (\A m, n \in 1..Len(accepted) : accepted[m] = accepted[n] => m = n)
        => \A m, n \in 1..Len(accepted') : accepted'[m] = accepted'[n] => m = n
    BY ONLY <2>1, <2>2, i \in 1..N, AppendOnce
  <2>4. \A n \in 1..Len(accepted) : accepted[n] # i BY <1>15 DEF RecordEvent
  <2>5. \A j \in Items : Recorded(j)' <=> j = i \/ Recorded(j) BY <1>15 DEF RecordEvent
  <2>6. \A j \in Items : Recorded(j)' <=> \E n \in 1..Len(accepted') : accepted'[n] = j
    <3>1. \A j \in Items : Recorded(j) <=> \E n \in 1..Len(accepted) : accepted[n] = j
      OBVIOUS
    <3>2. QED BY ONLY <2>3, <2>5, <3>1
  <2>8. QED BY <2>1, <2>4, <2>6, <2>7
<1>16. ASSUME NEW i \in Items, Watchdog(i) PROVE LineInv'
  BY <1>16 DEF Watchdog, Overrun
<1>17. ASSUME NEW i \in Items, Count(i) PROVE LineInv'
  BY <1>17 DEF Count, CounterOf
<1>18. CASE RecorderStep
  <2>1. UNCHANGED <<accepted, verdict, g, result>>
    BY <1>18 DEF RecorderStep, Rec!WriterStep, Rec!Encode, Rec!EncodeDropped, Rec!Receive, Rec!Flush
  <2>2. QED BY <2>1
<1>19. CASE UNCHANGED vars
  BY <1>19 DEF vars
<1>20. QED BY <1>1, <1>2, <1>3, <1>4, <1>5, <1>6, <1>7, <1>8, <1>9, <1>10, <1>11, <1>12,
     <1>13, <1>14, <1>15, <1>16, <1>17, <1>18, <1>19 DEF Next, SchedulerStep,
     SchedulerLoop, RequestStep

\* Every step keeps the evidence.
LEMMA EvidenceStep ==
  ASSUME RunInv, [Next]_vars PROVE EvidenceInv'
<1> USE RunAssumption DEF RunInv, TypeOK, SchedInv, TripInv, EvidenceInv, InLoop,
     Dispatched, Judged, Overrun, NoAbort, Items, schedVars, reqVars, recVars
<1>1. CASE Tick
  BY <1>1 DEF Tick
<1>2. CASE Interrupt
  BY <1>2 DEF Interrupt
<1>3. CASE LoopTop
  BY <1>3 DEF LoopTop, SchedulerOnly, PlanExhausted
<1>4. CASE SelectDone
  BY <1>4 DEF SelectDone, SchedulerOnly, LeaveLoop, Abort
<1>5. CASE SelectWire
  BY <1>5 DEF SelectWire, SchedulerOnly, LeaveLoop, Abort
<1>6. CASE SelectTimer
  BY <1>6 DEF SelectTimer, SchedulerOnly, TimerFired
<1>7. CASE Poll
  <2>1. CASE TripPolled /\ LeaveLoop(Abort("wire", wire)) /\ wire' = 0
    BY <2>1, <1>7 DEF Poll, SchedulerOnly, TripPolled, LeaveLoop, Abort
  <2>2. CASE ~TripPolled /\ pc' = "fire" /\ UNCHANGED <<cur, abort, dispatchSlip, result, wire>>
    BY <2>2, <1>7 DEF Poll, SchedulerOnly, TripPolled
  <2>3. QED BY <2>1, <2>2, <1>7 DEF Poll
<1>8. CASE Fire
  <2>1. cur \in Items /\ g[cur] = "none" /\ result = "none" /\ abort = NoAbort
    BY <1>8 DEF Fire
  <2>2. UNCHANGED <<wire, sendSlip, result, interrupted>> BY <1>8 DEF Fire
  <2>3. dispatchSlip'[cur] = now - Offset[cur] BY <2>1, <1>8 DEF Fire
  <2>4. \A j \in Items : g[j] \in {"count", "done"} => g'[j] \in {"count", "done"}
    BY <2>1, <1>8 DEF Fire
  <2>5. wire' # 0 => Judged(wire)' /\ Overrun(wire)' BY <2>2, <2>4
  <2>6. CASE now - Offset[cur] > MaxSlip
    <3>1. abort' = Abort("dispatch", cur) /\ cur' = cur BY <2>6, <1>8 DEF Fire
    <3>2. abort'.kind = "dispatch" /\ abort'.item = cur BY <3>1 DEF Abort
    <3>3. dispatchSlip'[abort'.item] > MaxSlip BY <2>3, <2>6, <3>2
    <3>4. QED BY <2>1, <2>2, <2>5, <3>1, <3>2, <3>3
  <2>7. CASE now - Offset[cur] <= MaxSlip
    <3>1. abort' = NoAbort BY <2>1, <2>7, <1>8 DEF Fire
    <3>2. QED BY <2>1, <2>2, <2>5, <3>1
  <2>8. now - Offset[cur] > MaxSlip \/ now - Offset[cur] <= MaxSlip BY <1>8 DEF Fire
  <2>9. QED BY <2>6, <2>7, <2>8
<1>9. CASE Drain
  BY <1>9 DEF Drain, SchedulerOnly, Drained
<1>10. CASE FinalPoll
  <2>1. CASE abort = NoAbort /\ LateTrip /\ abort' = Abort("wire", wire) /\ wire' = 0
    BY <2>1, <1>10 DEF FinalPoll, SchedulerOnly, LateTrip, Abort
  <2>2. CASE UNCHANGED <<abort, wire>>
    BY <2>2, <1>10 DEF FinalPoll, SchedulerOnly
  <2>3. QED BY <2>1, <2>2, <1>10 DEF FinalPoll
<1>11. CASE CloseRecorder
  BY <1>11 DEF CloseRecorder, Rec!CloseChannel
<1>12. CASE ReturnResult
  BY <1>12 DEF ReturnResult, Rec!CloseReturn
<1>13. ASSUME NEW i \in Items, SendDone(i) PROVE EvidenceInv'
  <2>1. \A j \in Items : Judged(j) => Judged(j)' /\ j # i BY <1>13 DEF SendDone
  <2>2. UNCHANGED <<wire, abort, cur, dispatchSlip, interrupted, result>> BY <1>13 DEF SendDone
  <2>3. \A j \in Items : j # i => sendSlip'[j] = sendSlip[j] BY <1>13 DEF SendDone
  <2>4. wire' # 0 => Judged(wire)' /\ Overrun(wire)' BY <2>1, <2>2, <2>3
  <2>5. abort'.kind = "wire" => Judged(abort.item)' /\ Overrun(abort.item)'
    BY <2>1, <2>2, <2>3
  <2>6. QED BY <2>2, <2>4, <2>5
<1>14. ASSUME NEW i \in Items, DoReturns(i) PROVE EvidenceInv'
  <2>1. \A j \in Items : Judged(j) => Judged(j)' BY <1>14 DEF DoReturns
  <2>2. UNCHANGED <<wire, sendSlip, abort, cur, dispatchSlip, interrupted, result>>
    BY <1>14 DEF DoReturns
  <2>3. wire' # 0 => Judged(wire)' /\ Overrun(wire)' BY <2>1, <2>2
  <2>4. abort'.kind = "wire" => Judged(abort.item)' /\ Overrun(abort.item)' BY <2>1, <2>2
  <2>5. QED BY <2>2, <2>3, <2>4
<1>15. ASSUME NEW i \in Items, RecordEvent(i) PROVE EvidenceInv'
  <2>1. \A j \in Items : Judged(j) => Judged(j)' BY <1>15 DEF RecordEvent
  <2>2. UNCHANGED <<wire, sendSlip, abort, cur, dispatchSlip, interrupted, result>>
    BY <1>15 DEF RecordEvent
  <2>3. wire' # 0 => Judged(wire)' /\ Overrun(wire)' BY <2>1, <2>2
  <2>4. abort'.kind = "wire" => Judged(abort.item)' /\ Overrun(abort.item)' BY <2>1, <2>2
  <2>5. QED BY <2>2, <2>3, <2>4
<1>16. ASSUME NEW i \in Items, Watchdog(i) PROVE EvidenceInv'
  <2>1. \A j \in Items : Judged(j) => Judged(j)' BY <1>16 DEF Watchdog
  <2>2. Judged(i)' /\ UNCHANGED <<sendSlip, abort, cur, dispatchSlip, interrupted, result>>
    BY <1>16 DEF Watchdog
  <2>3. wire' = wire \/ (wire' = i /\ Overrun(i)) BY <1>16 DEF Watchdog
  <2>4. wire' # 0 => Judged(wire)' /\ Overrun(wire)'
    <3>1. CASE wire' = wire
      <4>1. wire # 0 => wire \in Items /\ Judged(wire) /\ Overrun(wire) OBVIOUS
      <4>2. QED BY <4>1, <3>1, <2>1, <2>2
    <3>2. CASE wire' = i /\ Overrun(i) BY <3>2, <2>2
    <3>3. QED BY <3>1, <3>2, <2>3
  <2>5. abort'.kind = "wire" => Judged(abort.item)' /\ Overrun(abort.item)' BY <2>1, <2>2
  <2>6. QED BY <2>2, <2>4, <2>5
<1>17. ASSUME NEW i \in Items, Count(i) PROVE EvidenceInv'
  <2>1. \A j \in Items : Judged(j) => Judged(j)' BY <1>17 DEF Count
  <2>2. UNCHANGED <<wire, sendSlip, abort, cur, dispatchSlip, interrupted, result>>
    BY <1>17 DEF Count
  <2>3. wire' # 0 => Judged(wire)' /\ Overrun(wire)' BY <2>1, <2>2
  <2>4. abort'.kind = "wire" => Judged(abort.item)' /\ Overrun(abort.item)' BY <2>1, <2>2
  <2>5. QED BY <2>2, <2>3, <2>4
<1>18. CASE RecorderStep
  BY <1>18 DEF RecorderStep, Rec!WriterStep, Rec!Encode, Rec!EncodeDropped, Rec!Receive,
     Rec!Flush
<1>19. CASE UNCHANGED vars
  BY <1>19 DEF vars
<1>20. QED BY <1>1, <1>2, <1>3, <1>4, <1>5, <1>6, <1>7, <1>8, <1>9, <1>10, <1>11, <1>12,
     <1>13, <1>14, <1>15, <1>16, <1>17, <1>18, <1>19 DEF Next, SchedulerStep,
     SchedulerLoop, RequestStep

\* Every step keeps the inductive invariant.
LEMMA RunStepInv == RunInv /\ [Next]_vars => RunInv'
<1> SUFFICES ASSUME RunInv, [Next]_vars PROVE RunInv' OBVIOUS
<1>1. RP!RecInv' BY RecorderInvStep
<1>2. Rec!RecTypeOK' BY <1>1, SameTypes DEF RP!RecInv, Rec!RecTypeOK, RP!RecTypeOK
<1>3. TypeOK' BY <1>2, TypesStep
<1>4. QED BY <1>1, <1>3, SchedStep, TripStep, LineStep, EvidenceStep DEF RunInv

\* Every reachable state of every run satisfies the inductive invariant.
THEOREM RunInvariant == Spec => []RunInv
<1>1. Init => RunInv BY InitInv
<1>2. RunInv /\ [Next]_vars => RunInv' BY RunStepInv
<1>3. QED BY <1>1, <1>2, PTL DEF Spec

\* Execute's variables keep their types, whatever the plan.
THEOREM RunTypes == Spec => []TypeOK
<1>1. RunInv => TypeOK BY DEF RunInv
<1>2. QED BY <1>1, RunInvariant, PTL

-----------------------------------------------------------------------------
(* What the file holds once Execute returns without a recorder failure.    *)

\* The requests past Record have exactly one line, the others none.
LEMMA RecordedHasOneLine ==
  ASSUME RunInv, result \notin {"none", "recorder_failure"}, NEW i \in Items
  PROVE  /\ Recorded(i) => HasOneLine(i)
         /\ ~Recorded(i) => ~HasLine(i)
<1>1. verdict = "ok" BY DEF RunInv, LineInv
<1>2. sink = accepted
  <2>1. RP!CleanCloseIsComplete
    BY RunAssumption, RP!InvIsComplete DEF RunInv, RP!RecorderAssumption
  <2>2. QED BY <1>1, <2>1 DEF RP!CleanCloseIsComplete
<1>3. /\ Recorded(i) <=> \E n \in 1..Len(sink) : sink[n] = i
      /\ \A m, n \in 1..Len(sink) : sink[m] = sink[n] => m = n
  BY <1>2 DEF RunInv, LineInv
<1>4. QED BY <1>3 DEF HasLine, HasOneLine

\* Once Execute has returned, a request was either never sent or ran to its
\* end, and so was recorded.
LEMMA ReturnedIsSettled ==
  ASSUME RunInv, result # "none", NEW i \in Items
  PROVE  IF Dispatched(i) THEN g[i] = "done" /\ Recorded(i) ELSE ~Recorded(i)
BY DEF RunInv, SchedInv, Settled, Dispatched, Recorded

\* Also an aborted run leaves exactly one line for each request it sent.
THEOREM RunRecordsEachRequestOnce == Spec => []OneLinePerRequest
<1>1. RunInv => OneLinePerRequest
  BY RecordedHasOneLine, ReturnedIsSettled DEF OneLinePerRequest
<1>2. QED BY <1>1, RunInvariant, PTL

\* A nil error from Execute: every item of the plan was sent and recorded once.
THEOREM RunCompleteWhenValid == Spec => []ValidMeansComplete
<1>1. RunInv => ValidMeansComplete
  <2> SUFFICES ASSUME RunInv, result = "nil", NEW i \in Items
               PROVE  g[i] = "done" /\ HasOneLine(i)
    BY DEF ValidMeansComplete
  <2>1. abort = NoAbort /\ pc = "returned" BY DEF RunInv, SchedInv
  <2>2. cur = N + 1 BY <2>1 DEF RunInv, SchedInv, InLoop
  <2>3. Dispatched(i) BY <2>2, RunAssumption DEF RunInv, SchedInv, Items
  <2>4. QED BY <2>3, ReturnedIsSettled, RecordedHasOneLine
<1>2. QED BY <1>1, RunInvariant, PTL

\* A nil error from Execute: neither watchdog stage was overrun by any item,
\* the goroutine that finished last included.
THEOREM RunOnScheduleWhenValid == Spec => []ValidMeansOnSchedule
<1>1. RunInv => ValidMeansOnSchedule
  <2> SUFFICES ASSUME RunInv, result = "nil", NEW i \in Items
               PROVE  dispatchSlip[i] \in 0..MaxSlip /\ sendSlip[i] <= MaxSlip
    BY DEF ValidMeansOnSchedule
  <2>1. abort = NoAbort /\ pc = "returned" BY DEF RunInv, SchedInv
  <2>2. i < cur BY <2>1, RunAssumption DEF RunInv, SchedInv, InLoop, Items
  <2>3. g[i] = "done" BY <2>2, ReturnedIsSettled DEF RunInv, SchedInv
  <2>4. ~Overrun(i) BY <2>1, <2>3 DEF RunInv, TripInv, Judged
  <2>5. sendSlip[i] \in Int /\ MaxSlip \in Int BY RunAssumption DEF RunInv, TypeOK
  <2>6. QED BY <2>2, <2>4, <2>5 DEF RunInv, SchedInv, Overrun
<1>2. QED BY <1>1, RunInvariant, PTL

-----------------------------------------------------------------------------
\* No goroutine can still send on the recorder's channel when it is closed.
THEOREM RunClosesAfterSenders == Spec => []CloseFindsNoSender
<1>1. RunInv => CloseFindsNoSender BY DEF RunInv, SchedInv, CloseFindsNoSender
<1>2. QED BY <1>1, RunInvariant, PTL

\* After a wire-stage trip at most the item already committed to is sent.
THEOREM RunStopsAfterTrip == Spec => []TripStopsDispatch
<1>1. RunInv => TripStopsDispatch BY DEF RunInv, TripInv, TripStopsDispatch
<1>2. QED BY <1>1, RunInvariant, PTL

\* The abort Execute returns is backed by what was measured and recorded.
THEOREM RunAbortHasEvidence == Spec => []AbortHasEvidence
<1>1. RunInv => AbortHasEvidence
  <2> SUFFICES ASSUME RunInv PROVE AbortHasEvidence OBVIOUS
  <2>1. ASSUME result = "wire"
        PROVE  sendSlip[abort.item] > MaxSlip /\ HasLine(abort.item)
    <3>1. /\ abort.item \in Items /\ Judged(abort.item) /\ Overrun(abort.item)
      BY <2>1, RunAssumption DEF RunInv, EvidenceInv, TypeOK, Items
    <3>2. Recorded(abort.item) BY <3>1 DEF Judged, Recorded
    <3>3. HasOneLine(abort.item) BY <2>1, <3>1, <3>2, RecordedHasOneLine
    <3>4. QED BY <3>1, <3>3 DEF Overrun, HasOneLine, HasLine
  <2>2. ASSUME result = "dispatch"
        PROVE  dispatchSlip[abort.item] > MaxSlip /\ ~Dispatched(abort.item)
    BY <2>2 DEF RunInv, EvidenceInv, SchedInv, TypeOK, Items
  <2>3. ASSUME result = "ctx" PROVE interrupted BY <2>3 DEF RunInv, EvidenceInv
  <2>4. QED BY <2>1, <2>2, <2>3 DEF AbortHasEvidence
<1>2. QED BY <1>1, RunInvariant, PTL

\* Every step of Execute is a step of its recorder or leaves it alone, so what
\* is proved about module Recorder holds of the recorder inside a run.
THEOREM RunUsesRecorder == Spec => UsesRecorder
<1>1. Init => Rec!RecInit BY DEF Init
<1>2. RunInv /\ [Next]_vars => [Rec!Next]_(Rec!recVars) BY RecorderSteps
<1>3. QED BY <1>1, <1>2, RunInvariant, PTL DEF Spec, UsesRecorder, Rec!RecSpec

-----------------------------------------------------------------------------
(* The counters of the Result.                                             *)

CountedAs(s) == {i \in Items : g[i] = "done" /\ status[i] = s}

\* Each counter holds the number of finished requests of its status, and a
\* request that has reached the recorder has a status.
CountInv ==
  /\ \A i \in Items : g[i] \in {"record", "watch", "count", "done"} => status[i] \in Statuses
  /\ \A s \in Statuses : counted[s] = Cardinality(CountedAs(s))

\* All counters start at zero, with nothing finished.
LEMMA CountInitInv == Init => CountInv
<1> SUFFICES ASSUME Init PROVE CountInv OBVIOUS
<1>1. \A s \in Statuses : CountedAs(s) = {} BY DEF Init, CountedAs
<1>2. Cardinality({}) = 0 BY FS_EmptySet
<1>3. \A s \in Statuses : counted[s] = 0 BY DEF Init
<1>4. QED BY <1>1, <1>2, <1>3 DEF Init, CountInv

\* Only Count moves a request to "done", and it adds that one to its counter.
LEMMA CountStepInv ==
  ASSUME RunInv, CountInv, [Next]_vars PROVE CountInv'
<1>1. ASSUME NEW i \in Items, Count(i) PROVE CountInv'
  <2>1. PICK c \in Statuses : c = status[i] BY <1>1 DEF Count, CountInv
  <2>2. /\ status' = status /\ g' = [g EXCEPT ![i] = "done"]
        /\ counted' = [counted EXCEPT ![c] = counted[c] + 1]
    BY <1>1, <2>1 DEF Count, CounterOf
  <2>3. g'[i] = "done" /\ g[i] = "count" /\ \A j \in Items : j # i => g'[j] = g[j]
    BY <1>1, <2>2 DEF Count, RunInv, TypeOK
  <2>4. CountedAs(c)' = CountedAs(c) \cup {i} BY <2>1, <2>2, <2>3 DEF CountedAs
  <2>5. \A s \in Statuses : s # c => CountedAs(s)' = CountedAs(s)
    BY <2>1, <2>2, <2>3 DEF CountedAs
  <2>6. i \notin CountedAs(c) BY <2>3 DEF CountedAs
  <2>7. IsFiniteSet(CountedAs(c))
    <3>1. IsFiniteSet(Items) BY FS_Interval, RunAssumption DEF Items
    <3>2. QED BY <3>1, FS_Subset DEF CountedAs
  <2>8. Cardinality(CountedAs(c) \cup {i}) = Cardinality(CountedAs(c)) + 1
    BY <2>6, <2>7, FS_AddElement
  <2>9. counted'[c] = counted[c] + 1 /\ \A s \in Statuses : s # c => counted'[s] = counted[s]
    BY <2>2 DEF RunInv, TypeOK
  <2>10. ASSUME NEW s \in Statuses PROVE counted'[s] = Cardinality(CountedAs(s)')
    <3>1. counted[s] = Cardinality(CountedAs(s)) BY DEF CountInv
    <3>2. CASE s = c BY <3>1, <3>2, <2>4, <2>8, <2>9
    <3>3. CASE s # c BY <3>1, <3>3, <2>5, <2>9
    <3>4. QED BY <3>2, <3>3
  <2>11. \A j \in Items : g'[j] \in {"record", "watch", "count", "done"} => status'[j] \in Statuses
    BY <2>1, <2>2, <2>3 DEF CountInv
  <2>12. QED BY <2>10, <2>11 DEF CountInv
<1>2. ASSUME NEW i \in Items, DoReturns(i) PROVE CountInv'
  <2>1. PICK s \in Outcomes : status' = [status EXCEPT ![i] = s] BY <1>2 DEF DoReturns
  <2>2. g' = [g EXCEPT ![i] = "record"] /\ counted' = counted /\ g[i] # "done"
    BY <1>2 DEF DoReturns
  <2>3. /\ g'[i] = "record" /\ status'[i] = s /\ s \in Statuses
        /\ \A j \in Items : j # i => g'[j] = g[j] /\ status'[j] = status[j]
    BY <2>1, <2>2, RunAssumption DEF RunInv, TypeOK
  <2>4. \A r \in Statuses : CountedAs(r)' = CountedAs(r) BY <2>2, <2>3 DEF CountedAs
  <2>5. QED BY <2>2, <2>3, <2>4 DEF CountInv
<1>3. ASSUME /\ UNCHANGED <<status, counted>>
             /\ \A j \in Items : g'[j] = "done" <=> g[j] = "done"
             /\ \A j \in Items : g'[j] \in {"record", "watch", "count", "done"}
                                 => g[j] \in {"record", "watch", "count", "done"}
      PROVE  CountInv'
  <2>1. \A s \in Statuses : CountedAs(s)' = CountedAs(s) BY <1>3 DEF CountedAs
  <2>2. QED BY <1>3, <2>1 DEF CountInv
<1>4. ASSUME NEW i \in Items, SendDone(i) \/ RecordEvent(i) \/ Watchdog(i) PROVE CountInv'
  <2>1. UNCHANGED <<status, counted>> BY <1>4 DEF SendDone, RecordEvent, Watchdog
  <2>2. /\ g[i] \in {"spawned", "record", "watch"}
        /\ \/ g' = [g EXCEPT ![i] = "sent"] /\ g[i] = "spawned"
           \/ g' = [g EXCEPT ![i] = "watch"] /\ g[i] = "record"
           \/ g' = [g EXCEPT ![i] = "count"] /\ g[i] = "watch"
    BY <1>4 DEF SendDone, RecordEvent, Watchdog
  <2>3. QED BY <1>3, <2>1, <2>2 DEF RunInv, TypeOK
<1>5. CASE Fire
  <2>1. UNCHANGED <<status, counted>> BY <1>5 DEF Fire
  <2>2. cur \in Items /\ g[cur] = "none"
    BY <1>5 DEF Fire, RunInv, TypeOK, SchedInv, Dispatched, Items
  <2>3. g' = g \/ g' = [g EXCEPT ![cur] = "spawned"] BY <1>5 DEF Fire
  <2>4. QED BY <1>3, <2>1, <2>2, <2>3 DEF RunInv, TypeOK
<1>6. ASSUME UNCHANGED reqVars PROVE CountInv'
  BY <1>3, <1>6 DEF reqVars
<1>7. CASE Tick \/ Interrupt \/ RecorderStep \/ UNCHANGED vars
  BY <1>6, <1>7 DEF Tick, Interrupt, RecorderStep, vars
<1>8. CASE LoopTop \/ SelectDone \/ SelectWire \/ SelectTimer \/ Poll
  BY <1>6, <1>8 DEF LoopTop, SelectDone, SelectWire, SelectTimer, Poll, SchedulerOnly
<1>9. CASE Drain \/ FinalPoll \/ CloseRecorder \/ ReturnResult
  BY <1>6, <1>9 DEF Drain, FinalPoll, CloseRecorder, ReturnResult, SchedulerOnly
<1>10. QED
  BY <1>1, <1>2, <1>4, <1>5, <1>7, <1>8, <1>9
  DEF Next, SchedulerStep, SchedulerLoop, RequestStep

\* When Execute returns, the counters in the Result add up to the outcomes of
\* the requests that were sent: no late update, none forgotten.
THEOREM RunCountersMatch == Spec => []CountersMatchOutcomes
<1>1. RunInv /\ CountInv => CountersMatchOutcomes
  <2> SUFFICES ASSUME RunInv, CountInv, result # "none", NEW s \in Statuses
               PROVE  counted[s] = Cardinality({i \in Items : Dispatched(i) /\ status[i] = s})
    BY DEF CountersMatchOutcomes
  <2>1. \A i \in Items : Dispatched(i) <=> g[i] = "done"
    BY DEF RunInv, SchedInv, Settled, Dispatched
  <2>2. CountedAs(s) = {i \in Items : Dispatched(i) /\ status[i] = s} BY <2>1 DEF CountedAs
  <2>3. QED BY <2>2 DEF CountInv
<1>2. Init => CountInv BY CountInitInv
<1>3. RunInv /\ CountInv /\ [Next]_vars => CountInv' BY CountStepInv
<1>4. QED BY <1>1, <1>2, <1>3, RunInvariant, PTL DEF Spec

=============================================================================
