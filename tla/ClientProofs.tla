---------------------------- MODULE ClientProofs ----------------------------
(***************************************************************************)
(* Proofs about module Client, for every cancel threshold and every number *)
(* of lines: types, what completion and an output-tokens cancel leave in   *)
(* the outcome, that the clocks explain it, and that a request implements  *)
(* the abstract outcome of module RequestOutcome.                          *)
(***************************************************************************)
EXTENDS Client, SequenceTheorems, TLAPS

-----------------------------------------------------------------------------
(* The inductive invariant.                                                *)

Closed == {"settle", "returned"}
Early == {"begin", "roundTrip", "snapshot", "failed", "rejected", "refused", "read"}

Refusal == {"rejected", "refused"}

\* Every line in the buffer, and every token, has been delivered.
LinesInv == tokens + Len(lines) <= delivered

\* Where Do is, against what it shares with the timers.
ControlInv ==
  /\ out # NoOutcome <=> pc \in Closed
  /\ settled <=> pc = "returned"
  /\ issued \/ external => ctx # "live"
  /\ ctx = "canceled" => issued \/ external \/ settled
  /\ plan.trigger # "elapsed" => timer = "off"

\* What a failed call returned has its cause, and rules out an answer.
ErrorInv ==
  /\ err = "canceled" => issued \/ external
  /\ err = "deadline" => ctx = "deadline"
  /\ err = "torn" => ctx # "live"
  /\ pc \in {"begin", "roundTrip"} => err = "none" /\ answer.code = "none"
  /\ pc = "snapshot" => (err = "none" <=> answer.code # "none")
  /\ pc = "failed" => err # "none" /\ answer.code = "none"
  /\ pc \in Refusal => err = "none" /\ answer.code \notin {"none", "2xx"}
  /\ pc \in {"read", "classify"} => answer.code = "2xx"
  /\ err # "none" => answer.code \in {"none", "2xx"}

\* Scanning ends for one reason, which a failed read may join.
EndInv ==
  /\ pc \in Early => seen \subseteq {"usage"}
  /\ "done" \in seen => "error" \notin seen /\ "byTokens" \notin seen
  /\ "error" \in seen => "byTokens" \notin seen
  /\ {"done", "error", "byTokens"} \cap seen # {} => answer.code = "2xx"
  /\ pc = "classify" /\ ~plan.stream /\ err = "none" => "done" \in seen

\* An output-tokens cancel is issued by the line that reaches the threshold,
\* and ends the reading there.
TokenInv ==
  /\ "byTokens" \in seen => tokens = Threshold /\ issued /\ plan.trigger = "tokens"
  /\ plan.trigger = "tokens" /\ issued => "byTokens" \in seen
  /\ plan.trigger = "tokens" /\ ~issued => tokens < Threshold

\* What the outcome says, once there is one.
OutInv ==
  pc \in Closed =>
    /\ "done" \in seen /\ err = "none" => out.status = "ok"
    /\ "byTokens" \in seen => out.status = "canceled" /\ out.point = Threshold
    /\ out.class = "upstream_timeout" => ctx = "deadline" \/ TargetReported
    /\ out.status = "canceled" => issued \/ external

ClientInv ==
  TypeOK /\ LinesInv /\ ControlInv /\ ErrorInv /\ EndInv /\ TokenInv /\ OutInv

LEMMA OutcomeNotNone == \A o \in Outcomes : o # NoOutcome /\ o.status # "none"
<1> SUFFICES ASSUME NEW o \in Outcomes PROVE o # NoOutcome /\ o.status # "none"
  OBVIOUS
<1>1. o.status \in {"canceled", "ok", "error", "shed"}
  BY DEF Outcomes
<1>2. NoOutcome.status = "none"
  BY DEF NoOutcome
<1> QED
  BY <1>1, <1>2

LEMMA ClientInit == Init => ClientInv
<1> SUFFICES ASSUME Init PROVE ClientInv
  OBVIOUS
<1>1. TypeOK
  <2>1. 0 \in 0..MaxLines /\ <<>> \in Seq(Kinds)
    BY ClientAssumption DEF ClientAssumption
  <2>2. [code |-> "none", envelope |-> "none"] \in [code : Codes \cup {"none"}, envelope : Envelopes]
    BY DEF Envelopes
  <2> QED
    BY <2>1, <2>2 DEF Init, TypeOK
<1>2. LinesInv
  BY EmptySeq DEF Init, LinesInv
<1>3. ControlInv /\ ErrorInv /\ EndInv /\ TokenInv /\ OutInv
  BY ClientAssumption DEF Init, ControlInv, ErrorInv, Refusal, EndInv, TokenInv, OutInv, Closed, Early, ClientAssumption
<1> QED
  BY <1>1, <1>2, <1>3 DEF ClientInv

LEMMA BeginInv == ClientInv /\ Begin => ClientInv'
<1> SUFFICES ASSUME ClientInv, Begin PROVE ClientInv'
  OBVIOUS
<1>1. TypeOK'
  BY DEF ClientInv, TypeOK, Begin, cancelVars, sendVars, readVars
<1>2. LinesInv'
  BY DEF ClientInv, LinesInv, Begin, cancelVars, sendVars, readVars
<1>3. ControlInv'
  BY DEF ClientInv, ControlInv, TypeOK, Closed, Begin, cancelVars, sendVars, readVars
<1>4. ErrorInv'
  BY DEF ClientInv, ErrorInv, Refusal, ControlInv, TypeOK, Begin, cancelVars, sendVars, readVars
<1>5. EndInv'
  BY DEF ClientInv, EndInv, ErrorInv, Early, Begin, cancelVars, sendVars, readVars
<1>6. TokenInv'
  BY DEF ClientInv, TokenInv, ControlInv, EndInv, TypeOK, Begin, cancelVars, sendVars, readVars
<1>7. OutInv'
  BY DEF ClientInv, OutInv, TargetReported, TypeOK, Closed, Begin, cancelVars, sendVars, readVars
<1> QED
  BY <1>1, <1>2, <1>3, <1>4, <1>5, <1>6, <1>7 DEF ClientInv

LEMMA SnapshotInv == ClientInv /\ Snapshot => ClientInv'
<1> SUFFICES ASSUME ClientInv, Snapshot PROVE ClientInv'
  OBVIOUS
<1>1. TypeOK'
  BY DEF ClientInv, TypeOK, Snapshot, cancelVars, sendVars, readVars
<1>2. LinesInv'
  BY DEF ClientInv, LinesInv, Snapshot, cancelVars, sendVars, readVars
<1>3. ControlInv'
  BY DEF ClientInv, ControlInv, TypeOK, Closed, Snapshot, cancelVars, sendVars, readVars
<1>4. ErrorInv'
  BY DEF ClientInv, ErrorInv, Refusal, ControlInv, TypeOK, Snapshot, cancelVars, sendVars, readVars
<1>5. EndInv'
  BY DEF ClientInv, EndInv, ErrorInv, Early, Snapshot, cancelVars, sendVars, readVars
<1>6. TokenInv'
  BY DEF ClientInv, TokenInv, ControlInv, EndInv, TypeOK, Snapshot, cancelVars, sendVars, readVars
<1>7. OutInv'
  BY DEF ClientInv, OutInv, TargetReported, TypeOK, Closed, Snapshot, cancelVars, sendVars, readVars
<1> QED
  BY <1>1, <1>2, <1>3, <1>4, <1>5, <1>6, <1>7 DEF ClientInv

LEMMA SettleInv == ClientInv /\ Settle => ClientInv'
<1> SUFFICES ASSUME ClientInv, Settle PROVE ClientInv'
  OBVIOUS
<1>1. TypeOK'
  BY DEF ClientInv, TypeOK, Settle, EndContext, cancelVars, sendVars, readVars
<1>2. LinesInv'
  BY DEF ClientInv, LinesInv, Settle, EndContext, cancelVars, sendVars, readVars
<1>3. ControlInv'
  BY DEF ClientInv, ControlInv, TypeOK, Closed, Settle, EndContext, cancelVars, sendVars, readVars
<1>4. ErrorInv'
  BY DEF ClientInv, ErrorInv, Refusal, ControlInv, TypeOK, Settle, EndContext, cancelVars, sendVars, readVars
<1>5. EndInv'
  BY DEF ClientInv, EndInv, ErrorInv, Early, Settle, EndContext, cancelVars, sendVars, readVars
<1>6. TokenInv'
  BY DEF ClientInv, TokenInv, ControlInv, EndInv, TypeOK, Settle, EndContext, cancelVars, sendVars, readVars
<1>7. OutInv'
  BY DEF ClientInv, OutInv, TargetReported, TypeOK, Closed, Settle, EndContext, cancelVars, sendVars, readVars
<1> QED
  BY <1>1, <1>2, <1>3, <1>4, <1>5, <1>6, <1>7 DEF ClientInv

LEMMA AnsweredInv == ClientInv /\ Answered => ClientInv'
<1> SUFFICES ASSUME ClientInv, Answered PROVE ClientInv'
  OBVIOUS
<1>1. TypeOK'
  BY DEF ClientInv, TypeOK, Answered, Codes, Envelopes, cancelVars, sendVars, readVars
<1>2. LinesInv'
  BY DEF ClientInv, LinesInv, Answered, Codes, Envelopes, cancelVars, sendVars, readVars
<1>3. ControlInv'
  BY DEF ClientInv, ControlInv, TypeOK, Closed, Answered, Codes, Envelopes, cancelVars, sendVars, readVars
<1>4. ErrorInv'
  BY DEF ClientInv, ErrorInv, Refusal, ControlInv, TypeOK, Answered, Codes, Envelopes, cancelVars, sendVars, readVars
<1>5. EndInv'
  BY DEF ClientInv, EndInv, ErrorInv, Early, Answered, Codes, Envelopes, cancelVars, sendVars, readVars
<1>6. TokenInv'
  BY DEF ClientInv, TokenInv, ControlInv, EndInv, TypeOK, Answered, Codes, Envelopes, cancelVars, sendVars, readVars
<1>7. OutInv'
  BY DEF ClientInv, OutInv, TargetReported, TypeOK, Closed, Answered, Codes, Envelopes, cancelVars, sendVars, readVars
<1> QED
  BY <1>1, <1>2, <1>3, <1>4, <1>5, <1>6, <1>7 DEF ClientInv

LEMMA RoundTripFailsInv == ClientInv /\ RoundTripFails => ClientInv'
<1> SUFFICES ASSUME ClientInv, RoundTripFails PROVE ClientInv'
  OBVIOUS
<1>1. TypeOK'
  BY DEF ClientInv, TypeOK, RoundTripFails, Failures, cancelVars, sendVars, readVars
<1>2. LinesInv'
  BY DEF ClientInv, LinesInv, RoundTripFails, Failures, cancelVars, sendVars, readVars
<1>3. ControlInv'
  BY DEF ClientInv, ControlInv, TypeOK, Closed, RoundTripFails, Failures, cancelVars, sendVars, readVars
<1>4. ErrorInv'
  BY DEF ClientInv, ErrorInv, Refusal, ControlInv, TypeOK, RoundTripFails, Failures, cancelVars, sendVars, readVars
<1>5. EndInv'
  BY DEF ClientInv, EndInv, ErrorInv, Early, RoundTripFails, Failures, cancelVars, sendVars, readVars
<1>6. TokenInv'
  BY DEF ClientInv, TokenInv, ControlInv, EndInv, TypeOK, RoundTripFails, Failures, cancelVars, sendVars, readVars
<1>7. OutInv'
  BY DEF ClientInv, OutInv, TargetReported, TypeOK, Closed, RoundTripFails, Failures, cancelVars, sendVars, readVars
<1> QED
  BY <1>1, <1>2, <1>3, <1>4, <1>5, <1>6, <1>7 DEF ClientInv

LEMMA ReadEndInv == ClientInv /\ ReadEnd => ClientInv'
<1> SUFFICES ASSUME ClientInv, ReadEnd PROVE ClientInv'
  OBVIOUS
<1>1. TypeOK'
  BY DEF ClientInv, TypeOK, ReadEnd, Refill, Reading, cancelVars, sendVars, readVars
<1>2. LinesInv'
  BY DEF ClientInv, LinesInv, ReadEnd, Refill, Reading, cancelVars, sendVars, readVars
<1>3. ControlInv'
  BY DEF ClientInv, ControlInv, TypeOK, Closed, ReadEnd, Refill, Reading, cancelVars, sendVars, readVars
<1>4. ErrorInv'
  BY DEF ClientInv, ErrorInv, Refusal, ControlInv, TypeOK, ReadEnd, Refill, Reading, cancelVars, sendVars, readVars
<1>5. EndInv'
  BY DEF ClientInv, EndInv, ErrorInv, Early, ReadEnd, Refill, Reading, cancelVars, sendVars, readVars
<1>6. TokenInv'
  BY DEF ClientInv, TokenInv, ControlInv, EndInv, TypeOK, ReadEnd, Refill, Reading, cancelVars, sendVars, readVars
<1>7. OutInv'
  BY DEF ClientInv, OutInv, TargetReported, TypeOK, Closed, ReadEnd, Refill, Reading, cancelVars, sendVars, readVars
<1> QED
  BY <1>1, <1>2, <1>3, <1>4, <1>5, <1>6, <1>7 DEF ClientInv

LEMMA ScanEndsInv == ClientInv /\ ScanEnds => ClientInv'
<1> SUFFICES ASSUME ClientInv, ScanEnds PROVE ClientInv'
  OBVIOUS
<1>1. TypeOK'
  BY DEF ClientInv, TypeOK, ScanEnds, Reading, cancelVars, sendVars, readVars
<1>2. LinesInv'
  BY DEF ClientInv, LinesInv, ScanEnds, Reading, cancelVars, sendVars, readVars
<1>3. ControlInv'
  BY DEF ClientInv, ControlInv, TypeOK, Closed, ScanEnds, Reading, cancelVars, sendVars, readVars
<1>4. ErrorInv'
  BY DEF ClientInv, ErrorInv, Refusal, ControlInv, TypeOK, ScanEnds, Reading, cancelVars, sendVars, readVars
<1>5. EndInv'
  BY DEF ClientInv, EndInv, ErrorInv, Early, ScanEnds, Reading, cancelVars, sendVars, readVars
<1>6. TokenInv'
  BY DEF ClientInv, TokenInv, ControlInv, EndInv, TypeOK, ScanEnds, Reading, cancelVars, sendVars, readVars
<1>7. OutInv'
  BY DEF ClientInv, OutInv, TargetReported, TypeOK, Closed, ScanEnds, Reading, cancelVars, sendVars, readVars
<1> QED
  BY <1>1, <1>2, <1>3, <1>4, <1>5, <1>6, <1>7 DEF ClientInv

LEMMA RejectionBodyInv == ClientInv /\ RejectionBody => ClientInv'
<1> SUFFICES ASSUME ClientInv, RejectionBody PROVE ClientInv'
  OBVIOUS
<1>1. TypeOK'
  BY DEF ClientInv, TypeOK, RejectionBody, cancelVars, sendVars, readVars
<1>2. LinesInv'
  BY DEF ClientInv, LinesInv, RejectionBody, cancelVars, sendVars, readVars
<1>3. ControlInv'
  BY DEF ClientInv, ControlInv, TypeOK, Closed, RejectionBody, cancelVars, sendVars, readVars
<1>4. ErrorInv'
  BY DEF ClientInv, ErrorInv, Refusal, ControlInv, TypeOK, RejectionBody, cancelVars, sendVars, readVars
<1>5. EndInv'
  BY DEF ClientInv, EndInv, ErrorInv, Early, RejectionBody, cancelVars, sendVars, readVars
<1>6. TokenInv'
  BY DEF ClientInv, TokenInv, ControlInv, EndInv, TypeOK, RejectionBody, cancelVars, sendVars, readVars
<1>7. OutInv'
  BY DEF ClientInv, OutInv, TargetReported, TypeOK, Closed, RejectionBody, cancelVars, sendVars, readVars
<1> QED
  BY <1>1, <1>2, <1>3, <1>4, <1>5, <1>6, <1>7 DEF ClientInv

LEMMA StartWriteInv == ClientInv /\ StartWrite => ClientInv'
<1> SUFFICES ASSUME ClientInv, StartWrite PROVE ClientInv'
  OBVIOUS
<1>1. TypeOK'
  BY DEF ClientInv, TypeOK, StartWrite, cancelVars, sendVars, readVars
<1>2. LinesInv'
  BY DEF ClientInv, LinesInv, StartWrite, cancelVars, sendVars, readVars
<1>3. ControlInv'
  BY DEF ClientInv, ControlInv, TypeOK, Closed, StartWrite, cancelVars, sendVars, readVars
<1>4. ErrorInv'
  BY DEF ClientInv, ErrorInv, Refusal, ControlInv, TypeOK, StartWrite, cancelVars, sendVars, readVars
<1>5. EndInv'
  BY DEF ClientInv, EndInv, ErrorInv, Early, StartWrite, cancelVars, sendVars, readVars
<1>6. TokenInv'
  BY DEF ClientInv, TokenInv, ControlInv, EndInv, TypeOK, StartWrite, cancelVars, sendVars, readVars
<1>7. OutInv'
  BY DEF ClientInv, OutInv, TargetReported, TypeOK, Closed, StartWrite, cancelVars, sendVars, readVars
<1> QED
  BY <1>1, <1>2, <1>3, <1>4, <1>5, <1>6, <1>7 DEF ClientInv

LEMMA EndWriteInv == ClientInv /\ EndWrite => ClientInv'
<1> SUFFICES ASSUME ClientInv, EndWrite PROVE ClientInv'
  OBVIOUS
<1>1. TypeOK'
  BY DEF ClientInv, TypeOK, EndWrite, cancelVars, sendVars, readVars
<1>2. LinesInv'
  BY DEF ClientInv, LinesInv, EndWrite, cancelVars, sendVars, readVars
<1>3. ControlInv'
  BY DEF ClientInv, ControlInv, TypeOK, Closed, EndWrite, cancelVars, sendVars, readVars
<1>4. ErrorInv'
  BY DEF ClientInv, ErrorInv, Refusal, ControlInv, TypeOK, EndWrite, cancelVars, sendVars, readVars
<1>5. EndInv'
  BY DEF ClientInv, EndInv, ErrorInv, Early, EndWrite, cancelVars, sendVars, readVars
<1>6. TokenInv'
  BY DEF ClientInv, TokenInv, ControlInv, EndInv, TypeOK, EndWrite, cancelVars, sendVars, readVars
<1>7. OutInv'
  BY DEF ClientInv, OutInv, TargetReported, TypeOK, Closed, EndWrite, cancelVars, sendVars, readVars
<1> QED
  BY <1>1, <1>2, <1>3, <1>4, <1>5, <1>6, <1>7 DEF ClientInv

LEMMA DeadlineInv == ClientInv /\ Deadline => ClientInv'
<1> SUFFICES ASSUME ClientInv, Deadline PROVE ClientInv'
  OBVIOUS
<1>1. TypeOK'
  BY DEF ClientInv, TypeOK, Deadline, cancelVars, sendVars, readVars
<1>2. LinesInv'
  BY DEF ClientInv, LinesInv, Deadline, cancelVars, sendVars, readVars
<1>3. ControlInv'
  BY DEF ClientInv, ControlInv, TypeOK, Closed, Deadline, cancelVars, sendVars, readVars
<1>4. ErrorInv'
  BY DEF ClientInv, ErrorInv, Refusal, ControlInv, TypeOK, Deadline, cancelVars, sendVars, readVars
<1>5. EndInv'
  BY DEF ClientInv, EndInv, ErrorInv, Early, Deadline, cancelVars, sendVars, readVars
<1>6. TokenInv'
  BY DEF ClientInv, TokenInv, ControlInv, EndInv, TypeOK, Deadline, cancelVars, sendVars, readVars
<1>7. OutInv'
  BY DEF ClientInv, OutInv, TargetReported, TypeOK, Closed, Deadline, cancelVars, sendVars, readVars
<1> QED
  BY <1>1, <1>2, <1>3, <1>4, <1>5, <1>6, <1>7 DEF ClientInv

LEMMA InterruptInv == ClientInv /\ Interrupt => ClientInv'
<1> SUFFICES ASSUME ClientInv, Interrupt PROVE ClientInv'
  OBVIOUS
<1>1. TypeOK'
  BY DEF ClientInv, TypeOK, Interrupt, EndContext, cancelVars, sendVars, readVars
<1>2. LinesInv'
  BY DEF ClientInv, LinesInv, Interrupt, EndContext, cancelVars, sendVars, readVars
<1>3. ControlInv'
  BY DEF ClientInv, ControlInv, TypeOK, Closed, Interrupt, EndContext, cancelVars, sendVars, readVars
<1>4. ErrorInv'
  BY DEF ClientInv, ErrorInv, Refusal, ControlInv, TypeOK, Interrupt, EndContext, cancelVars, sendVars, readVars
<1>5. EndInv'
  BY DEF ClientInv, EndInv, ErrorInv, Early, Interrupt, EndContext, cancelVars, sendVars, readVars
<1>6. TokenInv'
  BY DEF ClientInv, TokenInv, ControlInv, EndInv, TypeOK, Interrupt, EndContext, cancelVars, sendVars, readVars
<1>7. OutInv'
  BY DEF ClientInv, OutInv, TargetReported, TypeOK, Closed, Interrupt, EndContext, cancelVars, sendVars, readVars
<1> QED
  BY <1>1, <1>2, <1>3, <1>4, <1>5, <1>6, <1>7 DEF ClientInv

LEMMA TimerExpiresInv == ClientInv /\ TimerExpires => ClientInv'
<1> SUFFICES ASSUME ClientInv, TimerExpires PROVE ClientInv'
  OBVIOUS
<1>1. TypeOK'
  BY DEF ClientInv, TypeOK, TimerExpires, cancelVars, sendVars, readVars
<1>2. LinesInv'
  BY DEF ClientInv, LinesInv, TimerExpires, cancelVars, sendVars, readVars
<1>3. ControlInv'
  BY DEF ClientInv, ControlInv, TypeOK, Closed, TimerExpires, cancelVars, sendVars, readVars
<1>4. ErrorInv'
  BY DEF ClientInv, ErrorInv, Refusal, ControlInv, TypeOK, TimerExpires, cancelVars, sendVars, readVars
<1>5. EndInv'
  BY DEF ClientInv, EndInv, ErrorInv, Early, TimerExpires, cancelVars, sendVars, readVars
<1>6. TokenInv'
  BY DEF ClientInv, TokenInv, ControlInv, EndInv, TypeOK, TimerExpires, cancelVars, sendVars, readVars
<1>7. OutInv'
  BY DEF ClientInv, OutInv, TargetReported, TypeOK, Closed, TimerExpires, cancelVars, sendVars, readVars
<1> QED
  BY <1>1, <1>2, <1>3, <1>4, <1>5, <1>6, <1>7 DEF ClientInv

LEMMA FireInv == ClientInv /\ Fire => ClientInv'
<1> SUFFICES ASSUME ClientInv, Fire PROVE ClientInv'
  OBVIOUS
<1>1. TypeOK'
  <2>1. /\ UNCHANGED <<plan, pc, external, settled, sendVars, answer, readVars, err, out>>
        /\ timer' = "fired"
        /\ UNCHANGED <<issued, tokensAtIssue, ctx>> \/ Issue(tokens)
    BY DEF Fire
  <2>2. issued' \in BOOLEAN /\ tokensAtIssue' \in 0..MaxLines
    BY <2>1 DEF Issue, ClientInv, TypeOK
  <2>3. ctx' \in {"live", "canceled", "deadline"}
    BY <2>1 DEF Issue, EndContext, ClientInv, TypeOK
  <2> QED
    BY <2>1, <2>2, <2>3 DEF ClientInv, TypeOK, sendVars, readVars
<1>2. LinesInv'
  BY DEF ClientInv, LinesInv, Fire, FireRefused, Issue, EndContext, cancelVars, sendVars, readVars
<1>3. ControlInv'
  BY DEF ClientInv, ControlInv, TypeOK, Closed, Fire, FireRefused, Issue, EndContext, cancelVars, sendVars, readVars
<1>4. ErrorInv'
  BY DEF ClientInv, ErrorInv, Refusal, ControlInv, TypeOK, Fire, FireRefused, Issue, EndContext, cancelVars, sendVars, readVars
<1>5. EndInv'
  BY DEF ClientInv, EndInv, ErrorInv, Early, Fire, FireRefused, Issue, EndContext, cancelVars, sendVars, readVars
<1>6. TokenInv'
  BY DEF ClientInv, TokenInv, ControlInv, EndInv, TypeOK, Fire, FireRefused, Issue, EndContext, cancelVars, sendVars, readVars
<1>7. OutInv'
  BY DEF ClientInv, OutInv, TargetReported, TypeOK, Closed, Fire, FireRefused, Issue, EndContext, cancelVars, sendVars, readVars
<1> QED
  BY <1>1, <1>2, <1>3, <1>4, <1>5, <1>6, <1>7 DEF ClientInv

\* A read that brings lines leaves every one of them delivered.
LEMMA DeliveredLines ==
  ASSUME ClientInv, lines = <<>>, NEW n \in Nat, Delivers(n), UNCHANGED tokens
  PROVE  lines' \in Seq(Kinds) /\ delivered' \in 0..MaxLines /\ LinesInv'
<1>1. lines' \in [1..n -> Kinds] /\ delivered' = delivered + n /\ delivered + n <= MaxLines
  BY DEF Delivers
<1>2. lines' \in Seq(Kinds) /\ Len(lines') = n
  BY <1>1, SeqDef, LenProperties
<1>3. Len(lines) = 0
  BY EmptySeq
<1>4. tokens \in Nat /\ delivered \in Nat /\ tokens <= delivered /\ MaxLines \in Nat
  BY <1>3, ClientAssumption DEF ClientInv, TypeOK, LinesInv, ClientAssumption
<1> QED
  BY <1>1, <1>2, <1>4 DEF LinesInv

LEMMA ReadMoreInv == ClientInv /\ ReadMore => ClientInv'
<1> SUFFICES ASSUME ClientInv, ReadMore PROVE ClientInv'
  OBVIOUS
<1>1. PICK n \in 1..2 : Delivers(n)
  BY DEF ReadMore
<1>2. /\ UNCHANGED <<plan, pc, ctx, external, cancelVars, sendVars, answer, tokens, seen, err, out>>
      /\ pc = "read" /\ lines = <<>>
  BY DEF ReadMore, Refill, Reading
<1>3. lines' \in Seq(Kinds) /\ delivered' \in 0..MaxLines /\ LinesInv'
  BY <1>1, <1>2, DeliveredLines
<1>4. TypeOK'
  BY <1>2, <1>3 DEF ClientInv, TypeOK, cancelVars, sendVars
<1>5. ControlInv' /\ ErrorInv' /\ EndInv' /\ TokenInv' /\ OutInv'
  BY <1>2 DEF ClientInv, ControlInv, ErrorInv, EndInv, TokenInv, OutInv, TargetReported, cancelVars
<1> QED
  BY <1>3, <1>4, <1>5 DEF ClientInv

LEMMA ReadFailsInv == ClientInv /\ ReadFails => ClientInv'
<1> SUFFICES ASSUME ClientInv, ReadFails PROVE ClientInv'
  OBVIOUS
<1>1. /\ UNCHANGED <<plan, ctx, external, cancelVars, sendVars, answer, tokens, seen, out>>
      /\ pc = "read" /\ lines = <<>> /\ pc' \in {"read", "classify"} /\ err' \in Failures
  BY DEF ReadFails, Refill, Reading
<1>2. lines' \in Seq(Kinds) /\ delivered' \in 0..MaxLines /\ LinesInv'
  <2>1. CASE plan.stream
    <3>1. PICK n \in 0..2 : Delivers(n)
      BY <2>1 DEF ReadFails
    <3> QED
      BY <1>1, <3>1, DeliveredLines
  <2>2. CASE ~plan.stream
    BY <1>1, <2>2 DEF ReadFails, ClientInv, TypeOK, LinesInv
  <2> QED
    BY <2>1, <2>2
<1>3. /\ err' \in {"conn", "torn", "canceled", "deadline"}
      /\ err' = "conn" <=> ctx = "live"
      /\ err' \in {"canceled", "deadline"} => err' = ctx
  BY <1>1 DEF Failures, ClientInv, TypeOK
<1>4. TypeOK'
  BY <1>1, <1>2, <1>3 DEF ClientInv, TypeOK, cancelVars, sendVars
<1>5. ControlInv' /\ EndInv' /\ TokenInv' /\ OutInv'
  BY <1>1, <1>3 DEF ClientInv, ControlInv, EndInv, TokenInv, OutInv, Closed, Early, cancelVars
<1>6. ErrorInv'
  <2>1. ~settled
    BY <1>1 DEF ClientInv, ControlInv
  <2> QED
    BY <1>1, <1>3, <2>1 DEF ClientInv, ControlInv, ErrorInv, Refusal, cancelVars
<1> QED
  BY <1>2, <1>4, <1>5, <1>6 DEF ClientInv

LEMMA ScanLineInv == ClientInv /\ ScanLine => ClientInv'
<1> SUFFICES ASSUME ClientInv, ScanLine PROVE ClientInv'
  OBVIOUS
<1>1. /\ pc = "read" /\ lines \in Seq(Kinds) /\ lines # <<>> /\ lines' = Tail(lines)
      /\ UNCHANGED <<plan, external, timer, settled, sendVars, answer, delivered, err, out>>
  BY DEF ScanLine, Reading, ClientInv, TypeOK
<1>2. Head(lines) \in Kinds /\ Tail(lines) \in Seq(Kinds) /\ Len(lines) \in Nat \ {0}
      /\ Len(Tail(lines)) = Len(lines) - 1
  BY <1>1, EmptySeq, HeadTailProperties, LenProperties
<1>3. \/ tokens' = tokens + 1 /\ TokensReached /\ Issue(tokens + 1)
         /\ seen' = seen \cup {"byTokens"} /\ pc' = "classify"
      \/ tokens' = tokens + 1 /\ ~TokensReached
         /\ UNCHANGED <<issued, tokensAtIssue, ctx, seen, pc>>
      \/ \E k \in {"done", "error"} : seen' = seen \cup {k} /\ pc' = "classify"
         /\ UNCHANGED <<tokens, issued, tokensAtIssue, ctx>>
      \/ seen' \in {seen, seen \cup {"usage"}}
         /\ UNCHANGED <<tokens, issued, tokensAtIssue, ctx, pc>>
  BY <1>2 DEF ScanLine, Kinds
<1>4. tokens \in Nat /\ delivered \in 0..MaxLines /\ MaxLines \in Nat /\ Threshold \in Nat
      /\ tokens + Len(lines) <= delivered
  BY ClientAssumption DEF ClientInv, TypeOK, LinesInv, ClientAssumption
<1>5. tokens' \in {tokens, tokens + 1}
  BY <1>3
<1>6. LinesInv' /\ tokens' \in 0..MaxLines
  BY <1>1, <1>2, <1>4, <1>5 DEF LinesInv
<1>7. TypeOK'
  <2>1. tokensAtIssue' \in 0..MaxLines
    BY <1>3, <1>6 DEF Issue, ClientInv, TypeOK
  <2>2. ctx' \in {"live", "canceled", "deadline"} /\ issued' \in BOOLEAN
    BY <1>3 DEF Issue, EndContext, ClientInv, TypeOK
  <2>3. seen' \subseteq {"usage", "done", "error", "byTokens"} /\ pc' \in {"read", "classify"}
    BY <1>1, <1>3 DEF ClientInv, TypeOK
  <2> QED
    BY <1>1, <1>2, <1>6, <2>1, <2>2, <2>3 DEF ClientInv, TypeOK, sendVars
<1>8. ControlInv'
  BY <1>1, <1>3 DEF ClientInv, ControlInv, TypeOK, Closed, Issue, EndContext
<1>9. ErrorInv'
  BY <1>1, <1>3 DEF ClientInv, ErrorInv, Refusal, ControlInv, TypeOK, Issue, EndContext
<1>10. EndInv'
  <2>1. plan.stream /\ seen \subseteq {"usage"} /\ answer.code = "2xx"
    BY <1>1 DEF ScanLine, ClientInv, EndInv, ErrorInv, Early
  <2> QED
    BY <1>1, <1>3, <2>1 DEF EndInv, Early
<1>11. TokenInv'
  BY <1>1, <1>3, <1>4 DEF ClientInv, TokenInv, ControlInv, EndInv, Early, TypeOK, Issue, TokensReached
<1>12. OutInv'
  BY <1>1, <1>3 DEF OutInv, Closed
<1> QED
  BY <1>6, <1>7, <1>8, <1>9, <1>10, <1>11, <1>12 DEF ClientInv

\* Every outcome, with what Do knew when it chose it.
LEMMA Verdict ==
  ASSUME ClientInv, Classify
  PROVE  /\ pc \in {"failed", "refused", "classify"}
         /\ out' \in Outcomes
         /\ "done" \in seen /\ err = "none" => out'.status = "ok"
         /\ "byTokens" \in seen => out'.status = "canceled" /\ out'.point = Threshold
         /\ out'.class = "upstream_timeout" => ctx = "deadline" \/ TargetReported
         /\ out'.status = "canceled" => (issued \/ external) /\ pc # "refused"
         /\ out'.status = "ok" => "done" \in seen /\ err = "none"
         /\ out'.status = "shed" => pc = "refused"
         /\ out'.status = "error" =>
              \/ pc = "refused" \/ ctx = "deadline" \/ err = "conn"
              \/ pc = "classify" /\ err = "none" /\ "byTokens" \notin seen
<1> DEFINE Good(o) ==
      /\ pc \in {"failed", "refused", "classify"}
      /\ o \in Outcomes
      /\ "done" \in seen /\ err = "none" => o.status = "ok"
      /\ "byTokens" \in seen => o.status = "canceled" /\ o.point = Threshold
      /\ o.class = "upstream_timeout" => ctx = "deadline" \/ TargetReported
      /\ o.status = "canceled" => (issued \/ external) /\ pc # "refused"
      /\ o.status = "ok" => "done" \in seen /\ err = "none"
      /\ o.status = "shed" => pc = "refused"
      /\ o.status = "error" =>
           \/ pc = "refused" \/ ctx = "deadline" \/ err = "conn"
           \/ pc = "classify" /\ err = "none" /\ "byTokens" \notin seen
<1>1. sent \in BOOLEAN /\ tokens \in 0..MaxLines
  BY DEF ClientInv, TypeOK
<1>2. ASSUME NEW class \in {"upstream_error", "upstream_timeout", "internal", "rate_limited", "overloaded"},
             NEW s \in {"error", "shed"}
      PROVE  /\ Outcome(s, class, NotCanceled) \in Outcomes
             /\ Outcome(s, class, NotCanceled).status = s
             /\ Outcome(s, class, NotCanceled).class = class
  BY <1>1 DEF Outcome, Outcomes
<1>3. /\ CanceledOutcome \in Outcomes
      /\ CanceledOutcome.status = "canceled" /\ CanceledOutcome.class = "canceled"
      /\ CanceledOutcome.point = tokens
  BY <1>1 DEF CanceledOutcome, Outcome, Outcomes
<1>4. LET o == Outcome("ok", "none", NotCanceled)
      IN  /\ o \in Outcomes /\ o.status = "ok" /\ o.class = "none"
          /\ \A b \in BOOLEAN : LET p == [o EXCEPT !.usageMissing = b]
                                IN  p \in Outcomes /\ p.status = "ok" /\ p.class = "none"
  BY <1>1 DEF Outcome, Outcomes
<1>5. SaysDeadline => ctx = "deadline"
  BY DEF SaysDeadline, ClientInv, ErrorInv
<1>6. SaysCanceled /\ pc \in {"failed", "classify"} => issued \/ external
  BY DEF SaysCanceled, ClientInv, ErrorInv, ControlInv
<1>7. ~SaysDeadline /\ ~SaysCanceled /\ err # "none" => err = "conn"
  BY DEF SaysDeadline, SaysCanceled, ClientInv, ErrorInv, TypeOK
<1>8. ASSUME pc = "failed" PROVE seen \subseteq {"usage"} /\ err # "none"
  BY <1>8 DEF ClientInv, EndInv, ErrorInv, Early
<1>9. ASSUME pc = "refused" PROVE seen \subseteq {"usage"} /\ TargetReported
  BY <1>9 DEF ClientInv, EndInv, ErrorInv, Refusal, Early, TargetReported
<1> HIDE DEF Good
<1>10. CASE TransportFailure
  <2>1. \/ SaysDeadline /\ out' = Outcome("error", "upstream_timeout", NotCanceled)
        \/ SaysCanceled /\ out' = CanceledOutcome
        \/ ~SaysDeadline /\ ~SaysCanceled /\ out' = Outcome("error", "upstream_error", NotCanceled)
    BY <1>10 DEF TransportFailure
  <2>2. pc = "failed"
    BY <1>10 DEF TransportFailure
  <2>3. Good(out')
    BY <1>2, <1>3, <1>5, <1>6, <1>7, <1>8, <2>1, <2>2 DEF Good
  <2> QED
    BY <2>3 DEF Good
<1>11. CASE ClassifyHTTPError
  <2>1. pc = "refused"
    BY <1>11 DEF ClassifyHTTPError
  <2>2. RejectionClass(answer.code, answer.envelope) \in
          {"upstream_timeout", "internal", "rate_limited", "overloaded"}
    BY <2>1 DEF RejectionClass, ClientInv, TypeOK, ErrorInv, Refusal, Codes, Envelopes
  <2>3. PICK s \in {"error", "shed"}, class \in {"upstream_timeout", "internal", "rate_limited", "overloaded"} :
          out' = Outcome(s, class, NotCanceled)
    BY <1>11, <2>2 DEF ClassifyHTTPError
  <2>4. Good(out')
    BY <1>2, <1>9, <2>1, <2>3 DEF Good
  <2> QED
    BY <2>4 DEF Good
<1>12. CASE ClassifyStream
  <2>1. pc = "classify"
    BY <1>12 DEF ClassifyStream
  <2>2. \/ TokenCancel /\ out' = CanceledOutcome
        \/ ~TokenCancel /\ ReadFailed /\ SaysCanceled /\ out' = CanceledOutcome
        \/ ~TokenCancel /\ ReadFailed /\ ~SaysCanceled /\ SaysDeadline
           /\ out' = Outcome("error", "upstream_timeout", NotCanceled)
        \/ ~TokenCancel /\ ReadFailed /\ ~SaysCanceled /\ ~SaysDeadline
           /\ out' = Outcome("error", "upstream_error", NotCanceled)
        \/ ~TokenCancel /\ ~ReadFailed /\ Incomplete
           /\ \E c \in ReportedClasses : out' = Outcome("error", c, NotCanceled)
        \/ ~TokenCancel /\ ~ReadFailed /\ ~Incomplete /\ out' = Outcome("ok", "none", NotCanceled)
    BY <1>12 DEF ClassifyStream
  <2>3. ASSUME TokenCancel PROVE tokens = Threshold /\ issued /\ "done" \notin seen
    BY <2>3 DEF TokenCancel, ClientInv, TokenInv, EndInv
  <2>4. ASSUME Incomplete PROVE "done" \notin seen
    BY <2>4 DEF Incomplete, ClientInv, EndInv
  <2>5. ASSUME NEW c \in ReportedClasses, err = "none"
        PROVE  /\ c \in {"upstream_error", "upstream_timeout"}
               /\ c = "upstream_timeout" => TargetReported
    BY <2>5 DEF ReportedClasses, TargetReported
  <2>7. CASE TokenCancel
    <3>1. out' = CanceledOutcome
      BY <2>2, <2>7
    <3>2. Good(out')
      BY <1>3, <2>1, <2>3, <2>7, <3>1 DEF Good
    <3> QED
      BY <3>2 DEF Good
  <2>8. CASE ~TokenCancel /\ ReadFailed
    <3>1. Good(out')
      BY <1>2, <1>3, <1>5, <1>6, <1>7, <2>1, <2>2, <2>8 DEF Good, ReadFailed, TokenCancel
    <3> QED
      BY <3>1 DEF Good
  <2>9. CASE ~TokenCancel /\ ~ReadFailed /\ Incomplete
    <3>1. PICK c \in ReportedClasses : out' = Outcome("error", c, NotCanceled)
      BY <2>2, <2>9
    <3>2. c \in {"upstream_error", "upstream_timeout"} /\ (c = "upstream_timeout" => TargetReported)
      BY <2>5, <2>9 DEF ReadFailed
    <3>3. Good(out')
      BY <1>2, <2>1, <2>4, <2>9, <3>1, <3>2 DEF Good, TokenCancel, ReadFailed
    <3> QED
      BY <3>3 DEF Good
  <2>10. CASE ~TokenCancel /\ ~ReadFailed /\ ~Incomplete
    <3>1. out' = Outcome("ok", "none", NotCanceled)
      BY <2>2, <2>10
    <3>2. Good(out')
      BY <1>4, <2>1, <2>10, <3>1 DEF Good, TokenCancel, Incomplete, ReadFailed
    <3> QED
      BY <3>2 DEF Good
  <2> QED
    BY <2>7, <2>8, <2>9, <2>10
<1>13. CASE ClassifyBody
  <2>1. pc = "classify" /\ ~plan.stream
    BY <1>13 DEF ClassifyBody
  <2>2. CASE err = "none"
    <3>1. "done" \in seen /\ "byTokens" \notin seen
      BY <2>1, <2>2 DEF ClientInv, EndInv
    <3>2. PICK b \in BOOLEAN : out' = [Outcome("ok", "none", NotCanceled) EXCEPT !.usageMissing = b]
      BY <1>13, <2>2 DEF ClassifyBody
    <3>3. out' \in Outcomes /\ out'.status = "ok" /\ out'.class = "none"
      BY <1>4, <3>2
    <3>4. Good(out')
      BY <2>1, <2>2, <3>1, <3>3 DEF Good
    <3> QED
      BY <3>4 DEF Good
  <2>3. CASE err # "none"
    <3>1. "byTokens" \notin seen
      BY <2>1 DEF ClientInv, TokenInv, TypeOK, Plans
    <3>2. \/ SaysDeadline /\ out' = Outcome("error", "upstream_timeout", NotCanceled)
          \/ SaysCanceled /\ out' = CanceledOutcome
          \/ ~SaysDeadline /\ ~SaysCanceled /\ out' = Outcome("error", "upstream_error", NotCanceled)
      BY <1>13, <2>3 DEF ClassifyBody
    <3>3. Good(out')
      BY <1>2, <1>3, <1>5, <1>6, <1>7, <2>1, <2>3, <3>1, <3>2 DEF Good
    <3> QED
      BY <3>3 DEF Good
  <2> QED
    BY <2>2, <2>3
<1> QED
  BY <1>10, <1>11, <1>12, <1>13 DEF Classify

LEMMA ClassifyInv == ClientInv /\ Classify => ClientInv'
<1> SUFFICES ASSUME ClientInv, Classify PROVE ClientInv'
  OBVIOUS
<1>1. /\ pc' = "settle"
      /\ UNCHANGED <<plan, ctx, external, cancelVars, sendVars, answer, readVars, err>>
  BY DEF Classify
<1>2. TypeOK'
  BY <1>1, Verdict DEF ClientInv, TypeOK, cancelVars, sendVars, readVars
<1>3. LinesInv' /\ ErrorInv' /\ EndInv' /\ TokenInv'
  BY <1>1, Verdict DEF ClientInv, LinesInv, ErrorInv, Refusal, EndInv, Early, TokenInv, cancelVars, readVars
<1>4. ControlInv'
  BY <1>1, Verdict, OutcomeNotNone DEF ClientInv, ControlInv, Closed, cancelVars
<1>5. OutInv'
  BY <1>1, Verdict DEF OutInv, TargetReported, cancelVars, readVars
<1> QED
  BY <1>2, <1>3, <1>4, <1>5 DEF ClientInv

LEMMA ClientStep == ClientInv /\ [Next]_vars => ClientInv'
<1> SUFFICES ASSUME ClientInv, [Next]_vars PROVE ClientInv'
  OBVIOUS
<1>1. CASE UNCHANGED vars
  BY <1>1 DEF vars, cancelVars, sendVars, readVars, ClientInv, TypeOK, LinesInv, ControlInv,
              ErrorInv, EndInv, TokenInv, OutInv, TargetReported
<1> QED
  BY <1>1, BeginInv, SnapshotInv, ScanLineInv, ScanEndsInv, RejectionBodyInv, ClassifyInv, SettleInv, AnsweredInv,
     RoundTripFailsInv, ReadMoreInv, ReadEndInv, ReadFailsInv, StartWriteInv, EndWriteInv,
     DeadlineInv, InterruptInv, TimerExpiresInv, FireInv DEF Next, OwnStep, TargetStep

THEOREM ClientInvariant == Spec => []ClientInv
BY ClientInit, ClientStep, PTL DEF Spec

-----------------------------------------------------------------------------
(* What it means for one request.                                          *)

\* Types: an outcome has a cancellation_point exactly when it is canceled
\* (client.go: Outcome), for every threshold and number of lines.
THEOREM TypeCorrect == Spec => []TypeOK
<1>1. ClientInv => TypeOK
  BY DEF ClientInv
<1> QED
  BY <1>1, ClientInvariant, PTL

LEMMA OutcomeMeansClosed == ClientInv /\ Returned => pc \in Closed
BY DEF ClientInv, ControlInv, Returned

\* Completion wins: once [DONE] or the end of a non-streaming body was read
\* from a sound connection, no timer, interrupt or deadline takes the ok away
\* (sse.go:104-173; client.go: readNonStream).
THEOREM CompletionIsKept == Spec => []CompletionWins
<1>1. ClientInv => CompletionWins
  BY OutcomeMeansClosed DEF ClientInv, OutInv, CompletionWins
<1> QED
  BY <1>1, ClientInvariant, PTL

\* An output-tokens cancel that is issued is the recorded outcome, at exactly
\* the planned number of tokens (client.go: observeTokens, point).
THEOREM TokenCancelsAreExact == Spec => []TokenCancelExact
<1>1. ClientInv => TokenCancelExact
  BY OutcomeMeansClosed DEF ClientInv, TokenInv, OutInv, TokenCancelExact
<1> QED
  BY <1>1, ClientInvariant, PTL

\* A timeout nobody reported is the client's own deadline, and a canceled
\* request was canceled by its plan or from outside (client.go:573-611).
THEOREM ClocksExplainOutcome == Spec => []TimersExplainOutcome
<1>1. ClientInv => TimersExplainOutcome
  BY OutcomeMeansClosed DEF ClientInv, OutInv, TimersExplainOutcome
<1> QED
  BY <1>1, ClientInvariant, PTL

\* After settle a timer goroutine that is already running issues nothing
\* (client.go: cancelController.fire, settle).
THEOREM SettledIsFinal == Spec => NoCancelAfterSettle
<1>1. ClientInv /\ [Next]_vars => (settled => issued' = issued /\ tokensAtIssue' = tokensAtIssue)
  <2> SUFFICES ASSUME ClientInv, [Next]_vars, settled
               PROVE  issued' = issued /\ tokensAtIssue' = tokensAtIssue
    OBVIOUS
  <2>1. pc = "returned"
    BY DEF ClientInv, ControlInv
  <2>2. CASE UNCHANGED vars
    BY <2>2 DEF vars, cancelVars
  <2>3. CASE OwnStep
    BY <2>1, <2>3 DEF OwnStep, Begin, Snapshot, ScanLine, ScanEnds, Reading, Classify,
                      TransportFailure, ClassifyHTTPError, ClassifyStream, ClassifyBody, Settle
  <2>4. CASE TargetStep
    BY <2>4 DEF TargetStep, Answered, RoundTripFails, ReadMore, ReadEnd, ReadFails, RejectionBody,
                StartWrite, EndWrite, cancelVars
  <2>5. CASE Deadline \/ Interrupt \/ TimerExpires
    BY <2>5 DEF Deadline, Interrupt, TimerExpires, cancelVars
  <2>6. CASE Fire
    BY <2>6 DEF Fire, FireRefused
  <2> QED
    BY <2>2, <2>3, <2>4, <2>5, <2>6 DEF Next
<1> QED
  BY <1>1, ClientInvariant, PTL DEF Spec, NoCancelAfterSettle

-----------------------------------------------------------------------------
(* The refinement.  AnswerSeen, what the answer has turned out to be, stays *)
(* "none" until it is known, changes once, and never after the outcome.    *)

LEMMA RefineInit == Init => Abstract!Init
<1> SUFFICES ASSUME Init PROVE Abstract!Init
  OBVIOUS
<1>1. AnswerSeen = "none"
  BY DEF Init, AnswerSeen, ReadOver
<1>2. ~Returned /\ ~issued /\ ~external /\ ctx = "live"
  BY DEF Init, Returned
<1> QED
  BY <1>1, <1>2 DEF Init, Abstract!Init

\* A step that decides the answer is an Answer step of the abstract outcome;
\* the steps before it leave it open.
LEMMA AnswerSteps ==
  ASSUME ClientInv, pc \notin Closed, UNCHANGED out, UNCHANGED <<issued, external>>,
         (ctx' = "deadline") <=> (ctx = "deadline"),
         AnswerSeen' # AnswerSeen => AnswerSeen = "none"
  PROVE  Abstract!Next \/ UNCHANGED Abstract!vars
<1>1. ~Returned /\ ~Returned'
  BY DEF ClientInv, ControlInv, Returned
<1>2. AnswerSeen' \in {"none", "complete", "rejected", "broken"}
  BY DEF AnswerSeen
<1>3. CASE AnswerSeen' = AnswerSeen
  BY <1>1, <1>3 DEF Abstract!vars
<1>4. CASE AnswerSeen' # AnswerSeen
  <2>1. AnswerSeen = "none" /\ AnswerSeen' \in {"complete", "rejected", "broken"}
    BY <1>2, <1>4
  <2>2. Abstract!Answer(AnswerSeen')
    BY <1>1, <2>1 DEF Abstract!Answer
  <2> QED
    BY <2>1, <2>2 DEF Abstract!Next
<1> QED
  BY <1>3, <1>4

\* Until the reading is over only a connection that broke by itself is known.
LEMMA StillOpen ==
  ClientInv /\ pc \in {"roundTrip", "read"} =>
    AnswerSeen = (IF err = "conn" THEN "broken" ELSE "none") /\ pc \notin Closed
BY DEF ClientInv, ErrorInv, EndInv, Early, AnswerSeen, ReadOver, Closed

LEMMA CancelSteps ==
  ASSUME UNCHANGED <<AnswerSeen, out>>, (issued \/ external)',
         (ctx' = "deadline") <=> (ctx = "deadline")
  PROVE  Abstract!Next
<1>1. Abstract!Cancel
  BY DEF Abstract!Cancel, Returned
<1> QED
  BY <1>1 DEF Abstract!Next

LEMMA QuietSteps ==
  ASSUME UNCHANGED <<AnswerSeen, out>>, UNCHANGED <<issued, external>>,
         (ctx' = "deadline") <=> (ctx = "deadline")
  PROVE  UNCHANGED Abstract!vars
BY DEF Abstract!vars, Returned

LEMMA ScanLineRefines == ClientInv /\ ScanLine => Abstract!Next \/ UNCHANGED Abstract!vars
<1> SUFFICES ASSUME ClientInv, ScanLine PROVE Abstract!Next \/ UNCHANGED Abstract!vars
  OBVIOUS
<1>1. pc = "read" /\ UNCHANGED <<plan, external, answer, err, out>>
  BY DEF ScanLine, Reading
<1>2. AnswerSeen = (IF err = "conn" THEN "broken" ELSE "none") /\ pc \notin Closed
  BY <1>1, StillOpen
<1>3. /\ seen \subseteq {"usage"} /\ answer.code = "2xx"
      /\ lines # <<>> /\ lines \in Seq(Kinds)
  BY <1>1 DEF ScanLine, ClientInv, TypeOK, EndInv, ErrorInv, Early
<1>4. Head(lines) \in Kinds
  BY <1>3, HeadTailProperties
<1>5. CASE Head(lines) = "content" /\ TokensReached
  <2>1. issued' /\ EndContext("canceled") /\ seen' = seen \cup {"byTokens"} /\ pc' = "classify"
    BY <1>5 DEF ScanLine, Issue
  <2>2. AnswerSeen' = AnswerSeen
    BY <1>1, <1>2, <1>3, <2>1 DEF AnswerSeen, ReadOver
  <2> QED
    BY <1>1, <1>2, <2>1, <2>2, CancelSteps DEF EndContext
<1>6. CASE ~(Head(lines) = "content" /\ TokensReached)
  <2>1. UNCHANGED <<issued, ctx>>
    BY <1>4, <1>6 DEF ScanLine, Kinds
  <2>2. err = "conn" => AnswerSeen' = "broken"
    BY <1>1, <1>3 DEF AnswerSeen
  <2> QED
    BY <1>1, <1>2, <2>1, <2>2, AnswerSteps
<1> QED
  BY <1>5, <1>6

LEMMA ClassifyRefines == ClientInv /\ Classify => Abstract!Next
<1> SUFFICES ASSUME ClientInv, Classify PROVE Abstract!Next
  OBVIOUS
<1>1. /\ pc' = "settle"
      /\ UNCHANGED <<ctx, external, issued, answer, seen, err>>
  BY DEF Classify, cancelVars, readVars
<1>2. pc \in {"failed", "refused", "classify"} /\ out' \in Outcomes
  BY Verdict
<1>3. ~Returned /\ Returned'
  BY <1>2, OutcomeNotNone DEF ClientInv, ControlInv, Closed, Returned
<1>4. AnswerSeen' = AnswerSeen
  <2>1. CASE pc = "classify"
    BY <1>1, <2>1 DEF AnswerSeen, ReadOver
  <2>2. CASE pc = "failed"
    <3>1. err # "none"
      BY <2>2 DEF ClientInv, ErrorInv
    <3> QED
      BY <1>1, <3>1 DEF AnswerSeen
  <2>3. CASE pc = "refused"
    <3>1. answer.code \notin {"none", "2xx"}
      BY <2>3 DEF ClientInv, ErrorInv, Refusal
    <3> QED
      BY <1>1, <3>1 DEF AnswerSeen
  <2> QED
    BY <1>2, <2>1, <2>2, <2>3
<1>5. pc = "refused" => AnswerSeen = "rejected"
  BY DEF ClientInv, ErrorInv, Refusal, EndInv, Early, AnswerSeen
<1>6. "done" \in seen /\ err = "none" => AnswerSeen = "complete"
  BY DEF AnswerSeen
<1>7. pc # "refused" => AnswerSeen # "rejected"
  BY <1>2 DEF ClientInv, ErrorInv, AnswerSeen
<1>8. ASSUME ~("done" \in seen /\ err = "none")
      PROVE  /\ AnswerSeen # "complete"
             /\ pc # "refused" /\ err = "conn" => AnswerSeen = "broken"
             /\ pc = "classify" /\ err = "none" /\ "byTokens" \notin seen => AnswerSeen = "broken"
  BY <1>2, <1>8 DEF ClientInv, ErrorInv, AnswerSeen, ReadOver
<1>9. out'.status \in {"ok", "shed", "error", "canceled"}
  BY <1>2 DEF Outcomes
<1>10. Abstract!Justified(out'.status)
  <2>1. CASE out'.status = "ok"
    BY <1>6, <2>1, Verdict DEF Abstract!Justified
  <2>2. CASE out'.status = "shed"
    BY <1>5, <2>2, Verdict DEF Abstract!Justified
  <2>3. CASE out'.status = "error"
    <3>1. ~("done" \in seen /\ err = "none")
      BY <2>3, Verdict
    <3>2. AnswerSeen \in {"rejected", "broken"} \/ ctx = "deadline"
      BY <1>5, <1>8, <2>3, <3>1, Verdict
    <3> QED
      BY <2>3, <3>2 DEF Abstract!Justified
  <2>4. CASE out'.status = "canceled"
    <3>1. ~("done" \in seen /\ err = "none") /\ (issued \/ external) /\ pc # "refused"
      BY <2>4, Verdict
    <3> QED
      BY <1>7, <1>8, <2>4, <3>1 DEF Abstract!Justified
  <2> QED
    BY <1>9, <2>1, <2>2, <2>3, <2>4
<1>11. Abstract!Close(out'.status)
  BY <1>1, <1>3, <1>4, <1>10 DEF Abstract!Close
<1> QED
  BY <1>9, <1>11 DEF Abstract!Next

LEMMA RefineStep == ClientInv /\ [Next]_vars => Abstract!Next \/ UNCHANGED Abstract!vars
<1> SUFFICES ASSUME ClientInv, [Next]_vars PROVE Abstract!Next \/ UNCHANGED Abstract!vars
  OBVIOUS
<1>1. CASE UNCHANGED vars
  BY <1>1, QuietSteps DEF vars, cancelVars, readVars, AnswerSeen, ReadOver
<1>2. CASE Begin \/ Snapshot \/ ScanEnds \/ RejectionBody
  <2>1. UNCHANGED <<AnswerSeen, out, issued, external, ctx>>
    <3>1. UNCHANGED <<seen, err, out, issued, external, ctx>> /\ (ReadOver' /\ err = "none" <=> ReadOver /\ err = "none")
      BY <1>2 DEF Begin, Snapshot, ScanEnds, RejectionBody, Reading, cancelVars, readVars, ReadOver
    <3>2. answer'.code = answer.code
      BY <1>2 DEF Begin, Snapshot, ScanEnds, RejectionBody, ClientInv, TypeOK
    <3> QED
      BY <3>1, <3>2 DEF AnswerSeen
  <2> QED
    BY <2>1, QuietSteps
<1>3. CASE StartWrite \/ EndWrite \/ TimerExpires
  <2>1. UNCHANGED <<AnswerSeen, out, issued, external, ctx>>
    BY <1>3 DEF StartWrite, EndWrite, TimerExpires, cancelVars, readVars, AnswerSeen, ReadOver
  <2> QED
    BY <2>1, QuietSteps
<1>4. CASE Answered \/ RoundTripFails \/ ReadMore \/ ReadEnd \/ ReadFails
  <2>1. /\ pc \in {"roundTrip", "read"} /\ err = "none"
        /\ UNCHANGED <<ctx, external, issued, out>>
    BY <1>4 DEF Answered, RoundTripFails, ReadMore, ReadEnd, ReadFails, Refill, Reading, cancelVars,
                ClientInv, ErrorInv
  <2> QED
    BY <2>1, StillOpen, AnswerSteps
<1>5. CASE Deadline
  <2>1. ctx' = "deadline" /\ UNCHANGED <<AnswerSeen, out, issued, external>>
    BY <1>5 DEF Deadline, cancelVars, readVars, AnswerSeen, ReadOver
  <2>2. Abstract!Expire
    BY <2>1 DEF Abstract!Expire, Returned
  <2> QED
    BY <2>2 DEF Abstract!Next
<1>6. CASE Interrupt
  <2>1. external' /\ EndContext("canceled") /\ UNCHANGED <<AnswerSeen, out>>
    BY <1>6 DEF Interrupt, readVars, AnswerSeen, ReadOver
  <2> QED
    BY <2>1, CancelSteps DEF EndContext
<1>7. CASE Fire
  <2>1. UNCHANGED <<AnswerSeen, out, external>>
    BY <1>7 DEF Fire, readVars, AnswerSeen, ReadOver
  <2>2. CASE FireRefused
    <3>1. UNCHANGED <<issued, ctx>>
      BY <1>7, <2>2 DEF Fire
    <3> QED
      BY <2>1, <3>1, QuietSteps
  <2>3. CASE ~FireRefused
    <3>1. issued' /\ EndContext("canceled")
      BY <1>7, <2>3 DEF Fire, Issue
    <3> QED
      BY <2>1, <3>1, CancelSteps DEF EndContext
  <2> QED
    BY <2>2, <2>3
<1>8. CASE Settle
  <2>1. UNCHANGED <<AnswerSeen, out, issued, external>> /\ EndContext("canceled")
    BY <1>8 DEF Settle, readVars, AnswerSeen, ReadOver
  <2> QED
    BY <2>1, QuietSteps DEF EndContext
<1> QED
  BY <1>1, <1>2, <1>3, <1>4, <1>5, <1>6, <1>7, <1>8, ScanLineRefines, ClassifyRefines
     DEF Next, OwnStep, TargetStep

\* Every request is closed once, with a status that the target's answer, a
\* cancellation or the deadline justifies (RequestOutcome; client.go: Do).
THEOREM OutcomeIsImplemented == Spec => ImplementsOutcome
BY ClientInvariant, RefineInit, RefineStep, PTL DEF Spec, ImplementsOutcome, Abstract!Spec

=============================================================================
