------------------------------- MODULE Client -------------------------------
(***************************************************************************)
(* internal/client: one call of Client.Do.                                 *)
(*                                                                         *)
(* The goroutine of Do sends the request and reads the answer, while       *)
(*   - the timer goroutine of an elapsed-trigger cancel,                   *)
(*   - the context's deadline, and the operator's interrupt,               *)
(*   - net/http's write goroutine, which runs the WroteRequest hook,       *)
(*   - and the target                                                      *)
(* act at any moment.  They share the request context (its first end wins),*)
(* cancelController (under its mutex) and the send stamp.                  *)
(*                                                                         *)
(* net/http and the target are external: RoundTrip returns once the answer *)
(* begins, the connection fails or the context ends, without waiting for   *)
(* the write goroutine; the hook runs whether or not the write succeeded.  *)
(* A body line is one of the kinds readStream tells apart; bufio.Scanner   *)
(* keeps a read error until it has handed out the lines it holds.          *)
(***************************************************************************)
EXTENDS Naturals, Sequences

CONSTANTS Threshold,  \* tokens at which an output-tokens cancel is planned
          MaxLines    \* bound on the lines a target sends (guard of Delivers)

ASSUME ClientAssumption == Threshold \in Nat \ {0} /\ MaxLines \in Nat

VARIABLES
  plan,       \* the request: streaming or not, its cancel trigger
  pc,         \* the goroutine of Do
  ctx,        \* the request context: live, canceled or deadline
  external,   \* history: the parent context was canceled
  timer,      \* the elapsed-trigger timer and its goroutine
  issued,     \* cc.issued
  settled,    \* cc.settled
  tokens,     \* cc.tokens = len(contentTimes)
  tokensAtIssue, \* history: tokens when the cancel was issued
  write,      \* the transport's write of the request body
  stamped,    \* WroteRequest has run: sendTS is set
  sent,       \* Do's snapshot of stamped
  answer,     \* status line of the answer
  lines,      \* lines in the scanner's buffer
  delivered,  \* number of lines the target has sent
  seen,       \* flags set while reading: usage, done, bad, byTokens
  err,        \* what RoundTrip or the body read returned: the context's error,
              \* conn (it broke while the context was live) or torn (another
              \* error after the context had ended)
  out         \* the outcome

cancelVars == <<timer, issued, settled, tokensAtIssue>>
sendVars == <<write, stamped, sent>>
readVars == <<tokens, lines, delivered, seen>>
vars == <<plan, pc, ctx, external, cancelVars, sendVars, answer, readVars, err, out>>

Plans == {p \in [stream : BOOLEAN, trigger : {"none", "elapsed", "tokens"}] :
            p.trigger = "tokens" => p.stream}   \* enforced by runOnce
Kinds == {"content", "usage", "other", "error", "done"}
Codes == {"2xx", "429", "503", "504", "500"}
Envelopes == {"none", "rate_limited", "overloaded", "upstream_timeout"}
NoOutcome == [status |-> "none"]
NotCanceled == 99     \* no cancellation_point

Init ==
  /\ plan \in Plans
  /\ pc = "begin" /\ ctx = "live" /\ external = FALSE
  /\ timer = "off" /\ issued = FALSE /\ settled = FALSE
  /\ tokens = 0 /\ tokensAtIssue = 0
  /\ write = "none" /\ stamped = FALSE /\ sent = FALSE
  /\ answer = [code |-> "none", envelope |-> "none"]
  /\ lines = <<>> /\ delivered = 0 /\ seen = {}
  /\ err = "none" /\ out = NoOutcome

-----------------------------------------------------------------------------
(* The context and the cancel controller.                                  *)

EndContext(reason) == ctx' = IF ctx = "live" THEN reason ELSE ctx

\* issueLocked: at most once, stamps the moment, cancels the context.
Issue(n) ==
  /\ issued' = TRUE /\ tokensAtIssue' = n
  /\ EndContext("canceled")

Deadline ==
  /\ pc \notin {"begin", "returned"} /\ ctx = "live"
  /\ ctx' = "deadline"
  /\ UNCHANGED <<plan, pc, external, cancelVars, sendVars, answer, readVars, err, out>>

Interrupt ==
  /\ pc # "returned" /\ ~external
  /\ external' = TRUE
  /\ EndContext("canceled")
  /\ UNCHANGED <<plan, pc, cancelVars, sendVars, answer, readVars, err, out>>

\* time.AfterFunc starts a goroutine when the timer expires ...
TimerExpires ==
  /\ timer = "armed" /\ timer' = "running"
  /\ UNCHANGED <<plan, pc, ctx, external, issued, settled, tokensAtIssue, sendVars,
                 answer, readVars, err, out>>

\* Variant: fire looks only at issued.
FireRefusedOnce == issued
FireRefused == issued \/ settled

\* ... which runs cancelController.fire under the mutex.
Fire ==
  /\ timer = "running" /\ timer' = "fired"
  /\ IF FireRefused THEN UNCHANGED <<issued, tokensAtIssue, ctx>> ELSE Issue(tokens)
  /\ UNCHANGED <<plan, pc, external, settled, sendVars, answer, readVars, err, out>>

-----------------------------------------------------------------------------
(* net/http's write goroutine (external).                                  *)

StartWrite ==
  /\ pc = "roundTrip" /\ write = "none"
  /\ write' = "writing"
  /\ UNCHANGED <<plan, pc, ctx, external, cancelVars, stamped, sent, answer, readVars, err, out>>

\* The body write ends, well or not, and the WroteRequest hook stamps.
EndWrite ==
  /\ write = "writing"
  /\ write' \in {"written", "failed"}
  /\ stamped' = TRUE
  /\ UNCHANGED <<plan, pc, ctx, external, cancelVars, sent, answer, readVars, err, out>>

-----------------------------------------------------------------------------
(* Do: sending.                                                            *)

Begin ==
  /\ pc = "begin" /\ pc' = "roundTrip"
  /\ timer' = IF plan.trigger = "elapsed" THEN "armed" ELSE "off"
  /\ UNCHANGED <<plan, ctx, external, issued, settled, tokensAtIssue, sendVars, answer,
                 readVars, err, out>>

\* Variant: the blocked call does not watch the context.
FailuresUnaware == IF ctx = "live" THEN {"conn"} ELSE {}
\* How a call on the connection may fail.
Failures == IF ctx = "live" THEN {"conn"} ELSE {"torn", ctx}

\* HTTPClient.Do returns an answer (possibly before the write has ended) ...
Answered ==
  /\ pc = "roundTrip" /\ write \in {"writing", "written"}
  /\ \E c \in Codes : answer' = [code |-> c, envelope |-> "none"]
  /\ pc' = "snapshot"
  /\ UNCHANGED <<plan, ctx, external, cancelVars, sendVars, readVars, err, out>>

\* ... or the connection fails, or the context has ended.
RoundTripFails ==
  /\ pc = "roundTrip"
  /\ err' \in Failures
  /\ pc' = "snapshot"
  /\ UNCHANGED <<plan, ctx, external, cancelVars, sendVars, answer, readVars, out>>

\* The send stamp is copied once, right after HTTPClient.Do.
Snapshot ==
  /\ pc = "snapshot"
  /\ sent' = stamped
  /\ pc' = IF err # "none" THEN "failed"
           ELSE IF answer.code # "2xx" THEN "rejected" ELSE "read"
  /\ UNCHANGED <<plan, ctx, external, cancelVars, write, stamped, answer, readVars, err, out>>

-----------------------------------------------------------------------------
(* Do: reading the answer.                                                 *)

Reading == pc = "read"

\* observeTokens, for the next content line: is the planned count reached?
TokensReached ==
  plan.trigger = "tokens" /\ tokens + 1 >= Threshold /\ ~issued /\ ~settled

\* One line of the scanner's buffer (readStream's loop body).
ScanLine ==
  /\ Reading /\ plan.stream /\ lines # <<>>
  /\ lines' = Tail(lines)
  /\ CASE Head(lines) = "content" ->
            /\ tokens' = tokens + 1
            /\ IF TokensReached
               THEN Issue(tokens + 1) /\ seen' = seen \cup {"byTokens"} /\ pc' = "classify"
               ELSE UNCHANGED <<issued, tokensAtIssue, ctx, seen, pc>>
       [] Head(lines) \in {"done", "error"} ->
            /\ seen' = seen \cup {Head(lines)} /\ pc' = "classify"
            /\ UNCHANGED <<tokens, issued, tokensAtIssue, ctx>>
       [] Head(lines) = "usage" ->
            /\ seen' = seen \cup {"usage"}
            /\ UNCHANGED <<tokens, issued, tokensAtIssue, ctx, pc>>
       [] Head(lines) = "other" -> UNCHANGED <<tokens, issued, tokensAtIssue, ctx, seen, pc>>
  /\ UNCHANGED <<plan, external, timer, settled, sendVars, answer, delivered, err, out>>

\* The scanner asks the body for more, as long as no read has failed.
Refill == Reading /\ lines = <<>> /\ err = "none"

\* One read brings n lines.
Delivers(n) ==
  /\ delivered + n <= MaxLines
  /\ delivered' = delivered + n
  /\ lines' \in [1..n -> Kinds]

\* A read may still succeed after the context has ended.
ReadMore ==
  /\ Refill /\ plan.stream
  /\ \E n \in 1..2 : Delivers(n)
  /\ UNCHANGED <<plan, pc, ctx, external, cancelVars, sendVars, answer, tokens, seen, err, out>>

\* The body ends: for a non-streaming answer that is its completion.
ReadEnd ==
  /\ Refill
  /\ seen' = IF plan.stream THEN seen ELSE seen \cup {"done"}
  /\ pc' = "classify"
  /\ UNCHANGED <<plan, ctx, external, cancelVars, sendVars, answer, tokens, lines, delivered,
                 err, out>>

\* A body read (or the pacing sleep of a slow client) fails.  The scanner keeps
\* the error and still hands out what it holds: what came with the failed read,
\* and a last line without its newline.
ReadFails ==
  /\ Refill
  /\ err' \in Failures
  /\ IF plan.stream
     THEN (\E n \in 0..2 : Delivers(n)) /\ UNCHANGED pc
     ELSE pc' = "classify" /\ UNCHANGED <<lines, delivered>>
  /\ UNCHANGED <<plan, ctx, external, cancelVars, sendVars, answer, tokens, seen, out>>

\* The scanner has handed out everything and has a failed read: Scan is false.
ScanEnds ==
  /\ Reading /\ plan.stream /\ lines = <<>> /\ err # "none"
  /\ pc' = "classify"
  /\ UNCHANGED <<plan, ctx, external, cancelVars, sendVars, answer, readVars, err, out>>

\* The body of a rejection: an envelope of the taxonomy or none.  The error of
\* that read is dropped, so a failed one shows only as a missing envelope.
RejectionBody ==
  /\ pc = "rejected" /\ pc' = "refused"
  /\ \E e \in Envelopes : answer' = [answer EXCEPT !.envelope = e]
  /\ UNCHANGED <<plan, ctx, external, cancelVars, sendVars, readVars, err, out>>

-----------------------------------------------------------------------------
(* Do: classification.                                                     *)

Outcome(s, class, point) ==
  [status |-> s, class |-> class, point |-> point, sendCompleted |-> sent,
   usageMissing |-> s = "ok" /\ "usage" \notin seen]

\* Variant: every failed read counts as a cancellation.
AnyErrorCanceled == err # "none"

\* An error is judged by itself or by what the context says when asked.
SaysCanceled == "canceled" \in {err, ctx}
SaysDeadline == "deadline" \in {err, ctx}

\* Variant: the cancellation_point is forgotten.
CanceledWithoutPoint == Outcome("canceled", "canceled", NotCanceled)

\* cc.point: the tokens of the cancellation_point are cc.tokens.
CanceledOutcome == Outcome("canceled", "canceled", tokens)

TransportFailure ==
  /\ pc = "failed"
  /\ out' = IF SaysDeadline THEN Outcome("error", "upstream_timeout", NotCanceled)
            ELSE IF SaysCanceled THEN CanceledOutcome
            ELSE Outcome("error", "upstream_error", NotCanceled)

RejectionClass(code, envelope) ==
  IF envelope # "none" THEN envelope
  ELSE CASE code = "429" -> "rate_limited"
         [] code = "503" -> "overloaded"
         [] code = "504" -> "upstream_timeout"
         [] code = "500" -> "internal"

\* The envelope decides, without one the status code.
ClassifyHTTPError ==
  /\ pc = "refused"
  /\ LET class == RejectionClass(answer.code, answer.envelope)
     IN  out' = Outcome(IF class \in {"rate_limited", "overloaded"} THEN "shed" ELSE "error",
                        class, NotCanceled)

\* Variants: the context is asked instead of the scanner; the token cancel has
\* no case of its own; a stream without [DONE] is complete.
ReadFailedOrEnded == err # "none" \/ ctx # "live"
NoTokenCase == FALSE
DoneNotNeeded == "error" \in seen

TokenCancel == "byTokens" \in seen
ReadFailed == err # "none"
Incomplete == "error" \in seen \/ "done" \notin seen

\* An error event names a class of the taxonomy; anything else is upstream_error.
ReportedClasses ==
  IF "error" \in seen THEN {"upstream_error", "upstream_timeout"} ELSE {"upstream_error"}

\* The final switch of readStream.
ClassifyStream ==
  /\ pc = "classify" /\ plan.stream
  /\ CASE TokenCancel \/ (ReadFailed /\ SaysCanceled) -> out' = CanceledOutcome
       [] ~TokenCancel /\ ReadFailed /\ ~SaysCanceled ->
            out' = Outcome("error", IF SaysDeadline THEN "upstream_timeout"
                                    ELSE "upstream_error", NotCanceled)
       [] ~TokenCancel /\ ~ReadFailed /\ Incomplete ->
            \E c \in ReportedClasses : out' = Outcome("error", c, NotCanceled)
       [] OTHER -> out' = Outcome("ok", "none", NotCanceled)

\* readNonStream, with readFailure.
ClassifyBody ==
  /\ pc = "classify" /\ ~plan.stream
  /\ out' \in IF err = "none"
              THEN {[Outcome("ok", "none", NotCanceled) EXCEPT !.usageMissing = b] : b \in BOOLEAN}
              ELSE {IF SaysDeadline THEN Outcome("error", "upstream_timeout", NotCanceled)
                    ELSE IF SaysCanceled THEN CanceledOutcome
                    ELSE Outcome("error", "upstream_error", NotCanceled)}

Classify ==
  /\ TransportFailure \/ ClassifyHTTPError \/ ClassifyStream \/ ClassifyBody
  /\ pc' = "settle"
  /\ UNCHANGED <<plan, ctx, external, cancelVars, sendVars, answer, readVars, err>>

\* The deferred cc.settle and cancel: no cancel can be issued any more, a
\* timer that has not expired is stopped.
Settle ==
  /\ pc = "settle" /\ pc' = "returned"
  /\ settled' = TRUE
  /\ timer' = IF timer = "armed" THEN "stopped" ELSE timer
  /\ EndContext("canceled")
  /\ UNCHANGED <<plan, external, issued, tokensAtIssue, sendVars, answer, readVars, err, out>>

\* The steps of Do that need nobody else.
OwnStep == Begin \/ Snapshot \/ ScanLine \/ ScanEnds \/ Classify \/ Settle
\* A blocked call returns because the context has ended.
Unblock == ctx # "live" /\ (RoundTripFails \/ ReadFails \/ RejectionBody)
\* The target and the network, which owe nothing.
TargetStep == Answered \/ RoundTripFails \/ ReadMore \/ ReadEnd \/ ReadFails
              \/ RejectionBody \/ StartWrite \/ EndWrite

Next == OwnStep \/ TargetStep \/ Deadline \/ Interrupt \/ TimerExpires \/ Fire

Spec == Init /\ [][Next]_vars

\* The goroutine of Do runs, the context's timer fires, and a call blocked on
\* a context that has ended comes back.  Target and network owe nothing.
FairSpec == Spec /\ WF_vars(OwnStep) /\ WF_vars(Deadline) /\ WF_vars(Unblock)

-----------------------------------------------------------------------------
Returned == out # NoOutcome

\* An outcome carries a cancellation_point exactly when it is canceled, and no
\* error class exactly when it is ok (client.go: Outcome).
Outcomes ==
  [status : {"canceled"}, class : {"canceled"}, point : 0..MaxLines,
   sendCompleted : BOOLEAN, usageMissing : {FALSE}]
  \cup
  [status : {"ok"}, class : {"none"}, point : {NotCanceled},
   sendCompleted : BOOLEAN, usageMissing : BOOLEAN]
  \cup
  [status : {"error", "shed"},
   class : {"upstream_error", "upstream_timeout", "internal", "rate_limited", "overloaded"},
   point : {NotCanceled}, sendCompleted : BOOLEAN, usageMissing : {FALSE}]

TypeOK ==
  /\ plan \in Plans
  /\ pc \in {"begin", "roundTrip", "snapshot", "failed", "rejected", "refused", "read",
             "classify", "settle", "returned"}
  /\ ctx \in {"live", "canceled", "deadline"}
  /\ timer \in {"off", "armed", "running", "fired", "stopped"}
  /\ {external, issued, settled, stamped, sent} \subseteq BOOLEAN
  /\ {tokens, tokensAtIssue, delivered} \subseteq 0..MaxLines
  /\ write \in {"none", "writing", "written", "failed"}
  /\ answer \in [code : Codes \cup {"none"}, envelope : Envelopes]
  /\ lines \in Seq(Kinds) /\ seen \subseteq {"usage", "done", "error", "byTokens"}
  /\ err \in {"none", "conn", "torn", "canceled", "deadline"}
  /\ out \in Outcomes \cup {NoOutcome}

\* A planned cancel that loses the race against completion is "never
\* back-dated into a fake cancellation": once [DONE], or the end of a
\* non-streaming body, was read from a connection that did not fail, the
\* outcome is ok whatever fires meanwhile.  With a [DONE] that came with a
\* failed read the code looks at the error first: CancelAffectedRequest.
CompletionWins ==
  Returned /\ "done" \in seen /\ err = "none" => out.status = "ok"

\* An output-tokens cancel that is issued is always the recorded outcome, with
\* the planned number of tokens: no later line, error or deadline replaces it.
TokenCancelExact ==
  Returned /\ plan.trigger = "tokens" /\ issued =>
    out.status = "canceled" /\ out.point = Threshold

\* An upstream_timeout the target did not report means the client's own deadline
\* passed; a canceled request was canceled by the plan or from outside.
TargetReported == answer.code \notin {"none", "2xx"} \/ ("error" \in seen /\ err = "none")
TimersExplainOutcome ==
  Returned =>
    /\ out.class = "upstream_timeout" => ctx = "deadline" \/ TargetReported
    /\ out.status = "canceled" => issued \/ external

\* Once Do has settled, a timer goroutine that was already running neither
\* issues a cancel nor changes the recorded point.
NoCancelAfterSettle == [][settled => issued' = issued /\ tokensAtIssue' = tokensAtIssue]_vars

\* Do returns, also when the target never answers, stalls mid-stream or the
\* connection hangs in the body write.
DoReturns == <>(pc = "returned")

\* The request implements the abstract outcome.
ReadOver == pc \in {"classify", "settle", "returned"}
AnswerSeen ==
  IF "done" \in seen /\ err = "none" THEN "complete"
  ELSE IF answer.code \notin {"none", "2xx"} THEN "rejected"
  ELSE IF \/ err = "conn" \/ "error" \in seen
          \/ ReadOver /\ err = "none" /\ "byTokens" \notin seen
    THEN "broken"
  ELSE "none"
Abstract == INSTANCE RequestOutcome WITH
              answer <- AnswerSeen,
              canceled <- issued \/ external,
              expired <- ctx = "deadline",
              verdict <- IF Returned THEN out.status ELSE "open"
ImplementsOutcome == Abstract!Spec

\* client.go: settle makes sure that "a late timer fire cannot record a
\* cancellation that never affected the request", and a planned cancel that
\* "loses the race against stream completion is recorded as the completed
\* outcome": a request whose [DONE] was read over a connection that then broke
\* on its own is not recorded as canceled.
CancelAffectedRequest ==
  Returned /\ out.status = "canceled" /\ ~external => ~(err = "conn" /\ "done" \in seen)

=============================================================================
