------------------------------ MODULE EventLog ------------------------------
(***************************************************************************)
(* What the raw-event recorder promises its callers, without its channel,  *)
(* its writer goroutine or its buffers: events go into a log in the order  *)
(* they were handed over, what reaches the sink is never reordered,        *)
(* duplicated or taken back, and a recorder that closes without an error   *)
(* has delivered every event.                                              *)
(***************************************************************************)
EXTENDS Sequences, Naturals

CONSTANT Events

VARIABLES submitted,  \* the events handed over, in order
          log,        \* what the sink holds
          verdict     \* what closing the log reported

vars == <<submitted, log, verdict>>

PrefixOf(s, t) == /\ Len(s) <= Len(t)
                  /\ \A n \in 1..Len(s) : s[n] = t[n]

Init == /\ submitted = <<>>
        /\ log = <<>>
        /\ verdict = "open"

Submit(e) ==
  /\ verdict = "open"
  /\ \A n \in 1..Len(submitted) : submitted[n] # e
  /\ submitted' = Append(submitted, e)
  /\ UNCHANGED <<log, verdict>>

Persist ==
  /\ verdict = "open"
  /\ log' \in {SubSeq(submitted, 1, n) : n \in Len(log)..Len(submitted)}
  /\ UNCHANGED <<submitted, verdict>>

SealOk ==
  /\ verdict = "open"
  /\ log = submitted
  /\ verdict' = "ok"
  /\ UNCHANGED <<submitted, log>>

SealFailed ==
  /\ verdict = "open"
  /\ verdict' = "failed"
  /\ UNCHANGED <<submitted, log>>

Next == \/ \E e \in Events : Submit(e)
        \/ Persist
        \/ SealOk
        \/ SealFailed

Spec == Init /\ [][Next]_vars

=============================================================================
