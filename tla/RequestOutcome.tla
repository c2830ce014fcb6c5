--------------------------- MODULE RequestOutcome ---------------------------
(***************************************************************************)
(* What Client.Do promises about one request: it is closed exactly once,   *)
(* and the status it is closed with has a cause in what really happened -  *)
(* what the target answered, a cancellation, the deadline.  How the        *)
(* answer, the timers and the reader race is left to module Client.        *)
(***************************************************************************)

VARIABLES answer,    \* what the target did: it completed over a sound
                     \* connection, rejected, or broke (the connection too)
          canceled,  \* somebody asked for the request to be canceled
          expired,   \* the request timeout passed
          verdict    \* the status of the outcome

vars == <<answer, canceled, expired, verdict>>

Init == answer = "none" /\ canceled = FALSE /\ expired = FALSE /\ verdict = "open"

Answer(a) == /\ verdict = "open" /\ answer = "none" /\ answer' = a
             /\ UNCHANGED <<canceled, expired, verdict>>

Cancel == /\ canceled' = TRUE
          /\ UNCHANGED <<answer, expired, verdict>>

Expire == /\ expired' = TRUE
          /\ UNCHANGED <<answer, canceled, verdict>>

\* A cancel that loses against completion leaves the completed outcome; a
\* canceled request that also broke may be closed either way.
Justified(v) ==
  \/ v = "ok" /\ answer = "complete"
  \/ v = "shed" /\ answer = "rejected"
  \/ v = "error" /\ (answer \in {"rejected", "broken"} \/ expired)
  \/ v = "canceled" /\ canceled /\ answer \notin {"complete", "rejected"}

Close(v) == /\ verdict = "open" /\ Justified(v) /\ verdict' = v
            /\ UNCHANGED <<answer, canceled, expired>>

Next == \/ \E a \in {"complete", "rejected", "broken"} : Answer(a)
        \/ Cancel
        \/ Expire
        \/ \E v \in {"ok", "shed", "error", "canceled"} : Close(v)

Spec == Init /\ [][Next]_vars

=============================================================================
