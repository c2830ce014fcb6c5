------------------------------ MODULE Campaign ------------------------------
(***************************************************************************)
(* cmd/inferbench: runOnce (common.go) under the loops of runSweep and     *)
(* runCompare.  A campaign executes the repetitions of its points (rates   *)
(* of a sweep, arms of a comparison) one after the other, each in its own  *)
(* run directory, and writes one summary (sweep.json, comparison.json).    *)
(* Names depend only on the point and the repetition, so a campaign that   *)
(* is started again writes into the same directories under the same run    *)
(* ids.  The process may be killed between any two writes.                 *)
(***************************************************************************)
EXTENDS RunSet

CONSTANTS
  Points, Repetitions,  \* how many points, and --repetitions
  Planned,              \* requests in the plan of a repetition
  FactsRepetitions,     \* "repetitions" in the manifest facts file
  MaxCampaigns          \* bound: how often the campaign is started

CampaignAssumption ==
  /\ {Points, Repetitions, Planned, FactsRepetitions} \subseteq Nat \ {0}
  /\ MaxCampaigns \in Nat
ASSUME CampaignAssumption

VARIABLES
  command,    \* sweep or compare
  dirs,       \* <<point, repetition>> -> run directory
  summary,    \* the summary file
  campaign,   \* campaigns started
  step,       \* what the process is about to do, "idle" when there is none
  at,         \* the point and repetition it is at
  points,     \* the points in the summary being built
  current,    \* the point being built
  outcome,    \* of the last campaign
  ended       \* history: <<campaign, directory, how>> of ended repetitions

vars == <<command, dirs, summary, campaign, step, at, points, current, outcome, ended>>

Places == (1..Points) \X (1..Repetitions)

\* sweep.Point and comparisonArmResult: the planned repetitions, the executed
\* runs they name, and the totals over those.
Fresh(i) == [index |-> i, repetitions |-> Repetitions, runs |-> <<>>, sent |-> 0]

\* A sweep point names its last run (RunID), an arm all of them (RunDirs).
Naming(runs, place) == IF command = "sweep" THEN <<place>> ELSE Append(runs, place)
Counted(pt, place) ==
  [pt EXCEPT !.runs = Naming(@, place), !.sent = @ + Planned]

Init ==
  /\ command \in {"sweep", "compare"}
  /\ dirs = [d \in Places |-> [manifest_file |-> "absent", manifest |-> None,
                               events_file |-> "absent", lines |-> <<>>]]
  /\ summary = [state |-> "absent"]
  /\ campaign = 0
  /\ step = "idle"
  /\ at = <<1, 1>>
  /\ points = <<>> /\ current = Fresh(1)
  /\ outcome = "none"
  /\ ended = {}

Start ==
  /\ step = "idle" /\ campaign < MaxCampaigns
  /\ campaign' = campaign + 1
  /\ step' = "probe"
  /\ at' = <<1, 1>> /\ points' = <<>> /\ current' = Fresh(1)
  /\ outcome' = "running"
  /\ UNCHANGED <<command, dirs, summary, ended>>

\* What comes before the first repetition.  A sweep's probe that fails, or arms
\* that differ in more than the declared variable, leave no summary; a capacity
\* that gives no points leaves a summary without them.
Probe ==
  /\ step = "probe"
  /\ \/ step' = "prepare" /\ UNCHANGED outcome
     \/ step' = "idle" /\ outcome' = "error"
     \/ command = "sweep" /\ step' = "summary" /\ UNCHANGED outcome
  /\ UNCHANGED <<dirs, summary, command, campaign, at, points, current, ended>>

-----------------------------------------------------------------------------
(* runOnce, in the directory at hand.                                      *)

SummaryPointVariant(pt, place) == Counted(pt, place)

\* The point as it goes into the summary when a repetition of it fails.
SummaryPoint(pt, place) == pt

GiveUp(how) ==
  /\ points' = Append(points, SummaryPoint(current, at))
  /\ step' = "summary"
  /\ ended' = ended \cup {<<campaign, at, how>>}
  /\ UNCHANGED <<summary, command, campaign, at, current, outcome>>

\* The point's own workload file cannot be written.
NoWorkload ==
  /\ command = "sweep" /\ step = "prepare" /\ at[2] = 1
  /\ points' = Append(points, [Fresh(at[1]) EXCEPT !.repetitions = 0])
  /\ step' = "summary"
  /\ UNCHANGED <<dirs, summary, command, campaign, at, current, outcome, ended>>

\* Plan, facts, preflight; then manifest.Write empties the file.
Prepare ==
  /\ step = "prepare"
  /\ \/ GiveUp("refused") /\ UNCHANGED dirs
     \/ /\ dirs' = [dirs EXCEPT ![at].manifest_file = "torn"]
        /\ step' = "manifest"
        /\ UNCHANGED <<summary, command, campaign, at, points, current, outcome, ended>>

\* ... and fills it, or fails and leaves it torn.
WriteManifest ==
  /\ step = "manifest"
  /\ \/ GiveUp("refused") /\ UNCHANGED dirs
     \/ /\ dirs' = [dirs EXCEPT ![at].manifest_file = "valid",
                                ![at].manifest = [run_id |-> at, repetitions |-> FactsRepetitions,
                                                  campaign |-> campaign]]
        /\ step' = "reference"
        /\ UNCHANGED <<summary, command, campaign, at, points, current, outcome, ended>>

EmptiedVariant(lines) == lines
Emptied(lines) == <<>>

\* reference.json, then os.Create(events.jsonl), then run.log.
CreateEvents ==
  /\ step = "reference"
  /\ \/ GiveUp("refused") /\ UNCHANGED dirs
     \/ /\ dirs' = [dirs EXCEPT ![at].events_file = "valid", ![at].lines = Emptied(@)]
        /\ \/ GiveUp("refused")
           \/ /\ step' = "run"
              /\ UNCHANGED <<summary, command, campaign, at, points, current, outcome, ended>>

Line(k) ==
  [kind |-> "event",
   event |-> [run_id |-> at, repetition |-> at[2], campaign |-> campaign, number |-> k]]
Torn == [kind |-> "torn"]

\* Only the last line can be torn.
Whole(lines) ==
  IF lines # <<>> /\ lines[Len(lines)] = Torn THEN SubSeq(lines, 1, Len(lines) - 1) ELSE lines
Upto(k) == [i \in 1..k |-> Line(i)]

\* The recorder's buffer spills: a whole line, or the first part of one.
Spill ==
  /\ step = "run"
  /\ LET k == Len(Whole(dirs[at].lines))
     IN  /\ k < Planned
         /\ \E lines \in {Append(Whole(dirs[at].lines), Line(k + 1)),
                          Append(Whole(dirs[at].lines), Torn)} :
              dirs' = [dirs EXCEPT ![at].lines = lines]
  /\ UNCHANGED <<summary, command, campaign, step, at, points, current, outcome, ended>>

CompleteVariant(lines) == Len(lines) >= Planned
Complete(lines) == Len(Whole(lines)) >= Planned

\* The run ends valid: on to the next repetition, point, or the summary.
Succeed ==
  /\ step = "run" /\ Complete(dirs[at].lines)
  /\ LET pt == Counted(current, at)
         last == at[2] = Repetitions
     IN  /\ points' = IF last THEN Append(points, pt) ELSE points
         /\ current' = IF last THEN Fresh(at[1] + 1) ELSE pt
         /\ at' = IF ~last THEN <<at[1], at[2] + 1>>
                  ELSE IF at[1] < Points THEN <<at[1] + 1, 1>> ELSE at
         /\ step' = IF last /\ at[1] = Points THEN "summary" ELSE "prepare"
  /\ ended' = ended \cup {<<campaign, at, "completed">>}
  /\ UNCHANGED <<dirs, summary, command, campaign, outcome>>

\* An abort or an interrupt: what was recorded is flushed.  When the sink
\* itself failed the file keeps what had reached it.
Abort ==
  /\ step = "run"
  /\ \/ \E k \in Len(Whole(dirs[at].lines))..Planned :
          dirs' = [dirs EXCEPT ![at].lines = Upto(k)]
     \/ UNCHANGED dirs
  /\ GiveUp("aborted")

-----------------------------------------------------------------------------
\* os.WriteFile: the file is emptied, then filled; either may fail.
OpenSummary ==
  /\ step = "summary"
  /\ \/ /\ summary' = [state |-> "torn"]
        /\ step' = "record" /\ UNCHANGED outcome
     \/ step' = "idle" /\ outcome' = "error" /\ UNCHANGED summary
  /\ UNCHANGED <<dirs, command, campaign, at, points, current, ended>>

\* The campaign succeeds when its last repetition has and the summary is there.
WriteSummary ==
  /\ step = "record"
  /\ \/ /\ summary' = [state |-> "written", campaign |-> campaign, points |-> points]
        /\ outcome' = IF <<campaign, <<Points, Repetitions>>, "completed">> \in ended
                      THEN "ok" ELSE "error"
     \/ outcome' = "error" /\ UNCHANGED summary
  /\ step' = "idle"
  /\ UNCHANGED <<dirs, command, campaign, at, points, current, ended>>

Kill ==
  /\ step # "idle"
  /\ step' = "idle" /\ outcome' = "killed"
  /\ UNCHANGED <<dirs, summary, command, campaign, at, points, current, ended>>

Next ==
  \/ Start \/ Probe \/ NoWorkload \/ Prepare \/ WriteManifest \/ CreateEvents
  \/ Spill \/ Succeed \/ Abort \/ OpenSummary \/ WriteSummary \/ Kill

Spec == Init /\ [][Next]_vars

-----------------------------------------------------------------------------
Accepted(d) == LoadRun(d, dirs[d]).error = "none"
EventsIn(d) == LoadRun(d, dirs[d]).value.events

\* A campaign that reports success has left, in every directory, a run the
\* analysis loads, complete, under this campaign's manifest (sweep.go:191-240,
\* common.go:173-220) - provided the facts file declares as many repetitions
\* as the campaign makes, which nothing checks (events.py:148-152).
FinishedCampaignLoads ==
  outcome = "ok" /\ Repetitions <= FactsRepetitions =>
    \A d \in Places :
      /\ Accepted(d)
      /\ dirs[d].manifest.campaign = campaign
      /\ {EventsIn(d)[i].number : i \in DOMAIN EventsIn(d)} = 1..Planned
      /\ \A i \in DOMAIN EventsIn(d) : EventsIn(d)[i].campaign = campaign

\* The summary of the latest campaign says what was run: its points are the
\* first ones of the plan, all but the last complete; it names the runs that
\* completed - a comparison each of them, a sweep the last - and its totals are
\* the events found in their directories, however the campaign ended
\* (sweep.go:96-98, 222-232; compare.go:242-257).
SummaryMatchesDirectories ==
  summary.state = "written" /\ summary.campaign = campaign =>
    \A i \in DOMAIN summary.points :
      LET pt == summary.points[i]
          done == {d \in Places : d[1] = i /\ <<campaign, d, "completed">> \in ended}
          last == {d \in done : \A e \in done : e[2] <= d[2]}
      IN  /\ pt.index = i
          /\ {pt.runs[k] : k \in DOMAIN pt.runs} =
               IF command = "sweep" THEN last ELSE done
          /\ i < Len(summary.points) => Cardinality(done) = pt.repetitions
          /\ pt.sent = Cardinality(UNION {{<<d, k>> : k \in DOMAIN dirs[d].lines} : d \in done})

\* What the loader accepts comes from one execution: the manifest's own, or,
\* when a later campaign got as far as its manifest and not to its events, an
\* earlier one's under the later manifest.  Never from two executions, never
\* from a later one than the manifest's, and never mixed in a directory whose
\* last repetition completed (common.go:175-189; events.py:137-147).
AcceptedIsOneExecution ==
  \A d \in Places :
    Accepted(d) =>
      LET from == {EventsIn(d)[i].campaign : i \in DOMAIN EventsIn(d)}
          own == dirs[d].manifest.campaign
      IN  /\ Cardinality(from) = 1
          /\ \A c \in from : c <= own
          /\ from # {own} => <<own, d, "completed">> \notin ended

\* An aborted run is never analyzed.
AbortedNeverAccepted ==
  \A d \in Places :
    Accepted(d) => <<dirs[d].manifest.campaign, d, "aborted">> \notin ended

=============================================================================
