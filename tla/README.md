# inferbench: a TLA+ verification of the load generator

inferbench measures LLM serving endpoints. A Go program sends a precomputed,
open-loop schedule of requests and records one raw event per request; a Python
package turns recorded runs into published figures. The two halves meet only
in files. The program's worth rests on claims that no single test can reach:
the schedule never waits for a response, a run that fell behind is invalid
however late that is noticed, every request leaves exactly one event, a
cancellation that came too late is not recorded as one, what is loaded for an
analysis is one execution, and what is published is what the raw events say.
This directory states those claims about the code under `src/`, model-checks
them with TLC on small instances, and proves nearly all of them with TLAPS, for
every value of the constants (section 4 lists what stays with TLC).

## 1. The system

| part | source | state | operations |
|---|---|---|---|
| schedule | `internal/schedule` | the plan being built | `Build`: arrivals, phase walk, limit, prefix groups |
| raw-event recorder | `internal/events/recorder.go` | bounded channel, writer goroutine, `bufio.Writer`, first error | `Record`, the loop, `Close` |
| run executor | `internal/run/run.go` | position in the plan, `abort`, `wireAbort` (one place), WaitGroup, counters | the scheduler loop, one goroutine per request, drain, close, return |
| request client | `internal/client/{client,sse}.go` | request context, `cancelController`, send stamp, scanner | `Do`: send, read, classify, settle |
| run directory | `cmd/inferbench/{common,run,replay}.go` | manifest, reference, events file, log | `runOnce` |
| rate sweep | `cmd/inferbench/sweep.go`, `internal/sweep` | run directories, `sweep.json` | probe, rate points, one `runOnce` per repetition, summary |
| comparison | `cmd/inferbench/{compare,experiment}.go`, `internal/experiment` | run directories, `comparison.json` | checks, arms in sequence, summary |
| loader, pooling, warm-up | `analysis/.../{events,warmup}.py` | none | `load_run`, `check_poolable`, `apply_warmup` |
| statistics, result | `analysis/.../{percentiles,goodput,cost,result}.py` | none | pools, gate, tables, goodput, cost, threats, result document |
| knee | `analysis/.../knee.py` | none | `detect_knee` |
| report | `analysis/.../report.py` | none | two builders, one check, one renderer |
| analysis commands | `analysis/.../cli.py` | the result file, exit status | `analyze`, `report --run`, `report --result` |

How they interact. A command builds a plan (`schedule.Build`), opens the run
directory (`runOnce`) and calls `run.Execute`. Execute owns one scheduler
goroutine. For every item of the plan it starts a goroutine that calls
`Client.Do`, hands the outcome to `Recorder.Record`, may post a watchdog trip
on `wireAbort` and updates the counters under a mutex. The scheduler reads
`wireAbort`, waits for all of them (`wg.Wait`), closes the recorder and
returns. Inside `Do` the request context is shared by the deadline, the
operator's interrupt, the elapsed-cancel timer's goroutine and net/http. A
sweep or comparison calls `runOnce` once per repetition and writes a summary.
The analysis reads the run directories; `analyze` writes a result file that a
later `report --result` reads together with the manifests it links to.

What is hard, and what makes each part correct:

* schedule - phase boundaries in floating point, where a walk may stand still;
  silent phases, the limit, a group size nothing but a schema keeps from zero. Correct: offsets never go back, requests are
  sent only when the workload declares traffic, a plan ends for a declared
  reason, groups fill one after the other.
* recorder - backpressure against a slow or dead sink; a sticky write error;
  buffered lines at close. Correct: order kept, nothing lost while the sink
  works, no success reported over an incomplete file, no producer or closer
  blocked for ever.
* executor - a trip posted after the loop's last look; several trips at once;
  a producer still inside `Record` when the recorder closes; four ways out of
  the loop. Correct: a nil error means complete and on schedule, every request
  sent has one event, the loop waits for nothing a response can influence.
* client - cancel timer against completion, deadline, interrupt and settle;
  answers that overtake the request's own write; lines buffered when the
  context ends or the connection breaks. Correct: one outcome with a cause,
  completion over a sound connection wins, `Do` always returns.
* run directory, sweep, comparison - a stop between two file writes, a reused
  directory, an aborted run that looks like a short one, one step of many
  failing. Correct: what the loader accepts is one execution, a campaign that
  reports success left complete runs of its own, the summary says what was run.
* analysis - a file in completion order that is cut in send order; refusals
  that leave a result file of an earlier command in place; a command killed
  while it writes; a directory reused between two commands; empty and tiny
  pools, zero-length windows, knees inside the plateau. Correct: file and exit
  status agree, withheld latency is never published, figures are those of the
  raw samples, two ways to a report agree.

`PROJECT.json` lists each hazard at its line with the properties that watch it.

## 2. Modules

```
Schedule ---- MCSchedule, ScheduleProofs
    |  . its InOrder is what Run assumes of Offset
    +-- MCAlgorithms (with Knee)
EventLog <--implements-- Recorder <--INSTANCE-- Run ---- MCRun, RunProofs
                            +-- MCRecorder, RecorderProofs
RequestOutcome <--implements-- Client ---- MCClient, ClientProofs
RunSet <-- Campaign ---- MCCampaign, CampaignProofs
   ^
   +-- Statistics <-- Result <-- Report <-- AnalysisCommand -- MCAnalysis, AnalysisProofs
Knee ---- MCAlgorithms, KneeProofs
Counting: lemmas used by ScheduleProofs, AnalysisProofs and KneeProofs
```

**Schedule** is `schedule.Build`. `t` is the time reached, in units finer than
the offsets, so that truncation to an offset is visible. Times are the float64
of the code: `Round` is the number next to a sum, difference or product, `Quot`
the whole part of a rounded quotient, and both are parameters. `Turn` is the
loop of `phaseAt`, which takes the durations off one after the other to see
where a time lies and adds them up to see where that phase ends; the two are
rounded differently, and `PhaseIndex` includes the code's way out when a time
lies past every phase. `Steady` is one draw of a constant rate; `Walk` one turn
of the walk over the phases: a draw that falls inside a sending phase arrives,
any other moves the time to the phase's end, which need not be later;
`Exhausted` is the end of phases that do not repeat. `Arrive` tests the horizon
before the append and the limit after it, as the code does; `Stop` refuses an
empty plan; `Assign` gives one item its prefix group, dividing by `group_size`
as Go does. Every draw is any number up to a bound. The random streams of
lengths, cancel points and slow clients, and `Fingerprint`, are left out.

**EventLog** is what a recorder promises: a log that takes events in order and
shows a growing prefix of them, sealed as `ok` only when it is complete.

**Recorder** is `recorder.go`. `ch` is `r.ch`, `writer` the goroutine of
`loop`, `buf` and `broken` the contents and the sticky error of its
`bufio.Writer`, `sink` the file, `firstErr` is `r.err # nil`, `verdict` what
`Close` returned. `Record` is disabled while the channel is full, as the send
blocks. `Encode` is one turn of the range loop: receive and encode, where the
line may stay in the buffer, push it out, or meet a failing file;
`EncodeDropped` is the same turn once the writer is broken; `Flush` is the end
of the loop with its deferred `close(r.done)`; `CloseChannel` and
`CloseReturn` are the two halves of `Close`. `bufio` is library code and is
marked external. Encoding errors other than write errors cannot occur for an
`Event` and are left out.

**Run** is `Execute`. `pc` is the scheduler goroutine: `top` (head of the
loop), `select` (waiting for the target), `poll` (the non-blocking look at
`wireAbort`), `fire` (slip, watchdog, `go`), `drain` (`wg.Wait`), `final`
(last look), `close`/`closing` (recorder), `returned`. `g[i]` is the goroutine
of item i: `spawned`, `sent` (its body write was seen to finish), `record`
(inside `Record`), `watch`, `count`, `done`. Every one of these is a separate
step, so all interleavings at the granularity of channel operations, mutex
sections and the return of `Do` are explored. The recorder's variables are
module Recorder's, composed by INSTANCE, with its actions taken whole. Items
are numbered from 1; offsets may be any nondecreasing sequence. `Do` is seen
from outside: it may or may not report a completed send, and returns any
outcome, `canceled` only if the plan or the operator cancels. `tripAt` is a
history variable. The maximum slips and `usage_missing` of the Result, which
are plain running maxima and counts, are left out.

**RequestOutcome** is what `Do` promises of one request: closed once, with a
status that has a cause.

**Client** is one call of `Do`. The context (`ctx`), the timer and its
goroutine (`timer`), the fields of `cancelController`, the transport's write
goroutine (`write`), the send stamp and Do's copy of it (`stamped`, `sent`)
and the scanner's buffer (`lines`) are separate state, because the races are
between them. A body line is `content`, `usage`, `other`, an `error` event (or
a malformed chunk) or `done`; one read may bring two lines. A blocked call
fails with the context's error, with another error after the context ended
(`torn`: net/http may surface its own), or with a connection error (`conn`).
A failed read may bring lines too, and `bufio.Scanner` hands out what it holds
before it reports the error (`ReadFails`, then `ScanLine` to `ScanEnds`): a
`[DONE]`, an error event, a token cancel and a failed read can meet in the
final switch of `readStream`, whose order `ClassifyStream` keeps. The body of a
rejection is read to its end before it is classified (`RejectionBody`), which
only the target or the end of the context brings about. Classification is
atomic, except that the context may end, and the timer fire, between the
failure and it. Latencies, byte counts, the token counts of a
usage payload, hashes and HTTP redirects are left out.

**RunSet** is what the analysis reads: a run directory with a manifest file and
an events file, each absent, torn, invalid or valid, by line; `LoadRun`,
`Poolable` and `ApplyWarmup` are `load_run`, `check_poolable` and
`apply_warmup`. An event is named by its run and line, so that equal samples
stay apart in a pool, and the stable sort of the warm-up is the relation
`SentBefore`.

**Campaign** is `runOnce` under the loops of `runSweep` and `runCompare`, whose
points are rates or arms; `run` and `replay` are campaigns of one repetition.
`command` says which: a point of a sweep names its last run, as `sweep.Point`
does, an arm of a comparison the directories of all its runs (`Naming`); both
count the planned repetitions and the totals of the executed ones.
`step` is the write the process is about to make: `prepare` (plan, facts,
preflight; `manifest.Write` empties the file), `manifest` (fills it),
`reference` (`reference.json`, then `os.Create(events.jsonl)`), `run` (the
recorder's buffer spills whole lines or the first part of one), `summary` and
`record` (`os.WriteFile` of the summary). Each may fail, and the process may be
killed before each. Directory and run-id names depend on point and repetition
only, so a campaign that is started again meets the files of the first.
`ended` and the `campaign` field of manifests and events are history.

**Statistics**, **Result** and **Report** are the pure part of the analysis, in
exact arithmetic: a quantile in thousandths, a rate as a pair. `Analyze`
returns a result or the first exception in the code's order; `ToDocument` is
what the result contract can hold; `FromAnalysis` and `FromDocument` are the
two builders of a report, `Render` its check and what each section says. The
bootstrap draws by index from a pool, with a fixed seed: its intervals are a
function of the measured events in the order of the pool, run after run, and
`Intervals` is that sequence in their place.

**AnalysisCommand** is a session of commands over the directories and the
result file: `Start` (argument checks), `Load` (one directory), `Analyse`,
`Serialize` (the document is made and validated against the schema, which may
refuse it; then `open(path, "w")` fails or empties the file), `Write` (dump and
close, either of which may fail and leave the file torn), `Announce` (the line
on standard output, which may fail too), `Open`, `ReadEntry` (one manifest and
workload file), `RenderReport`, `Kill` at any step, and `Reuse` of a directory
by a later run. `exit` is the exit status; `before`, and the `runs` and `config`
kept with a document, are history.

**Knee** is `detect_knee`: the sort, the plateau, the walk down from the top,
the cross-check and the confidence, with comparisons scaled to integers.

## 3. Model-checking runs

| run | what is checked | instance | states |
|---|---|---|---|
| `algorithms` | the plan is what the workload declares: order, times, length, groups, errors and panic explained; the knee is the first sustained departure; it leaves the lower plateau | 451 workloads: eight lists of phases, repeated or not, six stops, five kinds of prefix sharing, times of four binary digits; six-point curves over three values in five orders, plateau sizes default, 3 and 6, factor 3/2 | 135 k |
| `recorder` | types; nothing lost, prefix, honest close; implements EventLog; full channel drains; Close terminates | 5 events, 2 channel places, 2 buffer lines, any write may fail | 15 k |
| `run` | types; nil means complete; nil means on schedule; one line per request; no sender at close; abort has evidence; counters; steps of Recorder only | 2 items two ticks apart, slip 1, all outcomes, item 2 planned to cancel, 1-place channel, clock to 4 | 1.6 M |
| `run_live` | a trip stops dispatch; the scheduler loop ends with only clock and scheduler fair; Execute returns once all goroutines are | 3 items, two due at once, slip 0, clock to 2, so that both may overrun | 601 k |
| `client` | types; completion wins; token cancel exact; timers explain outcomes; no cancel after settle; implements RequestOutcome; Do returns | all plans, token threshold 2, up to 4 body lines, any read may fail | 374 k |
| `campaign` | a campaign that succeeds left its own complete runs; the summary matches the directories; what is accepted is one execution | a sweep and a comparison of 2 points, 2 repetitions, 3 requests, started twice, killed or failing at any write | 55 k |
| `analysis` | types; withheld latency never published; file and exit status agree; tables over raw samples; goodput over every request; nulls explained; warm-up cuts a prefix; order of runs changes no exact figure; two ways to a report agree | 2 directories with 28 contents, sessions of two commands, one reuse, a kill at any step, a failing open, write or close | 24 k |

Five more runs end in a counterexample by design; section 5 lists them.

Bounds. `Capacity`, `BufLines`: one or two places so that full, empty and
overflowing all happen within a few events; 4096 places and 4 KiB would only
add more of the same. Two items suffice for a request that trips while another
is dispatched. With three, offsets 0, 1, 1, slip 0 and a clock to 2 in
`run_live`, any two items may overrun, so that two trips meet on the one place
of `wireAbort` while the scheduler is committed to the third item: a send that
blocked there would violate `Terminates`. In `run`, `Horizon`, the clock's last
tick, leaves room for slips both below and above the threshold for the last
item. `MaxLines`: four body lines hold two
content tokens, usage and `[DONE]` in any order, and lines after them.
`MaxGap`, `MaxTime`: draws up to a phase and a half,
cycles of phases in exact and in rounded times - four binary digits for the 53
of a float64, so that a few phases suffice for an end that rounding moves - and
wanted counts of 1 to 4 that stay under, meet and exceed the limit
`MaxPlanned` = 2; three units of time per offset. `MaxCampaigns`: two starts are one
campaign over the remains of another; three requests allow a file to be empty,
short, torn and complete. `MaxCommands`, `MaxReuses`: a result file must be
written by one command and read, replaced or left alone by the next, with one
directory changed at any moment; event lists hold every status, ties, several
repetitions, summary-only gaps and an instant run. Six points are the fewest
`detect_knee` accepts; over a plateau of 2 the values 2, 3 and 4 are below, at
and above the threshold of one and a half times the plateau. The proofs in
section 4 do not depend on these bounds.

Deadlock checking is off because every modelled component stops: Execute, `Do`
and `Build` return, `Close` is called once, campaigns and sessions are bounded.

Fairness. `RecFairSpec`: the writer goroutine and the goroutine inside `Close`
are scheduled; no producer owes anything. `SchedulerAloneSpec` of Run is
deliberately weak: only the clock and the scheduler loop move, which is what
makes `OpenLoop` a statement about coordinated omission. `Terminates` adds
`GoroutinesRun`: the scheduler outside its loop, the writer and each request
goroutine run when they can; that a request goroutine gets past `Do` is
`DoReturns` of module Client.
`FairSpec` of Client: the goroutine of `Do` runs, the context's deadline
fires, and a call blocked on an ended context comes back (net/http's contract;
`sleepCtx` for a slow client), reading the body of a rejection included.
Target, network, timer and operator owe nothing.
Campaign, AnalysisCommand and Schedule state no fairness: a process may be
killed or stop at any step, and their properties are about what is left then.

Every property of a passing run has a variant of one definition (the
`Variant` operators next to the definitions they replace) under which TLC
finds it violated.

## 4. Proofs

The invariants and the action properties of the passing runs, and both
refinements, are theorems: they hold for every value of the constants, not only
in the instances of section 3. The exception is `PlanAsDeclared`, of which
ScheduleProofs proves parts (below). Seven modules hold the theorems, one per
component, and Counting the lemmas they share; every leaf is checked by TLAPS. A property of a
run is seldom inductive by itself: an invariant adds what it leans on, one lemma
per action shows that it is kept, and the theorems follow from it.

**Counting** has no part of the system in it. A figure of this program is a
count, a sum or a k-th smallest element over a finite set, and the community
operators for sums are folds, which the provers do not unfold. The module
proves what is needed once: a sum over a finite set loses one summand with one
element (`SumRemove`, from the existence and uniqueness of a solution of the
fold's equation), sums over classes add up, a set of integers has its k-th
smallest elements (`KthExists`) and ranks number a set (`RankBijection`), and
counts, sums and k-th smallest elements are the same over two sets that a
bijection matches (`Matched...`). Induction over a finite set is the choice of a
smallest counterexample.

**RecorderProofs**, from `RecorderAssumption` alone (the channel and the buffer
have at least one place; any set of events). `RecInv` adds: a
broken writer has set the error; a writer that is done found the channel closed
and left channel and buffer empty unless it was broken; Close has no answer
before the writer is done; an `ok` answer means it never broke. Two lemmas on
sequences carry the weight:
moving the head of the queue to the end of the buffer leaves the concatenation
alone (`HeadMoves`), and a failed write that lets part of the buffer through
leaves a prefix (`PartOfBuffer`). From it: `RecorderTypes`,
`RecorderLosesNothing`, `RecorderPrefix`, `RecorderCloseHonest`.
`RecorderRefinesLog` is the refinement of EventLog, with `RecInv` in both states
of the step.

**RunProofs**, from `RunAssumption` alone: any number of items, any
nondecreasing offsets, any threshold, capacity and horizon, any set of outcomes.
`RunInv` is `TypeOK`, the recorder's `RecInv`, and four parts:

* `SchedInv` - the items before `cur`, and only they, were dispatched, each
  within the threshold; outside the loop without an abort the plan is
  exhausted; from the last look on, every goroutine is settled.
* `TripInv` - a judged overrun is in `wireAbort` or has become the abort. This
  is what makes a nil error trustworthy: a trip that landed after the loop is
  found by the last look, and a second trip that found the channel full is
  covered by the first. After the first trip the scheduler is at most one
  item further.
* `LineInv` - the recorder has accepted exactly the requests past `Record`,
  each once.
* `EvidenceInv` - what `wireAbort` and the abort hold was measured.

The recorder's part is not
proved again: an item in `g[i] = "record"` is not yet among the accepted events
(`LineInv`), so each step of the run is a step of Recorder or leaves it alone
(`RecorderSteps`), and the recorder's own lemma applies through INSTANCE. The
same fact gives `RunUsesRecorder`. `sink = accepted` at a clean Close, with
`LineInv`, gives `RunRecordsEachRequestOnce` and `RunCompleteWhenValid`.
`RunCountersMatch` needs a second invariant, `CountInv`, on top of `RunInv`:
each counter is the cardinality of the finished requests of its status.

**ClientProofs**, from `ClientAssumption`: any cancel threshold, any number of
lines. `ClientInv` is `TypeOK` and: `LinesInv` (tokens and buffered lines were
delivered), `ControlInv` (the context has ended once a cancel was issued or the
operator interrupted; settled exactly when returned), `ErrorInv` (what a failed
call returned has its cause and rules out an answer), `EndInv` (a stream's
lines end for one reason, which a failed read may join), `TokenInv` (a token
cancel is issued by the line that reaches the threshold and ends the reading
there) and `OutInv` (what the outcome says). The step that carries the weight is
`Classify`. `EndInv` keeps completion, an error event and an issued token cancel
apart, but each of them can meet a failed read, and there the order of the
code's switch decides: a token cancel is asked for first, so it stands; `[DONE]`
is asked for after the read error, so it is lost. `CompletionIsKept` therefore
is about a connection that did not fail, and `client_late_fire` (section 5) shows
what becomes of the other case.
Theorems: `TypeCorrect`, `CompletionIsKept`,
`TokenCancelsAreExact`, `ClocksExplainOutcome`, `SettledIsFinal`, and
`OutcomeIsImplemented`, the refinement of RequestOutcome.

**ScheduleProofs**, from `ScheduleAssumption`, for every workload that is one
(`IsWorkload`), resolution, limit and draw. `PlanInv` is `TypeInv` and
`LengthInv` (how many items there are, and why no more). `FillInv` is what
prefix groups lean on: the shared items are so many full groups and a rest in
the next one, which division and remainder give back as Go computes them.
`EndInv` ties each error and the panic to its cause. From them
`PlansEndForAReason` and `BuildsForAReason`, which adds the groups and the
failures; neither assumes anything of what rounding does to the times, and
neither claims that Build ends. `PlansAreInOrder` (the premise of
`RunAssumption`) assumes that rounding keeps the order of numbers (`Rounds`) and
covers a constant rate and phases walked through once: `OrderInv` says that the
time reached is a rounded number and not past the end of its phase, which holds
after a step because the ends, and what is left of a time, keep their order from
one turn of `phaseAt` to the next (`TurnsInOrder`, `EndsInOrder`). Phases that
repeat start from a rounded product of a quotient, where order alone does not
settle it; those, and that items are due at declared times (`AtDeclaredTimes`),
are model-checked only.

**CampaignProofs**, from `CampaignAssumption`: any number of points,
repetitions, requests and starts. `CampaignInv` is `TypeInv`, `DirInv` (a
directory holds the first events of one execution, of a campaign no later than
its manifest's, and of the manifest's own if that one completed here),
`StepInv` (what the step at hand has left) and `DoneInv` (repetitions complete
in order and stay complete). `DirInv` is where the order of the writes matters:
between the new manifest and the emptied events file the old events lie under
it, and that is the only way the two differ. Theorems:
`AcceptedRunsAreOneExecution`, `FinishedCampaignsLoad`. For the summary,
`PointsInv` says what the points being built tell: the points before the one at
hand are complete, the one at hand counts the repetitions before the one at
hand, and no other has completed, until the summary is written and the campaign
is over. A point names one run or all of them (`Naming`) and counts `Planned`
events for each repetition; `CampaignInv` has that many lines in each of those
directories, which gives `SummariesMatchDirectories`. What it does not give is
that a directory's events are its manifest's: `AcceptedIsOneExecution` permits a
later manifest over the events of one earlier execution, which a stop between
the two files leaves, and excludes everything else.

**AnalysisProofs**, for any directories, commands and reuses, from three
assumptions on what a session is given:

* `CommandAssumption`: command lines are well formed, with finitely many rates
  in a cost profile and threats that are text;
* `DirectoryAssumption`: an events file has finitely many lines; times are
  naturals, token counts too; no request is both shed and successful; a stream
  of tokens is a series or a summary (docs/interfaces.md:59, event.go:65-70,
  sse.go:115-129); a manifest discards no negative count (manifest.go:170-175);
* `NoneAssumption`: Python's None is none of the values it stands in for.

`ControlInv`: a command with a step left has not touched the file, except
`analyze` from the open on, and that has an analysis the contract can express;
so a typed refusal leaves the file alone, and a failing write, a failing close
or a kill leaves it torn or with its own document. Gives `TypeCorrect` and
`FileAndStatusAgree`. `LineageInv`: a document is the analysis, under its
configuration, of runs that `load_run` returned from some directory contents.
With it a statement about a published document becomes one about `Analyze`:

* `WithheldIsNeverPublished`, `GoodputIsOverEveryRequest` and
  `WhatIsMissingIsExplained` follow from the branches of the analysis, which
  `AnalysisParts` and `DocumentParts` take apart.
* `WarmupCutsAPrefix`, `WarmupCutsTheEarliest`: the events of a repetition are
  numbered by how many were due before them, so "fewer than k before it" is
  both what the policy cuts and a set of exactly k.
* `TablesAreOverRawSamples`: a signal's pool is in bijection with its samples in
  the raw events; a quantile lies between two neighbouring order statistics, so
  it has the samples it should have on each side, and a higher one lies no lower.
* `OrderDoesNotMatter`: naming the directories in the opposite order renames
  every event (`Turn`). Each part of the analysis - what is cut, counts, sums,
  quantiles, the spread of the repetitions, window - is shown to be the same
  under the renaming, and so are its refusals. The confidence intervals are not
  among them: they depend on the order of the pool.

`ReportsInv` is for the report that is made from a file: it stands on a file
that holds the document of an analysis, though another command may have written
over that file since, and shows what `Render` makes of that document with
threats of its own command line. From it `ReportsAreTheSame`: section by section
the two builders say the same. The one reason a document loses, why a cost is
null, is found again as the first matching threat (`ReasonIsTheCodes`).

**KneeProofs**, from `KneeAssumption`: any sweeps, plateau sizes and positive
factor. `KneeInv` says that a verdict is that of `DetectKnee` on the sweep. The
sort by rank is a rising permutation when rates are distinct (`Sorted`), the
doubled median is the sum of two k-th smallest values (`RankedIsKth`), and the
index the walk from the top comes to is the least one from which all points
depart (`KneeIndexIsLeast`). `KneeIsTheFirstSustained` states it of the sweep as
listed. `KneeLeavesTheLowerPlateau`: half of the plateau's values are at most
its median, so with a factor of at least one those points never depart, and all
of them are below a knee.

Model-checked only are the five liveness properties `FullChannelDrains`,
`CloseTerminates`, `OpenLoop`, `Terminates` and `DoReturns`, for which the
prover has no support, and of `PlanAsDeclared` the times of the items and the
order of plans whose phases repeat.

Two properties say less than their names may suggest. `AbortHasEvidence` says
that an abort was measured, not that a trip cannot block its goroutine; that is
`Terminates` in `run_live`. `TokenCancelExact` is about cancels planned by
output tokens; the count an elapsed cancel records may have moved since it was
issued (section 5), and no property covers it.

## 5. Where the code and its documentation disagree

Each of these runs checks what the text says, and TLC shows how the code gets
to something else:

| run | the text | the code |
|---|---|---|
| `run_interrupt` | run.go:94 Execute returns "a run-invalidating typed error (... ctx errors) or the Result" | ctx is looked at only while the loop waits; a later interrupt cancels requests and Execute returns nil |
| `schedule_stall` | schedule.go:195 a schedule that "would cycle forever" is refused up front; schedule_test.go:364 fails on a Build that hangs | where a time lies and where that phase ends are rounded differently, so a walk may reach a time that is the end of its own phase and set it to itself for ever: phases of 0.7, 0.1 and 1 s, the first two silent, or repeated phases of 0.1 and 0.2 s |
| `client_late_fire` | client.go:291 "a late timer fire cannot record a cancellation that never affected the request"; client.go:45 "A planned cancel that loses the race against stream completion is recorded as the completed outcome" | `settle` is deferred past the classification, which asks the read error and the context before `[DONE]`: a stream that was complete when its connection broke is recorded as canceled |
| `analysis_stale_manifest` | report.py:751 "The complete manifest of every pooled run" | `report --result` embeds what is at the link now; a directory reused since `analyze` puts another run's manifest over the figures |
| `campaign_aborted` | docs/observability.md:73-74 "An aborted run is invalid, is never analyzed into a report" | nothing in the directory of an aborted run says so; the loader takes its shorter file |

Smaller ones, seen while modelling; the models follow the code in all of them,
and no run is about them:

* run.go:13 has the wire stage "checked when each request completes its send";
  it is checked after `Do` has returned, at the end of the response.
* client.go:302 "the output tokens observed at issuance": an elapsed cancel
  records the tokens counted when the outcome is classified.
* run.go:237 takes an item without a completed send for "a connect failure or
  a pre-send cancel"; an answer may also overtake the WroteRequest hook, and
  the hook's error is ignored (client.go:130).
* cli.py:30-36 gives exit status 3 to a valid run set that the contract cannot
  express; a run named twice gets it too (result.py:272-277, cli.py:358-360).
* A wanted count of exactly one more than the limit on planned requests is
  planned, as the limit is tested only when the count is not reached
  (schedule.go:232-237).
* workload.go:136 "re-checks the structural schema rules the generator relies
  on": a `group_size` of zero passes `Validate` and panics in `Build` unless
  the schema is checked before; a negative one makes groups below one.
* errors.py:3-5 promises typed errors; a zero-length window, a torn JSON file
  and a missing result file end in tracebacks.
* report.py:352 says the generator writes `workload.json` beside a run; no Go
  code does.
* Nothing checks `--repetitions` against the facts file: a repetition beyond
  the latter is recorded and then refused by the loader, which is why
  `FinishedCampaignLoads` has it as a premise.

## 6. Not modelled

* Workload validation and sampling from distributions, the raw-event record's
  encoding, the replay comparison, the run manifest's validation, the
  structural diff, flag parsing and exit codes of the Go command: no state of
  their own. Where they refuse, the refusal is one of those of Campaign's
  `Prepare` or Schedule's `Begin`.
* The governance checks before a comparison (single-variable rule, hypotheses,
  GPU session gate) and the arithmetic of a sweep's capacity and rates: they
  only decide whether a campaign has points, which is Campaign's `Probe`.
* Floating-point rounding outside Schedule, and the random draws of the
  bootstrap: figures are exact, and of an interval there is what it is drawn
  from. As that depends on the order of the `--run` options, so do the published
  intervals.
* Report wording and layout, `--ref-prefix` and `--root`; a torn report file,
  which nothing reads back; result files edited by hand.
* A knee in a result: the command line never passes one, only library callers
  do; `detect_knee` itself is module Knee.
* The reference client and the scripts under `docs/evidence`: evidence for one
  measurement, not part of the program.
