--------------------------- MODULE AnalysisCommand --------------------------
(***************************************************************************)
(* cli.py: a session of analysis commands over the run directories and the *)
(* result file they share.  `analyze` writes the result file; `report`     *)
(* renders either straight from run directories or from the result file,   *)
(* re-reading the manifests it links to.  Between two reads another run    *)
(* may reuse a directory, and a command may be killed at any point.        *)
(***************************************************************************)
EXTENDS Report

CONSTANTS
  Paths,            \* the run directories
  Worlds,           \* what the run directories may hold at first
  Replacements,     \* what a later run may leave in a directory
  MaxCommands,      \* bound: commands in a session
  Commands,         \* the command lines it may give first, second, ...
  MaxReuses         \* bound: directories reused by later runs

CommandAssumption ==
  /\ MaxCommands \in Nat /\ MaxReuses \in Nat
  /\ \A n \in 1..MaxCommands : \A c \in Commands[n] :
       /\ c.verb \in {"analyze", "report"}
       /\ c.from_file \in BOOLEAN
       /\ c.from_file => c.verb = "report"
       /\ c.paths \in Seq(Paths)
       /\ c.config.gate \in Nat
       /\ DOMAIN c.config.slo.objectives \subseteq Nat
       /\ c.config.threats \in Seq(STRING)
       /\ c.config.cost # None =>
            /\ IsFiniteSet(DOMAIN c.config.cost.rates)
            /\ \A i \in DOMAIN c.config.cost.rates :
                 /\ c.config.cost.rates[i].usd \in Int
                 /\ c.config.cost.rates[i].provenance \in STRING

\* None is not a number, nor the name of a check, nor a record of the knee, of
\* a cost or of the figures of one.
NoneAssumption ==
  /\ None \notin Int /\ None # "analysis"
  /\ \A n \in 1..MaxCommands : \A c \in Commands[n] :
       LET knee == c.config.knee
       IN  knee # None => [k \in DOMAIN knee \ {"bracketed"} |-> knee[k]] # None
  /\ None \notin [{"per_request", "per_token", "per_output_token"} -> (Int \X Int) \cup {None}]
  /\ None \notin [available : BOOLEAN, per_request : Int \X Int, per_token : Int \X Int,
                  per_output_token : (Int \X Int) \cup {None}, provenance : STRING]

\* The client records times since the epoch, never a request that was shed and
\* succeeded, and the gaps of a stream as a series or a summary.
WellFormed(e) ==
  /\ e.scheduled_send_ts \in Nat /\ e.end_ts \in Nat
  /\ e.ttft \in Int \cup {None}
  /\ e.input_tokens \in Nat /\ e.output_tokens \in Nat
  /\ e.status = "ok" => ~e.shed
  /\ e.itl # None =>
       /\ e.itl.max_stall \in Int /\ e.itl.series \in Seq(Int)
       /\ e.itl.series # <<>> \/ e.itl.summary # None

\* An events file has finitely many lines, by number; a warm-up's value is a
\* number, and no manifest is written that discards a negative count of requests.
WellRecorded(dir) ==
  /\ IsFiniteSet(DOMAIN dir.lines) /\ DOMAIN dir.lines \subseteq Nat
  /\ \A i \in DOMAIN dir.lines : dir.lines[i].kind = "event" => WellFormed(dir.lines[i].event)
  /\ LET warm_up == dir.manifest.warm_up
     IN  /\ warm_up.value \in Int \cup {None}
         /\ warm_up.policy = "discard-requests" => warm_up.value \in Nat \cup {None}

DirectoryAssumption ==
  /\ \A w \in Worlds : w = [p \in Paths |-> w[p]] /\ \A p \in Paths : WellRecorded(w[p])
  /\ \A d \in Replacements : WellRecorded(d)

ASSUME CommandAssumption
ASSUME NoneAssumption
ASSUME DirectoryAssumption

VARIABLES
  dirs,         \* path -> run directory
  result,       \* the benchmark-result file
  report,       \* the last report rendered
  pc,           \* the step the current command is at, "idle" between commands
  cmd,          \* the current command line
  runs,         \* the runs load_run has returned so far
  entries,      \* the ManifestEntry list so far
  data,         \* the AnalysisResult, or the document read from the file
  exit,         \* exit status of the last command; "killed", "running"
  before,       \* the result file when the command started (history)
  given, reuses \* counters of commands and of reused directories

vars == <<dirs, result, report, pc, cmd, runs, entries, data, exit, before, given, reuses>>

-----------------------------------------------------------------------------
\* The exit status for what a command raised: a typed refusal is 1, except
\* the one that says 3; anything else ends in a traceback.
ExitStatus(error) ==
  CASE error = "ResultNotExpressibleError" -> "3"
    [] error \in {"JSONDecodeError", "ZeroDivisionError", "OSError"} -> "traceback"
    [] OTHER -> "1"

FinishVariant(status) == pc' = "idle" /\ UNCHANGED exit
Finish(status) == pc' = "idle" /\ exit' = status
Proceed(step) == pc' = step /\ UNCHANGED exit

Init ==
  /\ dirs \in Worlds
  /\ result = [state |-> "absent"]
  /\ report = None
  /\ pc = "idle"
  /\ cmd = None
  /\ runs = <<>> /\ entries = <<>> /\ data = None
  /\ exit = "none"
  /\ before = result
  /\ given = 0 /\ reuses = 0

\* A report has exactly one kind of input; what works on run directories
\* needs an SLO file.
WrongInput(c) == c.verb = "report" /\ (c.from_file <=> c.paths # <<>>)
NoSlo(c) == ~c.from_file /\ c.config_files = "no slo"

\* argparse knows that `analyze` needs an SLO before the bundle is opened,
\* `report` looks after that.
StartStatus(c) ==
  CASE WrongInput(c) \/ (c.verb = "analyze" /\ NoSlo(c)) -> "2"
    [] OTHER -> IF ~c.bundle THEN "1" ELSE IF NoSlo(c) THEN "2" ELSE "running"

Start ==
  /\ pc = "idle" /\ given < MaxCommands
  /\ \E c \in Commands[given + 1] :
       /\ cmd' = c
       /\ exit' = StartStatus(c)
       /\ pc' = IF StartStatus(c) # "running" THEN "idle"
                ELSE IF c.from_file THEN "open" ELSE "load"
  /\ given' = given + 1
  /\ before' = result
  /\ runs' = <<>> /\ entries' = <<>> /\ data' = None
  /\ UNCHANGED <<dirs, result, report, reuses>>

\* load_run on the next directory.
Load ==
  /\ pc = "load" /\ Len(runs) < Len(cmd.paths)
  /\ LET path == cmd.paths[Len(runs) + 1]
         loaded == LoadRun(path, dirs[path])
     IN  IF loaded.error = "none"
         THEN runs' = Append(runs, loaded.value) /\ Proceed("load")
         ELSE Finish(ExitStatus(loaded.error)) /\ UNCHANGED runs
  /\ UNCHANGED <<dirs, result, report, cmd, entries, data, before, given, reuses>>

\* What _config_from_args makes of the files given with the run directories.
ConfigStatus(c) ==
  CASE c.config_files = "invalid" -> "1"
    [] c.config_files = "profile without hardware" -> "2"
    [] OTHER -> "running"

TakeAnalysis(analysis) ==
  IF analysis.error # "none"
  THEN Finish(ExitStatus(analysis.error)) /\ UNCHANGED data
  ELSE /\ data' = analysis.value
       /\ Proceed(IF cmd.verb = "analyze" THEN "serialize" ELSE "entries")

\* _config_from_args, then analyze_run_set.
Analyse ==
  /\ pc = "load" /\ Len(runs) = Len(cmd.paths)
  /\ IF ConfigStatus(cmd) # "running"
     THEN Finish(ConfigStatus(cmd)) /\ UNCHANGED data
     ELSE TakeAnalysis(Analyze(runs, cmd.config))
  /\ UNCHANGED <<dirs, result, report, cmd, runs, entries, before, given, reuses>>

\* to_benchmark_result_dict, which ends with the validation of the document
\* against the schema of the bundle; then mkdir and open(path, "w"), which
\* empties the file.
SerializeVariant ==
  /\ pc = "serialize"
  /\ LET document == ToDocument(data)
     IN  IF document.error # "none"
         THEN Finish(ExitStatus(document.error)) /\ result' = [state |-> "torn"]
         ELSE \/ Finish(ExitStatus("LoaderError")) /\ result' = [state |-> "torn"]
              \/ Finish(ExitStatus("OSError")) /\ UNCHANGED result
              \/ Proceed("write") /\ result' = [state |-> "torn"]
  /\ UNCHANGED <<dirs, report, cmd, runs, entries, data, before, given, reuses>>

Serialize ==
  /\ pc = "serialize"
  /\ LET document == ToDocument(data)
     IN  IF document.error # "none"
         THEN Finish(ExitStatus(document.error)) /\ UNCHANGED result
         ELSE \/ Finish(ExitStatus("LoaderError")) /\ UNCHANGED result
              \/ Finish(ExitStatus("OSError")) /\ UNCHANGED result
              \/ Proceed("write") /\ result' = [state |-> "torn"]
  /\ UNCHANGED <<dirs, report, cmd, runs, entries, data, before, given, reuses>>

\* json.dump and close, either of which may fail; `runs` and `config` are
\* history, for the properties.
Write ==
  /\ pc = "write"
  /\ \/ /\ result' = [state |-> "document", document |-> ToDocument(data).value,
                       runs |-> runs, config |-> cmd.config]
        /\ Proceed("written")
     \/ Finish(ExitStatus("OSError")) /\ UNCHANGED result
  /\ UNCHANGED <<dirs, report, cmd, runs, entries, data, before, given, reuses>>

\* The command says so on standard output, or cannot.
Announce ==
  /\ pc = "written"
  /\ Finish("0") \/ Finish(ExitStatus("OSError"))
  /\ UNCHANGED <<dirs, result, report, cmd, runs, entries, data, before, given, reuses>>

\* report --result: a missing or torn file is not a typed refusal.
Open ==
  /\ pc = "open"
  /\ CASE result.state = "absent" -> Finish(ExitStatus("OSError")) /\ UNCHANGED data
       [] result.state = "torn" -> Finish(ExitStatus("JSONDecodeError")) /\ UNCHANGED data
       [] OTHER -> data' = result /\ Proceed("entries")
  /\ UNCHANGED <<dirs, result, report, cmd, runs, entries, before, given, reuses>>

Links == IF cmd.from_file THEN data.document.links ELSE data.manifest_refs

\* The next manifest, read again by report --result and kept from the load
\* by report --run; then the workload file beside it.
ReadEntry ==
  /\ pc = "entries" /\ Len(entries) < Len(Links)
  /\ LET i == Len(entries) + 1
         dir == dirs[Links[i]]
         manifest_file == IF cmd.from_file THEN dir.manifest_file ELSE "valid"
         error == CASE manifest_file \in {"absent", "invalid"} -> "LoaderError"
                    [] manifest_file = "torn" -> "JSONDecodeError"
                    [] manifest_file = "valid" /\ dir.workload = "invalid" -> "LoaderError"
                    [] manifest_file = "valid" /\ dir.workload = "torn" -> "JSONDecodeError"
                    [] OTHER -> "none"
         entry == [manifest |-> IF cmd.from_file THEN dir.manifest ELSE runs[i].manifest,
                   workload |-> dir.workload]
     IN  IF error = "none"
         THEN entries' = Append(entries, entry) /\ Proceed("entries")
         ELSE Finish(ExitStatus(error)) /\ UNCHANGED entries
  /\ UNCHANGED <<dirs, result, report, cmd, runs, data, before, given, reuses>>

ModelOf ==
  IF cmd.from_file
  THEN FromDocument(data.document, entries, cmd.config.threats, cmd.config.anomalies)
  ELSE Ok(FromAnalysis(data, entries))

\* The markdown goes to standard output or to a file nothing reads back.
RenderReport ==
  /\ pc = "entries" /\ Len(entries) = Len(Links)
  /\ LET model == ModelOf
         rendered == IF model.error # "none" THEN model ELSE Render(model.value)
     IN  IF rendered.error # "none"
         THEN Finish(ExitStatus(rendered.error)) /\ UNCHANGED report
         ELSE Finish("0") /\ report' = [shown |-> rendered.value, of |-> data, entries |-> entries]
  /\ UNCHANGED <<dirs, result, cmd, runs, entries, data, before, given, reuses>>

\* The process dies; the result file stays as it is.
Kill ==
  /\ pc # "idle"
  /\ Finish("killed")
  /\ UNCHANGED <<dirs, result, report, cmd, runs, entries, data, before, given, reuses>>

\* A later benchmark run is given a directory that held another.
Reuse ==
  /\ reuses < MaxReuses
  /\ \E p \in DOMAIN dirs, d \in Replacements : dirs' = [dirs EXCEPT ![p] = d]
  /\ reuses' = reuses + 1
  /\ UNCHANGED <<result, report, pc, cmd, runs, entries, data, exit, before, given>>

Next ==
  \/ Start \/ Load \/ Analyse \/ Serialize \/ Write \/ Announce
  \/ Open \/ ReadEntry \/ RenderReport \/ Kill \/ Reuse

Spec == Init /\ [][Next]_vars

-----------------------------------------------------------------------------
Steps == {"idle", "load", "serialize", "write", "written", "open", "entries"}
Statuses == {"none", "running", "killed", "0", "1", "2", "3", "traceback"}

\* The shape of the state: a command is running exactly when it has a step
\* left, only `analyze` serializes, and what a step needs is there
\* (cli.py:221-231, 234-317).
TypeOK ==
  /\ pc \in Steps /\ exit \in Statuses
  /\ pc = "idle" <=> exit # "running"
  /\ result.state \in {"absent", "torn", "document"}
  /\ given \in 0..MaxCommands /\ reuses \in 0..MaxReuses
  /\ pc # "idle" => given > 0 /\ cmd \in Commands[given]
  /\ pc \in {"serialize", "write", "written"} => cmd.verb = "analyze"
  /\ pc = "entries" => cmd.verb = "report"

Published == result.state = "document"

\* Latency is never published from a window the declared gate withholds, nor
\* without a sample of both required signals: recounted here from the raw
\* events behind the file, whatever path wrote it and whatever was at the
\* path before (result.py:346-381, 142-154).
WithheldNeverPublished ==
  Published =>
    LET status(x) == EventAt(result.runs, x).status
        kept == Kept(result.runs)
        failed == {x \in kept : status(x) \in {"error", "shed"}}
    IN  /\ 100 * Cardinality(failed) <= result.config.gate * Cardinality(kept)
        /\ \E x \in kept : status(x) = "ok"
        /\ \E x \in kept : EventAt(result.runs, x).ttft # None
        /\ {"ttft_seconds", "e2e_duration_seconds"} \subseteq DOMAIN result.document.tables

\* The document of this very command.
OwnDocument == Published /\ result.runs = runs /\ result.config = cmd.config

\* The runs the command loaded have an analysis, and one the contract has a
\* form for.
Expressible ==
  LET analysis == Analyze(runs, cmd.config)
  IN  cmd.verb = "analyze" /\ analysis.error = "none" /\ ToDocument(analysis.value).error = "none"

\* The file and the exit status agree: status 0 of `analyze` leaves the
\* document of this very command, any typed refusal leaves the file as it was,
\* and one that ends in a traceback or is killed leaves the file as it was,
\* torn, or with its own document, and touches it only when it had a result
\* that can be expressed; `report` never touches it (cli.py:28-36,
\* result.py:140-154, 227-236).
ArtifactMatchesExit ==
  /\ pc = "idle" /\ exit = "0" /\ cmd.verb = "analyze" => OwnDocument
  /\ pc = "idle" /\ exit \in {"1", "2", "3"} => result = before
  /\ pc = "idle" /\ exit \in {"traceback", "killed"} =>
       \/ result = before
       \/ Expressible /\ (result.state = "torn" \/ OwnDocument)
  /\ given > 0 /\ cmd.verb = "report" => result = before

\* The raw samples of each signal, as <<event, gap, value>>.
RawSamples(rs) ==
  LET ev(x) == EventAt(rs, x)
      streams == {x \in Kept(rs) : ev(x).itl # None}
  IN  [ttft_seconds |-> {<<x, 0, ev(x).ttft>> : x \in {y \in Kept(rs) : ev(y).ttft # None}},
       e2e_duration_seconds |-> {<<x, 0, ev(x).end_ts - ev(x).scheduled_send_ts>> :
                                   x \in {y \in Kept(rs) : ev(y).status = "ok"}},
       itl_seconds |-> UNION {{<<x, i, ev(x).itl.series[i]>> : i \in DOMAIN ev(x).itl.series} :
                                x \in streams},
       max_stall_seconds |-> {<<x, 0, ev(x).itl.max_stall>> : x \in streams}]

\* Where the samples Z put a percentile v: at least (n - 1) q of them are on
\* its left and the rest on its right.
Placed(Z, v, q) ==
  LET n == Cardinality(Z)
      left == ((n - 1) * q) \div 1000
  IN  /\ Cardinality({z \in Z : 1000 * z[3] <= v}) > left
      /\ Cardinality({z \in Z : 1000 * z[3] >= v}) >= n - 1 - left
      /\ (n - 1) * q % 1000 = 0 => Cardinality({z \in Z : 1000 * z[3] >= v}) >= n - left

\* What a table says of all the samples of a signal.
TableOver(Z, t) ==
  /\ t.n = Cardinality(Z)
  /\ Placed(Z, t.p50, 500) /\ Placed(Z, t.p90, 900)
  /\ Placed(Z, t.p95, 950) /\ Placed(Z, t.p99, 990)
  /\ t.p50 <= t.p90 /\ t.p90 <= t.p95 /\ t.p95 <= t.p99
  /\ t.p99 <= 1000 * t.max
  /\ (t.p999 # None) <=> (t.n >= P999MinSamples)
  /\ t.p999 # None => Placed(Z, t.p999, 999) /\ t.p99 <= t.p999

\* A published percentile lies where the pooled raw samples put it, the
\* percentiles rise up to the maximum, a signal without samples has no table,
\* every sample of every repetition is in the one table, and p999 needs enough
\* of them (result.py:316-337, 381-395; percentiles.py).
TablesOverRawSamples ==
  Published =>
    LET samples == RawSamples(result.runs)
        tables == result.document.tables
    IN  /\ DOMAIN tables = {s \in DOMAIN samples : samples[s] # {}}
        /\ \A s \in DOMAIN tables : TableOver(samples[s], tables[s])

\* Goodput is over every measured request, the shed, failed and canceled ones
\* included, and a request counts as meeting the SLO only if it succeeded and
\* each objective holds for it taken alone: shedding cannot raise the ratio
\* (goodput.py; report.py:1109-1112 in the rendered rules).
GoodputCountsEveryRequest ==
  Published =>
    LET kept == Kept(result.runs)
        ev(x) == EventAt(result.runs, x)
        objectives == result.config.slo.objectives
        meets(x) == /\ ev(x).status = "ok"
                    /\ \A i \in DOMAIN objectives : Objective(ev(x), objectives[i]) = "holds"
        g == result.document.goodput
    IN  /\ g.ratio = <<Cardinality({x \in kept : meets(x)}), Cardinality(kept)>>
        /\ g.shed_rate[2] = Cardinality(kept)
        /\ g.ratio[1] + g.shed_rate[1] <= Cardinality(kept)

\* Whatever a published document leaves out or cannot support is among its
\* threats: no knee, no cost, no gap table, fewer than three repetitions, no
\* warm-up (result.py:412-455).
NullsExplained ==
  Published =>
    LET d == result.document
        named == {d.threats[i] : i \in DOMAIN d.threats}
    IN  /\ d.knee = None => "no-sweep" \in named
        /\ d.cost = None => "cost" \in named
        /\ "itl_seconds" \notin DOMAIN d.tables => named \cap {"no-streaming", "summary-only"} # {}
        /\ d.run_count < 3 => "repetitions" \in named
        /\ d.handling.policy = "none" => "no-warm-up" \in named

LoadDone == pc = "load" /\ Len(runs) = Len(cmd.paths) /\ runs # <<>>

\* Nothing kept was due before something that was cut from its repetition.
CutsTheEarliest(rs) ==
  LET due(x) == EventAt(rs, x).scheduled_send_ts
  IN  \A x \in Names(rs) \ Kept(rs), y \in Kept(rs) :
        RepKey(rs, x) = RepKey(rs, y) => due(x) <= due(y)

\* The warm-up cuts a prefix of each repetition in the order of the scheduled
\* sends, although the file is in the order of completion: nothing kept was
\* due before something that was cut, a count policy cuts exactly its count
\* from every repetition long enough, and cut and kept add up
\* (warmup.py:28-103).
WarmupIsPrefix ==
  LoadDone /\ ApplyWarmup(runs).error = "none" =>
    LET report_ == ApplyWarmup(runs).value.report
        size(key) == Cardinality(Group(runs, key))
    IN  /\ CutsTheEarliest(runs)
        /\ report_.policy = "discard-requests" =>
             \A key \in RepKeys(runs) :
               report_.excluded[key] = MinOf({size(key), report_.value})
        /\ report_.excluded_total + report_.kept_total = Cardinality(Names(runs))

\* The median and the range of the repetitions' medians, which are published
\* beside the tables when there are several.
Spread(dispersion) ==
  [signal \in DOMAIN dispersion |->
     <<dispersion[signal].median, dispersion[signal].min, dispersion[signal].max>>]

SameFigures(there, back) ==
  /\ there.error = back.error
  /\ there.error = "none" =>
       /\ \A figure \in {"throughput", "window", "latency", "goodput", "cost", "run_count",
                         "threats", "pooled", "error_rate", "shed_rate"} :
            there.value[figure] = back.value[figure]
       /\ there.value.latency.kind = "tables" /\ there.value.run_count > 1 =>
            Spread(there.value.dispersion) = Spread(back.value.dispersion)

\* The order in which run directories are named on the command line changes
\* neither the verdict nor an exact figure - the percentile tables, the spread
\* of the repetitions, goodput, rates, cost and threats - although the warm-up
\* policy and the keys to agree on are those of the first.  It does change the
\* bootstrap's confidence intervals, which are left out of the comparison: they
\* draw by index from a pool in the order of the runs (events.py:169-185,
\* warmup.py, percentiles.py:119-168).
OrderIndependent ==
  LoadDone =>
    SameFigures(Analyze(runs, cmd.config),
                Analyze([i \in DOMAIN runs |-> runs[Len(runs) + 1 - i]], cmd.config))

ShowTheSame(from_file, from_runs, author_threats) ==
  /\ from_file.throughput.figures = from_runs.throughput.figures
  /\ from_file.throughput.pooled = from_runs.throughput.pooled
  /\ from_file.latency.tables = from_runs.latency.tables
  /\ from_file.goodput.figures = from_runs.goodput.figures
  /\ from_file.validity.handling = from_runs.validity.handling
  /\ from_file.cost.kind = from_runs.cost.kind
  /\ \/ "author-cost" \in author_threats
     \/ from_file.cost.kind = "cost"
     \/ from_file.cost = from_runs.cost

\* A report rendered from a result file shows the figures that a report
\* rendered from the raw events behind it would show - throughput, tables,
\* goodput, warm-up, cost; the window, the intervals and the dispersion are in
\* the latter only - and gives a null cost the reason the analysis had, unless
\* an author's threat spoke of cost before (report.py:365-523 against 526-659).
ReportsAgree ==
  report # None /\ report.shown.source = "file" =>
    LET again == Analyze(report.of.runs, report.of.config).value
    IN  ShowTheSame(report.shown, Render(FromAnalysis(again, report.entries)).value,
                    Values(report.of.config.threats))

\* A report embeds the complete manifest of every run it pools.
EmbedsPooledManifests ==
  report # None /\ report.shown.source = "file" =>
    \A i \in DOMAIN report.of.runs :
      report.shown.manifests[i].manifest = report.of.runs[i].manifest

=============================================================================
