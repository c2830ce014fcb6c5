----------------------------- MODULE MCAnalysis -----------------------------
(***************************************************************************)
(* Two run directories and sessions of two commands.  Events are listed in *)
(* the order of completion, which is not the order they were due in; a     *)
(* request's summary-only gaps, a stall, a cancellation, shedding, errors, *)
(* a run of zero seconds and files cut short all occur.                    *)
(***************************************************************************)
EXTENDS AnalysisCommand, TLC

CONSTANTS p1, p2

Gaps(series) == [max_stall |-> MaxOf(Values(series)), series |-> series, summary |-> None]
SummaryGaps(stall) == [max_stall |-> stall, series |-> <<>>, summary |-> [p50 |-> 1, max |-> stall]]

Ev(id, rep, due, end, status, ttft, itl) ==
  [kind |-> "event",
   event |-> [run_id |-> id, repetition |-> rep, scheduled_send_ts |-> due, end_ts |-> end,
              status |-> status, shed |-> status = "shed", ttft |-> ttft, itl |-> itl,
              input_tokens |-> 1, output_tokens |-> IF status = "ok" THEN 2 ELSE 0]]

\* Event lists, for a run id.
Plain(id) == <<Ev(id, 1, 2, 4, "ok", 1, Gaps(<<1>>)), Ev(id, 1, 0, 5, "ok", 2, Gaps(<<1, 3>>)),
               Ev(id, 1, 3, 6, "ok", 2, None)>>
Repeated(id) == <<Ev(id, 1, 1, 2, "ok", 1, None), Ev(id, 1, 0, 4, "ok", 3, None),
                  Ev(id, 2, 0, 2, "ok", 1, None), Ev(id, 2, 0, 5, "canceled", 4, None)>>
Failing(id) == <<Ev(id, 1, 1, 2, "error", None, None), Ev(id, 1, 0, 3, "ok", 1, SummaryGaps(2)),
                 Ev(id, 1, 2, 5, "shed", None, None), Ev(id, 1, 2, 6, "ok", 2, Gaps(<<2>>))>>
NoFirstByte(id) == <<Ev(id, 1, 0, 2, "ok", None, None), Ev(id, 1, 1, 3, "ok", None, None)>>
AllCanceled(id) == <<Ev(id, 1, 0, 2, "canceled", 1, None), Ev(id, 1, 1, 3, "canceled", 1, None)>>
Instant(id) == <<Ev(id, 1, 1, 1, "ok", 0, None), Ev(id, 1, 0, 3, "ok", 1, None)>>

Manifest(id, policy, value, hypothesis) ==
  [key \in ComparabilityKeys \ {"warm_up"} |-> "same"]
  @@ [run_id |-> id, repetitions |-> 2, hypothesis |-> hypothesis,
      warm_up |-> [policy |-> policy, value |-> value]]

\* A directory holding the run id with the given warm-up and events.
Directory(id, policy, value, lines) ==
  [manifest_file |-> "valid", events_file |-> "valid", workload |-> None,
   manifest |-> Manifest(id, policy, value, "h1"), lines |-> lines]

A(policy, value, lines) == Directory("a", policy, value, lines)
B(policy, value, lines) == Directory("b", policy, value, lines)

Torn == [kind |-> "torn"]
Blank == [kind |-> "blank"]
Invalid == [kind |-> "invalid"]

Base == A("none", None, Plain("a"))

FirstDirectories ==
  {Base, A("discard-requests", 1, Plain("a")), A("discard-duration", 2, Plain("a")),
   A("discard-requests", 1, Repeated("a")), A("none", None, Failing("a")),
   A("none", None, NoFirstByte("a")), A("none", None, AllCanceled("a")),
   A("discard-requests", 1, Instant("a")), A("discard-requests", 9, Plain("a")),
   A("discard-requests", None, Plain("a")),
   [A("none", None, Repeated("a")) EXCEPT !.workload = "closed-loop"]}

BadDirectories ==
  {[Base EXCEPT !.manifest_file = f] : f \in {"absent", "torn", "invalid"}}
  \cup {[Base EXCEPT !.events_file = "absent"], [Base EXCEPT !.lines = <<Blank>>],
        [Base EXCEPT !.lines = @ \o <<Torn>>], [Base EXCEPT !.lines = <<Invalid>> \o @],
        [Base EXCEPT !.lines = @ \o Plain("b")], [Base EXCEPT !.manifest.repetitions = 0]}
  \cup {[Base EXCEPT !.manifest.hypothesis = "blank"]}
  \cup {[Base EXCEPT !.workload = w] : w \in {"torn", "invalid", "open-loop-poisson"}}

Second == B("none", None, Failing("b"))

\* The second directory has another warm-up, the same one or another engine.
MCWorlds ==
  {[p \in {p1, p2} |-> IF p = p1 THEN first ELSE Second] : first \in FirstDirectories \cup BadDirectories}
  \cup {[p \in {p1, p2} |-> IF p = p1 THEN A("discard-requests", 1, events)
                            ELSE B("discard-requests", 1, Plain("b"))]
        : events \in {Plain("a"), Repeated("a"), Failing("a")}}
  \cup {[p \in {p1, p2} |-> IF p = p1 THEN Base ELSE [Second EXCEPT !.manifest.engine = "other"]]}

MCReplacements == {[Base EXCEPT !.manifest.run_id = "c", !.manifest.hypothesis = "h2", !.lines = Plain("c")]}

Objective_(signal, statistic, comparator, threshold) ==
  [signal |-> signal, statistic |-> statistic, comparator |-> comparator, threshold |-> threshold]

SLO == [slo_id |-> "s", objectives |->
          <<Objective_("ttft_seconds", "p95", "<=", 2), Objective_("max_stall_seconds", "max", "<", 3),
            Objective_("itl_seconds", "p50", "<=", 1)>>]
EndToEnd == [slo_id |-> "t", objectives |->
          <<Objective_("e2e_duration_seconds", "p95", "<", 4), Objective_("max_stall_seconds", "max", "<=", 2)>>]
Unusable == [slo_id |-> "u", objectives |->
          <<Objective_("ttft_seconds", "p95", "<=", 1), Objective_("max_stall_seconds", "max", "<=", 2),
            Objective_("itl_seconds", "p80", "<=", 1)>>]

Rate(h, region) == [hardware |-> h, pricing |-> "spot", region |-> region, usd |-> 2, provenance |-> "list"]
Profile(region) == [rates |-> <<Rate("h", "eu"), Rate("h", "us"), Rate("g", "eu")>>,
                    hardware |-> "h", pricing |-> "spot", region |-> region]

Config(slo, gate, cost, threats) ==
  [slo |-> slo, gate |-> gate, bootstrap |-> TRUE, cost |-> cost, knee |-> None,
   threats |-> threats, anomalies |-> <<>>]

Configs == {Config(SLO, 5, None, <<"author">>), Config(SLO, 50, Profile("eu"), <<>>),
            Config(EndToEnd, 40, None, <<"author-cost">>)}
RareConfigs == {Config(Unusable, 50, None, <<>>), Config(SLO, 50, Profile(None), <<>>)}

Line(verb, paths, config) ==
  [verb |-> verb, from_file |-> FALSE, paths |-> paths, bundle |-> TRUE,
   config_files |-> "valid", config |-> config]

First == Config(SLO, 50, None, <<>>)
FromFile == [Line("report", <<>>, Config(SLO, 5, None, <<"author">>)) EXCEPT !.from_file = TRUE]

Refused ==
  {[FromFile EXCEPT !.paths = <<p1>>], [FromFile EXCEPT !.bundle = FALSE],
   [Line("analyze", <<p1>>, First) EXCEPT !.config_files = "invalid"],
   [Line("analyze", <<p1>>, First) EXCEPT !.config_files = "profile without hardware"],
   [Line("report", <<p1>>, First) EXCEPT !.config_files = "no slo"]}

\* First an analysis or a report of one, two or twice the same directory;
\* then one that reads or replaces its file, or is refused.
MCCommands ==
  <<{Line("analyze", <<p1>>, c) : c \in Configs \cup RareConfigs}
      \cup {Line("analyze", <<p1, p2>>, c) : c \in Configs}
      \cup {Line("analyze", <<p1, p1>>, First), Line("report", <<p1>>, First)},
    {FromFile, Line("report", <<p1, p2>>, First),
     Line("analyze", <<p1>>, Config(SLO, 5, None, <<"author">>))} \cup Refused>>

=============================================================================
