------------------------------- MODULE Report -------------------------------
(***************************************************************************)
(* report.py: two builders, one check, one renderer.  An entry is a run    *)
(* manifest with what was found of its workload file: None, or the type of *)
(* its arrival process.  A rendered report is the record of what each      *)
(* section says; fixed wording is left out.                                *)
(***************************************************************************)
EXTENDS Result

ArrivalInfo(entry) ==
  IF entry.workload = None THEN "not-inspectable" ELSE entry.workload

AnyClosed(entries) == \E i \in DOMAIN entries : ArrivalInfo(entries[i]) = "closed-loop"

-----------------------------------------------------------------------------
(* The model behind a report.                                              *)

FromAnalysis(r, entries) ==
  LET tabled == r.latency.kind = "tables"
      gate == [error_rate |-> r.error_rate, shed_rate |-> r.shed_rate, threshold |-> r.gate]
  IN  [source |-> IF tabled THEN "analysis" ELSE "analysis-withheld",
       manifests |-> entries,
       throughput |-> r.throughput, window |-> r.window,
       tables |-> IF tabled THEN r.latency.tables ELSE None,
       intervals |-> r.intervals,
       withheld |-> IF tabled THEN None ELSE [kind |-> r.latency.kind, gate |-> gate],
       dispersion |-> r.dispersion,
       goodput |-> r.goodput,
       knee |-> r.knee,
       cost |-> IF r.cost.available THEN r.cost ELSE None,
       cost_null_reason |-> IF r.cost.available THEN None ELSE "cost",
       handling |-> HandlingStatement(r.warmup),
       run_count |-> r.run_count, pooled |-> r.pooled,
       threats |-> r.threats, anomalies |-> r.anomalies, checks |-> "analysis",
       gate |-> gate, refs |-> r.manifest_refs]

\* The first threat that speaks of a null cost or of a cost per something is
\* taken for the reason of a null cost.
CostNullReasonVariant(threats) ==
  IF threats # <<>> THEN threats[1] ELSE "validity-gap"

CostNullReason(threats) ==
  LET matching == {i \in DOMAIN threats : threats[i] \in {"author-cost", "cost"}}
  IN  IF matching = {} THEN "validity-gap" ELSE threats[MinOf(matching)]

\* A document read back from a result file; the entries' manifests must
\* declare the warm-up policy its handling statement names.
FromDocument(doc, entries, extra_threats, extra_anomalies) ==
  LET threats == doc.threats \o extra_threats
      mismatch(e) == e.manifest.warm_up.policy # doc.handling.policy
  IN  IF \/ DOMAIN doc.tables = {}
         \/ \E i \in DOMAIN entries : mismatch(entries[i])
      THEN Refuse("ReportInputError")
      ELSE Ok([source |-> "file",
               manifests |-> entries,
               throughput |-> doc.throughput, window |-> None,
               tables |-> doc.tables,
               intervals |-> None, withheld |-> None, dispersion |-> None,
               goodput |-> doc.goodput,
               knee |-> doc.knee,
               cost |-> doc.cost,
               cost_null_reason |-> IF doc.cost = None THEN CostNullReason(threats) ELSE None,
               handling |-> doc.handling,
               run_count |-> doc.run_count, pooled |-> doc.pooled,
               threats |-> threats, anomalies |-> doc.anomalies \o extra_anomalies,
               checks |-> "result-file",
               gate |-> None, refs |-> doc.links])

-----------------------------------------------------------------------------
(* What every report must carry.                                           *)

Reportable(m) ==
  /\ m.manifests # <<>>
  /\ \A i \in DOMAIN m.manifests : m.manifests[i].manifest.hypothesis # "blank"
  /\ m.run_count >= 1
  /\ m.anomalies # <<>> \/ m.checks # None
  /\ (m.tables = None) # (m.withheld = None)
  /\ m.tables # None => DOMAIN m.tables # {}
  /\ m.refs # <<>>

\* What the latency section shows: the tables with their intervals and the
\* dispersion, with a reminder under closed-loop arrivals, or the reason why
\* there are none.
LatencySection(m) ==
  IF m.withheld # None
  THEN [kind |-> "withheld", why |-> m.withheld]
  ELSE [kind |-> "tables", tables |-> m.tables, intervals |-> m.intervals, dispersion |-> m.dispersion,
        closed_loop_reminder |-> AnyClosed(m.manifests)]

\* The row of the measured window only in a report made from raw events.
ThroughputSection(m) ==
  [figures |-> m.throughput, pooled |-> m.pooled, window |-> m.window]

\* Ratio, shed rate and stall rate in one table; the counts behind them only
\* in a report made from raw events.
GoodputSection(m) ==
  [figures |-> [g \in DOMAIN m.goodput \ {"counts"} |-> m.goodput[g]],
   counts |-> IF "counts" \in DOMAIN m.goodput THEN m.goodput.counts ELSE None]

KneeSection(m) ==
  IF m.knee = None THEN [kind |-> "null"] ELSE [kind |-> "knee", knee |-> m.knee]

CostSection(m) ==
  IF m.cost = None
  THEN [kind |-> "null", why |-> m.cost_null_reason]
  ELSE [kind |-> "cost", cost |-> m.cost]

\* What the validity block says of the arrival process.
ClosedNote(entries) ==
  CASE AnyClosed(entries) -> "closed-loop"
    [] ~AnyClosed(entries) /\ (\A i \in DOMAIN entries : entries[i].workload # None) -> "none declared"
    [] OTHER -> "not inspectable"

ValiditySection(m) ==
  [handling |-> m.handling, run_count |-> m.run_count, gate |-> m.gate,
   closed |-> ClosedNote(m.manifests), threats |-> m.threats,
   anomalies |-> IF m.anomalies = <<>> THEN [none_observed_beside |-> m.checks]
                 ELSE [listed |-> m.anomalies]]

Render(m) ==
  IF ~Reportable(m)
  THEN Refuse("ReportInputError")
  ELSE Ok([closed_loop_flag |-> AnyClosed(m.manifests),
           source |-> m.source,
           hypotheses |-> [i \in DOMAIN m.manifests |-> m.manifests[i].manifest.hypothesis],
           manifests |-> [i \in DOMAIN m.manifests |->
                            [manifest |-> m.manifests[i].manifest,
                             arrival |-> ArrivalInfo(m.manifests[i])]],
           throughput |-> ThroughputSection(m),
           latency |-> LatencySection(m),
           goodput |-> GoodputSection(m),
           knee |-> KneeSection(m),
           cost |-> CostSection(m),
           validity |-> ValiditySection(m),
           links |-> m.refs])

=============================================================================
