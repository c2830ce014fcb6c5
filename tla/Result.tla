------------------------------- MODULE Result -------------------------------
(***************************************************************************)
(* result.py: one pass over a run set.  Analyze returns Ok(result) or      *)
(* Refuse(exception), in the order the code meets the conditions.          *)
(*                                                                         *)
(* A configuration has an SLO, the declared gate threshold in per cent,    *)
(* whether a bootstrap was asked for, cost inputs or None, a knee or None, *)
(* and the author's own threats and anomalies.  A threat is named by what  *)
(* it is about; "author-cost" is an author's threat that speaks of cost.   *)
(***************************************************************************)
EXTENDS Statistics

\* The measured events, by name.
Measured(runs, kept) == [x \in kept |-> EventAt(runs, x)]

\* max(end) - min(scheduled send) of each repetition that kept an event.
Span(runs, kept, key) ==
  LET part == {x \in kept : RepKey(runs, x) = key}
  IN  MaxOf({EventAt(runs, x).end_ts : x \in part})
      - MinOf({EventAt(runs, x).scheduled_send_ts : x \in part})

Window(runs, kept) ==
  SumFunction([key \in {RepKey(runs, x) : x \in kept} |-> Span(runs, kept, key)])

WithStatus(pool, s) == {x \in DOMAIN pool : pool[x].status = s}

OutputTokens(pool) == SumFunction([x \in DOMAIN pool |-> pool[x].output_tokens])
InputTokens(pool) == SumFunction([x \in DOMAIN pool |-> pool[x].input_tokens])

-----------------------------------------------------------------------------
(* The pools: time to first token of every event that has one, end to end   *)
(* of the successful ones, every single gap, every stall.                  *)

TtftPool(pool) ==
  [x \in {y \in DOMAIN pool : pool[y].ttft # None} |-> pool[x].ttft]

E2EPoolVariant(pool) == [x \in DOMAIN pool |-> E2E(pool[x])]

E2EPool(pool) == [x \in WithStatus(pool, "ok") |-> E2E(pool[x])]

WithSeries(pool) == {x \in DOMAIN pool : pool[x].itl # None /\ pool[x].itl.series # <<>>}

ItlPool(pool) ==
  [y \in UNION {{x} \X DOMAIN pool[x].itl.series : x \in WithSeries(pool)} |->
     pool[y[1]].itl.series[y[2]]]

Streaming(pool) == {x \in DOMAIN pool : pool[x].itl # None}
StallPool(pool) == [x \in Streaming(pool) |-> pool[x].itl.max_stall]

SummaryOnly(pool) ==
  {x \in Streaming(pool) \ WithSeries(pool) : pool[x].itl.summary # None}

-----------------------------------------------------------------------------
(* The gate, and what becomes of the latency tables.                       *)

GateTrippedVariant(pool, threshold) ==
  Cardinality(WithStatus(pool, "error")) * 100 > threshold * Cardinality(DOMAIN pool)

GateTripped(pool, threshold) ==
  100 * (Cardinality(WithStatus(pool, "error")) + Cardinality(WithStatus(pool, "shed")))
    > threshold * Cardinality(DOMAIN pool)

NoSamples(pool) == DOMAIN TtftPool(pool) = {} \/ DOMAIN E2EPool(pool) = {}

Withholding(pool, cfg) ==
  CASE GateTripped(pool, cfg.gate) -> "error-shed-gate"
    [] ~GateTripped(pool, cfg.gate) /\ NoSamples(pool) -> "no-samples"
    [] OTHER -> "none"

Pools(pool) ==
  [ttft_seconds |-> TtftPool(pool), e2e_duration_seconds |-> E2EPool(pool),
   itl_seconds |-> ItlPool(pool), max_stall_seconds |-> StallPool(pool)]

\* The signals that get a table: those with samples.
Tabled(pool) == {s \in DOMAIN Pools(pool) : DOMAIN Pools(pool)[s] # {}}

LatencyOf(pool, cfg) ==
  IF Withholding(pool, cfg) # "none"
  THEN [kind |-> Withholding(pool, cfg)]
  ELSE [kind |-> "tables",
        tables |-> [s \in Tabled(pool) |-> Table(Pools(pool)[s])]]

\* The order of a pool: run by run, repetition by repetition, as due.
PooledBefore(runs, x, y) ==
  \/ x[1] < y[1]
  \/ /\ x[1] = y[1]
     /\ EventAt(runs, x).repetition < EventAt(runs, y).repetition
  \/ RepKey(runs, x) = RepKey(runs, y) /\ SentBefore(runs, x, y)

\* The bootstrap draws from a pool by index, with a fixed seed: the confidence
\* intervals are a function of the measured events in the order of the pool,
\* and that sequence stands for them.
Intervals(runs, kept) ==
  [k \in 1..Cardinality(kept) |->
     EventAt(runs, CHOOSE x \in kept :
                     Cardinality({y \in kept : PooledBefore(runs, y, x)}) = k - 1)]

-----------------------------------------------------------------------------
Repetitions(runs) == Cardinality(RepKeys(runs))

Listed(cond, threat) == IF cond THEN <<threat>> ELSE <<>>

ThreatsVariant(pool, cfg, reps, cost, policy) ==
  cfg.threats
    \o Listed(Withholding(pool, cfg) # "none", "withheld")
    \o Listed(reps < 3, "repetitions")
    \o Listed(~cost.available, "cost")

\* The threats the code adds, in its order, after the author's.
Threats(pool, cfg, reps, cost, policy) ==
  cfg.threats
    \o Listed(Withholding(pool, cfg) # "none", "withheld")
    \o Listed(reps < 3, "repetitions")
    \o Listed(cfg.knee = None, "no-sweep")
    \o Listed(cfg.knee # None /\ ~cfg.knee.bracketed, "unbracketed")
    \o Listed(~cost.available, "cost")
    \o Listed(policy = "none", "no-warm-up")
    \o Listed(Streaming(pool) = {}, "no-streaming")
    \o Listed(SummaryOnly(pool) # {}, "summary-only")
    \o Listed(WithStatus(pool, "canceled") # {}, "canceled")

\* The AnalysisResult, from the pieces the pass computed on the way.
Assemble(runs, cfg, pool, warmup, goodput, cost) ==
  LET window == Window(runs, DOMAIN pool)
      size == Cardinality(DOMAIN pool)
      share(s) == <<Cardinality(WithStatus(pool, s)), size>>
      out == OutputTokens(pool)
      key == [x \in DOMAIN pool |-> RepKey(runs, x)]
      latency == LatencyOf(pool, cfg)
      reps == Repetitions(runs)
  IN  [manifest_refs |-> [i \in DOMAIN runs |-> runs[i].path],
       throughput |-> [ok |-> <<share("ok")[1], window>>, output |-> <<out, window>>,
                       requests |-> size, tokens |-> out],
       window |-> window,
       latency |-> latency,
       intervals |-> IF latency.kind = "tables" /\ cfg.bootstrap
                     THEN Intervals(runs, DOMAIN pool) ELSE None,
       dispersion |-> IF latency.kind = "tables" /\ reps > 1
                      THEN [ttft_seconds |-> Dispersion(TtftPool(pool), key),
                            e2e_duration_seconds |-> Dispersion(E2EPool(pool), key)]
                      ELSE None,
       goodput |-> goodput, knee |-> cfg.knee, cost |-> cost,
       warmup |-> warmup, run_count |-> reps,
       threats |-> Threats(pool, cfg, reps, cost, warmup.policy),
       anomalies |-> cfg.anomalies,
       pooled |-> size, gate |-> cfg.gate,
       error_rate |-> share("error"), shed_rate |-> share("shed")]

DuplicateIds(runs) ==
  \E i, j \in DOMAIN runs : i # j /\ runs[i].manifest.run_id = runs[j].manifest.run_id

TablesRefused(pool, cfg) ==
  /\ Withholding(pool, cfg) = "none"
  /\ \E s \in Tabled(pool) : PooledTable(Pools(pool)[s]).error # "none"

\* The first computation that could not be done, in the code's order.
FirstRefusal(runs, cfg, pool, warmup, window, goodput, cost) ==
  CASE window = 0 -> Refuse("ZeroDivisionError")
    [] window # 0 /\ TablesRefused(pool, cfg) -> Refuse("EmptyPoolError")
    [] OTHER ->
         IF goodput.error # "none" THEN goodput
         ELSE IF cost.error # "none" THEN cost
         ELSE Ok(Assemble(runs, cfg, pool, warmup, goodput.value, cost.value))

\* What follows the warm-up.
MeasuredPart(runs, cfg, pool, warmup, window) ==
  FirstRefusal(runs, cfg, pool, warmup, window,
    Goodput(pool, cfg.slo, window),
    ComputeCost(cfg.cost, window, Cardinality(WithStatus(pool, "ok")),
                InputTokens(pool) + OutputTokens(pool), OutputTokens(pool)))

Analyze(runs, cfg) ==
  LET warm == ApplyWarmup(runs)
  IN  IF ~Poolable(runs) THEN Refuse("ComparabilityError")
      ELSE IF DuplicateIds(runs) THEN Refuse("ResultNotExpressibleError")
      ELSE IF warm.error # "none" THEN warm
      ELSE MeasuredPart(runs, cfg, Measured(runs, warm.value.kept), warm.value.report,
                        Window(runs, warm.value.kept))

-----------------------------------------------------------------------------
(* The result file.  The contract has no form for withheld latency, for    *)
(* confidence intervals, dispersion, the gate, goodput's counts, the rate  *)
(* behind a cost, or whether a knee is bracketed.                          *)

ToDocument(r) ==
  IF r.latency.kind # "tables"
  THEN Refuse("ResultNotExpressibleError")
  ELSE Ok([links |-> r.manifest_refs,
           throughput |-> r.throughput,
           tables |-> r.latency.tables,
           pooled |-> r.pooled,
           goodput |-> [g \in DOMAIN r.goodput \ {"counts"} |-> r.goodput[g]],
           knee |-> IF r.knee = None THEN None
                    ELSE [k \in DOMAIN r.knee \ {"bracketed"} |-> r.knee[k]],
           cost |-> IF ~r.cost.available THEN None
                    ELSE [c \in DOMAIN r.cost \ {"available", "provenance"} |-> r.cost[c]],
           handling |-> HandlingStatement(r.warmup),
           run_count |-> r.run_count,
           threats |-> r.threats,
           anomalies |-> r.anomalies])

=============================================================================
