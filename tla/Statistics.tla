----------------------------- MODULE Statistics -----------------------------
(***************************************************************************)
(* The statistics of one pool: percentiles.py, goodput.py and cost.py.     *)
(* A pool is a function from sample names to integer values.  Figures are  *)
(* exact: a quantile is kept in thousandths (type 7 interpolation over     *)
(* n - 1 intervals), a rate or a mean as a pair <<numerator, denominator>>. *)
(* Rounding of floating-point numbers is left out; of the bootstrap there  *)
(* is what it draws from (Result.Intervals), not the draws.                *)
(***************************************************************************)
EXTENDS RunSet

CONSTANT P999MinSamples      \* P999_MIN_SAMPLES

Total(pool) == SumFunction(pool)
Values(pool) == {pool[x] : x \in DOMAIN pool}

\* The k-th smallest sample, equal samples counted.
OrderStatistic(pool, k) ==
  CHOOSE v \in Values(pool) :
    /\ Cardinality({x \in DOMAIN pool : pool[x] < v}) < k
    /\ Cardinality({x \in DOMAIN pool : pool[x] <= v}) >= k

\* numpy.quantile(method="linear") at q thousandths, times 1000.
Quantile(pool, q) ==
  LET n == Cardinality(DOMAIN pool)
      h == (n - 1) * q
      low == OrderStatistic(pool, h \div 1000 + 1)
      high == OrderStatistic(pool, MinOf({h \div 1000 + 2, n}))
  IN  1000 * low + (h % 1000) * (high - low)

\* A non-empty pool; pooled_table refuses an empty or a negative one.
Table(pool) ==
  [n |-> Cardinality(DOMAIN pool),
   p50 |-> Quantile(pool, 500), p90 |-> Quantile(pool, 900),
   p95 |-> Quantile(pool, 950), p99 |-> Quantile(pool, 990),
   p999 |-> IF Cardinality(DOMAIN pool) >= P999MinSamples THEN Quantile(pool, 999) ELSE None,
   max |-> MaxOf(Values(pool)),
   mean |-> <<Total(pool), Cardinality(DOMAIN pool)>>]

PooledTable(pool) ==
  IF DOMAIN pool = {} \/ \E x \in DOMAIN pool : pool[x] < 0
  THEN Refuse("EmptyPoolError")
  ELSE Ok(Table(pool))

\* Median and range of the per-repetition medians; `key` maps a sample name
\* to its repetition.  Repetitions without a sample do not contribute.
Dispersion(pool, key) ==
  LET keys == {key[x] : x \in DOMAIN pool}
      part(k) == [x \in {y \in DOMAIN pool : key[y] = k} |-> pool[x]]
      per_run == [k \in keys |-> Quantile(part(k), 500)]
  IN  [per_run |-> per_run,
       median |-> Quantile(per_run, 500),
       min |-> MinOf(Values(per_run)),
       max |-> MaxOf(Values(per_run))]

-----------------------------------------------------------------------------
(* Goodput.  An SLO is a sequence of objectives with thresholds in whole    *)
(* time units; a value is a pair.                                          *)

StallSignals == {"max_stall_seconds", "client_max_stall_seconds"}
ItlSignals == {"itl_seconds", "client_itl_seconds"}
TtftSignals == {"ttft_seconds", "client_ttft_seconds"}
E2ESignals == {"e2e_duration_seconds", "client_e2e_duration_seconds"}

Compare(v, comparator, threshold) ==
  CASE comparator = "<" -> v[1] < threshold * v[2]
    [] comparator = "<=" -> v[1] <= threshold * v[2]
    [] comparator = ">" -> v[1] > threshold * v[2]
    [] comparator = ">=" -> v[1] >= threshold * v[2]

PercentileStatistics ==
  [p50 |-> 500, p90 |-> 900, p95 |-> 950, p99 |-> 990, p999 |-> 999]

\* The request's own gap statistic, from its series if it has one, else from
\* its summary (whose domain is part of mean, p50, p95, p99, max); <<>> when
\* the statistic cannot be had from either.
OwnItlStatistic(itl, statistic) ==
  CASE itl.series # <<>> /\ statistic = "mean" -> <<Total(itl.series), Len(itl.series)>>
    [] itl.series # <<>> /\ statistic = "max" -> <<MaxOf(Values(itl.series)), 1>>
    [] itl.series # <<>> /\ statistic \in DOMAIN PercentileStatistics ->
         <<Quantile(itl.series, PercentileStatistics[statistic]), 1000>>
    [] itl.series = <<>> /\ statistic \in DOMAIN itl.summary -> <<itl.summary[statistic], 1>>
    [] OTHER -> <<>>

\* "holds", "fails", or "error" where the code raises SLOError.
Objective(e, o) ==
  LET judge(v) == CASE v = <<>> -> "error"
                    [] v # <<>> /\ Compare(v, o.comparator, o.threshold) -> "holds"
                    [] OTHER -> "fails"
  IN  CASE o.signal \in StallSignals \cup ItlSignals /\ e.itl = None -> "holds"
        [] o.signal \in StallSignals /\ e.itl # None -> judge(<<e.itl.max_stall, 1>>)
        [] o.signal \in ItlSignals /\ e.itl # None ->
             IF e.itl.series = <<>> /\ e.itl.summary = None
             THEN "holds" ELSE judge(OwnItlStatistic(e.itl, o.statistic))
        [] o.signal \in TtftSignals ->
             IF e.ttft = None THEN "fails" ELSE judge(<<e.ttft, 1>>)
        [] o.signal \in E2ESignals -> judge(<<E2E(e), 1>>)
        [] OTHER -> "error"

\* all(...) stops at the first objective that does not hold.
FirstThatFails(judged) ==
  LET bad == {i \in DOMAIN judged : judged[i] # "holds"}
  IN  IF bad = {} THEN "holds" ELSE judged[MinOf(bad)]

Verdict(e, objectives) ==
  FirstThatFails([i \in DOMAIN objectives |-> Objective(e, objectives[i])])

StallBounds(slo) ==
  {slo.objectives[i].threshold : i \in {j \in DOMAIN slo.objectives :
     /\ slo.objectives[j].signal \in StallSignals
     /\ slo.objectives[j].comparator \in {"<", "<="}}}

OfferedVariant(pool) == {x \in DOMAIN pool : ~pool[x].shed}

\* The denominator of the ratio and of the shed rate: every status counts.
Offered(pool) == DOMAIN pool

\* The figures, from the verdict on each successful event.
GoodputFrom(pool, slo, window, verdicts) ==
  LET count(S) == Cardinality(S)
      streaming == {x \in DOMAIN pool : pool[x].itl # None}
      stalled == {x \in streaming : pool[x].itl.max_stall > MinOf(StallBounds(slo))}
      meeting == {x \in DOMAIN verdicts : verdicts[x] = "holds"}
      shed == {x \in DOMAIN pool : pool[x].shed \/ pool[x].status = "shed"}
  IN  IF \/ DOMAIN pool = {} \/ window <= 0 \/ StallBounds(slo) = {}
         \/ \E x \in DOMAIN verdicts : verdicts[x] = "error"
      THEN Refuse("SLOError")
      ELSE Ok([slo |-> slo.slo_id,
               per_second |-> <<count(meeting), window>>,
               ratio |-> <<count(meeting), count(Offered(pool))>>,
               shed_rate |-> <<count(shed), count(Offered(pool))>>,
               stall_rate |-> IF streaming = {} THEN <<0, 1>>
                              ELSE <<count(stalled), count(streaming)>>,
               stall_threshold |-> MinOf(StallBounds(slo)),
               counts |-> <<count(meeting), count(Offered(pool)),
                            count(stalled), count(streaming)>>])

\* `pool` maps the names of the measured events to the events.
Goodput(pool, slo, window) ==
  GoodputFrom(pool, slo, window,
              [x \in {y \in DOMAIN pool : pool[y].status = "ok"} |->
                 Verdict(pool[x], slo.objectives)])

-----------------------------------------------------------------------------
(* Cost.  A figure is <<dollars * time units, divisor>>, the fixed factors  *)
(* (3600, a million) left out.                                             *)

Matching(inputs) ==
  {i \in DOMAIN inputs.rates :
     /\ inputs.rates[i].hardware = inputs.hardware
     /\ inputs.pricing = None \/ inputs.rates[i].pricing = inputs.pricing
     /\ inputs.region = None \/ inputs.rates[i].region = inputs.region}

Unavailable(reason) == Ok([available |-> FALSE, reason |-> reason])

ComputeCost(inputs, window, ok_count, total_tokens, output_tokens) ==
  LET rate == inputs.rates[CHOOSE i \in Matching(inputs) : TRUE]
      window_cost == rate.usd * window
  IN  CASE inputs = None -> Unavailable("no-profile")
        [] inputs # None /\ (window <= 0 \/ Cardinality(Matching(inputs)) # 1) -> Refuse("CostError")
        [] inputs # None /\ ok_count <= 0 -> Unavailable("no-success")
        [] inputs # None /\ total_tokens <= 0 -> Unavailable("no-tokens")
        [] OTHER -> Ok([available |-> TRUE,
                        per_request |-> <<window_cost, ok_count>>,
                        per_token |-> <<window_cost, total_tokens>>,
                        per_output_token |-> IF output_tokens > 0
                                             THEN <<window_cost, output_tokens>> ELSE None,
                        provenance |-> rate.provenance])

=============================================================================
