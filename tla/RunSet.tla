------------------------------- MODULE RunSet -------------------------------
(***************************************************************************)
(* Recorded runs as the analysis sees them: events.py (loading, pooling)   *)
(* and warmup.py.  Times are integers.  A run is a manifest and the events *)
(* of its file by line; an event of a run set is named by the pair         *)
(* <<run, line>>, so that pools of equal samples stay pools.               *)
(***************************************************************************)
EXTENDS Integers, Sequences, FiniteSets, Functions

CONSTANT None

Ok(v) == [error |-> "none", value |-> v]
Refuse(e) == [error |-> e]

MinOf(S) == CHOOSE x \in S : \A y \in S : x <= y
MaxOf(S) == CHOOSE x \in S : \A y \in S : x >= y

-----------------------------------------------------------------------------
(* One run directory, as load_run finds it.  A file is "absent", "torn"    *)
(* (cut short by a crash), "invalid" (against its schema) or "valid"; a    *)
(* line of the events file is "blank", "torn", "invalid" or an "event".    *)
(* The run keeps the path it was loaded from.                              *)

Acceptable(line, m) ==
  \/ line.kind = "blank"
  \/ /\ line.kind = "event"
     /\ line.event.run_id = m.run_id
     /\ line.event.repetition <= m.repetitions

\* A run's events, by line number.
EventsOf(lines) ==
  [i \in {j \in DOMAIN lines : lines[j].kind = "event"} |-> lines[i].event]

LoadRun(path, dir) ==
  LET events == EventsOf(dir.lines)
  IN  CASE "absent" \in {dir.manifest_file, dir.events_file} -> Refuse("LoaderError")
        [] dir.manifest_file = "torn" -> Refuse("JSONDecodeError")
        [] \/ dir.manifest_file = "invalid"
           \/ \E i \in DOMAIN dir.lines : ~Acceptable(dir.lines[i], dir.manifest)
           \/ DOMAIN events = {} -> Refuse("LoaderError")
        [] OTHER -> Ok([path |-> path, manifest |-> dir.manifest, events |-> events])

E2E(e) == e.end_ts - e.scheduled_send_ts

-----------------------------------------------------------------------------
(* Pooling: every run must agree with the first one on all seven keys.     *)

ComparabilityKeys ==
  {"target_topology", "workload_ref", "engine", "model", "hardware", "gateway", "warm_up"}

PoolableVariant(runs) ==
  \A i \in 2..Len(runs) : \A key \in ComparabilityKeys \ {"warm_up"} :
    runs[1].manifest[key] = runs[i].manifest[key]

Poolable(runs) ==
  \A i \in 2..Len(runs) : \A key \in ComparabilityKeys :
    runs[1].manifest[key] = runs[i].manifest[key]

-----------------------------------------------------------------------------
(* Warm-up: the policy of the first manifest, applied to every repetition  *)
(* of every run in scheduled-send order.  The sort is stable, so events    *)
(* due at the same instant stay in file order.                             *)

Names(runs) == UNION {{i} \X DOMAIN runs[i].events : i \in DOMAIN runs}
EventAt(runs, x) == runs[x[1]].events[x[2]]
RepKey(runs, x) == <<x[1], EventAt(runs, x).repetition>>
Group(runs, key) == {x \in Names(runs) : RepKey(runs, x) = key}

SentBeforeVariant(runs, x, y) == x[2] < y[2]

SentBefore(runs, x, y) ==
  LET sx == EventAt(runs, x).scheduled_send_ts
      sy == EventAt(runs, y).scheduled_send_ts
  IN  sx < sy \/ (sx = sy /\ x[2] < y[2])

\* The index of x in its repetition, counted from 0 in the sorted list.
Position(runs, x) ==
  Cardinality({y \in Group(runs, RepKey(runs, x)) : SentBefore(runs, y, x)})

RepetitionStart(runs, key) ==
  MinOf({EventAt(runs, y).scheduled_send_ts : y \in Group(runs, key)})

\* evs[:n] for discard-requests, a time comparison for discard-duration.
Discarded(runs, x) ==
  LET w == runs[1].manifest.warm_up
      e == EventAt(runs, x)
  IN  CASE w.policy = "discard-requests" -> Position(runs, x) < w.value
        [] w.policy = "discard-duration" ->
             e.scheduled_send_ts - RepetitionStart(runs, RepKey(runs, x)) < w.value
        [] OTHER -> FALSE

Kept(runs) == {x \in Names(runs) : ~Discarded(runs, x)}

RepKeys(runs) == {RepKey(runs, x) : x \in Names(runs)}

\* The WarmupReport: what was cut from each repetition, and what is left.
WarmupReport(runs) ==
  LET cut(key) == Cardinality({x \in Group(runs, key) : Discarded(runs, x)})
  IN  [policy |-> runs[1].manifest.warm_up.policy,
       value |-> runs[1].manifest.warm_up.value,
       excluded |-> [key \in RepKeys(runs) |-> cut(key)],
       excluded_total |-> SumFunction([key \in RepKeys(runs) |-> cut(key)]),
       kept_total |-> Cardinality(Kept(runs))]

ApplyWarmup(runs) ==
  LET w == runs[1].manifest.warm_up
  IN  IF \/ w.policy \notin {"discard-requests", "discard-duration", "none"}
         \/ w.policy # "none" /\ w.value = None
         \/ Kept(runs) = {}
      THEN Refuse("WarmupError")
      ELSE Ok([kept |-> Kept(runs), report |-> WarmupReport(runs)])

\* The validity block's sentence: per-repetition counts only when a policy
\* cut something to count.
HandlingStatement(r) ==
  IF r.policy = "none"
  THEN [policy |-> "none", kept |-> r.kept_total, excluded |-> 0, per_repetition |-> None]
  ELSE [policy |-> r.policy, kept |-> r.kept_total, excluded |-> r.excluded_total,
        per_repetition |-> r.excluded]

=============================================================================
