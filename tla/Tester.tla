------------------------------- MODULE Tester -------------------------------
(***************************************************************************)
(* The tester's decisions (agents/tester): what one probe makes of a       *)
(* Prometheus answer, the distribution kept per metric, and the comparison *)
(* of verify with baseline.  Detection puts them in the order the loop     *)
(* asks for them.                                                          *)
(***************************************************************************)
EXTENDS Integers, Ranking

CONSTANT NaN   \* the float that compares false with everything

-----------------------------------------------------------------------------
(* Probes.  A probe is [name, metric, kind, lo, hi]; an answer is a vector *)
(* of values (an integer or NaN), or a failure of the query.               *)

\* _aggregate: the sum, and NaN is contagious.
Total(values) == IF NaN \in ToSet(values) THEN NaN ELSE SumOf(values)

\* _check_expectation; a comparison with NaN is false.
Meets(p, v) ==
    CASE p.kind = "result_not_empty" -> TRUE
      [] p.kind = "value_below" -> v # NaN /\ v < p.hi
      [] p.kind = "value_above" -> v # NaN /\ v > p.lo
      [] p.kind = "value_between" -> v # NaN /\ p.lo <= v /\ v <= p.hi
      [] OTHER -> FALSE

\* evaluate_probe: a PromQueryError and an empty vector fail the probe.
EvaluateProbe_emptyOk(p, ans) ==
    IF ans.form # "vector" THEN [samples |-> <<>>, passed |-> FALSE]
    ELSE IF ans.values = <<>> THEN [samples |-> <<>>, passed |-> TRUE]
    ELSE [samples |-> <<Total(ans.values)>>, passed |-> Meets(p, Total(ans.values))]
EvaluateProbe(p, ans) ==
    IF ans.form # "vector" \/ ans.values = <<>> THEN [samples |-> <<>>, passed |-> FALSE]
    ELSE [samples |-> <<Total(ans.values)>>, passed |-> Meets(p, Total(ans.values))]

-----------------------------------------------------------------------------
(* Distributions.  from_samples keeps mean and (population) deviation; n   *)
(* times the mean is the sum, and n squared times the variance is          *)
(* n * (sum of squares) - sum * sum, which keeps everything in integers.   *)

Distribution(metric, values) == [metric |-> metric, values |-> values]
Sum(d) == Total(d.values)
Spread(d) == LET n == Len(d.values)
             IN  n * SumOf([k \in 1 .. n |-> d.values[k] * d.values[k]]) - Sum(d) * Sum(d)

\* More than three deviations from the baseline's mean.  A baseline without
\* dispersion is skipped; with a NaN on either side z is NaN, never above 3.
Shifted_noSquare(d, base) ==
    LET m == Len(d.values) n == Len(base.values)
    IN  /\ Sum(d) # NaN /\ Sum(base) # NaN /\ Spread(base) # 0
        /\ (Sum(d) * n - Sum(base) * m) * (Sum(d) * n - Sum(base) * m) > 9 * m * m * Spread(base) * Spread(base)
Shifted(d, base) ==
    LET m == Len(d.values) n == Len(base.values) diff == Sum(d) * n - Sum(base) * m
    IN  /\ Sum(d) # NaN /\ Sum(base) # NaN /\ Spread(base) # 0
        /\ diff * diff > 9 * m * m * Spread(base)

\* _compare_to_baseline: by_metric keeps the last distribution of a metric.
\* The distributions of a report are given by the position of their probe.
Anomalous(d, baseline) ==
    LET same == {j \in DOMAIN baseline : baseline[j].metric = d.metric}
    IN  \E k \in same : (\A j \in same : j <= k) /\ Shifted(d, baseline[k])

\* What _run_probes makes of the answers to every run of every probe, in
\* order; "runs" answers belong to each probe.
ProbeRuns(probes, runs, answers, i) ==
    [k \in 1 .. runs |-> EvaluateProbe(probes[i], answers[(i - 1) * runs + k])]
Values(probes, runs, answers, i) ==
    FlattenSeq([k \in 1 .. runs |-> ProbeRuns(probes, runs, answers, i)[k].samples])
Samples(probes, runs, answers) ==
    [i \in {j \in DOMAIN probes : Values(probes, runs, answers, j) # <<>>} |->
       Distribution(probes[i].metric, Values(probes, runs, answers, i))]

RunReport(probes, runs, answers, baseline) ==
    LET samples == Samples(probes, runs, answers)
        failed == {probes[i].name : i \in {j \in DOMAIN probes :
                     \E k \in 1 .. runs : ~ProbeRuns(probes, runs, answers, j)[k].passed}}
        shifted == {samples[i].metric : i \in {j \in DOMAIN samples : Anomalous(samples[j], baseline)}}
    IN  [made |-> TRUE, steady |-> failed = {} /\ shifted = {}, samples |-> samples,
         failed |-> failed, shifted |-> shifted]

\* No probe set for the target: reported, not raised.
NoProbes == [made |-> TRUE, steady |-> FALSE, samples |-> <<>>, failed |-> {}, shifted |-> {}]

\* The tester has not reported (the record has no report).
NoReport == [NoProbes EXCEPT !.made = FALSE]
=============================================================================
