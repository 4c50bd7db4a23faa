------------------------------- MODULE Oracles -------------------------------
(***************************************************************************)
(* The three regression oracles (regression/oracles) and the comparison    *)
(* of baselines with goldens (regression/drift.py), as functions of what   *)
(* was observed.  An observation gives every journey, command and metric   *)
(* of the target its state: a journey has a SpecState, a command passed or *)
(* failed, a metric the value of the percentile its threshold reads, or    *)
(* None when the query returns no points.                                  *)
(*                                                                         *)
(* Each is named by a pair: a journey <<file, title>>, a command           *)
(* <<"command", name>>, a metric <<"metric", name>>.  A scenario is a      *)
(* record with its oracle kind and the fields that kind reads.             *)
(***************************************************************************)
EXTENDS Integers, Sequences, FiniteSets, Functions

CONSTANTS
    None,
    Occurs  \* <<title, journey>>: the title occurs in the full title of the journey

\* "flaky": a first result failed and a retry passed.
SpecStates == {"passed", "failed", "flaky", "skipped"}

\* --grep with the escaped titles of the asserted journeys, not anchored:
\* whatever such a title occurs in runs, in any file; no asserted journey, no
\* --grep.  A grep in the scenario's oracle_config (here the journeys it
\* matches) takes its place.
Grepped(scn, signals) ==
    {j \in signals :
        /\ j[1] \notin {"command", "metric"}
        /\ IF "grep" \in DOMAIN scn THEN j \in scn.grep
           ELSE \/ scn.journeys = {}
                \/ \E a \in scn.journeys : j[2] = a[2] \/ <<a[2], j>> \in Occurs}

\* The signals that a scenario's oracle looks at.
Watched(scn, signals) ==
    CASE scn.oracle = "playwright" -> Grepped(scn, signals)
      [] scn.oracle = "command" -> {scn.command}
      [] scn.oracle = "metric" -> {t.metric : t \in scn.thresholds}

\* parse_playwright_json and the quarantine of _run_suite.  One failing
\* result is enough, a retry that passes does not help; skipped is neither.
SuiteResult(scn, obs) ==
    LET ran == {j \in DOMAIN obs : obs[j] # "skipped"} \ scn.quarantine
        failed == {j \in ran : obs[j] \in {"failed", "flaky"}}
    IN  [passed |-> ran \ failed, failed |-> failed]

\* _sample_all: a query without points leaves no sample.
Samples(scn, obs) ==
    Restrict(obs, {m \in DOMAIN obs : obs[m] # None})

\* What an oracle's run sees.  A dry run answers for Playwright and for
\* metrics; the command oracle runs its command regardless.
Reading(scn, obs, dry) ==
    CASE scn.oracle = "playwright" ->
           IF dry THEN [passed |-> scn.journeys, failed |-> {}] ELSE SuiteResult(scn, obs)
      [] scn.oracle = "command" -> obs[scn.command] = "passed"
      [] scn.oracle = "metric" ->
           IF dry THEN [m \in DOMAIN obs |-> 100] ELSE Samples(scn, obs)

-----------------------------------------------------------------------------
(* verify: a VerifyResult with the evidence that the suite reads. *)

Verified(newly, unassessable, green, metrics) ==
    [passed |-> newly = {}, newly |-> newly, unassessable |-> unassessable,
     green |-> green, metrics |-> metrics]

\* compare_metric; max_ratio is in tenths.
CompareMetric(t, golden, current) ==
    /\ golden > t.floor
    /\ IF t.worse = "higher" THEN 10 * current > golden * t.ratio
                             ELSE t.ratio * current < golden * 10

\* The thresholds whose metric both sides have, and that moved too far.
MovedMetrics(thresholds, golden, current) ==
    {t.metric : t \in {u \in thresholds :
        /\ u.metric \in DOMAIN golden \intersect DOMAIN current
        /\ CompareMetric(u, golden[u.metric], current[u.metric])}}

\* Every asserted journey that ran at baseline was red: nothing to assess,
\* and the second run is skipped.
PlaywrightVerify(scn, base, now) ==
    LET broken == /\ scn.journeys \intersect base.passed = {}
                  /\ scn.journeys \intersect base.failed # {}
    IN  Verified(IF broken THEN {} ELSE base.passed \intersect now.failed,
                 broken, base.passed, <<>>)

CommandVerify(scn, base, now) ==
    Verified(IF base /\ ~now THEN {scn.command} ELSE {},
             ~base, IF base THEN {scn.command} ELSE {}, <<>>)

MetricVerify(scn, base, now) ==
    LET empty == DOMAIN base = {}
    IN  Verified(IF empty THEN {} ELSE MovedMetrics(scn.thresholds, base, now),
                 empty, {}, base)

OracleVerify(scn, base, now) ==
    CASE scn.oracle = "playwright" -> PlaywrightVerify(scn, base, now)
      [] scn.oracle = "command" -> CommandVerify(scn, base, now)
      [] scn.oracle = "metric" -> MetricVerify(scn, base, now)

-----------------------------------------------------------------------------
(* Drift against a golden [green, metrics]. *)

Trustworthy == {"pass", "regressed"}

NotCompared(unassessed, missing) ==
    [unassessed |-> unassessed, missing |-> missing, regressed |-> {}, recovered |-> {}, moved |-> {}]

\* drift_report for one scenario: its verdict, and its golden or None.
ScenarioDrift(verdict, golden) ==
    IF verdict.outcome \notin Trustworthy THEN NotCompared(TRUE, FALSE)
    ELSE IF golden = None THEN NotCompared(FALSE, TRUE)
    ELSE [unassessed |-> FALSE, missing |-> FALSE,
          regressed |-> golden.green \ verdict.result.green,
          recovered |-> verdict.result.green \ golden.green,
          moved |-> MovedMetrics(verdict.scn.thresholds, golden.metrics, verdict.result.metrics)]
Drifted(d) == d.regressed # {} \/ d.moved # {}
=============================================================================
