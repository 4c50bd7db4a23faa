--------------------------- MODULE RegressionSuite ---------------------------
(***************************************************************************)
(* chaos regression: a suite of frozen scenarios is replayed through the   *)
(* experiment loop, each verdict taken from its oracle, the run recorded,  *)
(* its baselines frozen as goldens or compared with earlier ones           *)
(* (regression/suite_runner.py, orchestrator/main.py, store.py, with       *)
(* Oracles and SuiteCoverage).                                             *)
(*                                                                         *)
(* The target lives its own life meanwhile: releases change it, a fault    *)
(* damages what its service carries, damage outlasts the fault and heals.  *)
(* Of the loop, only what decides a verdict is here; ExperimentLoop has    *)
(* the rest.                                                               *)
(***************************************************************************)
EXTENDS Oracles, SuiteCoverage

CONSTANTS
    Suites,          \* the contents the suite file takes over time
    Healthy,         \* the signals of the target and their state at first
    Releases,        \* <<signal, state>> pairs a release may bring about
    Damage,          \* what an injured metric reads
    Path,            \* the services a signal depends on
    FootprintFiles,  \* --footprints files, each a map from journeys to services
    Scopes,          \* --fault options (sets of faults)
    Options,         \* the command lines: [save, against, failOnDrift, dry]
    Costs,           \* what the diagnostician or the fixer may spend
    HardCap,         \* budget.hard_cap_usd of the suite
    MaxInvocations,  \* bound: regression runs
    MaxReleases,     \* bound: releases
    MaxHits          \* bound: signals that one injection injures

\* What a signal may read: a metric may have no points, a command has an exit
\* code, a journey a SpecState.
Signals == DOMAIN Healthy
States(s) ==
    CASE s[1] = "metric" -> Int \union {None}
      [] s[1] = "command" -> {"passed", "failed"}
      [] OTHER -> SpecStates
IsJourney(s) == s[1] \notin {"command", "metric"}

\* A scenario of the suite file as pydantic admits it (max_ratio is above 1,
\* abs_floor not negative); its command can be run and its metrics queried.
Admitted(scn) ==
    /\ scn.oracle \in OracleKind
    /\ scn.oracle = "command" => scn.command \in Signals /\ scn.command[1] = "command"
    /\ scn.oracle = "metric" => \A t \in scn.thresholds :
         /\ t.metric \in Signals /\ t.metric[1] = "metric"
         /\ t.floor \in Nat /\ t.ratio \in Nat /\ t.ratio > 10

ASSUME CostsAssumption == Costs \subseteq Nat /\ HardCap \in Nat /\ None \notin Int
ASSUME TargetAssumption ==
    /\ \A s \in Signals : Healthy[s] \in States(s)
    /\ \A r \in Releases : r[1] \in Signals /\ r[2] \in States(r[1])
    /\ Damage \in Int
ASSUME SuiteAssumption == \A su \in Suites :
    /\ su.scenarios \in Seq(ToSet(su.scenarios))
    /\ \A i \in DOMAIN su.scenarios : Admitted(su.scenarios[i])
    /\ \A j \in su.all_journeys : IsJourney(j)
ASSUME OptionsAssumption == \A o \in Options : o.dry \in BOOLEAN
\* The footprints given are true: they name what a journey depends on.
ASSUME FootprintAssumption ==
    \A fp \in FootprintFiles : \A j \in DOMAIN fp \intersect Signals : Path[j] \subseteq fp[j]

VARIABLES
    suite,      \* the suite file
    target,     \* the state of every signal, as released
    damaged,    \* signals a fault has injured and that have not healed
    pc,         \* "idle", "scenario", or a phase of the current experiment, or
                \* "golden", "drift"
    opts,       \* the options of the current invocation
    spend,      \* the harness of the invocation: what was spent so far
    before,     \* the observation at baseline of the current scenario, or None
    after,      \* the observation at verify, or None
    result,     \* the VerifyResult, or NoResult
    verdicts,   \* of the current or last invocation
    saved,      \* table suite_runs: the run this invocation saved, or none
    goldens,    \* table goldens: <<ref, scenario id>> -> golden
    report,     \* the drift report printed last: one entry per verdict, or None
    exit,       \* the exit code of the last invocation, or None
    matrix,     \* the coverage matrix printed last, or None
    count       \* [invocations, releases], for the bounds

world == <<target, damaged>>
experiment == <<before, after, result>>
output == <<report, exit, matrix>>
vars == <<suite, world, pc, opts, spend, experiment, verdicts, saved, goldens, output, count>>

\* Experiment.verify_result is None: no journey is known to fail or to pass.
NoResult == [passed |-> FALSE, newly |-> {}, unassessable |-> FALSE, green |-> {}, metrics |-> <<>>]

Init ==
    /\ suite \in Suites
    /\ target = Healthy /\ damaged = {}
    /\ pc = "idle" /\ opts = None /\ spend = 0
    /\ before = None /\ after = None /\ result = NoResult
    /\ verdicts = <<>> /\ saved = {} /\ goldens = <<>>
    /\ report = None /\ exit = None /\ matrix = None
    /\ count = [invocations |-> 0, releases |-> 0]

\* What the oracle of a scenario would observe now.
Observed(scn) ==
    [s \in Watched(scn, DOMAIN target) |->
        IF s \notin damaged THEN target[s]
        ELSE IF s[1] = "metric" THEN Damage ELSE "failed"]

-----------------------------------------------------------------------------
(* The target and the suite file.  The target may change at any time; a    *)
(* change is seen by the next observation, so it is made right before one. *)

Release ==
    /\ pc \in {"baseline", "verify"}
    /\ count.releases < MaxReleases /\ count' = [count EXCEPT !.releases = @ + 1]
    /\ \E r \in Releases : target[r[1]] # r[2] /\ target' = [target EXCEPT ![r[1]] = r[2]]
    /\ UNCHANGED <<suite, damaged, pc, opts, spend, experiment, verdicts, saved, goldens, output>>

Heal ==
    /\ pc \in {"baseline", "verify"} /\ damaged # {}
    /\ damaged' = {}
    /\ UNCHANGED <<suite, target, pc, opts, spend, experiment, verdicts, saved, goldens, output, count>>

\* The file is read once per command, so an edit matters between commands;
\* what was printed is about the file as it was, and is forgotten.
Edit ==
    /\ pc = "idle" /\ suite' \in Suites \ {suite}
    /\ verdicts' = <<>> /\ saved' = {} /\ opts' = None
    /\ report' = None /\ exit' = None /\ matrix' = None
    /\ UNCHANGED <<world, pc, spend, experiment, goldens, count>>

\* chaos regression coverage
Coverage ==
    /\ pc = "idle" /\ matrix = None
    /\ \E fp \in FootprintFiles, scope \in Scopes :
         /\ Problems(suite) = {} /\ ~FootprintError(suite, fp)
         /\ matrix' = Matrix(suite, scope, fp)
    /\ UNCHANGED <<suite, world, pc, opts, spend, experiment, verdicts, saved, goldens, report, exit, count>>

-----------------------------------------------------------------------------
(* chaos regression run *)

Scn == suite.scenarios[Len(verdicts) + 1]

\* load_suite refuses a suite with problems; otherwise a new harness.
Start ==
    /\ pc = "idle" /\ count.invocations < MaxInvocations
    /\ count' = [count EXCEPT !.invocations = @ + 1]
    /\ opts' \in Options
    /\ report' = None /\ verdicts' = <<>> /\ matrix' = None
    /\ saved' = {}
    /\ IF Problems(suite) = {} THEN pc' = "scenario" /\ exit' = None
                               ELSE pc' = "idle" /\ exit' = 1
    /\ UNCHANGED <<suite, world, spend, experiment, goldens>>

\* _oracle_for: a kind without a plugin raises, and the invocation with it.
NextScenario ==
    /\ pc = "scenario" /\ Len(verdicts) < Len(suite.scenarios)
    /\ IF Scn.oracle \in OraclePlugins THEN pc' = "baseline" /\ UNCHANGED <<exit, spend>>
                                       ELSE pc' = "idle" /\ exit' = 1 /\ spend' = 0
    /\ UNCHANGED <<suite, world, opts, experiment, verdicts, saved, goldens, report, matrix, count>>

\* _classify: an aborted experiment is an error, whatever its oracle said.
OfAborted(reason) == IF reason = "baseline_unhealthy" THEN "baseline_fail" ELSE "error"
Classify_lenient(state, reason, res) ==
    IF state = "aborted" THEN OfAborted(reason)
    ELSE IF res.passed THEN "pass" ELSE "regressed"
Classify(state, reason, res) ==
    IF state = "aborted" THEN OfAborted(reason)
    ELSE IF res.unassessable THEN "baseline_fail"
    ELSE IF res.passed THEN "pass" ELSE "regressed"

\* The verdict of an experiment that ends.  The scenario stands for its id,
\* title and fault; before, after, dry, hurt and spent are history (what the
\* oracle of a completed experiment observed, which of the newly failing were
\* injured, and what the experiment spent: its agents spend in its last step).
Conclude(verdict) ==
    /\ verdicts' = Append(verdicts, verdict)
    /\ before' = None /\ after' = None /\ result' = NoResult
    /\ pc' = "scenario"
Recorded(b, a, res) ==
    Conclude([scn |-> Scn, outcome |-> Classify("recorded", None, res), reason |-> None,
              result |-> res, before |-> b, after |-> a, dry |-> opts.dry,
              hurt |-> damaged \intersect res.newly, spent |-> spend' - spend])
Aborted(reason, res) ==
    Conclude([scn |-> Scn, outcome |-> Classify("aborted", reason, res), reason |-> reason,
              result |-> res, before |-> None, after |-> None, dry |-> opts.dry,
              hurt |-> damaged \intersect res.newly, spent |-> spend' - spend])

\* _newly_failing
Newly(v) == v.result.newly

\* The baseline phase: the built-in agents, the oracle's capture, the health
\* gate, then the budget gate over the whole invocation's harness.
Baseline ==
    /\ pc = "baseline" /\ spend' = spend
    /\ \/ /\ spend < HardCap
          /\ before' = Observed(Scn) /\ pc' = "inject" /\ UNCHANGED <<after, result, verdicts>>
       \/ spend >= HardCap /\ Aborted("budget_exceeded", NoResult)
       \/ Aborted("baseline_unhealthy", NoResult)
    /\ UNCHANGED <<suite, world, opts, saved, goldens, output, count>>

\* A fault reaches the signals that depend on what it aims at; an empty
\* selector aims at everything.
Aimed(scn, s) == scn.fault.targets = {} \/ scn.fault.targets \intersect Path[s] # {}

\* chaos.execute: the fault is applied, injures some of them, and is deleted
\* when its duration is over, before execute returns.
Inject ==
    /\ pc = "inject" /\ pc' = "verify"
    /\ \E hit \in SUBSET {s \in DOMAIN target : Aimed(Scn, s)} :
         /\ Cardinality(hit) <= MaxHits
         /\ damaged' = damaged \union hit
    /\ UNCHANGED <<suite, target, opts, spend, experiment, verdicts, saved, goldens, output, count>>

\* The verify phase.  The oracle's result and the built-in signals decide
\* whether the loop goes on to diagnose.
Verify ==
    /\ pc = "verify" /\ spend' = spend
    /\ LET now == Observed(Scn)
           res == OracleVerify(Scn, Reading(Scn, before, opts.dry), Reading(Scn, now, opts.dry))
       IN  \E builtin \in BOOLEAN :
             \/ ~builtin /\ (res.passed \/ spend < HardCap) /\ Recorded(before, now, res)
             \/ (builtin \/ ~res.passed) /\ spend >= HardCap /\ Aborted("budget_exceeded", res)
             \/ /\ builtin /\ spend < HardCap /\ pc' = "diagnose"
                /\ after' = now /\ result' = res /\ UNCHANGED <<before, verdicts>>
    /\ UNCHANGED <<suite, world, opts, saved, goldens, output, count>>

\* Diagnostician and, if the budget allows, fixer.
Diagnose ==
    /\ pc = "diagnose"
    /\ \E c, d \in Costs :
         IF spend + c >= HardCap THEN spend' = spend + c /\ Aborted("budget_exceeded", result)
                                 ELSE spend' = spend + c + d /\ Recorded(before, after, result)
    /\ UNCHANGED <<suite, world, opts, saved, goldens, output, count>>

\* Everything else that ends an experiment early: a safety gate, an operator,
\* an oracle or an agent that raises, an injection that fails (what that leaves
\* in the cluster is Injection's subject; here its damage stays until it heals).
Abort ==
    /\ pc \in {"baseline", "inject", "verify", "diagnose"}
    /\ \E c \in Costs \union {0} : (pc = "diagnose" \/ c = 0) /\ spend' = spend + c
    /\ Aborted("other", result)
    /\ UNCHANGED <<suite, world, opts, saved, goldens, output, count>>

\* All verdicts are in: one record, saved at the end.  Of the record only
\* the scenarios of the suite and those with a verdict are kept here.
RunRecord == [scenarios |-> suite.scenarios,
              verdicts |-> [i \in DOMAIN verdicts |-> verdicts[i].scn]]
SaveRun ==
    /\ pc = "scenario" /\ Len(verdicts) = Len(suite.scenarios)
    /\ saved' = {RunRecord}
    /\ pc' = "golden"
    /\ UNCHANGED <<suite, world, opts, spend, experiment, verdicts, goldens, output, count>>

\* goldens_from_run and save_goldens: an upsert of the trustworthy ones.
GoldenOf(v) ==
    [green |-> v.result.green, metrics |-> v.result.metrics,
     from |-> [scn |-> v.scn, before |-> v.before, dry |-> v.dry]]
IdAt(i) == ScenarioId(verdicts[i].scn)
\* The last of the verdicts at the places in good that have this id.
LastOf(good, id) == CHOOSE i \in good : IdAt(i) = id /\ \A j \in good : IdAt(j) = id => j <= i
Frozen(good) ==
    [k \in {<<opts.save, IdAt(i)>> : i \in good} |-> GoldenOf(verdicts[LastOf(good, k[2])])]
GoldensFromRun_all ==
    Frozen({i \in DOMAIN verdicts : verdicts[i].result # NoResult /\ verdicts[i].outcome # "error"})
GoldensFromRun == Frozen({i \in DOMAIN verdicts : verdicts[i].outcome \in Trustworthy})
Upsert(new, old) ==
    [k \in DOMAIN new \union DOMAIN old |-> IF k \in DOMAIN new THEN new[k] ELSE old[k]]
SaveGolden ==
    /\ pc = "golden" /\ pc' = "drift"
    /\ goldens' = IF opts.save = None THEN goldens ELSE Upsert(GoldensFromRun, goldens)
    /\ UNCHANGED <<suite, world, opts, spend, experiment, verdicts, saved, output, count>>

\* load_goldens, drift_report and the exit code.
GoldenFor(id) == LET k == <<opts.against, id>> IN IF k \in DOMAIN goldens THEN goldens[k] ELSE None
DriftReport ==
    IF opts.against = None \/ ~\E k \in DOMAIN goldens : k[1] = opts.against THEN None
    ELSE [i \in DOMAIN verdicts |->
            ScenarioDrift(verdicts[i], GoldenFor(ScenarioId(verdicts[i].scn)))]
ExitCode_driftGates(drift) ==
    IF IF opts.failOnDrift THEN drift # None /\ \E i \in DOMAIN drift : Drifted(drift[i])
       ELSE \E i \in DOMAIN verdicts : verdicts[i].outcome = "regressed"
    THEN 1 ELSE 0
ExitCode(drift) ==
    IF \/ \E i \in DOMAIN verdicts : verdicts[i].outcome = "regressed"
       \/ opts.failOnDrift /\ drift # None /\ \E i \in DOMAIN drift : Drifted(drift[i])
    THEN 1 ELSE 0
Report ==
    /\ pc = "drift" /\ pc' = "idle"
    /\ report' = DriftReport
    /\ exit' = ExitCode(report') /\ spend' = 0
    /\ UNCHANGED <<suite, world, opts, experiment, verdicts, saved, goldens, matrix, count>>

\* The process is killed, interrupted, or a store operation raises.
Die ==
    /\ pc # "idle" /\ pc' = "idle" /\ exit' = 1
    /\ opts' = None /\ spend' = 0 /\ verdicts' = <<>> /\ saved' = {}
    /\ before' = None /\ after' = None /\ result' = NoResult
    /\ UNCHANGED <<suite, target, damaged, goldens, report, matrix, count>>

Next == Release \/ Heal \/ Edit \/ Coverage \/ Start \/ NextScenario \/ Baseline \/ Inject
          \/ Verify \/ Diagnose \/ Abort \/ SaveRun \/ SaveGolden \/ Report \/ Die
Spec == Init /\ [][Next]_vars

-----------------------------------------------------------------------------
(* Properties. *)

Red == {"failed", "flaky"}

\* The journeys, or the command, whose failure a scenario is there to notice.
Asserted(scn) ==
    CASE scn.oracle = "playwright" -> scn.journeys \ scn.quarantine
      [] scn.oracle = "command" -> {scn.command}
      [] scn.oracle = "metric" -> {}

\* A journey or command of the scenario that worked at baseline and not at
\* verify, as the target really was.
Broke(v) == {s \in Asserted(v.scn) \intersect DOMAIN v.before : v.before[s] = "passed" /\ v.after[s] \in Red}

\* A verdict is about what happened in its own scenario.  What a regressed one
\* lists worked at baseline and not at verify (a metric: was sampled twice and
\* moved); a passing one lost nothing that it asserts, and its asserted
\* journeys were not all red to begin with (oracles/playwright.py, command.py,
\* metric.py, suite_runner.py _classify).  Of a passing metric scenario nothing
\* is said: a metric that has no points at verify passes.
VerdictJustified ==
    \A i \in DOMAIN verdicts :
        LET v == verdicts[i]
        IN  /\ v.outcome = "regressed" =>
                 /\ Newly(v) # {}
                 /\ \A s \in Newly(v) :
                      IF s[1] = "metric"
                      THEN None \notin {v.before[s], v.after[s]} /\ v.before[s] # v.after[s]
                      ELSE v.before[s] = "passed" /\ v.after[s] \in Red
            /\ v.outcome = "pass" /\ ~v.dry =>
                 /\ Broke(v) = {}
                 /\ v.scn.oracle = "playwright" =>
                      \E j \in v.scn.journeys :
                          j \in DOMAIN v.before \ v.scn.quarantine => v.before[j] \notin Red

\* A golden is a steady state that was really seen by a scenario of that id:
\* its journeys passed at the baseline it was taken from, and it is empty only
\* where no journey the scenario asserts was red (drift.py goldens_from_run:
\* "a poisoned golden would silently blind drift detection").  A golden of a dry
\* run, which the code also stores, is exempt: its journeys were never run.
GoldenTrustworthy ==
    \A k \in DOMAIN goldens :
        LET g == goldens[k]
        IN  /\ ScenarioId(g.from.scn) = k[2]
            /\ ~g.from.dry =>
                 /\ \A s \in g.green : g.from.before[s] = "passed"
                 /\ g.green = {} /\ DOMAIN g.metrics = {} =>
                      \A s \in Asserted(g.from.scn) \intersect DOMAIN g.from.before :
                          g.from.before[s] \notin Red

Unpinned(scn) == "pinned" \notin DOMAIN scn

\* The drift axis cannot tell such a journey from a red one: it is skipped,
\* quarantined or not run at this baseline.
NotMeasured(v, s) == s \notin DOMAIN v.before \ v.scn.quarantine \/ v.before[s] = "skipped"

\* Both baselines have a sample of the threshold's metric.
Sampled(t, then, now) ==
    /\ t.metric \in DOMAIN then \intersect DOMAIN now
    /\ None \notin {then[t.metric], now[t.metric]}

\* Drift is reported for what changed between the golden's baseline and this
\* one, under edits and reordering of the suite in between, and is not missed
\* in a scenario that is assessed (drift.py drift_report, compare_metrics,
\* scenario.py _stable_scenario_id).  A journey called regressed passed then,
\* and now is red or was not measured at all - the second is where the code
\* departs from docs/REGRESSION.md ("green in the golden, red at baseline
\* now"): it reports every journey that is no longer seen to pass.  One that
\* passed then and is red now is reported.  A metric that moved went from above
\* its floor in the worse direction between two samples, and one that passed
\* its ratio is reported.
DriftHonest ==
    report # None =>
        \A i \in DOMAIN report :
            LET v == verdicts[i]
                g == goldens[<<opts.against, ScenarioId(v.scn)>>]
                then == g.from.before
            IN  ~report[i].missing /\ ~report[i].unassessed /\ ~g.from.dry /\ ~v.dry =>
                  /\ Unpinned(g.from.scn) /\ Unpinned(v.scn) => g.from.scn.title = v.scn.title
                  /\ \A s \in report[i].regressed :
                       then[s] = "passed" /\ (NotMeasured(v, s) \/ v.before[s] \in Red)
                  /\ \A s \in g.green : ~NotMeasured(v, s) /\ v.before[s] \in Red => s \in report[i].regressed
                  /\ \A m \in report[i].moved : \E t \in v.scn.thresholds :
                       /\ t.metric = m /\ Sampled(t, then, v.before) /\ then[m] > t.floor
                       /\ IF t.worse = "higher" THEN v.before[m] > then[m] ELSE v.before[m] < then[m]
                  /\ v.scn.oracle = "metric" /\ g.from.scn.oracle = "metric" =>
                       \A t \in v.scn.thresholds :
                           /\ Sampled(t, then, v.before)
                           /\ CompareMetric(t, then[t.metric], v.before[t.metric])
                           => t.metric \in report[i].moved

\* What exit code 0 lets a pipeline conclude: the stored run has a verdict for
\* every scenario of the suite, in order, whatever was aborted on the way;
\* nothing that a scenario asserts broke, except where the experiment was
\* aborted or its baseline was already broken; and with --fail-on-drift no
\* journey that passed at the golden's baseline is red in a scenario that was
\* assessed (main.py regression_run_cmd, suite_runner.py run).
GateHonest ==
    pc = "idle" /\ exit = 0 =>
        /\ \E run \in saved : run.verdicts = run.scenarios
        /\ \A i \in DOMAIN verdicts :
             LET v == verdicts[i]
             IN  /\ ~v.dry /\ v.outcome \notin {"error", "baseline_fail"} => Broke(v) = {}
                 /\ opts.failOnDrift /\ report # None /\ ~v.dry =>
                      \/ report[i].unassessed \/ report[i].missing
                      \/ \A s \in goldens[<<opts.against, ScenarioId(v.scn)>>].green :
                           s \in DOMAIN v.before => v.before[s] \notin Red

\* "The suite budget applies per scenario" (suite_runner.py _plan_for): a
\* scenario that is aborted because the budget is exceeded has itself spent the
\* hard cap.  It does not hold: the scenarios share one harness
\* (suite_runner.py with_agents), whose total the budget gate reads.
BudgetPerScenario ==
    \A i \in DOMAIN verdicts :
        verdicts[i].reason = "budget_exceeded" => verdicts[i].spent >= HardCap

\* A cell is never "na" for a journey that a scenario of the suite has broken
\* with that fault, when the footprints are true (coverage.py _cell,
\* relevance.py: "the worst error this tool can make") - unless the scenario
\* aims at everything and another one aims the same fault at something, which
\* hides it.
NaSound ==
    matrix # None =>
        \A i \in DOMAIN verdicts :
            LET scn == verdicts[i].scn
                hidden == scn.fault.targets = {} /\ FaultTargets(suite, scn.fault.name) # {}
            IN  ~hidden =>
                  \A s \in verdicts[i].hurt :
                      LET cell == <<scn.fault.name, s>>
                      IN  cell \in DOMAIN matrix => matrix[cell] # "na"
=============================================================================
