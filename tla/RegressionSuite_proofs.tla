------------------------ MODULE RegressionSuite_proofs ------------------------
(***************************************************************************)
(* The regression suite, for all suites, targets, releases, options and    *)
(* any number of invocations.                                              *)
(*                                                                         *)
(* What a verdict, a golden, a drift report, the exit code and a coverage  *)
(* cell say is about a target that changes all the time, and each is       *)
(* computed from another one.  The argument goes the same way: lemmas say  *)
(* what each oracle's result means for the two observations it was made    *)
(* from; the invariant says that every verdict on the table was made from  *)
(* two observations of its own scenario, that every golden is the baseline *)
(* of such a verdict, and that a report and an exit code are about the     *)
(* verdicts and goldens that are still there.                              *)
(***************************************************************************)
EXTENDS RegressionSuite, WellFoundedInduction, TLAPS

Phases == {"baseline", "inject", "verify", "diagnose"}

\* A scenario that is started: admitted, with an oracle, asserting something.
Runnable(scn) == Admitted(scn) /\ scn.oracle \in OraclePlugins /\ scn.journeys # {}

\* obs is what the scenario's oracle looks at, each signal in a state of its own.
Observation(scn, obs) ==
    DOMAIN obs = Watched(scn, Signals) /\ \A s \in DOMAIN obs : obs[s] \in States(s)

\* res is the oracle's result for the observations b and a.
Judged(scn, b, a, dry, res) ==
    /\ Observation(scn, b) /\ Observation(scn, a)
    /\ res = OracleVerify(scn, Reading(scn, b, dry), Reading(scn, a, dry))

\* A signal moved between two observations the way a regression does.
Worse(s, b, a) ==
    /\ s \in DOMAIN b
    /\ IF s[1] = "metric" THEN None \notin {b[s], a[s]} /\ b[s] # a[s]
                          ELSE b[s] = "passed" /\ a[s] \in Red

\* The journeys or the command asserted that are observed.
Checked(scn, obs) == Asserted(scn) \intersect DOMAIN obs
-----------------------------------------------------------------------------
(* What the oracles' results mean. *)

LEMMA JourneyStates ==
  ASSUME NEW scn, scn.oracle = "playwright", NEW obs, Observation(scn, obs)
  PROVE  \A j \in DOMAIN obs : IsJourney(j) /\ obs[j] \in SpecStates
<1>1. DOMAIN obs = Grepped(scn, Signals)
  BY DEF Observation, Watched
<1>2. \A j \in DOMAIN obs : IsJourney(j)
  BY <1>1 DEF Grepped, IsJourney
<1>3. \A j \in DOMAIN obs : obs[j] \in States(j)
  BY DEF Observation
<1> QED
  BY <1>2, <1>3 DEF IsJourney, States

\* parse_playwright_json with the quarantine: a journey counts as passed or
\* failed by its state, and not at all when it is skipped or quarantined.
LEMMA SuiteResultMeans ==
  ASSUME NEW scn, scn.oracle = "playwright", NEW obs, Observation(scn, obs)
  PROVE  /\ \A j : j \in SuiteResult(scn, obs).passed <=>
                      j \in DOMAIN obs \ scn.quarantine /\ obs[j] = "passed"
         /\ \A j : j \in SuiteResult(scn, obs).failed <=>
                      j \in DOMAIN obs \ scn.quarantine /\ obs[j] \in Red
<1>1. \A j \in DOMAIN obs : obs[j] \in {"passed", "failed", "flaky", "skipped"}
  BY JourneyStates DEF SpecStates
<1> QED
  BY <1>1 DEF SuiteResult, Red

\* What PlaywrightOracle.verify concludes from two real readings.
LEMMA PlaywrightMeans ==
  ASSUME NEW scn, scn.oracle = "playwright", NEW b, NEW a, NEW res,
         Observation(scn, b), Observation(scn, a),
         res = PlaywrightVerify(scn, SuiteResult(scn, b), SuiteResult(scn, a))
  PROVE  /\ res.passed <=> res.newly = {}
         /\ \A s \in res.newly : Worse(s, b, a) /\ IsJourney(s)
         /\ \A s : s \in res.green <=> s \in DOMAIN b \ scn.quarantine /\ b[s] = "passed"
         /\ ~res.unassessable =>
              /\ \A s \in DOMAIN b \ scn.quarantine :
                    b[s] = "passed" /\ a[s] \in Red /\ s \in DOMAIN a => s \in res.newly
              /\ scn.journeys # {} =>
                    \E j \in scn.journeys : j \in DOMAIN b \ scn.quarantine => b[j] \notin Red
              /\ res.green = {} =>
                    \A s \in scn.journeys : s \in DOMAIN b \ scn.quarantine => b[s] \notin Red
<1> DEFINE B == SuiteResult(scn, b)
           A == SuiteResult(scn, a)
           broken == scn.journeys \intersect B.passed = {} /\ scn.journeys \intersect B.failed # {}
<1>1. /\ \A j : j \in B.passed <=> j \in DOMAIN b \ scn.quarantine /\ b[j] = "passed"
      /\ \A j : j \in B.failed <=> j \in DOMAIN b \ scn.quarantine /\ b[j] \in Red
      /\ \A j : j \in A.failed <=> j \in DOMAIN a \ scn.quarantine /\ a[j] \in Red
      /\ \A j \in DOMAIN b : IsJourney(j)
  BY SuiteResultMeans, JourneyStates
<1> HIDE DEF A, B
<1>2. /\ res.newly = (IF broken THEN {} ELSE B.passed \intersect A.failed)
      /\ res.passed = (res.newly = {})
      /\ res.unassessable = broken
      /\ res.green = B.passed
  BY DEF PlaywrightVerify, Verified, A, B
<1> HIDE DEF broken
<1>3. \A s \in res.newly : s \in B.passed /\ s \in A.failed
  BY <1>2
<1>4. \A s \in res.newly : Worse(s, b, a) /\ IsJourney(s)
  BY <1>1, <1>3 DEF Worse, IsJourney
<1>5. ASSUME ~res.unassessable
      PROVE  \A s \in DOMAIN b \ scn.quarantine :
                b[s] = "passed" /\ a[s] \in Red /\ s \in DOMAIN a => s \in res.newly
  BY <1>1, <1>2, <1>5
<1>6. ASSUME ~res.unassessable, scn.journeys # {}
      PROVE  \E j \in scn.journeys : j \in DOMAIN b \ scn.quarantine => b[j] \notin Red
  <2>1. \/ \E j \in scn.journeys : j \in B.passed
        \/ \A j \in scn.journeys : j \notin B.failed
    BY <1>2, <1>6 DEF broken
  <2>2. CASE \E j \in scn.journeys : j \in B.passed
    BY <1>1, <2>2 DEF Red
  <2>3. CASE \A j \in scn.journeys : j \notin B.failed
    BY <1>1, <1>6, <2>3
  <2> QED
    BY <2>1, <2>2, <2>3
<1>7. ASSUME ~res.unassessable, res.green = {}
      PROVE  \A s \in scn.journeys : s \in DOMAIN b \ scn.quarantine => b[s] \notin Red
  <2>1. \A j \in scn.journeys : j \notin B.failed
    BY <1>2, <1>7 DEF broken
  <2> QED
    BY <1>1, <2>1
<1> QED
  BY <1>1, <1>2, <1>4, <1>5, <1>6, <1>7

\* A dry Playwright run passes and regresses nothing.
LEMMA DryPlaywrightMeans ==
  ASSUME NEW scn, NEW res,
         res = PlaywrightVerify(scn, [passed |-> scn.journeys, failed |-> {}],
                                     [passed |-> scn.journeys, failed |-> {}])
  PROVE  (res.passed <=> res.newly = {}) /\ res.newly = {}
BY DEF PlaywrightVerify, Verified

\* compare_metric: a value that did not move is never a regression, in either
\* direction (max_ratio is above 1 and the floor is not negative).
LEMMA SameValueIsNoRegression ==
  ASSUME NEW t, t.floor \in Nat, t.ratio \in Nat, t.ratio > 10, NEW g \in Int
  PROVE  ~CompareMetric(t, g, g)
<1>1. SUFFICES ASSUME g > t.floor PROVE ~(10 * g > g * t.ratio) /\ ~(t.ratio * g < g * 10)
  BY DEF CompareMetric
<1>2. PICK r \in Nat : r = t.ratio /\ r > 10
  OBVIOUS
<1>3. g > 0
  BY <1>1
<1>4. ~(10 * g > g * r) /\ ~(r * g < g * 10)
  BY <1>2, <1>3
<1> QED
  BY <1>2, <1>4

\* compare_metric: what it flags was above the floor and moved the worse way.
LEMMA MovesAreWorse ==
  ASSUME NEW t, t.floor \in Nat, t.ratio \in Nat, t.ratio > 10, NEW g \in Int, NEW c \in Int,
         CompareMetric(t, g, c)
  PROVE  g > t.floor /\ IF t.worse = "higher" THEN c > g ELSE c < g
<1>1. PICK r \in Nat : r = t.ratio /\ r > 10
  OBVIOUS
<1>2. g > t.floor /\ g > 0
  BY DEF CompareMetric
<1>3. 10 * g < g * r
  BY <1>1, <1>2
<1>4. CASE t.worse = "higher"
  <2>1. 10 * c > g * r
    BY <1>1, <1>4 DEF CompareMetric
  <2>2. g * r \in Int
    BY <1>1
  <2> QED
    BY <1>2, <1>3, <1>4, <2>1, <2>2
<1>5. CASE t.worse # "higher"
  <2>1. r * c < g * 10
    BY <1>1, <1>5 DEF CompareMetric
  <2>2. ASSUME c >= g PROVE FALSE
    <3>1. r * c >= r * g
      BY <1>1, <2>2
    <3> QED
      BY <1>1, <1>3, <2>1, <3>1
  <2> QED
    BY <1>2, <1>5, <2>2
<1> QED
  BY <1>4, <1>5

\* What MetricOracle.verify concludes, from samples or in a dry run.
LEMMA MetricMeans ==
  ASSUME NEW scn, Admitted(scn), scn.oracle = "metric", NEW b, NEW a, NEW dry, NEW res,
         Observation(scn, b), Observation(scn, a),
         res = MetricVerify(scn, Reading(scn, b, dry), Reading(scn, a, dry))
  PROVE  /\ res.passed <=> res.newly = {}
         /\ \A s \in res.newly : Worse(s, b, a) /\ ~IsJourney(s)
         /\ res.green = {}
         /\ \A s \in DOMAIN b : s[1] = "metric"
<1> DEFINE B == Reading(scn, b, dry)
           A == Reading(scn, a, dry)
<1>1. /\ res.passed <=> res.newly = {}
      /\ res.green = {}
      /\ \A s \in res.newly : s \in MovedMetrics(scn.thresholds, B, A)
  BY DEF MetricVerify, Verified
<1>2. DOMAIN b = {t.metric : t \in scn.thresholds} /\ DOMAIN a = DOMAIN b
  BY DEF Observation, Watched
<1>3. \A t \in scn.thresholds :
        t.metric[1] = "metric" /\ t.floor \in Nat /\ t.ratio \in Nat /\ t.ratio > 10
  BY DEF Admitted
<1>4. \A s \in DOMAIN b : s[1] = "metric"
  BY <1>2, <1>3
<1>5. \A s \in DOMAIN b : b[s] \in Int \union {None} /\ a[s] \in Int \union {None}
  BY <1>2, <1>4 DEF Observation, States
<1>6. ASSUME NEW s \in res.newly PROVE Worse(s, b, a) /\ ~IsJourney(s)
  <2>1. PICK t \in scn.thresholds :
            /\ t.metric = s /\ s \in DOMAIN B /\ s \in DOMAIN A
            /\ CompareMetric(t, B[s], A[s])
    <3>1. s \in MovedMetrics(scn.thresholds, B, A)
      BY <1>1, <1>6
    <3> HIDE DEF A, B
    <3> QED
      BY <3>1 DEF MovedMetrics
  <2>2. t.floor \in Nat /\ t.ratio \in Nat /\ t.ratio > 10
    BY <1>3
  <2>3. CASE dry
    <3>1. s \in DOMAIN b /\ s \in DOMAIN a /\ B = [m \in DOMAIN b |-> 100] /\ A = [m \in DOMAIN a |-> 100]
      <4>1. B = [m \in DOMAIN b |-> 100] /\ A = [m \in DOMAIN a |-> 100]
        BY <2>3 DEF Reading
      <4> QED
        BY <2>1, <4>1
    <3>2. CompareMetric(t, 100, 100)
      BY <2>1, <3>1
    <3> QED
      BY <2>2, <3>2, SameValueIsNoRegression
  <2>4. CASE ~dry
    <3>1. B = Samples(scn, b) /\ A = Samples(scn, a)
      BY <2>4 DEF Reading
    <3>2. /\ s \in DOMAIN b /\ b[s] # None /\ B[s] = b[s]
          /\ s \in DOMAIN a /\ a[s] # None /\ A[s] = a[s]
      BY <2>1, <3>1 DEF Samples, Restrict
    <3>3. b[s] \in Int /\ b[s] # a[s]
      <4>1. b[s] \in Int
        BY <1>5, <3>2
      <4> QED
        BY <2>1, <2>2, <3>2, <4>1, SameValueIsNoRegression
    <3> QED
      BY <1>4, <3>2, <3>3 DEF Worse, IsJourney
  <2> QED
    BY <2>3, <2>4
<1> QED
  BY <1>1, <1>4, <1>6

\* What CommandOracle.verify concludes; a dry run makes no difference to it.
LEMMA CommandMeans ==
  ASSUME NEW scn, Admitted(scn), scn.oracle = "command", NEW b, NEW a, NEW dry, NEW res,
         Observation(scn, b), Observation(scn, a),
         res = CommandVerify(scn, Reading(scn, b, dry), Reading(scn, a, dry))
  PROVE  /\ res.passed <=> res.newly = {}
         /\ \A s \in res.newly : Worse(s, b, a) /\ ~IsJourney(s)
         /\ \A s : s \in res.green <=> s \in DOMAIN b /\ b[s] = "passed"
         /\ ~res.unassessable =>
              /\ b[scn.command] = "passed"
              /\ a[scn.command] \in Red => scn.command \in res.newly
              /\ res.green # {}
         /\ DOMAIN b = {scn.command} /\ scn.command[1] = "command"
<1>1. DOMAIN b = {scn.command} /\ DOMAIN a = {scn.command} /\ scn.command[1] = "command"
  BY DEF Observation, Watched, Admitted
<1>2. b[scn.command] \in {"passed", "failed"} /\ a[scn.command] \in {"passed", "failed"}
  BY <1>1 DEF Observation, States
<1>3. /\ Reading(scn, b, dry) = (b[scn.command] = "passed")
      /\ Reading(scn, a, dry) = (a[scn.command] = "passed")
  BY DEF Reading
<1>4. /\ res.newly = (IF b[scn.command] = "passed" /\ ~(a[scn.command] = "passed")
                      THEN {scn.command} ELSE {})
      /\ res.passed = (res.newly = {})
      /\ res.unassessable = ~(b[scn.command] = "passed")
      /\ res.green = IF b[scn.command] = "passed" THEN {scn.command} ELSE {}
  BY <1>3 DEF CommandVerify, Verified
<1>5. \A s \in res.newly : Worse(s, b, a) /\ ~IsJourney(s)
  BY <1>1, <1>2, <1>4 DEF Worse, IsJourney, Red
<1>6. \A s : s \in res.green <=> s \in DOMAIN b /\ b[s] = "passed"
  BY <1>1, <1>4
<1>7. ~res.unassessable => /\ b[scn.command] = "passed"
                           /\ a[scn.command] \in Red => scn.command \in res.newly
                           /\ res.green # {}
  BY <1>2, <1>4 DEF Red
<1> QED
  BY <1>1, <1>4, <1>5, <1>6, <1>7

\* What a result says of the two observations it was made from.
Means(scn, b, a, dry, res) ==
    /\ res.passed <=> res.newly = {}
    /\ \A s \in res.newly : Worse(s, b, a)
    /\ ~dry =>
         /\ \A s \in res.green : s \in DOMAIN b /\ b[s] = "passed" /\ s[1] # "metric"
         /\ \A s \in DOMAIN b \ scn.quarantine :
               b[s] = "passed" /\ s[1] # "metric" => s \in res.green
    /\ ~dry /\ ~res.unassessable =>
         /\ \A s \in Checked(scn, b) : b[s] = "passed" /\ a[s] \in Red => s \in res.newly
         /\ scn.oracle = "playwright" =>
               \E j \in scn.journeys : j \in DOMAIN b \ scn.quarantine => b[j] \notin Red
         /\ res.green = {} => \A s \in Checked(scn, b) : b[s] \notin Red

LEMMA JudgedMeans ==
  ASSUME NEW scn, NEW b, NEW a, NEW dry \in BOOLEAN, NEW res,
         Runnable(scn), Judged(scn, b, a, dry, res)
  PROVE  Means(scn, b, a, dry, res)
<1>1. Observation(scn, b) /\ Observation(scn, a) /\ Admitted(scn) /\ scn.journeys # {}
  BY DEF Judged, Runnable
<1>2. CASE scn.oracle = "playwright" /\ ~dry
  <2>1. res = PlaywrightVerify(scn, SuiteResult(scn, b), SuiteResult(scn, a))
    BY <1>2 DEF Judged, OracleVerify, Reading
  <2>2. /\ res.passed <=> res.newly = {}
        /\ \A s \in res.newly : Worse(s, b, a)
        /\ \A s : s \in res.green <=> s \in DOMAIN b \ scn.quarantine /\ b[s] = "passed"
        /\ ~res.unassessable =>
             /\ \A s \in DOMAIN b \ scn.quarantine :
                   b[s] = "passed" /\ a[s] \in Red /\ s \in DOMAIN a => s \in res.newly
             /\ \E j \in scn.journeys : j \in DOMAIN b \ scn.quarantine => b[j] \notin Red
             /\ res.green = {} =>
                   \A s \in scn.journeys : s \in DOMAIN b \ scn.quarantine => b[s] \notin Red
    BY <1>1, <1>2, <2>1, PlaywrightMeans
  <2>3. \A s \in DOMAIN b : s[1] # "metric"
    BY <1>1, <1>2, JourneyStates DEF IsJourney
  <2>4. DOMAIN a = DOMAIN b
    BY <1>1 DEF Observation
  <2>5. Checked(scn, b) = (scn.journeys \ scn.quarantine) \intersect DOMAIN b
    BY <1>2 DEF Checked, Asserted
  <2> QED
    BY <2>2, <2>3, <2>4, <2>5 DEF Means
<1>3. CASE scn.oracle = "playwright" /\ dry
  <2>1. res = PlaywrightVerify(scn, [passed |-> scn.journeys, failed |-> {}],
                                    [passed |-> scn.journeys, failed |-> {}])
    BY <1>3 DEF Judged, OracleVerify, Reading
  <2>2. (res.passed <=> res.newly = {}) /\ res.newly = {}
    BY <2>1, DryPlaywrightMeans
  <2> QED
    BY <1>3, <2>2 DEF Means
<1>4. CASE scn.oracle = "command"
  <2>1. res = CommandVerify(scn, Reading(scn, b, dry), Reading(scn, a, dry))
    BY <1>4 DEF Judged, OracleVerify
  <2>2. /\ res.passed <=> res.newly = {}
        /\ \A s \in res.newly : Worse(s, b, a)
        /\ \A s : s \in res.green <=> s \in DOMAIN b /\ b[s] = "passed"
        /\ ~res.unassessable =>
             /\ b[scn.command] = "passed"
             /\ a[scn.command] \in Red => scn.command \in res.newly
             /\ res.green # {}
        /\ DOMAIN b = {scn.command} /\ scn.command[1] = "command"
    BY <1>1, <1>4, <2>1, CommandMeans
  <2>3. Checked(scn, b) = {scn.command}
    BY <1>4, <2>2 DEF Checked, Asserted
  <2> QED
    BY <1>4, <2>2, <2>3 DEF Means
<1>5. CASE scn.oracle = "metric"
  <2>1. res = MetricVerify(scn, Reading(scn, b, dry), Reading(scn, a, dry))
    BY <1>5 DEF Judged, OracleVerify
  <2>2. /\ res.passed <=> res.newly = {}
        /\ \A s \in res.newly : Worse(s, b, a)
        /\ res.green = {}
        /\ \A s \in DOMAIN b : s[1] = "metric"
    BY <1>1, <1>5, <2>1, MetricMeans
  <2>3. Checked(scn, b) = {}
    BY <1>5 DEF Checked, Asserted
  <2> QED
    BY <1>5, <2>2, <2>3 DEF Means
<1> QED
  BY <1>2, <1>3, <1>4, <1>5 DEF Runnable, OraclePlugins, OracleKind

-----------------------------------------------------------------------------
(* The invariant. *)

\* A verdict was made from observations of its scenario; what it blames on the
\* fault, the fault was aimed at.
VerdictOK(v) ==
    /\ v.outcome \in {"pass", "regressed", "baseline_fail", "error"}
    /\ v.dry \in BOOLEAN
    /\ v.outcome \in Trustworthy =>
         /\ Runnable(v.scn)
         /\ Judged(v.scn, v.before, v.after, v.dry, v.result)
         /\ ~v.result.unassessable
         /\ v.outcome = "pass" <=> v.result.newly = {}
    /\ \A s \in v.hurt : s \in Signals /\ (IsJourney(s) => Aimed(v.scn, s))

\* The run recorded has a verdict for every scenario.
Complete == \E run \in saved : run.verdicts = run.scenarios

WorldInv ==
    /\ DOMAIN target = Signals
    /\ \A s \in Signals : target[s] \in States(s)
    /\ damaged \subseteq Signals

SuiteInv ==
    /\ suite \in Suites
    /\ pc # "idle" => Problems(suite) = {} /\ opts.dry \in BOOLEAN

PlaceInv ==
    /\ pc \in Phases \union {"idle", "scenario", "golden", "drift"}
    /\ pc # "idle" => Len(verdicts) <= Len(suite.scenarios)
    /\ pc \in Phases => Len(verdicts) < Len(suite.scenarios) /\ Scn.oracle \in OraclePlugins

\* The experiment under way: its baseline was observed, what is injured and
\* was not broken then was injured by its own fault.
ExperimentInv ==
    /\ pc \in {"inject", "verify", "diagnose"} =>
         /\ Observation(Scn, before)
         /\ \A s \in damaged \intersect DOMAIN before :
               IsJourney(s) => Aimed(Scn, s) \/ before[s] = "failed"
    /\ IF pc = "diagnose" THEN Judged(Scn, before, after, opts.dry, result)
                          ELSE result = NoResult

VerdictInv ==
    /\ \E S : verdicts \in Seq(S)
    /\ \A i \in 1..Len(verdicts) :
         /\ i \in 1..Len(suite.scenarios)
         /\ verdicts[i].scn = suite.scenarios[i]
         /\ VerdictOK(verdicts[i])

\* Every golden is the baseline of a trustworthy verdict.
GoldenInv ==
    \A k \in DOMAIN goldens :
        \E v : /\ v.outcome \in Trustworthy /\ VerdictOK(v)
               /\ goldens[k] = GoldenOf(v) /\ ScenarioId(v.scn) = k[2]

\* What was printed is about the verdicts and the goldens that are there.
OutputInv ==
    /\ report # None => pc = "idle" /\ report = DriftReport
    /\ pc \in {"golden", "drift"} => Complete
    /\ pc = "idle" /\ exit = 0 => Complete /\ ExitCode(report) = 0

MatrixInv ==
    matrix # None => \E fp \in FootprintFiles, scope \in Scopes : matrix = Matrix(suite, scope, fp)

RegressionInv ==
    WorldInv /\ SuiteInv /\ PlaceInv /\ ExperimentInv /\ VerdictInv
    /\ GoldenInv /\ OutputInv /\ MatrixInv
-----------------------------------------------------------------------------
(* The steps.  First what they have in common. *)

\* A scenario of a suite without problems.
LEMMA ScenarioRunnable ==
  ASSUME SuiteInv, pc # "idle", NEW i \in 1..Len(suite.scenarios)
  PROVE  /\ Admitted(suite.scenarios[i])
         /\ suite.scenarios[i].journeys # {}
         /\ DOMAIN suite.scenarios = 1..Len(suite.scenarios)
<1>1. suite \in Suites /\ Problems(suite) = {}
  BY DEF SuiteInv
<1>2. suite.scenarios \in Seq(ToSet(suite.scenarios))
  BY <1>1, SuiteAssumption
<1>3. DOMAIN suite.scenarios = 1..Len(suite.scenarios)
  BY <1>2
<1>4. Admitted(suite.scenarios[i])
  BY <1>1, <1>3, SuiteAssumption
<1>5. suite.scenarios[i].journeys # {}
  BY <1>1, <1>3 DEF Problems
<1> QED
  BY <1>3, <1>4, <1>5

LEMMA CurrentRunnable ==
  ASSUME SuiteInv, PlaceInv, VerdictInv, pc \in Phases
  PROVE  Runnable(Scn) /\ Len(verdicts) + 1 \in 1..Len(suite.scenarios)
<1>1. Len(verdicts) \in Nat
  BY DEF VerdictInv
<1>2. Len(suite.scenarios) \in Nat
  <2>1. suite.scenarios \in Seq(ToSet(suite.scenarios))
    BY SuiteAssumption DEF SuiteInv
  <2> QED
    BY <2>1
<1>3. Len(verdicts) + 1 \in 1..Len(suite.scenarios)
  BY <1>1, <1>2 DEF PlaceInv
<1>4. pc # "idle"
  BY DEF Phases
<1> QED
  BY <1>3, <1>4, ScenarioRunnable DEF PlaceInv, Runnable, Scn

\* What an oracle would see now is an observation; an injured journey reads
\* failed.
LEMMA ObservedIsObservation ==
  ASSUME WorldInv, NEW scn, Runnable(scn)
  PROVE  /\ Observation(scn, Observed(scn))
         /\ \A s \in DOMAIN Observed(scn) :
              s \in damaged /\ IsJourney(s) => Observed(scn)[s] = "failed"
<1> DEFINE W == Watched(scn, Signals)
<1>1. W \subseteq Signals
  <2>1. CASE scn.oracle = "playwright"
    BY <2>1 DEF Watched, Grepped
  <2>2. CASE scn.oracle = "command"
    BY <2>2 DEF Watched, Runnable, Admitted
  <2>3. CASE scn.oracle = "metric"
    BY <2>3 DEF Watched, Runnable, Admitted
  <2> QED
    BY <2>1, <2>2, <2>3 DEF Runnable, OraclePlugins, OracleKind
<1> HIDE DEF W
<1>2. Observed(scn) = [s \in W |-> IF s \notin damaged THEN target[s]
                                   ELSE IF s[1] = "metric" THEN Damage ELSE "failed"]
  BY DEF Observed, WorldInv, W
<1>3. DOMAIN Observed(scn) = W
  BY <1>2
<1>4. ASSUME NEW s \in W PROVE Observed(scn)[s] \in States(s)
  <2>1. CASE s \notin damaged
    BY <1>1, <1>2, <2>1 DEF WorldInv
  <2>2. CASE s \in damaged /\ s[1] = "metric"
    BY <1>2, <2>2, TargetAssumption DEF States
  <2>3. CASE s \in damaged /\ s[1] # "metric"
    BY <1>2, <2>3 DEF States, SpecStates
  <2> QED
    BY <2>1, <2>2, <2>3
<1>5. \A s \in W : s \in damaged /\ IsJourney(s) => Observed(scn)[s] = "failed"
  BY <1>2 DEF IsJourney
<1> QED
  BY <1>3, <1>4, <1>5 DEF Observation, W

\* A signal that a result calls newly failing and that is injured now was
\* reached by the fault of the scenario.
LEMMA BlameIsAimed ==
  ASSUME WorldInv, NEW b, NEW a, NEW scn, NEW dry \in BOOLEAN, NEW res,
         Runnable(scn), Judged(scn, b, a, dry, res),
         \A s \in damaged \intersect DOMAIN b : IsJourney(s) => Aimed(scn, s) \/ b[s] = "failed"
  PROVE  \A s \in damaged \intersect res.newly :
            s \in Signals /\ (IsJourney(s) => Aimed(scn, s))
<1>0. Means(scn, b, a, dry, res)
  BY JudgedMeans
<1>1. \A s \in res.newly : Worse(s, b, a)
  BY <1>0 DEF Means
<1>2. \A s \in res.newly : s \in DOMAIN b /\ (IsJourney(s) => b[s] = "passed")
  BY <1>1 DEF Worse, IsJourney
<1> QED
  BY <1>2 DEF WorldInv

\* A verdict more.
LEMMA ConcludeKeeps ==
  ASSUME VerdictInv, PlaceInv, SuiteInv, pc \in Phases, suite' = suite,
         NEW v, v.scn = Scn, VerdictOK(v), verdicts' = Append(verdicts, v), pc' = "scenario"
  PROVE  VerdictInv' /\ PlaceInv'
<1>1. PICK S : verdicts \in Seq(S)
  BY DEF VerdictInv
<1>2. /\ verdicts' \in Seq(S \union {v})
      /\ Len(verdicts') = Len(verdicts) + 1
      /\ \A i \in 1..Len(verdicts) : verdicts'[i] = verdicts[i]
      /\ verdicts'[Len(verdicts) + 1] = v
      /\ Len(verdicts) \in Nat
  <2>1. verdicts \in Seq(S \union {v})
    BY <1>1
  <2> QED
    BY <2>1
<1>3. Len(verdicts) + 1 \in 1..Len(suite.scenarios)
  BY CurrentRunnable
<1>4. ASSUME NEW i \in 1..Len(verdicts')
      PROVE  /\ i \in 1..Len(suite'.scenarios)
             /\ verdicts'[i].scn = suite'.scenarios[i]
             /\ VerdictOK(verdicts'[i])
  <2>1. CASE i \in 1..Len(verdicts)
    BY <1>2, <2>1 DEF VerdictInv
  <2>2. CASE i = Len(verdicts) + 1
    BY <1>2, <1>3, <2>2 DEF Scn
  <2> QED
    BY <1>2, <1>4, <2>1, <2>2
<1>5. VerdictInv'
  BY <1>2, <1>4 DEF VerdictInv
<1>6. PlaceInv'
  BY <1>2, <1>3 DEF PlaceInv, Phases
<1> QED
  BY <1>5, <1>6

\* Within a run nothing touches the suite, the goldens, what was printed.
LEMMA RunKeeps ==
  ASSUME SuiteInv, GoldenInv, OutputInv, MatrixInv, pc # "idle", pc' # "idle",
         pc' \notin {"golden", "drift"}, UNCHANGED <<suite, opts, goldens, report, matrix>>
  PROVE  SuiteInv' /\ GoldenInv' /\ OutputInv' /\ MatrixInv'
<1>1. SuiteInv'
  BY DEF SuiteInv
<1>2. GoldenInv'
  BY DEF GoldenInv
<1>3. OutputInv'
  BY DEF OutputInv
<1>4. MatrixInv'
  BY DEF MatrixInv
<1> QED
  BY <1>1, <1>2, <1>3, <1>4

\* The end of an experiment: a verdict that is right, and nothing left over.
LEMMA ConcludeStep ==
  ASSUME SuiteInv, PlaceInv, VerdictInv, pc \in Phases, suite' = suite,
         NEW v, v.scn = Scn, VerdictOK(v), Conclude(v)
  PROVE  PlaceInv' /\ ExperimentInv' /\ VerdictInv'
<1>1. verdicts' = Append(verdicts, v) /\ pc' = "scenario" /\ result' = NoResult
  BY DEF Conclude
<1>2. VerdictInv' /\ PlaceInv'
  BY <1>1, ConcludeKeeps
<1>3. ExperimentInv'
  BY <1>1 DEF ExperimentInv
<1> QED
  BY <1>2, <1>3

\* The verdict of a completed experiment is what its oracle says.
LEMMA RecordedStep ==
  ASSUME WorldInv, SuiteInv, PlaceInv, VerdictInv, pc \in Phases, suite' = suite,
         NEW b, NEW a, NEW res, Judged(Scn, b, a, opts.dry, res),
         \A s \in damaged \intersect DOMAIN b : IsJourney(s) => Aimed(Scn, s) \/ b[s] = "failed",
         Recorded(b, a, res)
  PROVE  PlaceInv' /\ ExperimentInv' /\ VerdictInv'
<1> DEFINE c == Classify("recorded", None, res)
           v == [scn |-> Scn, outcome |-> c, reason |-> None, result |-> res,
                 before |-> b, after |-> a, dry |-> opts.dry,
                 hurt |-> damaged \intersect res.newly, spent |-> spend' - spend]
<1>1. Runnable(Scn) /\ opts.dry \in BOOLEAN
  BY CurrentRunnable DEF SuiteInv, Phases
<1>2. \A s \in damaged \intersect res.newly : s \in Signals /\ (IsJourney(s) => Aimed(Scn, s))
  BY <1>1, BlameIsAimed
<1>3. Means(Scn, b, a, opts.dry, res)
  BY <1>1, JudgedMeans
<1>4. res.passed <=> res.newly = {}
  BY <1>3 DEF Means
<1>5. /\ c \in {"pass", "regressed", "baseline_fail"}
      /\ c \in Trustworthy => ~res.unassessable /\ (c = "pass" <=> res.newly = {})
  <2>1. CASE res.unassessable
    BY <2>1 DEF Classify, Trustworthy
  <2>2. CASE ~res.unassessable /\ res.newly = {}
    <3>1. res.passed
      BY <1>4, <2>2
    <3> QED
      BY <2>2, <3>1 DEF Classify, Trustworthy
  <2>3. CASE ~res.unassessable /\ res.newly # {}
    <3>1. ~res.passed
      BY <1>4, <2>3
    <3> QED
      BY <2>3, <3>1 DEF Classify, Trustworthy
  <2> QED
    BY <2>1, <2>2, <2>3
<1> HIDE DEF c
<1>6. VerdictOK(v)
  BY <1>1, <1>2, <1>5 DEF VerdictOK
<1>7. Conclude(v)
  BY DEF Recorded, c
<1>8. v.scn = Scn
  OBVIOUS
<1> HIDE DEF v
<1> QED
  BY <1>6, <1>7, <1>8, ConcludeStep

\* The verdict of an aborted experiment claims nothing.
LEMMA AbortedStep ==
  ASSUME WorldInv, SuiteInv, PlaceInv, VerdictInv, ExperimentInv, pc \in Phases,
         suite' = suite, NEW reason, NEW res, Aborted(reason, res),
         \/ res = NoResult
         \/ \E a : /\ Judged(Scn, before, a, opts.dry, res)
                   /\ pc \in {"verify", "diagnose"}
  PROVE  PlaceInv' /\ ExperimentInv' /\ VerdictInv'
<1> DEFINE c == Classify("aborted", reason, res)
           v == [scn |-> Scn, outcome |-> c, reason |-> reason, result |-> res,
                 before |-> None, after |-> None, dry |-> opts.dry,
                 hurt |-> damaged \intersect res.newly, spent |-> spend' - spend]
<1>1. Runnable(Scn) /\ opts.dry \in BOOLEAN
  BY CurrentRunnable DEF SuiteInv, Phases
<1>2. \A s \in damaged \intersect res.newly : s \in Signals /\ (IsJourney(s) => Aimed(Scn, s))
  <2>1. CASE res = NoResult
    BY <2>1 DEF NoResult
  <2>2. ASSUME NEW a, Judged(Scn, before, a, opts.dry, res), pc \in {"verify", "diagnose"}
        PROVE  \A s \in damaged \intersect res.newly : s \in Signals /\ (IsJourney(s) => Aimed(Scn, s))
    <3>1. \A s \in damaged \intersect DOMAIN before :
              IsJourney(s) => Aimed(Scn, s) \/ before[s] = "failed"
      BY <2>2 DEF ExperimentInv
    <3> QED
      BY <1>1, <2>2, <3>1, BlameIsAimed
  <2> QED
    BY <2>1, <2>2
<1>3. c \in {"baseline_fail", "error"}
  BY DEF Classify, OfAborted
<1> HIDE DEF c
<1>4. VerdictOK(v)
  BY <1>1, <1>2, <1>3 DEF VerdictOK, Trustworthy
<1>5. Conclude(v)
  BY DEF Aborted, c
<1>6. v.scn = Scn
  OBVIOUS
<1> HIDE DEF v
<1> QED
  BY <1>4, <1>5, <1>6, ConcludeStep

-----------------------------------------------------------------------------
(* The target and the phases of an experiment. *)

\* The parts of the invariant that a step of an experiment may disturb.
ScenarioParts == WorldInv /\ PlaceInv /\ ExperimentInv /\ VerdictInv

LEMMA ReleaseStep == ASSUME RegressionInv, Release PROVE ScenarioParts'
<1>1. /\ pc \in {"baseline", "verify"} /\ pc' = pc
      /\ UNCHANGED <<suite, damaged, opts, spend, before, after, result, verdicts>>
  BY DEF Release, experiment
<1>2. PICK r \in Releases : target' = [target EXCEPT ![r[1]] = r[2]]
  BY DEF Release
<1>3. WorldInv'
  <2>1. r[1] \in Signals /\ r[2] \in States(r[1])
    BY TargetAssumption
  <2>2. DOMAIN target' = Signals /\ \A s \in Signals : target'[s] = IF s = r[1] THEN r[2] ELSE target[s]
    BY <1>2 DEF RegressionInv, WorldInv
  <2> QED
    BY <1>1, <2>1, <2>2 DEF RegressionInv, WorldInv
<1>4. Scn' = Scn
  BY <1>1 DEF Scn
<1>5. PlaceInv'
  BY <1>1, <1>4 DEF RegressionInv, PlaceInv
<1>6. ExperimentInv'
  BY <1>1, <1>4 DEF RegressionInv, ExperimentInv
<1>7. VerdictInv'
  BY <1>1 DEF RegressionInv, VerdictInv
<1> QED
  BY <1>3, <1>5, <1>6, <1>7 DEF ScenarioParts

LEMMA HealStep == ASSUME RegressionInv, Heal PROVE ScenarioParts'
<1>1. /\ pc \in {"baseline", "verify"} /\ pc' = pc /\ damaged' = {}
      /\ UNCHANGED <<suite, target, opts, spend, before, after, result, verdicts>>
  BY DEF Heal, experiment
<1>2. Scn' = Scn
  BY <1>1 DEF Scn
<1>3. WorldInv'
  BY <1>1 DEF RegressionInv, WorldInv
<1>4. PlaceInv'
  BY <1>1, <1>2 DEF RegressionInv, PlaceInv
<1>5. ExperimentInv'
  BY <1>1, <1>2 DEF RegressionInv, ExperimentInv
<1>6. VerdictInv'
  BY <1>1 DEF RegressionInv, VerdictInv
<1> QED
  BY <1>3, <1>4, <1>5, <1>6 DEF ScenarioParts

\* The baseline: what is injured already reads failed in it.
LEMMA BaselineStep == ASSUME RegressionInv, Baseline PROVE ScenarioParts'
<1>1. /\ pc = "baseline" /\ UNCHANGED <<suite, target, damaged, opts, spend>>
      /\ pc \in Phases
  BY DEF Baseline, world, RegressionInv, Phases
<1>2. WorldInv /\ SuiteInv /\ PlaceInv /\ ExperimentInv /\ VerdictInv
  BY DEF RegressionInv
<1>3. WorldInv'
  BY <1>1, <1>2 DEF WorldInv
<1>4. ASSUME NEW reason, Aborted(reason, NoResult)
      PROVE  PlaceInv' /\ ExperimentInv' /\ VerdictInv'
  BY <1>1, <1>2, <1>4, AbortedStep
<1>5. CASE spend < HardCap /\ before' = Observed(Scn) /\ pc' = "inject"
           /\ UNCHANGED <<after, result, verdicts>>
  <2>1. Scn' = Scn
    BY <1>1, <1>5 DEF Scn
  <2>2. Runnable(Scn)
    BY <1>1, <1>2, CurrentRunnable
  <2>3. /\ Observation(Scn, before')
        /\ \A s \in DOMAIN before' : s \in damaged /\ IsJourney(s) => before'[s] = "failed"
    BY <1>2, <1>5, <2>2, ObservedIsObservation
  <2>4. result = NoResult
    BY <1>1, <1>2 DEF ExperimentInv
  <2>5. ExperimentInv'
    BY <1>1, <1>5, <2>1, <2>3, <2>4 DEF ExperimentInv
  <2>6. PlaceInv'
    BY <1>1, <1>2, <1>5, <2>1 DEF PlaceInv, Phases
  <2>7. VerdictInv'
    BY <1>1, <1>2, <1>5 DEF VerdictInv
  <2> QED
    BY <1>3, <2>5, <2>6, <2>7 DEF ScenarioParts
<1> QED
  BY <1>3, <1>4, <1>5 DEF Baseline, ScenarioParts

\* The injection: what it injures, it was aimed at.
LEMMA InjectStep == ASSUME RegressionInv, Inject PROVE ScenarioParts'
<1>1. /\ pc = "inject" /\ pc' = "verify"
      /\ UNCHANGED <<suite, target, opts, spend, before, after, result, verdicts>>
  BY DEF Inject, experiment
<1>2. PICK hit \in SUBSET {s \in DOMAIN target : Aimed(Scn, s)} : damaged' = damaged \union hit
  BY DEF Inject
<1>3. WorldInv /\ PlaceInv /\ ExperimentInv /\ VerdictInv
  BY DEF RegressionInv
<1>4. Scn' = Scn
  BY <1>1 DEF Scn
<1>5. WorldInv'
  BY <1>1, <1>2, <1>3 DEF WorldInv
<1>6. PlaceInv'
  BY <1>1, <1>3, <1>4 DEF PlaceInv, Phases
<1>7. ExperimentInv'
  <2>1. /\ Observation(Scn, before) /\ result = NoResult
        /\ \A s \in damaged \intersect DOMAIN before :
              IsJourney(s) => Aimed(Scn, s) \/ before[s] = "failed"
    BY <1>1, <1>3 DEF ExperimentInv
  <2>2. \A s \in damaged' \intersect DOMAIN before :
              IsJourney(s) => Aimed(Scn, s) \/ before[s] = "failed"
    BY <1>2, <2>1
  <2> QED
    BY <1>1, <1>4, <2>1, <2>2 DEF ExperimentInv
<1>8. VerdictInv'
  BY <1>1, <1>3 DEF VerdictInv
<1> QED
  BY <1>5, <1>6, <1>7, <1>8 DEF ScenarioParts

\* The verify phase: the oracle's result is made from the baseline and from
\* what the target shows now.
LEMMA VerifyStep == ASSUME RegressionInv, Verify PROVE ScenarioParts'
<1> DEFINE now == Observed(Scn)
           res == OracleVerify(Scn, Reading(Scn, before, opts.dry), Reading(Scn, now, opts.dry))
<1>1. /\ pc = "verify" /\ UNCHANGED <<suite, target, damaged, opts, spend>>
      /\ pc \in Phases
  BY DEF Verify, world, RegressionInv, Phases
<1>2. WorldInv /\ SuiteInv /\ PlaceInv /\ ExperimentInv /\ VerdictInv
  BY DEF RegressionInv
<1>3. WorldInv'
  BY <1>1, <1>2 DEF WorldInv
<1>4. Runnable(Scn)
  BY <1>1, <1>2, CurrentRunnable
<1>5. /\ Observation(Scn, before)
      /\ \A s \in damaged \intersect DOMAIN before :
            IsJourney(s) => Aimed(Scn, s) \/ before[s] = "failed"
  BY <1>1, <1>2 DEF ExperimentInv
<1>6. Judged(Scn, before, now, opts.dry, res)
  BY <1>2, <1>4, <1>5, ObservedIsObservation DEF Judged
<1>7. \/ Recorded(before, now, res)
      \/ Aborted("budget_exceeded", res)
      \/ pc' = "diagnose" /\ after' = now /\ result' = res /\ UNCHANGED <<before, verdicts>>
  BY DEF Verify
<1> HIDE DEF now, res
<1>8. CASE Recorded(before, now, res)
  <2>1. PlaceInv' /\ ExperimentInv' /\ VerdictInv'
    BY <1>1, <1>2, <1>5, <1>6, <1>8, RecordedStep
  <2> QED
    BY <1>3, <2>1 DEF ScenarioParts
<1>9. CASE Aborted("budget_exceeded", res)
  <2>1. PlaceInv' /\ ExperimentInv' /\ VerdictInv'
    BY <1>1, <1>2, <1>6, <1>9, AbortedStep
  <2> QED
    BY <1>3, <2>1 DEF ScenarioParts
<1>10. CASE pc' = "diagnose" /\ after' = now /\ result' = res /\ UNCHANGED <<before, verdicts>>
  <2>1. Scn' = Scn
    BY <1>1, <1>10 DEF Scn
  <2>2. PlaceInv'
    BY <1>1, <1>2, <1>10, <2>1 DEF PlaceInv, Phases
  <2>3. ExperimentInv'
    BY <1>1, <1>5, <1>6, <1>10, <2>1 DEF ExperimentInv
  <2>4. VerdictInv'
    BY <1>1, <1>2, <1>10 DEF VerdictInv
  <2> QED
    BY <1>3, <2>2, <2>3, <2>4 DEF ScenarioParts
<1> QED
  BY <1>7, <1>8, <1>9, <1>10

\* Diagnostician and fixer change the spend, not the verdict.
LEMMA DiagnoseStep == ASSUME RegressionInv, Diagnose PROVE ScenarioParts'
<1>1. /\ pc = "diagnose" /\ UNCHANGED <<suite, target, damaged, opts>>
      /\ pc \in Phases
      /\ Aborted("budget_exceeded", result) \/ Recorded(before, after, result)
  BY DEF Diagnose, world, RegressionInv, Phases
<1>2. WorldInv /\ SuiteInv /\ PlaceInv /\ ExperimentInv /\ VerdictInv
  BY DEF RegressionInv
<1>3. WorldInv'
  BY <1>1, <1>2 DEF WorldInv
<1>4. /\ Judged(Scn, before, after, opts.dry, result)
      /\ \A s \in damaged \intersect DOMAIN before :
            IsJourney(s) => Aimed(Scn, s) \/ before[s] = "failed"
  BY <1>1, <1>2 DEF ExperimentInv
<1>5. PlaceInv' /\ ExperimentInv' /\ VerdictInv'
  BY <1>1, <1>2, <1>4, RecordedStep, AbortedStep
<1> QED
  BY <1>3, <1>5 DEF ScenarioParts

LEMMA AbortStep == ASSUME RegressionInv, Abort PROVE ScenarioParts'
<1>1. /\ pc \in Phases /\ Aborted("other", result)
      /\ UNCHANGED <<suite, target, damaged>>
  BY DEF Abort, Phases, world
<1>2. WorldInv /\ SuiteInv /\ PlaceInv /\ ExperimentInv /\ VerdictInv
  BY DEF RegressionInv
<1>3. WorldInv'
  BY <1>1, <1>2 DEF WorldInv
<1>4. \/ result = NoResult
      \/ Judged(Scn, before, after, opts.dry, result) /\ pc \in {"verify", "diagnose"}
  BY <1>2 DEF ExperimentInv
<1>5. PlaceInv' /\ ExperimentInv' /\ VerdictInv'
  BY <1>1, <1>2, <1>4, AbortedStep
<1> QED
  BY <1>3, <1>5 DEF ScenarioParts

-----------------------------------------------------------------------------
(* The command around the scenarios. *)

\* No verdicts yet, or none any more.
LEMMA NoVerdicts ==
  ASSUME verdicts' = <<>>
  PROVE  VerdictInv' /\ Len(verdicts') \in Nat /\ Len(verdicts') <= 0
<1>1. verdicts' \in Seq({}) /\ Len(verdicts') \in Nat /\ Len(verdicts') <= 0
  OBVIOUS
<1>2. \A i \in 1..Len(verdicts') : FALSE
  BY <1>1
<1> QED
  BY <1>1, <1>2 DEF VerdictInv

LEMMA SuiteLength ==
  ASSUME NEW su \in Suites
  PROVE  /\ Len(su.scenarios) \in Nat /\ DOMAIN su.scenarios = 1..Len(su.scenarios)
         /\ su.scenarios = [i \in 1..Len(su.scenarios) |-> su.scenarios[i]]
<1>1. PICK s : s = su.scenarios
  OBVIOUS
<1>2. s \in Seq(ToSet(s))
  BY <1>1, SuiteAssumption
<1> QED
  BY <1>1, <1>2

LEMMA StartStep == ASSUME RegressionInv, Start PROVE RegressionInv'
<1>1. /\ pc = "idle" /\ opts' \in Options /\ report' = None /\ verdicts' = <<>> /\ matrix' = None
      /\ \/ Problems(suite) = {} /\ pc' = "scenario" /\ exit' = None
         \/ pc' = "idle" /\ exit' = 1
      /\ UNCHANGED <<suite, target, damaged, spend, before, after, result, goldens>>
  BY DEF Start, world, experiment
<1>2. WorldInv /\ SuiteInv /\ PlaceInv /\ ExperimentInv /\ GoldenInv
  BY DEF RegressionInv
<1>3. VerdictInv' /\ Len(verdicts') \in Nat /\ Len(verdicts') <= 0
  BY <1>1, NoVerdicts
<1>4. WorldInv'
  BY <1>1, <1>2 DEF WorldInv
<1>5. SuiteInv'
  BY <1>1, <1>2, OptionsAssumption DEF SuiteInv
<1>6. PlaceInv'
  <2>1. Len(suite.scenarios) \in Nat
    BY <1>2, SuiteLength DEF SuiteInv
  <2> QED
    BY <1>1, <1>3, <2>1 DEF PlaceInv, Phases
<1>7. ExperimentInv'
  BY <1>1, <1>2 DEF ExperimentInv
<1>8. GoldenInv'
  BY <1>1, <1>2 DEF GoldenInv
<1>9. OutputInv'
  BY <1>1, CostsAssumption DEF OutputInv
<1>10. MatrixInv'
  BY <1>1 DEF MatrixInv
<1> QED
  BY <1>3, <1>4, <1>5, <1>6, <1>7, <1>8, <1>9, <1>10 DEF RegressionInv

LEMMA NextScenarioStep == ASSUME RegressionInv, NextScenario PROVE RegressionInv'
<1>1. /\ pc = "scenario" /\ Len(verdicts) < Len(suite.scenarios)
      /\ \/ Scn.oracle \in OraclePlugins /\ pc' = "baseline"
         \/ pc' = "idle" /\ exit' = 1
      /\ UNCHANGED <<suite, target, damaged, opts, before, after, result, verdicts,
                     saved, goldens, report, matrix>>
  BY DEF NextScenario, world, experiment
<1>2. /\ WorldInv /\ SuiteInv /\ PlaceInv /\ ExperimentInv /\ VerdictInv
      /\ GoldenInv /\ OutputInv /\ MatrixInv
  BY DEF RegressionInv
<1>3. Scn' = Scn
  BY <1>1 DEF Scn
<1>4. WorldInv' /\ SuiteInv'
  BY <1>1, <1>2 DEF WorldInv, SuiteInv
<1>5. PlaceInv'
  BY <1>1, <1>2, <1>3 DEF PlaceInv, Phases
<1>6. ExperimentInv'
  BY <1>1, <1>2 DEF ExperimentInv
<1>7. VerdictInv'
  BY <1>1, <1>2 DEF VerdictInv
<1>8. GoldenInv' /\ MatrixInv'
  BY <1>1, <1>2 DEF GoldenInv, MatrixInv
<1>9. OutputInv'
  BY <1>1, <1>2 DEF OutputInv
<1> QED
  BY <1>4, <1>5, <1>6, <1>7, <1>8, <1>9 DEF RegressionInv

\* The record of a run pairs the scenarios with their verdicts, one to one.
LEMMA SaveRunStep == ASSUME RegressionInv, SaveRun PROVE RegressionInv'
<1>1. /\ pc = "scenario" /\ Len(verdicts) = Len(suite.scenarios) /\ pc' = "golden"
      /\ saved' = {RunRecord}
      /\ UNCHANGED <<suite, target, damaged, opts, spend, before, after, result, verdicts,
                     goldens, report, exit, matrix>>
  BY DEF SaveRun, world, experiment, output
<1>2. /\ WorldInv /\ SuiteInv /\ PlaceInv /\ ExperimentInv /\ VerdictInv
      /\ GoldenInv /\ OutputInv /\ MatrixInv
  BY DEF RegressionInv
<1>3. RunRecord.verdicts = RunRecord.scenarios
  <2>1. DOMAIN verdicts = 1..Len(verdicts)
    BY <1>2 DEF VerdictInv
  <2>2. \A i \in 1..Len(verdicts) : verdicts[i].scn = suite.scenarios[i]
    BY <1>2 DEF VerdictInv
  <2>3. suite.scenarios = [i \in 1..Len(suite.scenarios) |-> suite.scenarios[i]]
    BY <1>2, SuiteLength DEF SuiteInv
  <2>4. [i \in DOMAIN verdicts |-> verdicts[i].scn] = [i \in 1..Len(suite.scenarios) |-> suite.scenarios[i]]
    BY <1>1, <2>1, <2>2
  <2> QED
    BY <2>3, <2>4 DEF RunRecord
<1>4. Complete'
  BY <1>1, <1>3 DEF Complete
<1>5. WorldInv' /\ SuiteInv'
  BY <1>1, <1>2 DEF WorldInv, SuiteInv
<1>6. PlaceInv'
  BY <1>1, <1>2 DEF PlaceInv, Phases
<1>7. ExperimentInv'
  BY <1>1, <1>2 DEF ExperimentInv
<1>8. VerdictInv'
  BY <1>1, <1>2 DEF VerdictInv
<1>9. GoldenInv' /\ MatrixInv'
  BY <1>1, <1>2 DEF GoldenInv, MatrixInv
<1>10. OutputInv'
  BY <1>1, <1>2, <1>4 DEF OutputInv
<1> QED
  BY <1>5, <1>6, <1>7, <1>8, <1>9, <1>10 DEF RegressionInv

\* A nonempty set of places in a sequence has a last one.
LEMMA LastPlace ==
  ASSUME NEW n \in Nat, NEW T \in SUBSET (1..n), T # {}
  PROVE  \E i \in T : \A j \in T : j <= i
<1> DEFINE U == {n - i : i \in T}
<1>1. U \subseteq Nat /\ U # {}
  <2>1. \A i \in T : n - i \in Nat
    OBVIOUS
  <2>2. PICK i : i \in T
    OBVIOUS
  <2>3. n - i \in U
    BY <2>2
  <2> QED
    BY <2>1, <2>3
<1>2. PICK x \in U : \A y \in U : ~(y < x)
  <2>1. IsWellFoundedOn({ss \in Nat \X Nat : ss[1] < ss[2]}, Nat)
    BY NatLessThanWellFounded DEF OpToRel
  <2>2. PICK R : R = {ss \in Nat \X Nat : ss[1] < ss[2]}
    OBVIOUS
  <2>3. \E x \in U : \A y \in U : ~(<<y, x>> \in R)
    <3> HIDE DEF U
    <3> QED
      BY <1>1, <2>1, <2>2, WFMin
  <2> QED
    BY <1>1, <2>2, <2>3
<1>3. PICK i \in T : x = n - i
  OBVIOUS
<1>4. ASSUME NEW j \in T PROVE j <= i
  <2>1. ~(n - j < n - i)
    BY <1>2, <1>3
  <2>2. i \in 1..n /\ j \in 1..n
    OBVIOUS
  <2> HIDE DEF U
  <2>3. i \in Int /\ j \in Int
    BY <2>2
  <2> QED
    BY <2>1, <2>3
<1> QED
  BY <1>4

\* The entry that the dictionary of goldens keeps is one of those with the id.
LEMMA LastOfIsOne ==
  ASSUME NEW n \in Nat, NEW good \in SUBSET (1..n), NEW id,
         \E i \in good : IdAt(i) = id
  PROVE  LastOf(good, id) \in good /\ IdAt(LastOf(good, id)) = id
<1> DEFINE T == {i \in good : IdAt(i) = id}
<1>1. \E i \in T : \A j \in T : j <= i
  <2>1. T \in SUBSET (1..n) /\ T # {}
    OBVIOUS
  <2> HIDE DEF T
  <2> QED
    BY <2>1, LastPlace
<1>2. \E i \in good : IdAt(i) = id /\ \A j \in good : IdAt(j) = id => j <= i
  BY <1>1
<1> QED
  BY <1>2 DEF LastOf

\* goldens_from_run: only baselines of trustworthy verdicts, each under its id.
LEMMA SaveGoldenStep == ASSUME RegressionInv, SaveGolden PROVE RegressionInv'
<1>1. /\ pc = "golden" /\ pc' = "drift"
      /\ goldens' = goldens \/ goldens' = Upsert(GoldensFromRun, goldens)
      /\ UNCHANGED <<suite, target, damaged, opts, spend, before, after, result, verdicts,
                     saved, report, exit, matrix>>
  BY DEF SaveGolden, world, experiment, output
<1>2. /\ WorldInv /\ SuiteInv /\ PlaceInv /\ ExperimentInv /\ VerdictInv
      /\ GoldenInv /\ OutputInv /\ MatrixInv
  BY DEF RegressionInv
<1>3. GoldenInv'
  <2> DEFINE good == {i \in DOMAIN verdicts : verdicts[i].outcome \in Trustworthy}
             Right(g, k) == \E v : /\ v.outcome \in Trustworthy /\ VerdictOK(v)
                                   /\ g = GoldenOf(v) /\ ScenarioId(v.scn) = k[2]
  <2>1. \A k \in DOMAIN goldens : Right(goldens[k], k)
    BY <1>2 DEF GoldenInv
  <2>2. /\ DOMAIN verdicts = 1..Len(verdicts) /\ Len(verdicts) \in Nat
        /\ \A i \in good : verdicts[i].outcome \in Trustworthy /\ VerdictOK(verdicts[i])
    BY <1>2 DEF VerdictInv
  <2>3. /\ DOMAIN GoldensFromRun = {<<opts.save, IdAt(i)>> : i \in good}
        /\ \A k \in DOMAIN GoldensFromRun :
              GoldensFromRun[k] = GoldenOf(verdicts[LastOf(good, k[2])])
    BY DEF GoldensFromRun, Frozen
  <2>4. good \subseteq 1..Len(verdicts)
    BY <2>2
  <2> HIDE DEF good
  <2>5. ASSUME NEW k \in DOMAIN GoldensFromRun PROVE Right(GoldensFromRun[k], k)
    <3>1. PICK n : n = LastOf(good, k[2])
      OBVIOUS
    <3>2. \E i \in good : IdAt(i) = k[2]
      BY <2>3, <2>5
    <3>3. n \in good /\ IdAt(n) = k[2]
      BY <2>2, <2>4, <3>1, <3>2, LastOfIsOne
    <3>4. GoldensFromRun[k] = GoldenOf(verdicts[n])
      BY <2>3, <3>1
    <3> QED
      BY <2>2, <3>3, <3>4 DEF IdAt
  <2> HIDE DEF Right
  <2>6. \A k \in DOMAIN goldens' : Right(goldens'[k], k)
    <3>1. CASE goldens' = goldens
      BY <2>1, <3>1
    <3>2. CASE goldens' = Upsert(GoldensFromRun, goldens)
      BY <2>1, <2>5, <3>2 DEF Upsert
    <3> QED
      BY <1>1, <3>1, <3>2
  <2> QED
    BY <2>6 DEF GoldenInv, Right
<1>4. WorldInv' /\ SuiteInv'
  BY <1>1, <1>2 DEF WorldInv, SuiteInv
<1>5. PlaceInv'
  BY <1>1, <1>2 DEF PlaceInv, Phases
<1>6. ExperimentInv'
  BY <1>1, <1>2 DEF ExperimentInv
<1>7. VerdictInv'
  BY <1>1, <1>2 DEF VerdictInv
<1>8. MatrixInv'
  BY <1>1, <1>2 DEF MatrixInv
<1>9. OutputInv'
  BY <1>1, <1>2 DEF OutputInv, Complete
<1> QED
  BY <1>3, <1>4, <1>5, <1>6, <1>7, <1>8, <1>9 DEF RegressionInv

\* A report and an exit code depend on the verdicts, the goldens, the options.
LEMMA ReportKept ==
  ASSUME UNCHANGED <<opts, verdicts, goldens>>
  PROVE  DriftReport' = DriftReport
BY DEF DriftReport, GoldenFor

LEMMA ExitKept ==
  ASSUME UNCHANGED <<opts, verdicts>>, NEW d
  PROVE  ExitCode(d)' = ExitCode(d)
BY DEF ExitCode

LEMMA ReportStep == ASSUME RegressionInv, Report PROVE RegressionInv'
<1>1. /\ pc = "drift" /\ pc' = "idle" /\ report' = DriftReport /\ exit' = ExitCode(report')
      /\ UNCHANGED <<suite, target, damaged, opts, before, after, result, verdicts,
                     saved, goldens, matrix>>
  BY DEF Report, world, experiment
<1>2. /\ WorldInv /\ SuiteInv /\ PlaceInv /\ ExperimentInv /\ VerdictInv
      /\ GoldenInv /\ OutputInv /\ MatrixInv
  BY DEF RegressionInv
<1>3. OutputInv'
  <2>1. DriftReport' = DriftReport
    BY <1>1, ReportKept
  <2>2. PICK d : d = report'
    OBVIOUS
  <2>3. ExitCode(d)' = ExitCode(d)
    BY <1>1, ExitKept
  <2>4. ExitCode(report)' = ExitCode(d)'
    BY <2>2 DEF ExitCode
  <2>5. Complete'
    BY <1>1, <1>2 DEF OutputInv, Complete
  <2> QED
    BY <1>1, <2>1, <2>2, <2>3, <2>4, <2>5 DEF OutputInv
<1>4. WorldInv' /\ SuiteInv'
  BY <1>1, <1>2 DEF WorldInv, SuiteInv
<1>5. PlaceInv'
  BY <1>1, <1>2 DEF PlaceInv, Phases
<1>6. ExperimentInv'
  BY <1>1, <1>2 DEF ExperimentInv
<1>7. VerdictInv'
  BY <1>1, <1>2 DEF VerdictInv
<1>8. GoldenInv' /\ MatrixInv'
  BY <1>1, <1>2 DEF GoldenInv, MatrixInv
<1> QED
  BY <1>3, <1>4, <1>5, <1>6, <1>7, <1>8 DEF RegressionInv

LEMMA DieStep == ASSUME RegressionInv, Die PROVE RegressionInv'
<1>1. /\ pc # "idle" /\ pc' = "idle" /\ exit' = 1 /\ verdicts' = <<>>
      /\ result' = NoResult
      /\ UNCHANGED <<suite, target, damaged, goldens, report, matrix>>
  BY DEF Die
<1>2. /\ WorldInv /\ SuiteInv /\ GoldenInv /\ OutputInv /\ MatrixInv
  BY DEF RegressionInv
<1>3. VerdictInv'
  BY <1>1, NoVerdicts
<1>4. WorldInv' /\ SuiteInv'
  BY <1>1, <1>2 DEF WorldInv, SuiteInv
<1>5. PlaceInv' /\ ExperimentInv'
  BY <1>1 DEF PlaceInv, ExperimentInv, Phases
<1>6. GoldenInv' /\ MatrixInv'
  BY <1>1, <1>2 DEF GoldenInv, MatrixInv
<1>7. OutputInv'
  BY <1>1, <1>2 DEF OutputInv
<1> QED
  BY <1>3, <1>4, <1>5, <1>6, <1>7 DEF RegressionInv

\* Another suite file: nothing that was printed is about it.
LEMMA EditStep == ASSUME RegressionInv, Edit PROVE RegressionInv'
<1>1. /\ pc = "idle" /\ pc' = "idle" /\ suite' \in Suites /\ verdicts' = <<>>
      /\ report' = None /\ exit' = None /\ matrix' = None
      /\ UNCHANGED <<target, damaged, spend, before, after, result, goldens>>
  BY DEF Edit, world, experiment
<1>2. /\ WorldInv /\ ExperimentInv /\ GoldenInv
  BY DEF RegressionInv
<1>3. VerdictInv'
  BY <1>1, NoVerdicts
<1>4. WorldInv' /\ SuiteInv'
  BY <1>1, <1>2 DEF WorldInv, SuiteInv
<1>5. PlaceInv' /\ ExperimentInv'
  BY <1>1, <1>2 DEF PlaceInv, ExperimentInv, Phases
<1>6. GoldenInv' /\ MatrixInv'
  BY <1>1, <1>2 DEF GoldenInv, MatrixInv
<1>7. OutputInv'
  BY <1>1, CostsAssumption DEF OutputInv
<1> QED
  BY <1>3, <1>4, <1>5, <1>6, <1>7 DEF RegressionInv

\* A step that changes nothing but, perhaps, the printed matrix.
LEMMA PrintStep ==
  ASSUME RegressionInv, MatrixInv',
         UNCHANGED <<suite, target, damaged, pc, opts, spend, before, after, result,
                     verdicts, saved, goldens, report, exit>>
  PROVE  RegressionInv'
<1>1. /\ WorldInv /\ SuiteInv /\ PlaceInv /\ ExperimentInv /\ VerdictInv
      /\ GoldenInv /\ OutputInv /\ MatrixInv
  BY DEF RegressionInv
<1>2. Scn' = Scn
  BY DEF Scn
<1>3. WorldInv' /\ SuiteInv'
  BY <1>1 DEF WorldInv, SuiteInv
<1>4. PlaceInv'
  BY <1>1, <1>2 DEF PlaceInv
<1>5. ExperimentInv'
  BY <1>1, <1>2 DEF ExperimentInv
<1>6. VerdictInv'
  BY <1>1 DEF VerdictInv
<1>7. GoldenInv'
  BY <1>1 DEF GoldenInv
<1>8. OutputInv'
  <2>1. DriftReport' = DriftReport
    BY ReportKept
  <2>2. PICK d : d = report
    OBVIOUS
  <2>3. ExitCode(d)' = ExitCode(d)
    BY ExitKept
  <2>4. ExitCode(report)' = ExitCode(d)' /\ ExitCode(report) = ExitCode(d)
    BY <2>2 DEF ExitCode
  <2>5. Complete' <=> Complete
    BY DEF Complete
  <2> QED
    BY <1>1, <2>1, <2>3, <2>4, <2>5 DEF OutputInv
<1> QED
  BY <1>3, <1>4, <1>5, <1>6, <1>7, <1>8 DEF RegressionInv

LEMMA RegressionInit == Init => RegressionInv
<1> SUFFICES ASSUME Init PROVE RegressionInv
  OBVIOUS
<1>1. /\ suite \in Suites /\ target = Healthy /\ damaged = {} /\ pc = "idle"
      /\ result = NoResult /\ verdicts = <<>> /\ goldens = <<>>
      /\ report = None /\ exit = None /\ matrix = None
  BY DEF Init
<1>2. WorldInv
  BY <1>1, TargetAssumption DEF WorldInv, Signals
<1>3. SuiteInv /\ PlaceInv /\ ExperimentInv
  BY <1>1 DEF SuiteInv, PlaceInv, ExperimentInv, Phases
<1>4. VerdictInv
  <2>1. verdicts \in Seq({}) /\ Len(verdicts) \in Nat /\ Len(verdicts) <= 0
    BY <1>1
  <2>2. \A i \in 1..Len(verdicts) : FALSE
    BY <2>1
  <2> QED
    BY <2>1, <2>2 DEF VerdictInv
<1>5. GoldenInv
  <2>1. \A k : k \notin DOMAIN goldens
    BY <1>1
  <2> QED
    BY <2>1 DEF GoldenInv
<1>6. OutputInv /\ MatrixInv
  BY <1>1, CostsAssumption DEF OutputInv, MatrixInv
<1> QED
  BY <1>2, <1>3, <1>4, <1>5, <1>6 DEF RegressionInv

\* Every step of the target, of an experiment and of the command keeps the
\* invariant.
LEMMA RegressionStep == RegressionInv /\ [Next]_vars => RegressionInv'
<1> SUFFICES ASSUME RegressionInv, [Next]_vars PROVE RegressionInv'
  OBVIOUS
<1>0. ASSUME ScenarioParts', pc # "idle", pc' # "idle", pc' \notin {"golden", "drift"},
             UNCHANGED <<suite, opts, goldens, report, matrix>>
      PROVE  RegressionInv'
  <2>1. SuiteInv' /\ GoldenInv' /\ OutputInv' /\ MatrixInv'
    BY <1>0, RunKeeps DEF RegressionInv
  <2> QED
    BY <1>0, <2>1 DEF ScenarioParts, RegressionInv
<1>1. CASE Release
  BY <1>0, <1>1, ReleaseStep DEF Release, output
<1>2. CASE Heal
  BY <1>0, <1>2, HealStep DEF Heal, output
<1>3. CASE Edit
  BY <1>3, EditStep
<1>4. CASE Coverage
  <2>1. MatrixInv'
    BY <1>4 DEF Coverage, MatrixInv
  <2> QED
    BY <1>4, <2>1, PrintStep DEF Coverage, world, experiment
<1>5. CASE Start
  BY <1>5, StartStep
<1>6. CASE NextScenario
  BY <1>6, NextScenarioStep
<1>7. CASE Baseline
  BY <1>0, <1>7, BaselineStep DEF Baseline, Aborted, Conclude, output
<1>8. CASE Inject
  BY <1>0, <1>8, InjectStep DEF Inject, output
<1>9. CASE Verify
  BY <1>0, <1>9, VerifyStep DEF Verify, Aborted, Recorded, Conclude, output
<1>10. CASE Diagnose
  BY <1>0, <1>10, DiagnoseStep DEF Diagnose, Aborted, Recorded, Conclude, output
<1>11. CASE Abort
  BY <1>0, <1>11, AbortStep DEF Abort, Aborted, Conclude, output
<1>12. CASE SaveRun
  BY <1>12, SaveRunStep
<1>13. CASE SaveGolden
  BY <1>13, SaveGoldenStep
<1>14. CASE Report
  BY <1>14, ReportStep
<1>15. CASE Die
  BY <1>15, DieStep
<1>16. CASE UNCHANGED vars
  <2>1. MatrixInv'
    BY <1>16 DEF vars, output, RegressionInv, MatrixInv
  <2> QED
    BY <1>16, <2>1, PrintStep DEF vars, world, experiment, output
<1> QED
  BY <1>1, <1>2, <1>3, <1>4, <1>5, <1>6, <1>7, <1>8, <1>9, <1>10, <1>11, <1>12,
     <1>13, <1>14, <1>15, <1>16 DEF Next

\* Verdicts, goldens, report, exit code and matrix are about what really
\* happened, for all suites, targets, releases and options.
THEOREM RegressionInvariant == Spec => []RegressionInv
BY RegressionInit, RegressionStep, PTL DEF Spec

\* A trustworthy verdict means what its scenario's oracle stands for.
LEMMA VerdictMeans ==
  ASSUME NEW v, VerdictOK(v), v.outcome \in Trustworthy
  PROVE  /\ Means(v.scn, v.before, v.after, v.dry, v.result)
         /\ ~v.result.unassessable /\ (v.outcome = "pass" <=> v.result.newly = {})
<1>1. PICK scn, b, a, dry, res :
          scn = v.scn /\ b = v.before /\ a = v.after /\ dry = v.dry /\ res = v.result
  OBVIOUS
<1>2. dry \in BOOLEAN /\ Runnable(scn) /\ Judged(scn, b, a, dry, res)
  BY <1>1 DEF VerdictOK
<1>3. Means(scn, b, a, dry, res)
  BY <1>2, JudgedMeans
<1> QED
  BY <1>1, <1>3 DEF VerdictOK

\* What VerdictJustified says of one verdict.
LEMMA OneVerdictJustified ==
  ASSUME NEW v, VerdictOK(v)
  PROVE  /\ v.outcome = "regressed" =>
              /\ Newly(v) # {}
              /\ \A s \in Newly(v) :
                   IF s[1] = "metric"
                   THEN None \notin {v.before[s], v.after[s]} /\ v.before[s] # v.after[s]
                   ELSE v.before[s] = "passed" /\ v.after[s] \in Red
         /\ v.outcome = "pass" /\ ~v.dry =>
              /\ Broke(v) = {}
              /\ v.scn.oracle = "playwright" =>
                   \E j \in v.scn.journeys :
                       j \in DOMAIN v.before \ v.scn.quarantine => v.before[j] \notin Red
<1>1. ASSUME v.outcome = "regressed"
      PROVE  /\ Newly(v) # {}
             /\ \A s \in Newly(v) :
                  IF s[1] = "metric"
                  THEN None \notin {v.before[s], v.after[s]} /\ v.before[s] # v.after[s]
                  ELSE v.before[s] = "passed" /\ v.after[s] \in Red
  <2>1. /\ Means(v.scn, v.before, v.after, v.dry, v.result)
        /\ v.result.newly # {}
    BY <1>1, VerdictMeans DEF Trustworthy
  <2>2. \A s \in v.result.newly : Worse(s, v.before, v.after)
    BY <2>1 DEF Means
  <2> QED
    BY <2>1, <2>2 DEF Newly, Worse
<1>2. ASSUME v.outcome = "pass", ~v.dry
      PROVE  /\ Broke(v) = {}
             /\ v.scn.oracle = "playwright" =>
                  \E j \in v.scn.journeys :
                      j \in DOMAIN v.before \ v.scn.quarantine => v.before[j] \notin Red
  <2>1. /\ Means(v.scn, v.before, v.after, v.dry, v.result)
        /\ v.result.newly = {} /\ ~v.result.unassessable
    BY <1>2, VerdictMeans DEF Trustworthy
  <2>2. /\ \A s \in Checked(v.scn, v.before) :
              v.before[s] = "passed" /\ v.after[s] \in Red => s \in v.result.newly
        /\ v.scn.oracle = "playwright" =>
              \E j \in v.scn.journeys :
                  j \in DOMAIN v.before \ v.scn.quarantine => v.before[j] \notin Red
    BY <1>2, <2>1 DEF Means
  <2> QED
    BY <2>1, <2>2 DEF Broke, Checked
<1> QED
  BY <1>1, <1>2

\* A verdict is about what happened in its own scenario, whatever is released,
\* injured or healed around it (the oracles' verify and _classify).
THEOREM VerdictsJustified == Spec => []VerdictJustified
<1>1. RegressionInv => VerdictJustified
  <2>1. SUFFICES ASSUME RegressionInv, NEW i \in DOMAIN verdicts
                 PROVE  VerdictOK(verdicts[i])
    BY OneVerdictJustified DEF VerdictJustified
  <2> QED
    BY <2>1 DEF RegressionInv, VerdictInv
<1> QED
  BY <1>1, RegressionInvariant, PTL

\* A golden is the steady state of a baseline that was really seen: it is not
\* taken from a verdict that was aborted or could not be assessed
\* (goldens_from_run).
THEOREM GoldensTrustworthy == Spec => []GoldenTrustworthy
<1>1. RegressionInv => GoldenTrustworthy
  <2>1. SUFFICES ASSUME RegressionInv, NEW k \in DOMAIN goldens, NEW g, g = goldens[k]
                 PROVE  /\ ScenarioId(g.from.scn) = k[2]
                        /\ ~g.from.dry =>
                             /\ \A s \in g.green : g.from.before[s] = "passed"
                             /\ g.green = {} /\ DOMAIN g.metrics = {} =>
                                  \A s \in Asserted(g.from.scn) \intersect DOMAIN g.from.before :
                                      g.from.before[s] \notin Red
    BY DEF GoldenTrustworthy
  <2>2. PICK v : /\ v.outcome \in Trustworthy /\ VerdictOK(v)
                 /\ g = GoldenOf(v) /\ ScenarioId(v.scn) = k[2]
    BY <2>1 DEF RegressionInv, GoldenInv
  <2>3. /\ g.from.scn = v.scn /\ g.from.before = v.before /\ g.from.dry = v.dry
        /\ g.green = v.result.green
    BY <2>2 DEF GoldenOf
  <2>4. Means(v.scn, v.before, v.after, v.dry, v.result) /\ ~v.result.unassessable
    BY <2>2, VerdictMeans
  <2>5. ~v.dry => /\ \A s \in v.result.green : v.before[s] = "passed"
                  /\ v.result.green = {} =>
                       \A s \in Checked(v.scn, v.before) : v.before[s] \notin Red
    BY <2>4 DEF Means
  <2> QED
    BY <2>2, <2>3, <2>5 DEF Checked
<1> QED
  BY <1>1, RegressionInvariant, PTL
\* A scenario that is compared with its golden lists as regressed exactly
\* what the golden has green and the run has not, and as moved what the
\* thresholds say of the two sets of samples.
LEMMA ComparedRegressed ==
  ASSUME NEW w, NEW h, w.outcome \in Trustworthy, h # None
  PROVE  /\ ScenarioDrift(w, h).regressed = h.green \ w.result.green
         /\ ScenarioDrift(w, h).moved = MovedMetrics(w.scn.thresholds, h.metrics, w.result.metrics)
<1> DEFINE m == MovedMetrics(w.scn.thresholds, h.metrics, w.result.metrics)
<1>1. ScenarioDrift(w, h) = [unassessed |-> FALSE, missing |-> FALSE,
                             regressed |-> h.green \ w.result.green,
                             recovered |-> w.result.green \ h.green, moved |-> m]
  BY Zenon DEF ScenarioDrift
<1> HIDE DEF m
<1>2. ScenarioDrift(w, h).regressed = h.green \ w.result.green /\ ScenarioDrift(w, h).moved = m
  BY <1>1
<1> QED
  BY <1>2, Zenon DEF m

\* What the report says of a scenario that was assessed and has a golden.
LEMMA ComparedEntry ==
  ASSUME RegressionInv, report # None, NEW i \in DOMAIN report,
         ~report[i].missing, ~report[i].unassessed
  PROVE  LET v == verdicts[i]
             k == <<opts.against, ScenarioId(v.scn)>>
         IN  /\ i \in DOMAIN verdicts /\ VerdictOK(v) /\ v.outcome \in Trustworthy
             /\ k \in DOMAIN goldens
             /\ report[i].regressed = goldens[k].green \ v.result.green
             /\ report[i].moved =
                  MovedMetrics(v.scn.thresholds, goldens[k].metrics, v.result.metrics)
<1> DEFINE v == verdicts[i]
           k == <<opts.against, ScenarioId(v.scn)>>
           g == GoldenFor(ScenarioId(v.scn))
<1>1. /\ DOMAIN report = DOMAIN verdicts
      /\ report[i] = ScenarioDrift(v, g)
  <2>1. report = DriftReport
    BY DEF RegressionInv, OutputInv
  <2>2. report = [n \in DOMAIN verdicts |-> ScenarioDrift(verdicts[n], GoldenFor(ScenarioId(verdicts[n].scn)))]
    BY <2>1 DEF DriftReport
  <2>3. DOMAIN report = DOMAIN verdicts
    BY <2>2
  <2>4. i \in DOMAIN verdicts
    BY <2>3
  <2> QED
    BY <2>2, <2>3, <2>4
<1>2. VerdictOK(v)
  <2>1. DOMAIN verdicts = 1..Len(verdicts)
    BY DEF RegressionInv, VerdictInv
  <2> QED
    BY <1>1, <2>1 DEF RegressionInv, VerdictInv
<1>3. v.outcome \in Trustworthy
  <2>1. SUFFICES ASSUME v.outcome \notin Trustworthy PROVE FALSE
    OBVIOUS
  <2>2. report[i] = NotCompared(TRUE, FALSE)
    BY <1>1, <2>1 DEF ScenarioDrift
  <2> QED
    BY <2>2 DEF NotCompared
<1>4. g # None
  <2>1. SUFFICES ASSUME g = None PROVE FALSE
    OBVIOUS
  <2>2. report[i] = NotCompared(FALSE, TRUE)
    BY <1>1, <1>3, <2>1 DEF ScenarioDrift
  <2> QED
    BY <2>2 DEF NotCompared
<1>5. k \in DOMAIN goldens /\ g = goldens[k]
  BY <1>4 DEF GoldenFor
<1>6. /\ report[i].regressed = g.green \ v.result.green
      /\ report[i].moved = MovedMetrics(v.scn.thresholds, g.metrics, v.result.metrics)
  <2>1. /\ ScenarioDrift(v, g).regressed = g.green \ v.result.green
        /\ ScenarioDrift(v, g).moved = MovedMetrics(v.scn.thresholds, g.metrics, v.result.metrics)
    BY <1>3, <1>4, ComparedRegressed
  <2> QED
    BY <1>1, <2>1
<1> QED
  BY <1>1, <1>2, <1>3, <1>5, <1>6

\* The verdict a golden was frozen from.
LEMMA GoldenSource ==
  ASSUME RegressionInv, NEW k \in DOMAIN goldens
  PROVE  \E u : /\ goldens[k].from.scn = u.scn /\ goldens[k].from.before = u.before
                /\ goldens[k].from.dry = u.dry /\ goldens[k].green = u.result.green
                /\ goldens[k].metrics = u.result.metrics
                /\ ScenarioId(u.scn) = k[2]
                /\ u.outcome \in Trustworthy /\ VerdictOK(u)
<1>1. PICK u : /\ u.outcome \in Trustworthy /\ VerdictOK(u)
               /\ goldens[k] = GoldenOf(u) /\ ScenarioId(u.scn) = k[2]
  BY DEF RegressionInv, GoldenInv
<1>2. /\ GoldenOf(u).from.scn = u.scn /\ GoldenOf(u).from.before = u.before
      /\ GoldenOf(u).from.dry = u.dry /\ GoldenOf(u).green = u.result.green
      /\ GoldenOf(u).metrics = u.result.metrics
  BY DEF GoldenOf
<1> QED
  BY <1>1, <1>2

\* The samples that a trustworthy verdict carries are those of its baseline.
LEMMA SamplesMean ==
  ASSUME NEW v, VerdictOK(v), v.outcome \in Trustworthy, ~v.dry
  PROVE  /\ \A m \in DOMAIN v.result.metrics :
              /\ v.scn.oracle = "metric" /\ m \in DOMAIN v.before
              /\ v.before[m] \in Int /\ v.result.metrics[m] = v.before[m]
         /\ v.scn.oracle = "metric" =>
              \A m \in DOMAIN v.before : v.before[m] # None => m \in DOMAIN v.result.metrics
         /\ v.scn.oracle = "metric" =>
              \A t \in v.scn.thresholds : t.floor \in Nat /\ t.ratio \in Nat /\ t.ratio > 10
<1>1. /\ Runnable(v.scn) /\ Observation(v.scn, v.before)
      /\ v.result = OracleVerify(v.scn, Reading(v.scn, v.before, v.dry), Reading(v.scn, v.after, v.dry))
  BY DEF VerdictOK, Judged
<1>2. CASE v.scn.oracle = "metric"
  <2>1. v.result.metrics = Samples(v.scn, v.before)
    <3>1. v.result = MetricVerify(v.scn, Reading(v.scn, v.before, v.dry), Reading(v.scn, v.after, v.dry))
      BY <1>1, <1>2 DEF OracleVerify
    <3>2. v.result.metrics = Reading(v.scn, v.before, v.dry)
      BY <3>1 DEF MetricVerify, Verified
    <3> QED
      BY <1>2, <3>2 DEF Reading
  <2>2. /\ DOMAIN v.before = {t.metric : t \in v.scn.thresholds}
        /\ \A t \in v.scn.thresholds :
              t.metric[1] = "metric" /\ t.floor \in Nat /\ t.ratio \in Nat /\ t.ratio > 10
    BY <1>1, <1>2 DEF Observation, Watched, Runnable, Admitted
  <2>3. \A m \in DOMAIN v.before : v.before[m] \in Int \union {None}
    BY <1>1, <2>2 DEF Observation, States
  <2>4. /\ DOMAIN v.result.metrics = {m \in DOMAIN v.before : v.before[m] # None}
        /\ \A m \in DOMAIN v.result.metrics : v.result.metrics[m] = v.before[m]
    BY <2>1 DEF Samples, Restrict
  <2> QED
    BY <1>2, <2>2, <2>3, <2>4
<1>3. CASE v.scn.oracle # "metric"
  <2>1. v.scn.oracle = "playwright" \/ v.scn.oracle = "command"
    BY <1>1, <1>3 DEF Runnable, OraclePlugins, OracleKind
  <2>2. v.result.metrics = <<>>
    BY <1>1, <2>1 DEF OracleVerify, PlaywrightVerify, CommandVerify, Verified
  <2> QED
    BY <1>3, <2>2
<1> QED
  BY <1>2, <1>3

\* Drift is reported for what changed between two baselines of the same
\* scenario, under edits and reordering of the suite between them, and is not
\* missed in one that was assessed; what is called regressed is red now, or was
\* not measured (drift_report, compare_metrics).
THEOREM DriftIsHonest == Spec => []DriftHonest
<1>1. RegressionInv => DriftHonest
  <2>1. SUFFICES ASSUME RegressionInv, report # None, NEW i \in DOMAIN report,
                        NEW v, v = verdicts[i],
                        NEW k, k = <<opts.against, ScenarioId(v.scn)>>,
                        NEW g, g = goldens[k], NEW then, then = g.from.before,
                        ~report[i].missing, ~report[i].unassessed, ~g.from.dry, ~v.dry
                 PROVE  /\ Unpinned(g.from.scn) /\ Unpinned(v.scn) => g.from.scn.title = v.scn.title
                        /\ \A s \in report[i].regressed :
                             then[s] = "passed" /\ (NotMeasured(v, s) \/ v.before[s] \in Red)
                        /\ \A s \in g.green :
                             ~NotMeasured(v, s) /\ v.before[s] \in Red => s \in report[i].regressed
                        /\ \A m \in report[i].moved : \E t \in v.scn.thresholds :
                             /\ t.metric = m /\ Sampled(t, then, v.before) /\ then[m] > t.floor
                             /\ IF t.worse = "higher" THEN v.before[m] > then[m] ELSE v.before[m] < then[m]
                        /\ v.scn.oracle = "metric" /\ g.from.scn.oracle = "metric" =>
                             \A t \in v.scn.thresholds :
                                 /\ Sampled(t, then, v.before)
                                 /\ CompareMetric(t, then[t.metric], v.before[t.metric])
                                 => t.metric \in report[i].moved
    BY SMTT(60) DEF DriftHonest
  <2>2. /\ VerdictOK(v) /\ v.outcome \in Trustworthy /\ k \in DOMAIN goldens
        /\ report[i].regressed = g.green \ v.result.green
        /\ report[i].moved = MovedMetrics(v.scn.thresholds, g.metrics, v.result.metrics)
    BY <2>1, ComparedEntry
  <2>3. Means(v.scn, v.before, v.after, v.dry, v.result)
    BY <2>2, VerdictMeans
  <2>4. PICK u : /\ g.from.scn = u.scn /\ then = u.before
                 /\ g.from.dry = u.dry /\ g.green = u.result.green
                 /\ g.metrics = u.result.metrics
                 /\ ScenarioId(u.scn) = k[2]
                 /\ u.outcome \in Trustworthy /\ VerdictOK(u)
    BY <2>1, <2>2, GoldenSource
  <2>5. \A s \in g.green : then[s] = "passed" /\ s[1] # "metric"
    <3>1. Means(u.scn, u.before, u.after, u.dry, u.result)
      BY <2>4, VerdictMeans
    <3> QED
      BY <2>1, <2>4, <3>1 DEF Means
  <2>6. /\ \A s \in v.result.green : v.before[s] = "passed"
        /\ \A s \in DOMAIN v.before \ v.scn.quarantine :
              v.before[s] = "passed" /\ s[1] # "metric" => s \in v.result.green
    BY <2>1, <2>3 DEF Means
  <2>7. Unpinned(g.from.scn) /\ Unpinned(v.scn) => g.from.scn.title = v.scn.title
    <3>1. ScenarioId(g.from.scn) = ScenarioId(v.scn)
      BY <2>1, <2>4
    <3> QED
      BY <3>1 DEF ScenarioId, Unpinned
  <2>8. \A s \in DOMAIN v.before : s[1] # "metric" => v.before[s] \in {"passed", "skipped"} \union Red
    <3>1. \A s \in DOMAIN v.before : v.before[s] \in States(s)
      BY <2>2 DEF VerdictOK, Judged, Observation
    <3> QED
      BY <3>1 DEF States, SpecStates, Red
  <2>9. \A s \in report[i].regressed :
           then[s] = "passed" /\ (NotMeasured(v, s) \/ v.before[s] \in Red)
    BY <2>2, <2>5, <2>6, <2>8 DEF NotMeasured
  <2>10. \A s \in g.green :
            ~NotMeasured(v, s) /\ v.before[s] \in Red => s \in report[i].regressed
    BY <2>2, <2>6 DEF Red
  <2>11. /\ \A m \in DOMAIN v.result.metrics :
              /\ v.scn.oracle = "metric" /\ m \in DOMAIN v.before
              /\ v.before[m] \in Int /\ v.result.metrics[m] = v.before[m]
         /\ v.scn.oracle = "metric" =>
              \A m \in DOMAIN v.before : v.before[m] # None => m \in DOMAIN v.result.metrics
         /\ v.scn.oracle = "metric" =>
              \A t \in v.scn.thresholds : t.floor \in Nat /\ t.ratio \in Nat /\ t.ratio > 10
    BY <2>1, <2>2, SamplesMean
  <2>12. /\ \A m \in DOMAIN g.metrics :
              m \in DOMAIN then /\ then[m] \in Int /\ g.metrics[m] = then[m]
         /\ g.from.scn.oracle = "metric" =>
              \A m \in DOMAIN then : then[m] # None => m \in DOMAIN g.metrics
    BY <2>1, <2>4, SamplesMean
  <2>13. ASSUME NEW m \in report[i].moved
         PROVE  \E t \in v.scn.thresholds :
                   /\ t.metric = m /\ Sampled(t, then, v.before) /\ then[m] > t.floor
                   /\ IF t.worse = "higher" THEN v.before[m] > then[m] ELSE v.before[m] < then[m]
    <3>1. PICK t \in v.scn.thresholds :
             /\ t.metric = m /\ m \in DOMAIN g.metrics /\ m \in DOMAIN v.result.metrics
             /\ CompareMetric(t, g.metrics[m], v.result.metrics[m])
      BY <2>2, <2>13 DEF MovedMetrics
    <3>2. /\ then[m] \in Int /\ v.before[m] \in Int /\ m \in DOMAIN then /\ m \in DOMAIN v.before
          /\ CompareMetric(t, then[m], v.before[m])
          /\ t.floor \in Nat /\ t.ratio \in Nat /\ t.ratio > 10
      BY <2>11, <2>12, <3>1
    <3>3. then[m] > t.floor /\ IF t.worse = "higher" THEN v.before[m] > then[m] ELSE v.before[m] < then[m]
      BY <3>2, MovesAreWorse
    <3>4. Sampled(t, then, v.before)
      BY <3>1, <3>2, CostsAssumption DEF Sampled
    <3> QED
      BY <3>1, <3>3, <3>4
  <2>14. ASSUME v.scn.oracle = "metric", g.from.scn.oracle = "metric", NEW t \in v.scn.thresholds,
                Sampled(t, then, v.before), CompareMetric(t, then[t.metric], v.before[t.metric])
         PROVE  t.metric \in report[i].moved
    <3>1. /\ t.metric \in DOMAIN g.metrics /\ t.metric \in DOMAIN v.result.metrics
          /\ g.metrics[t.metric] = then[t.metric] /\ v.result.metrics[t.metric] = v.before[t.metric]
      BY <2>11, <2>12, <2>14 DEF Sampled
    <3>2. CompareMetric(t, g.metrics[t.metric], v.result.metrics[t.metric])
      BY <2>14, <3>1
    <3> QED
      BY <2>2, <3>1, <3>2 DEF MovedMetrics
  <2> QED
    BY <2>7, <2>9, <2>10, <2>13, <2>14
<1> QED
  BY <1>1, RegressionInvariant, PTL

\* What exit code 0 lets a pipeline conclude (regression_run_cmd): the run is
\* complete, nothing asserted broke where it could be assessed, and with
\* --fail-on-drift nothing of a golden is red.
THEOREM GateIsHonest == Spec => []GateHonest
<1>1. RegressionInv => GateHonest
  <2>1. SUFFICES ASSUME RegressionInv, pc = "idle", exit = 0
                 PROVE  /\ \E run \in saved : run.verdicts = run.scenarios
                        /\ \A i \in DOMAIN verdicts :
                             LET v == verdicts[i]
                             IN  /\ ~v.dry /\ v.outcome \notin {"error", "baseline_fail"} => Broke(v) = {}
                                 /\ opts.failOnDrift /\ report # None /\ ~v.dry =>
                                      \/ report[i].unassessed \/ report[i].missing
                                      \/ \A s \in goldens[<<opts.against, ScenarioId(v.scn)>>].green :
                                           s \in DOMAIN v.before => v.before[s] \notin Red
    BY DEF GateHonest
  <2>2. (\E run \in saved : run.verdicts = run.scenarios) /\ ExitCode(report) = 0
    BY <2>1 DEF RegressionInv, OutputInv, Complete
  <2>3. /\ \A i \in DOMAIN verdicts : verdicts[i].outcome # "regressed"
        /\ opts.failOnDrift /\ report # None => \A i \in DOMAIN report : ~Drifted(report[i])
    BY <2>2 DEF ExitCode
  <2>4. ASSUME NEW i \in DOMAIN verdicts, NEW v, v = verdicts[i]
        PROVE  /\ ~v.dry /\ v.outcome \notin {"error", "baseline_fail"} => Broke(v) = {}
               /\ opts.failOnDrift /\ report # None /\ ~v.dry =>
                    \/ report[i].unassessed \/ report[i].missing
                    \/ \A s \in goldens[<<opts.against, ScenarioId(v.scn)>>].green :
                         s \in DOMAIN v.before => v.before[s] \notin Red
    <3>1. VerdictOK(v)
      BY <2>1, <2>4 DEF RegressionInv, VerdictInv
    <3>2. ~v.dry /\ v.outcome \notin {"error", "baseline_fail"} => Broke(v) = {}
      <4>1. v.outcome \in {"pass", "error", "baseline_fail"}
        BY <2>3, <2>4, <3>1 DEF VerdictOK
      <4> QED
        BY <3>1, <4>1, OneVerdictJustified
    <3>3. ASSUME opts.failOnDrift, report # None, ~v.dry, ~report[i].unassessed, ~report[i].missing
          PROVE  \A s \in goldens[<<opts.against, ScenarioId(v.scn)>>].green :
                     s \in DOMAIN v.before => v.before[s] \notin Red
      <4>1. DOMAIN report = DOMAIN verdicts
        BY <2>1, <3>3 DEF RegressionInv, OutputInv, DriftReport
      <4>2. /\ v.outcome \in Trustworthy
            /\ report[i].regressed = goldens[<<opts.against, ScenarioId(v.scn)>>].green \ v.result.green
        BY <2>1, <2>4, <3>3, <4>1, ComparedEntry
      <4>3. report[i].regressed = {}
        BY <2>3, <2>4, <3>3, <4>1 DEF Drifted
      <4>4. Means(v.scn, v.before, v.after, v.dry, v.result)
        BY <3>1, <4>2, VerdictMeans
      <4>5. \A s \in v.result.green : v.before[s] = "passed"
        BY <3>3, <4>4 DEF Means
      <4> QED
        BY <4>2, <4>3, <4>5 DEF Red
    <3> QED
      BY <3>2, <3>3
  <2> QED
    BY <2>2, <2>4
<1> QED
  BY <1>1, RegressionInvariant, PTL

\* A cell of the coverage matrix is never "na" for a journey that the fault
\* has broken in a scenario of the suite, as long as the footprints are true
\* and the scenario is not hidden behind one with a selector (_cell).
THEOREM NaIsSound == Spec => []NaSound
<1>1. RegressionInv => NaSound
  <2>1. SUFFICES ASSUME RegressionInv, matrix # None, NEW i \in DOMAIN verdicts,
                        NEW scn, scn = verdicts[i].scn,
                        ~(scn.fault.targets = {} /\ FaultTargets(suite, scn.fault.name) # {}),
                        NEW s \in verdicts[i].hurt,
                        <<scn.fault.name, s>> \in DOMAIN matrix,
                        matrix[<<scn.fault.name, s>>] = "na"
                 PROVE  FALSE
    BY DEF NaSound
  <2>2. PICK fp \in FootprintFiles, scope \in Scopes : matrix = Matrix(suite, scope, fp)
    BY <2>1 DEF RegressionInv, MatrixInv
  <2>3. s \in suite.all_journeys /\ Cell(suite, fp, scn.fault.name, s) = "na"
    BY <2>1, <2>2 DEF Matrix
  <2>4. /\ s \in DOMAIN fp /\ FaultTargets(suite, scn.fault.name) # {}
        /\ FaultTargets(suite, scn.fault.name) \intersect fp[s] = {}
    BY <2>3 DEF Cell
  <2>5. DOMAIN verdicts = 1..Len(verdicts)
    BY DEF RegressionInv, VerdictInv
  <2>6. /\ VerdictOK(verdicts[i]) /\ scn = suite.scenarios[i]
        /\ i \in 1..Len(suite.scenarios) /\ suite \in Suites
    BY <2>1, <2>5 DEF RegressionInv, VerdictInv, SuiteInv
  <2>7. IsJourney(s)
    BY <2>3, <2>6, SuiteAssumption
  <2>8. s \in Signals /\ Aimed(scn, s)
    BY <2>1, <2>6, <2>7 DEF VerdictOK
  <2>9. scn.fault.targets \subseteq FaultTargets(suite, scn.fault.name)
    <3>1. DOMAIN suite.scenarios = 1..Len(suite.scenarios)
      BY <2>6, SuiteLength
    <3>2. scn \in ToSet(suite.scenarios)
      BY <2>6, <3>1 DEF ToSet
    <3> QED
      BY <3>2 DEF FaultTargets
  <2>10. scn.fault.targets \intersect Path[s] # {}
    BY <2>1, <2>4, <2>8 DEF Aimed
  <2>11. Path[s] \subseteq fp[s]
    BY <2>4, <2>8, FootprintAssumption
  <2> QED
    BY <2>4, <2>9, <2>10, <2>11
<1> QED
  BY <1>1, RegressionInvariant, PTL
=============================================================================
