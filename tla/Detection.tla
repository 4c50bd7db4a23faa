------------------------------ MODULE Detection ------------------------------
(***************************************************************************)
(* How an experiment comes to call itself regressed: the tester's probes   *)
(* and the security scans run before and after the fault, one await at a   *)
(* time, while Prometheus answers, errs or drops out, scanners fail, and   *)
(* the images, the checkout and the cluster change under them; then the    *)
(* loop compares (orchestrator/loop.py, orchestrator/safety.py, with       *)
(* Tester and SecurityScan).                                               *)
(*                                                                         *)
(* The fault itself and the gates on budget and control are Injection's    *)
(* and ExperimentLoop's; here the chaos step is the time between.          *)
(***************************************************************************)
EXTENDS Tester, SecurityScan

CONSTANTS
    Setups,      \* the pairs to explore of a target's probe file (a list of
                 \* probes, or None) and what is asked of the security agent
    Answers,     \* what Prometheus may answer to one query
    RunCount,    \* baseline_run_count of the request
    Versions,    \* what an image, the checkout or the cluster may hold
    None,        \* Python's None
    MaxChanges   \* bound: changes of the scanned artefacts

ASSUME RunCountAssumption == RunCount \in Nat \ {0}
ASSUME SetupAssumption == \A s \in Setups :
    /\ s.probes = None \/ s.probes \in Seq(ToSet(s.probes))
    /\ s.request.images \in Seq(ToSet(s.request.images))
ASSUME AnswersAssumption ==
    /\ NaN \notin Int
    /\ \A a \in Answers : a.form = "vector" => a.values \in Seq(Int \union {NaN})

Modes == {"baseline", "verify"}

VARIABLES
    pc,          \* "start", "tester", "security", "gate", "chaos", "decide",
                 \* or the outcome: "aborted", "steady", "regressed", "raised"
    mode,        \* "baseline" or "verify"
    probes,      \* the target's probe set
    answers,     \* per mode, Prometheus' answers so far
    tester,      \* per mode, the TesterReport
    request,     \* the SecurityRequest and the agent's configuration
    done,        \* how far the current mode is in the order of the scans
    severe,      \* scans of the current mode with a high or critical finding
    digests,     \* per mode, the SBOM digest of each image
    security,    \* per mode, the SecurityReport, or None
    contents,    \* what every scanned location holds now
    changes,     \* for the bound
    scanned      \* ghost: per mode, the scans that gave a report (cosign has
                 \* none), each with what its location held then

testerVars == <<probes, answers, tester>>
securityVars == <<request, done, severe, digests, security, scanned>>
worldVars == <<contents, changes>>
vars == <<pc, mode, testerVars, securityVars, worldVars>>

PerMode(x) == [m \in Modes |-> x]
Locations(req) == {ScanAt(req, n)[2] : n \in ScanPlan(req)}

Init ==
    /\ pc = "start" /\ mode = "baseline"
    /\ \E s \in Setups : probes = s.probes /\ request = s.request
    /\ answers = PerMode(<<>>) /\ tester = PerMode(NoReport)
    /\ done = 0 /\ severe = {}
    /\ digests = PerMode(<<>>) /\ security = PerMode(None) /\ scanned = PerMode({})
    /\ contents \in [Locations(request) -> Versions] /\ changes = 0

\* Someone pushes an image, a commit or a manifest; the fault may do it too.
Change ==
    /\ changes < MaxChanges /\ changes' = changes + 1
    /\ \E l \in DOMAIN contents, v \in Versions :
         contents[l] # v /\ contents' = [contents EXCEPT ![l] = v]
    /\ UNCHANGED <<pc, mode, testerVars, securityVars>>

-----------------------------------------------------------------------------
(* The tester. *)

Runs(m) == IF m = "baseline" THEN RunCount ELSE 1
Baseline(m) == IF m = "verify" /\ tester["baseline"].made
               THEN tester["baseline"].samples ELSE <<>>

\* The loop calls tester.baseline, or later tester.verify; without a probe
\* file the report is immediate.
AskTester ==
    /\ pc \in {"start", "chaos"}
    /\ mode' = IF pc = "start" THEN "baseline" ELSE "verify"
    /\ pc' = IF probes = None THEN "security" ELSE "tester"
    /\ tester' = IF probes = None THEN [tester EXCEPT ![mode'] = NoProbes] ELSE tester
    /\ done' = 0 /\ severe' = {}
    /\ UNCHANGED <<probes, answers, request, digests, security, scanned, worldVars>>

\* One query of one run of one probe.  evaluate_probe catches PromQueryError;
\* a transport error that outlives the retries, or a body that is not JSON,
\* leaves the tester as an exception.
Query ==
    /\ pc = "tester" /\ Len(answers[mode]) < Len(probes) * Runs(mode)
    /\ \E ans \in Answers :
         IF ans.form = "transport"
         THEN pc' = "raised" /\ UNCHANGED answers
         ELSE answers' = [answers EXCEPT ![mode] = Append(@, ans)] /\ UNCHANGED pc
    /\ UNCHANGED <<mode, probes, tester, securityVars, worldVars>>

ReportProbes ==
    /\ pc = "tester" /\ Len(answers[mode]) = Len(probes) * Runs(mode)
    /\ tester' = [tester EXCEPT ![mode] = RunReport(probes, Runs(mode), answers[mode], Baseline(mode))]
    /\ pc' = "security"
    /\ UNCHANGED <<mode, probes, answers, securityVars, worldVars>>

-----------------------------------------------------------------------------
(* The security agent. *)

\* One scanner through _safe_call, which catches ScannerError only.
ToScan == {n \in ScanPlan(request) : n > done}
Scan ==
    /\ pc = "security"
    /\ \E n \in ToScan, p \in Processes :
         LET scan == ScanAt(request, n)
             held == contents[scan[2]]
             result == RunScanner(scan, p, held, request)
             ran == result.kind = "findings"
         IN  /\ \A k \in ToScan : n <= k
             /\ Possible(scan, p, held)
             /\ IF result.kind = "raises"
                THEN /\ pc' = "raised"
                     /\ UNCHANGED <<done, severe, digests, scanned>>
                ELSE /\ done' = n
                     /\ severe' = IF ran /\ result.severe THEN severe \union {scan} ELSE severe
                     /\ digests' = IF ran /\ scan[1] = "syft"
                                   THEN [digests EXCEPT ![mode] = Record(@, scan[2], DigestSbom(held))]
                                   ELSE digests
                     /\ scanned' = IF ran /\ scan[1] # "cosign" /\ p.out = "json"
                                   THEN [scanned EXCEPT ![mode] = @ \union {<<scan, held>>}]
                                   ELSE scanned
                     /\ UNCHANGED pc
    /\ UNCHANGED <<mode, testerVars, request, security, worldVars>>

\* The report; baseline is remembered per experiment for the drift of verify.
ReportScans ==
    /\ pc = "security" /\ ToScan = {}
    /\ security' = [security EXCEPT ![mode] =
                      [severe |-> severe,
                       drift |-> mode = "verify"
                                 /\ ComputeDrift(digests["baseline"], digests["verify"])]]
    /\ pc' = IF mode = "baseline" THEN "gate" ELSE "decide"
    /\ UNCHANGED <<mode, testerVars, request, done, severe, digests, scanned, worldVars>>

-----------------------------------------------------------------------------
(* The loop. *)

\* check_baseline_healthy
BaselineHealthy_testerOnly == tester["baseline"].steady
BaselineHealthy == tester["baseline"].steady /\ security["baseline"].severe = {}
Gate ==
    /\ pc = "gate"
    /\ pc' = IF BaselineHealthy THEN "chaos" ELSE "aborted"
    /\ UNCHANGED <<mode, testerVars, securityVars, worldVars>>

BuiltinRegressed ==
    \/ ~tester["verify"].steady
    \/ security["verify"].severe # {}
    \/ security["verify"].drift
Decide ==
    /\ pc = "decide"
    /\ pc' = IF BuiltinRegressed THEN "regressed" ELSE "steady"
    /\ UNCHANGED <<mode, testerVars, securityVars, worldVars>>

Next == Change \/ AskTester \/ Query \/ ReportProbes \/ Scan \/ ReportScans
          \/ Gate \/ Decide
Spec == Init /\ [][Next]_vars

-----------------------------------------------------------------------------
(* Properties. *)

\* A report that says "steady" was earned: every query of every probe came
\* back with data in that mode, and the data are numbers.  A series that holds
\* NaN passes a probe that only asks for a result, and no other (tester/agent.py
\* _run_probes, probes/_base.py evaluate_probe).
SteadyIsWitnessed ==
    \A m \in Modes :
        tester[m].steady =>
            /\ Len(answers[m]) = Len(probes) * Runs(m)
            /\ \A k \in DOMAIN answers[m] : answers[m][k].form = "vector" /\ answers[m][k].values # <<>>
            /\ \A i \in DOMAIN probes, k \in 1 .. Runs(m) :
                 NaN \in ToSet(answers[m][(i - 1) * Runs(m) + k].values) =>
                   probes[i].kind = "result_not_empty"

\* A steady verify is near the baseline: where the baseline varied, between
\* lo and hi, the new value is within one and a half times that range of it -
\* so three deviations, however the arithmetic is done, never hide a large
\* shift.  (Only for the last probe of a metric: an earlier one is compared
\* with the last one's baseline.)
ShiftCaught ==
    tester["verify"].steady =>
        \A i \in DOMAIN probes :
            LET last == \A j \in DOMAIN probes : probes[j].metric = probes[i].metric => j <= i
                base == {Total(answers["baseline"][(i - 1) * RunCount + k].values) : k \in 1 .. RunCount}
                new == Total(answers["verify"][i].values)
            IN  last /\ NaN \notin base \union {new} =>
                    \A lo, hi \in base :
                        lo < hi /\ (\A b \in base : b \in lo .. hi) =>
                            2 * new \in (2 * lo - 3 * (hi - lo)) .. (2 * hi + 3 * (hi - lo))

\* The SBOM drift of a run is about what is installed: the packages of an
\* image differ from what baseline recorded, or its inventory failed at
\* verify - and a difference that both scans saw is never missed
\* (security/agent.py _compute_drift, scanners/sbom.py _digest_sbom).
DriftExplained ==
    security["verify"] # None =>
        LET inventories(m, img) ==
                {Packages[look[2]] : look \in {l \in scanned[m] : l[1] = <<"syft", img>>}}
        IN  /\ security["verify"].drift =>
                 \E img \in ToSet(request.images) :
                    \E was \in inventories("baseline", img) : inventories("verify", img) # {was}
            /\ ~security["verify"].drift =>
                 \A img \in ToSet(request.images) :
                    inventories("baseline", img) # {} =>
                        inventories("baseline", img) \intersect inventories("verify", img) # {}

\* A high or critical finding that makes a run regressed is new: its scanner
\* looked at something that baseline's scans never reported on - the location
\* changed, or baseline's scan had failed or printed nothing - cosign's verdict
\* apart (safety.py check_baseline_healthy is what makes it so).
FindingIsNew ==
    pc = "regressed" =>
        \A scan \in security["verify"].severe :
            scan[1] # "cosign" =>
                \E look \in scanned["verify"] \ scanned["baseline"] : look[1] = scan
=============================================================================
