-------------------------- MODULE Detection_proofs --------------------------
(***************************************************************************)
(* Proofs about how an experiment comes to call itself steady, drifted or  *)
(* regressed, for all probe sets, requests, answers and contents.          *)
(*                                                                         *)
(* The tester's half rests on one fact about RunReport: a report without   *)
(* failed probes is one in which every answer of every run of every probe  *)
(* was a vector with data.  The security half keeps, per mode, what was    *)
(* scanned next to what was made of it: LookInv ties the severe findings,  *)
(* and DigestInv the digests, to what the locations held when they were    *)
(* looked at - which is not what they hold when the report is written.     *)
(*                                                                         *)
(* How far a steady verify may be from its baseline is arithmetic over the *)
(* n runs: with S their sum, Q the sum of their squares and all of them    *)
(* between lo and hi, Q <= (lo + hi) * S - n * lo * hi (Bounds), so that   *)
(* the deviation is at most half the range and three of them one and a     *)
(* half times the range.  ReportInv adds that verify compares with the     *)
(* baseline that was measured.  Sums are proved about by induction on a    *)
(* list's positions: a counterexample would have a least one.              *)
(***************************************************************************)
EXTENDS Detection, WellFoundedInduction, TLAPS

Kinds == {"trivy", "syft", "grype", "cosign", "gitleaks", "kubescape"}

-----------------------------------------------------------------------------
(* The inductive invariant. *)

ShapeInv ==
    /\ mode \in Modes
    /\ DOMAIN answers = Modes /\ DOMAIN tester = Modes /\ DOMAIN digests = Modes
    /\ DOMAIN security = Modes /\ DOMAIN scanned = Modes
    /\ \A m \in Modes : answers[m] \in Seq(Answers)
    /\ probes = None \/ probes \in Seq(ToSet(probes))
    /\ request.images \in Seq(ToSet(request.images))

\* Where the experiment is, and what has not happened yet.
PlaceInv ==
    /\ pc \in {"start", "gate", "chaos"} => mode = "baseline"
    /\ pc \in {"decide", "steady", "regressed"} => mode = "verify"
    /\ mode = "baseline" => tester["verify"] = NoReport /\ security["verify"] = None
                              /\ scanned["verify"] = {} /\ digests["verify"] = <<>>
    /\ pc \in {"start", "tester"} => tester[mode] = NoReport /\ scanned[mode] = {}
    /\ pc \in {"start", "tester", "security"} => security[mode] = None
    /\ pc = "tester" => probes # None

\* The severe findings of a mode are about what its scans looked at: each
\* (cosign's apart) is of vulnerable contents, and none was missed.
SevereMatches(m, found) ==
    /\ \A scan \in found : scan[1] # "cosign" =>
         \E look \in scanned[m] :
            look[1] = scan /\ look[2] \in Vulnerable /\ scan[1] # "syft"
    /\ \A look \in scanned[m] :
         look[1][1] \notin {"syft", "cosign"} /\ look[2] \in Vulnerable => look[1] \in found

LookInv ==
    /\ pc \in {"tester", "security"} => SevereMatches(mode, severe)
    /\ mode = "verify" \/ pc \in {"gate", "chaos"} =>
         SevereMatches("baseline", security["baseline"].severe)
    /\ mode = "verify" \/ pc = "chaos" => security["baseline"].severe = {}
    /\ pc \in {"decide", "steady", "regressed"} =>
         SevereMatches("verify", security["verify"].severe)

\* The digest of an image is that of the inventory taken last, and there is
\* one for every inventory that was taken.
DigestMatches(m) ==
    /\ \A img \in DOMAIN digests[m] :
         \E look \in scanned[m] : look[1] = <<"syft", img>> /\ Packages[look[2]] = digests[m][img]
    /\ \A look \in scanned[m] : look[1][1] = "syft" =>
         \E img \in ToSet(request.images) : look[1] = <<"syft", img>> /\ img \in DOMAIN digests[m]

DigestInv == \A m \in Modes : DigestMatches(m)

DetectInv == /\ ShapeInv /\ PlaceInv /\ LookInv /\ DigestInv
             /\ SteadyIsWitnessed /\ DriftExplained

-----------------------------------------------------------------------------
(* The report of the probes. *)

\* The answers to the runs of every probe are all the answers there are.
LEMMA EveryAnswer ==
  ASSUME NEW n \in Nat, NEW r \in Nat \ {0}, NEW k \in 1 .. n * r
  PROVE  \E i \in 1 .. n, j \in 1 .. r : k = (i - 1) * r + j
<1> DEFINE q == (k - 1) \div r
           s == (k - 1) % r
<1>1. k \in Int /\ k >= 1 /\ k <= n * r
  OBVIOUS
<1>2. /\ q \in Int /\ s \in Int /\ 0 <= s /\ s < r
      /\ k - 1 = r * q + s
  BY <1>1
<1> HIDE DEF q, s
<1>3. q >= 0
  BY <1>1, <1>2
<1>4. q < n
  <2>1. SUFFICES ASSUME q >= n PROVE FALSE
    BY <1>2
  <2>2. r * q >= r * n
    BY <1>2, <2>1
  <2> QED
    BY <1>1, <1>2, <2>2
<1>5. k = ((q + 1) - 1) * r + (s + 1)
  BY <1>1, <1>2
<1>6. q + 1 \in 1 .. n /\ s + 1 \in 1 .. r
  BY <1>2, <1>3, <1>4
<1>7. PICK i \in 1 .. n, j \in 1 .. r : i = q + 1 /\ j = s + 1
  BY <1>6
<1>8. k = (i - 1) * r + j
  BY <1>5, <1>7
<1> QED
  BY <1>8, Zenon

\* A probe passes only on a vector with data (evaluate_probe).
LEMMA PassedMeans ==
  ASSUME NEW p, NEW ans, EvaluateProbe(p, ans).passed
  PROVE  ans.form = "vector" /\ ans.values # <<>>
BY DEF EvaluateProbe

\* Only a probe that asks for no more than a result passes on NaN.
LEMMA PassedOnNaN ==
  ASSUME NEW p, NEW ans, EvaluateProbe(p, ans).passed, NaN \in ToSet(ans.values)
  PROVE  p.kind = "result_not_empty"
<1>1. Total(ans.values) = NaN /\ ans.form = "vector" /\ ans.values # <<>>
  BY PassedMeans DEF Total
<1>2. Meets(p, NaN)
  BY <1>1 DEF EvaluateProbe
<1> QED
  BY <1>2 DEF Meets

\* A steady report has no failed probe.
LEMMA SteadyReport ==
  ASSUME NEW ps, NEW r, NEW ans, NEW base, RunReport(ps, r, ans, base).steady
  PROVE  \A i \in DOMAIN ps, k \in 1 .. r : EvaluateProbe(ps[i], ans[(i - 1) * r + k]).passed
BY DEF RunReport, ProbeRuns

\* A steady report of a complete set of answers was earned by each of them.
LEMMA SteadyEarned ==
  ASSUME NEW ps, ps \in Seq(ToSet(ps)), NEW r \in Nat \ {0}, NEW base,
         NEW ans, ans \in Seq(Answers), Len(ans) = Len(ps) * r,
         RunReport(ps, r, ans, base).steady
  PROVE  \A k \in DOMAIN ans : ans[k].form = "vector" /\ ans[k].values # <<>>
<1>1. SUFFICES ASSUME NEW k \in DOMAIN ans
               PROVE  ans[k].form = "vector" /\ ans[k].values # <<>>
  OBVIOUS
<1>2. Len(ps) \in Nat /\ DOMAIN ps = 1 .. Len(ps) /\ DOMAIN ans = 1 .. Len(ans)
  OBVIOUS
<1>3. PICK i \in 1 .. Len(ps), j \in 1 .. r : k = (i - 1) * r + j
  <2>1. k \in 1 .. Len(ps) * r
    BY <1>1, <1>2
  <2> QED
    BY ZenonT(60), <1>2, <2>1, EveryAnswer
<1>4. EvaluateProbe(ps[i], ans[k]).passed
  BY <1>2, <1>3, SteadyReport
<1> QED
  BY <1>4, PassedMeans

\* In a steady report NaN stands only where a result was all that was asked.
LEMMA SteadyNumbers ==
  ASSUME NEW ps, NEW r, NEW ans, NEW base, RunReport(ps, r, ans, base).steady
  PROVE  \A i \in DOMAIN ps, k \in 1 .. r :
           NaN \in ToSet(ans[(i - 1) * r + k].values) => ps[i].kind = "result_not_empty"
<1>1. \A i \in DOMAIN ps, k \in 1 .. r : EvaluateProbe(ps[i], ans[(i - 1) * r + k]).passed
  BY SteadyReport
<1> QED
  BY Zenon, <1>1, PassedOnNaN

-----------------------------------------------------------------------------
(* The scans. *)

\* Every scan of the order is one of the six scanners; the inventories are of
\* the images of the request.
LEMMA PlannedScan ==
  ASSUME ShapeInv, NEW n \in ScanPlan(request), NEW scan, scan = ScanAt(request, n)
  PROVE  /\ scan[1] \in Kinds
         /\ scan[1] = "syft" => \E img \in ToSet(request.images) : scan = <<"syft", img>>
<1>1. /\ n \in Int /\ 1 <= n /\ n <= 4 * Len(request.images) + 2
      /\ Len(request.images) \in Nat /\ DOMAIN request.images = 1 .. Len(request.images)
  BY DEF ShapeInv, ScanPlan, LastScan
<1>2. CASE n <= 4 * Len(request.images)
  <2>1. /\ ((n - 1) % 4) + 1 \in 1 .. 4
        /\ ((n - 1) \div 4) + 1 \in 1 .. Len(request.images)
    BY <1>1, <1>2
  <2>2. PICK a \in 1 .. 4, b \in DOMAIN request.images :
            scan = <<ImageScanners[a], request.images[b]>>
    BY <1>1, <1>2, <2>1 DEF ScanAt
  <2>3. ImageScanners[a] \in Kinds
    BY DEF ImageScanners, Kinds
  <2> QED
    BY <2>2, <2>3 DEF ToSet
<1>3. CASE n > 4 * Len(request.images)
  BY <1>1, <1>3 DEF ScanAt, Kinds
<1> QED
  BY <1>1, <1>2, <1>3

\* What a scan's findings say of what it looked at (cosign's do not).
LEMMA ScannerMeans ==
  ASSUME NEW scan, scan[1] \in Kinds \ {"cosign"}, NEW p \in Processes, NEW held, NEW req,
         RunScanner(scan, p, held, req).kind = "findings"
  PROVE  LET result == RunScanner(scan, p, held, req)
         IN  /\ result.severe => p.out = "json" /\ held \in Vulnerable /\ scan[1] # "syft"
             /\ p.out = "json" /\ held \in Vulnerable /\ scan[1] # "syft" => result.severe
             /\ scan[1] = "syft" => p.out = "json"
<1>1. p.ended \in {"exited", "timeout", "not_installed"}
  BY DEF Processes
<1>2. p.ended = "exited"
  BY <1>1 DEF RunScanner, Raises, Failed
<1>3. CASE scan[1] = "trivy"
  BY Zenon, <1>2, <1>3 DEF RunScanner, Trivy, FromPackages, Findings, Failed, Raises
<1>4. CASE scan[1] = "grype"
  BY Zenon, <1>2, <1>4 DEF RunScanner, Grype, FromPackages, Findings, Failed, Raises
<1>5. CASE scan[1] = "syft"
  BY <1>2, <1>5 DEF RunScanner, Syft, Findings, Failed
<1>6. CASE scan[1] = "gitleaks"
  BY <1>2, <1>6 DEF RunScanner, Gitleaks, Findings, Failed
<1>7. CASE scan[1] = "kubescape"
  BY <1>2, <1>7 DEF RunScanner, Kubescape, Findings, Failed
<1> QED
  BY <1>3, <1>4, <1>5, <1>6, <1>7 DEF Kinds

-----------------------------------------------------------------------------
(* Initial states and steps. *)

\* No report, or one without probes, is not steady.
LEMMA NothingSteady == ~NoReport.steady /\ ~NoProbes.steady
BY DEF NoReport, NoProbes

LEMMA DetectInit == Init => DetectInv
<1> SUFFICES ASSUME Init PROVE DetectInv
  OBVIOUS
<1>1. PICK s \in Setups : probes = s.probes /\ request = s.request
  BY DEF Init
<1>2. /\ DOMAIN answers = Modes /\ DOMAIN tester = Modes /\ DOMAIN digests = Modes
      /\ DOMAIN security = Modes /\ DOMAIN scanned = Modes
      /\ \A m \in Modes : /\ answers[m] = <<>> /\ tester[m] = NoReport /\ digests[m] = <<>>
                          /\ security[m] = None /\ scanned[m] = {}
  BY DEF Init, PerMode
<1>3. ShapeInv
  <2>1. mode \in Modes
    BY DEF Init, Modes
  <2>2. \A m \in Modes : answers[m] \in Seq(Answers)
    <3>1. <<>> \in Seq(Answers)
      OBVIOUS
    <3> QED
      BY <1>2, <3>1
  <2>3. /\ probes = None \/ probes \in Seq(ToSet(probes))
        /\ request.images \in Seq(ToSet(request.images))
    BY <1>1, SetupAssumption
  <2> QED
    BY <1>2, <2>1, <2>2, <2>3 DEF ShapeInv
<1>4. PlaceInv /\ LookInv
  BY <1>2 DEF Init, PlaceInv, LookInv, Modes
<1>5. DigestInv
  BY <1>2 DEF DigestInv, DigestMatches
<1>6. SteadyIsWitnessed /\ DriftExplained
  BY <1>2, NothingSteady DEF SteadyIsWitnessed, DriftExplained, Modes
<1> QED
  BY <1>3, <1>4, <1>5, <1>6 DEF DetectInv

\* What was earned stays earned until the tester is asked again.
LEMMA TesterSame ==
  ASSUME DetectInv, UNCHANGED <<probes, answers, tester>>
  PROVE  SteadyIsWitnessed'
BY DEF DetectInv, SteadyIsWitnessed, Runs

\* Inventories and drift depend on what was scanned only.
LEMMA ScansSame ==
  ASSUME DetectInv, UNCHANGED <<request, digests, security, scanned>>
  PROVE  DigestInv' /\ DriftExplained'
<1>1. DigestInv'
  BY DEF DetectInv, DigestInv, DigestMatches
<1>2. DriftExplained'
  BY ZenonT(60) DEF DetectInv, DriftExplained
<1> QED
  BY <1>1, <1>2

\* Nothing here looks at the artefacts themselves.
LEMMA OtherStep ==
  ASSUME DetectInv, UNCHANGED <<pc, mode, testerVars, securityVars>>
  PROVE  DetectInv'
<1>1. UNCHANGED <<pc, mode, probes, answers, tester, request, done, severe, digests, security, scanned>>
  BY DEF testerVars, securityVars
<1>2. ShapeInv' /\ PlaceInv'
  BY <1>1 DEF DetectInv, ShapeInv, PlaceInv
<1>3. LookInv'
  BY <1>1 DEF DetectInv, LookInv, SevereMatches
<1> QED
  BY <1>1, <1>2, <1>3, TesterSame, ScansSame DEF DetectInv

LEMMA AskTesterStep == DetectInv /\ AskTester => DetectInv'
<1> SUFFICES ASSUME DetectInv, AskTester PROVE DetectInv'
  OBVIOUS
<1>1. /\ pc \in {"start", "chaos"} /\ mode = "baseline"
      /\ mode' \in Modes /\ (pc = "start" => mode' = "baseline") /\ (pc = "chaos" => mode' = "verify")
      /\ pc' \in {"security", "tester"} /\ (pc' = "tester" => UNCHANGED tester /\ probes # None)
      /\ UNCHANGED tester \/ tester' = [tester EXCEPT ![mode'] = NoProbes]
      /\ severe' = {} /\ UNCHANGED <<probes, answers, request, digests, security, scanned>>
  BY DEF AskTester, DetectInv, PlaceInv, Modes
<1>2. ShapeInv'
  BY <1>1 DEF DetectInv, ShapeInv
<1>3. tester[mode'] = NoReport /\ security[mode'] = None /\ scanned[mode'] = {}
  BY <1>1 DEF DetectInv, PlaceInv
<1>4. PlaceInv'
  BY <1>1, <1>3 DEF DetectInv, ShapeInv, PlaceInv, Modes
<1>5. LookInv'
  <2>1. SevereMatches(mode, severe)'
    BY <1>1, <1>3 DEF SevereMatches
  <2>2. mode' = "verify" => /\ SevereMatches("baseline", security["baseline"].severe)
                            /\ security["baseline"].severe = {}
    BY <1>1 DEF DetectInv, LookInv, Modes
  <2>3. mode' = "verify" => SevereMatches("baseline", security["baseline"].severe)'
    BY <1>1, <2>2 DEF SevereMatches
  <2> QED
    BY <1>1, <2>1, <2>2, <2>3 DEF LookInv
<1>6. SteadyIsWitnessed'
  <2>1. ~NoProbes.steady
    BY DEF NoProbes
  <2> QED
    BY <1>1, <2>1 DEF DetectInv, ShapeInv, SteadyIsWitnessed, Runs
<1> QED
  BY <1>1, <1>2, <1>4, <1>5, <1>6, ScansSame DEF DetectInv

LEMMA QueryStep == DetectInv /\ Query => DetectInv'
<1> SUFFICES ASSUME DetectInv, Query PROVE DetectInv'
  OBVIOUS
<1>1. /\ pc = "tester" /\ UNCHANGED <<mode, probes, tester, request, severe, digests, security, scanned>>
      /\ pc' \in {"tester", "raised"}
      /\ \/ UNCHANGED answers
         \/ \E ans \in Answers : answers' = [answers EXCEPT ![mode] = Append(answers[mode], ans)]
  BY DEF Query, securityVars
<1>2. /\ DOMAIN answers' = Modes /\ mode \in Modes
      /\ \A m \in Modes : answers'[m] \in Seq(Answers) /\ (m # mode => answers'[m] = answers[m])
  <2>1. mode \in Modes /\ DOMAIN answers = Modes /\ \A m \in Modes : answers[m] \in Seq(Answers)
    BY DEF DetectInv, ShapeInv
  <2>2. \A ans \in Answers : Append(answers[mode], ans) \in Seq(Answers)
    BY <2>1
  <2> QED
    BY <1>1, <2>1, <2>2
<1>3. ShapeInv'
  BY <1>1, <1>2 DEF DetectInv, ShapeInv
<1>4. PlaceInv'
  BY <1>1 DEF DetectInv, PlaceInv
<1>5. LookInv'
  BY <1>1 DEF DetectInv, LookInv, SevereMatches
<1>6. SteadyIsWitnessed'
  <2>1. tester[mode] = NoReport
    BY <1>1 DEF DetectInv, PlaceInv
  <2> QED
    BY <1>1, <1>2, <2>1, NothingSteady DEF DetectInv, SteadyIsWitnessed, Runs
<1> QED
  BY <1>1, <1>3, <1>4, <1>5, <1>6, ScansSame DEF DetectInv

LEMMA ReportProbesStep == DetectInv /\ ReportProbes => DetectInv'
<1> SUFFICES ASSUME DetectInv, ReportProbes PROVE DetectInv'
  OBVIOUS
<1>1. /\ pc = "tester" /\ pc' = "security"
      /\ Len(answers[mode]) = Len(probes) * Runs(mode)
      /\ tester' = [tester EXCEPT ![mode] = RunReport(probes, Runs(mode), answers[mode], Baseline(mode))]
      /\ UNCHANGED <<mode, probes, answers, request, severe, digests, security, scanned>>
  BY DEF ReportProbes, securityVars
<1>2. ShapeInv' /\ mode \in Modes
  BY <1>1 DEF DetectInv, ShapeInv
<1>3. PlaceInv'
  BY <1>1, <1>2 DEF DetectInv, ShapeInv, PlaceInv
<1>4. LookInv'
  BY <1>1 DEF DetectInv, LookInv, SevereMatches
<1>5. SteadyIsWitnessed'
  <2>1. Runs(mode) \in Nat \ {0}
    BY RunCountAssumption DEF Runs
  <2>2. /\ probes \in Seq(ToSet(probes)) /\ answers[mode] \in Seq(Answers)
        /\ DOMAIN tester = Modes /\ mode \in Modes
    BY <1>1 DEF DetectInv, ShapeInv, PlaceInv
  <2>3. PICK report : report = RunReport(probes, Runs(mode), answers[mode], Baseline(mode))
    OBVIOUS
  <2>4. report.steady =>
          \A k \in DOMAIN answers[mode] :
             answers[mode][k].form = "vector" /\ answers[mode][k].values # <<>>
    BY ZenonT(60), <1>1, <2>1, <2>2, <2>3, SteadyEarned
  <2>4a. report.steady =>
           \A i \in DOMAIN probes, k \in 1 .. Runs(mode) :
              NaN \in ToSet(answers[mode][(i - 1) * Runs(mode) + k].values) =>
                probes[i].kind = "result_not_empty"
    BY Zenon, <2>3, SteadyNumbers
  <2>5. tester'[mode] = report /\ \A m \in Modes \ {mode} : tester'[m] = tester[m]
    BY <1>1, <2>2, <2>3
  <2>6. ASSUME NEW m \in Modes, tester'[m].steady
        PROVE  /\ Len(answers[m]) = Len(probes) * Runs(m)
               /\ \A k \in DOMAIN answers[m] : answers[m][k].form = "vector" /\ answers[m][k].values # <<>>
               /\ \A i \in DOMAIN probes, k \in 1 .. Runs(m) :
                    NaN \in ToSet(answers[m][(i - 1) * Runs(m) + k].values) =>
                      probes[i].kind = "result_not_empty"
    <3>1. CASE m = mode
      BY <1>1, <2>4, <2>4a, <2>5, <2>6, <3>1
    <3>2. CASE m # mode
      BY <2>5, <2>6, <3>2 DEF DetectInv, SteadyIsWitnessed
    <3> QED
      BY <3>1, <3>2
  <2> QED
    BY <1>1, <2>6 DEF SteadyIsWitnessed, Runs
<1> QED
  BY <1>1, <1>2, <1>3, <1>4, <1>5, ScansSame DEF DetectInv

\* What one scan that does not raise leaves behind: a finding, a look, an
\* inventory, or none of them - and how they hang together.
Effect(scan, held, bad, look) ==
    /\ scan[1] = "syft" => \E img \in ToSet(request.images) : scan = <<"syft", img>>
    /\ severe' = IF bad THEN severe \union {scan} ELSE severe
    /\ scanned' = IF look THEN [scanned EXCEPT ![mode] = scanned[mode] \union {<<scan, held>>}]
                          ELSE scanned
    /\ digests' = IF look /\ scan[1] = "syft"
                  THEN [digests EXCEPT ![mode] = Record(digests[mode], scan[2], Packages[held])]
                  ELSE digests
    /\ bad /\ scan[1] # "cosign" => look /\ held \in Vulnerable /\ scan[1] # "syft"
    /\ look /\ held \in Vulnerable /\ scan[1] \notin {"syft", "cosign"} => bad

LEMMA ScanEffect ==
  ASSUME DetectInv, Scan, pc' # "raised"
  PROVE  \E scan, held : \E bad, look \in BOOLEAN : Effect(scan, held, bad, look)
<1>1. PICK n \in ToScan, p \in Processes :
        LET scan == ScanAt(request, n)
            held == contents[scan[2]]
            result == RunScanner(scan, p, held, request)
            ran == result.kind = "findings"
        IN  /\ severe' = IF ran /\ result.severe THEN severe \union {scan} ELSE severe
            /\ digests' = IF ran /\ scan[1] = "syft"
                          THEN [digests EXCEPT ![mode] = Record(digests[mode], scan[2], DigestSbom(held))]
                          ELSE digests
            /\ scanned' = IF ran /\ scan[1] # "cosign" /\ p.out = "json"
                          THEN [scanned EXCEPT ![mode] = scanned[mode] \union {<<scan, held>>}]
                          ELSE scanned
  BY DEF Scan
<1>2. PICK scan, held, result :
        scan = ScanAt(request, n) /\ held = contents[scan[2]] /\ result = RunScanner(scan, p, held, request)
  OBVIOUS
<1>3. PICK bad \in BOOLEAN, look \in BOOLEAN :
        /\ bad = (result.kind = "findings" /\ result.severe)
        /\ look = (result.kind = "findings" /\ scan[1] # "cosign" /\ p.out = "json")
  OBVIOUS
<1>4. /\ scan[1] \in Kinds
      /\ scan[1] = "syft" => \E img \in ToSet(request.images) : scan = <<"syft", img>>
  <2>1. n \in ScanPlan(request)
    BY DEF ToScan
  <2> QED
    BY <1>2, <2>1, PlannedScan DEF DetectInv
<1>5. scan[1] # "cosign" /\ result.kind = "findings" =>
        /\ result.severe => p.out = "json" /\ held \in Vulnerable /\ scan[1] # "syft"
        /\ p.out = "json" /\ held \in Vulnerable /\ scan[1] # "syft" => result.severe
        /\ scan[1] = "syft" => p.out = "json"
  BY <1>2, <1>4, ScannerMeans
<1>6. /\ bad /\ scan[1] # "cosign" => look /\ held \in Vulnerable /\ scan[1] # "syft"
      /\ look /\ held \in Vulnerable /\ scan[1] \notin {"syft", "cosign"} => bad
      /\ (look /\ scan[1] = "syft") = (result.kind = "findings" /\ scan[1] = "syft")
  BY <1>3, <1>5
<1>7. /\ severe' = IF bad THEN severe \union {scan} ELSE severe
      /\ scanned' = IF look THEN [scanned EXCEPT ![mode] = scanned[mode] \union {<<scan, held>>}]
                            ELSE scanned
      /\ digests' = IF look /\ scan[1] = "syft"
                    THEN [digests EXCEPT ![mode] = Record(digests[mode], scan[2], Packages[held])]
                    ELSE digests
  BY <1>1, <1>2, <1>3, <1>6 DEF DigestSbom
<1>8. Effect(scan, held, bad, look)
  BY <1>4, <1>6, <1>7 DEF Effect
<1> QED
  BY <1>8, Zenon

LEMMA ScanStep == DetectInv /\ Scan => DetectInv'
<1> SUFFICES ASSUME DetectInv, Scan PROVE DetectInv'
  OBVIOUS
<1>1. /\ pc = "security" /\ UNCHANGED <<mode, probes, answers, tester, request, security>>
      /\ pc' \in {"security", "raised"}
      /\ pc' = "raised" => UNCHANGED <<severe, digests, scanned>>
  BY DEF Scan, testerVars
<1>2. SteadyIsWitnessed'
  BY <1>1, TesterSame
<1>3. CASE pc' = "raised"
  <2>1. ShapeInv' /\ PlaceInv'
    BY <1>1, <1>3 DEF DetectInv, ShapeInv, PlaceInv
  <2>2. LookInv'
    BY <1>1, <1>3 DEF DetectInv, LookInv, SevereMatches
  <2> QED
    BY <1>1, <1>2, <1>3, <2>1, <2>2, ScansSame DEF DetectInv
<1>4. CASE pc' # "raised"
  <2>0. PICK scan, held : \E b, l \in BOOLEAN : Effect(scan, held, b, l)
    BY <1>4, ScanEffect
  <2>a. PICK bad \in BOOLEAN, look \in BOOLEAN : Effect(scan, held, bad, look)
    BY <2>0
  <2>1. /\ scan[1] = "syft" => \E img \in ToSet(request.images) : scan = <<"syft", img>>
        /\ severe' = IF bad THEN severe \union {scan} ELSE severe
        /\ scanned' = IF look THEN [scanned EXCEPT ![mode] = scanned[mode] \union {<<scan, held>>}]
                              ELSE scanned
        /\ digests' = IF look /\ scan[1] = "syft"
                      THEN [digests EXCEPT ![mode] = Record(digests[mode], scan[2], Packages[held])]
                      ELSE digests
        /\ bad /\ scan[1] # "cosign" => look /\ held \in Vulnerable /\ scan[1] # "syft"
        /\ look /\ held \in Vulnerable /\ scan[1] \notin {"syft", "cosign"} => bad
    BY <2>a DEF Effect
  <2>2. PICK new : new = IF look THEN {<<scan, held>>} ELSE {}
    OBVIOUS
  <2>3. /\ mode \in Modes /\ DOMAIN scanned' = Modes /\ DOMAIN digests' = Modes
        /\ scanned'[mode] = scanned[mode] \union new
        /\ \A m \in Modes \ {mode} : scanned'[m] = scanned[m] /\ digests'[m] = digests[m]
    BY <2>1, <2>2 DEF DetectInv, ShapeInv
  <2>4. ShapeInv'
    BY <1>1, <2>3 DEF DetectInv, ShapeInv
  <2>5. PlaceInv'
    BY <1>1, <1>4, <2>3 DEF DetectInv, PlaceInv, Modes
  <2>6. SevereMatches(mode, severe)'
    <3>1. SevereMatches(mode, severe)
      BY <1>1 DEF DetectInv, LookInv
    <3>2. \A x \in severe' : x[1] # "cosign" =>
            \E l \in scanned'[mode] : l[1] = x /\ l[2] \in Vulnerable /\ x[1] # "syft"
      <4>1. SUFFICES ASSUME NEW x \in severe', x[1] # "cosign"
                     PROVE  \E l \in scanned'[mode] : l[1] = x /\ l[2] \in Vulnerable /\ x[1] # "syft"
        OBVIOUS
      <4>2. CASE x \in severe
        BY <2>3, <3>1, <4>1, <4>2 DEF SevereMatches
      <4>3. CASE bad /\ x = scan
        <5>1. <<scan, held>> \in scanned'[mode] /\ held \in Vulnerable /\ scan[1] # "syft"
          BY <2>1, <2>2, <2>3, <4>1, <4>3
        <5> QED
          BY <4>3, <5>1
      <4> QED
        BY <2>1, <4>1, <4>2, <4>3
    <3>3. \A l \in scanned'[mode] :
            l[1][1] \notin {"syft", "cosign"} /\ l[2] \in Vulnerable => l[1] \in severe'
      BY <2>1, <2>2, <2>3, <3>1 DEF SevereMatches
    <3> QED
      BY <1>1, <3>2, <3>3 DEF SevereMatches
  <2>7. LookInv'
    <3>1. mode = "verify" => /\ SevereMatches("baseline", security["baseline"].severe)
                             /\ security["baseline"].severe = {}
      BY DEF DetectInv, LookInv
    <3>2. mode = "verify" => SevereMatches("baseline", security["baseline"].severe)'
      BY <1>1, <2>3, <3>1 DEF SevereMatches, Modes
    <3> QED
      BY <1>1, <1>4, <2>6, <3>1, <3>2 DEF LookInv
  <2>8. DigestMatches(mode)'
    <3>1. DigestMatches(mode)
      BY <2>3 DEF DetectInv, DigestInv
    <3>2. CASE ~(look /\ scan[1] = "syft")
      <4>1. digests'[mode] = digests[mode]
        BY <2>1, <3>2
      <4>2. \A l \in new : l[1][1] # "syft"
        BY <2>2, <3>2
      <4>3. \A i \in DOMAIN digests'[mode] :
              \E l \in scanned'[mode] : l[1] = <<"syft", i>> /\ Packages[l[2]] = digests'[mode][i]
        BY ZenonT(60), <2>3, <3>1, <4>1 DEF DigestMatches
      <4>4. \A l \in scanned'[mode] : l[1][1] = "syft" =>
              \E i \in ToSet(request.images) : l[1] = <<"syft", i>> /\ i \in DOMAIN digests'[mode]
        BY <2>3, <3>1, <4>1, <4>2 DEF DigestMatches
      <4> QED
        BY <1>1, <4>3, <4>4 DEF DigestMatches
    <3>3. CASE look /\ scan[1] = "syft"
      <4>1. PICK img \in ToSet(request.images) : scan = <<"syft", img>>
        BY <2>1, <3>3
      <4>2. digests'[mode] = Record(digests[mode], img, Packages[held])
        BY <2>1, <2>3, <3>3, <4>1 DEF DetectInv, ShapeInv
      <4>3. /\ DOMAIN digests'[mode] = DOMAIN digests[mode] \union {img}
            /\ digests'[mode][img] = Packages[held]
            /\ \A i \in DOMAIN digests[mode] \ {img} : digests'[mode][i] = digests[mode][i]
        BY <4>2 DEF Record
      <4>4. <<scan, held>> \in scanned'[mode]
        BY <2>2, <2>3, <3>3
      <4>5. \A i \in DOMAIN digests'[mode] :
              \E l \in scanned'[mode] : l[1] = <<"syft", i>> /\ Packages[l[2]] = digests'[mode][i]
        <5>1. SUFFICES ASSUME NEW i \in DOMAIN digests'[mode]
                       PROVE  \E l \in scanned'[mode] : l[1] = <<"syft", i>> /\ Packages[l[2]] = digests'[mode][i]
          OBVIOUS
        <5>2. CASE i = img
          <6>1. PICK l \in scanned'[mode] : l = <<scan, held>>
            BY <4>4
          <6> QED
            BY <4>1, <4>3, <5>2, <6>1
        <5>3. CASE i # img
          <6>1. i \in DOMAIN digests[mode] /\ digests'[mode][i] = digests[mode][i]
            BY <4>3, <5>1, <5>3
          <6> QED
            BY SMTT(60), <2>3, <3>1, <6>1 DEF DigestMatches
        <5> QED
          BY <5>2, <5>3
      <4>6. \A l \in scanned'[mode] : l[1][1] = "syft" =>
              \E i \in ToSet(request.images) : l[1] = <<"syft", i>> /\ i \in DOMAIN digests'[mode]
        <5>1. SUFFICES ASSUME NEW l \in scanned'[mode], l[1][1] = "syft"
                       PROVE  \E i \in ToSet(request.images) :
                                l[1] = <<"syft", i>> /\ i \in DOMAIN digests'[mode]
          OBVIOUS
        <5>2. CASE l \in scanned[mode]
          BY <3>1, <4>3, <5>1, <5>2 DEF DigestMatches
        <5>3. CASE l = <<scan, held>>
          BY <4>1, <4>3, <5>3
        <5> QED
          BY <2>2, <2>3, <5>2, <5>3
      <4> QED
        BY <1>1, <4>5, <4>6 DEF DigestMatches
    <3> QED
      BY <3>2, <3>3
  <2>9. DigestInv'
    <3>1. ASSUME NEW m \in Modes, m # mode PROVE DigestMatches(m)'
      <4>1. DigestMatches(m)
        BY DEF DetectInv, DigestInv
      <4>2. scanned'[m] = scanned[m] /\ digests'[m] = digests[m] /\ request' = request
        BY <1>1, <2>3, <3>1
      <4> QED
        BY ZenonT(60), <4>1, <4>2 DEF DigestMatches
    <3> QED
      BY <1>1, <2>8, <3>1 DEF DigestInv
  <2>10. DriftExplained'
    <3>1. security["verify"] = None
      BY <1>1, <2>3 DEF DetectInv, PlaceInv, Modes
    <3> QED
      BY <1>1, <3>1 DEF DriftExplained
  <2> QED
    BY <1>2, <2>4, <2>5, <2>7, <2>9, <2>10 DEF DetectInv
<1> QED
  BY <1>3, <1>4

\* The drift that verify reports is a difference between inventories.
LEMMA DriftMeans ==
  ASSUME DigestInv
  PROVE  LET inventories(m, img) ==
                 {Packages[look[2]] : look \in {l \in scanned[m] : l[1] = <<"syft", img>>}}
         IN  /\ ComputeDrift(digests["baseline"], digests["verify"]) =>
                  \E img \in ToSet(request.images) :
                     \E was \in inventories("baseline", img) : inventories("verify", img) # {was}
             /\ ~ComputeDrift(digests["baseline"], digests["verify"]) =>
                  \A img \in ToSet(request.images) :
                     inventories("baseline", img) # {} =>
                         inventories("baseline", img) \intersect inventories("verify", img) # {}
<1> DEFINE inventories(m, img) ==
             {Packages[look[2]] : look \in {l \in scanned[m] : l[1] = <<"syft", img>>}}
<1>1. ASSUME NEW m \in Modes
      PROVE  /\ \A img \in DOMAIN digests[m] :
                  digests[m][img] \in inventories(m, img) /\ img \in ToSet(request.images)
             /\ \A img : inventories(m, img) # {} => img \in DOMAIN digests[m]
  <2>1. DigestMatches(m)
    BY DEF DigestInv
  <2>2. ASSUME NEW img \in DOMAIN digests[m]
        PROVE  digests[m][img] \in inventories(m, img) /\ img \in ToSet(request.images)
    <3>1. PICK look \in scanned[m] : look[1] = <<"syft", img>> /\ Packages[look[2]] = digests[m][img]
      BY <2>1, <2>2 DEF DigestMatches
    <3>2. look[1][1] = "syft"
      BY <3>1
    <3>3. PICK i \in ToSet(request.images) : look[1] = <<"syft", i>>
      BY <2>1, <3>1, <3>2 DEF DigestMatches
    <3>4. i = img
      BY <3>1, <3>3
    <3> QED
      BY <3>1, <3>3, <3>4
  <2>3. ASSUME NEW img, inventories(m, img) # {}
        PROVE  img \in DOMAIN digests[m]
    <3>1. PICK look \in scanned[m] : look[1] = <<"syft", img>>
      BY <2>3
    <3>2. look[1][1] = "syft"
      BY <3>1
    <3>3. PICK i \in ToSet(request.images) : look[1] = <<"syft", i>> /\ i \in DOMAIN digests[m]
      BY <2>1, <3>1, <3>2 DEF DigestMatches
    <3>4. i = img
      BY <3>1, <3>3
    <3> QED
      BY <3>3, <3>4
  <2> QED
    BY <2>2, <2>3
<1> HIDE DEF inventories
<1>2. "baseline" \in Modes /\ "verify" \in Modes
  BY DEF Modes
<1>3. ASSUME ComputeDrift(digests["baseline"], digests["verify"])
      PROVE  \E img \in ToSet(request.images) :
                \E was \in inventories("baseline", img) : inventories("verify", img) # {was}
  <2>1. PICK img \in DOMAIN digests["baseline"] :
           img \notin DOMAIN digests["verify"] \/ digests["verify"][img] # digests["baseline"][img]
    BY <1>3 DEF ComputeDrift
  <2>2. /\ digests["baseline"][img] \in inventories("baseline", img)
        /\ img \in ToSet(request.images)
    BY <1>1, <1>2, <2>1
  <2>3. inventories("verify", img) # {digests["baseline"][img]}
    BY <1>1, <1>2, <2>1
  <2> QED
    BY <2>2, <2>3
<1>4. ASSUME ~ComputeDrift(digests["baseline"], digests["verify"]),
             NEW img \in ToSet(request.images), inventories("baseline", img) # {}
      PROVE  inventories("baseline", img) \intersect inventories("verify", img) # {}
  <2>1. img \in DOMAIN digests["baseline"]
    BY <1>1, <1>2, <1>4
  <2>2. img \in DOMAIN digests["verify"] /\ digests["verify"][img] = digests["baseline"][img]
    BY <1>4, <2>1 DEF ComputeDrift
  <2> QED
    BY <1>1, <1>2, <2>1, <2>2
<1> QED
  BY <1>3, <1>4 DEF inventories

LEMMA ReportScansStep == DetectInv /\ ReportScans => DetectInv'
<1> SUFFICES ASSUME DetectInv, ReportScans PROVE DetectInv'
  OBVIOUS
<1>1. PICK drift : drift = (mode = "verify" /\ ComputeDrift(digests["baseline"], digests["verify"]))
  OBVIOUS
<1>2. /\ pc = "security" /\ pc' = IF mode = "baseline" THEN "gate" ELSE "decide"
      /\ security' = [security EXCEPT ![mode] = [severe |-> severe, drift |-> drift]]
      /\ UNCHANGED <<mode, probes, answers, tester, request, digests, scanned>>
  BY <1>1 DEF ReportScans, testerVars
<1>3. /\ mode \in Modes /\ DOMAIN security' = Modes
      /\ security'[mode].severe = severe /\ security'[mode].drift = drift
      /\ \A m \in Modes \ {mode} : security'[m] = security[m]
  BY <1>2 DEF DetectInv, ShapeInv
<1>4. ShapeInv'
  BY <1>2, <1>3 DEF DetectInv, ShapeInv
<1>5. PlaceInv'
  BY <1>2, <1>3 DEF DetectInv, PlaceInv, Modes
<1>6. LookInv'
  <2>1. SevereMatches(mode, severe)
    BY <1>2 DEF DetectInv, LookInv
  <2>2. mode = "verify" => /\ SevereMatches("baseline", security["baseline"].severe)
                           /\ security["baseline"].severe = {}
    BY DEF DetectInv, LookInv
  <2>3. CASE mode = "baseline"
    <3>1. SevereMatches("baseline", security["baseline"].severe)'
      BY <1>2, <1>3, <2>1, <2>3 DEF SevereMatches
    <3> QED
      BY <1>2, <2>3, <3>1 DEF LookInv
  <2>4. CASE mode = "verify"
    <3>1. security'["baseline"] = security["baseline"]
      BY <1>3, <2>4 DEF Modes
    <3>2. SevereMatches("baseline", security["baseline"].severe)'
      BY <1>2, <2>2, <2>4, <3>1 DEF SevereMatches
    <3>3. SevereMatches("verify", security["verify"].severe)'
      BY <1>2, <1>3, <2>1, <2>4 DEF SevereMatches
    <3> QED
      BY <1>2, <2>2, <2>4, <3>1, <3>2, <3>3 DEF LookInv
  <2> QED
    BY <1>3, <2>3, <2>4 DEF Modes
<1>7. DigestInv'
  BY <1>2 DEF DetectInv, DigestInv, DigestMatches
<1>8. DriftExplained'
  <2>1. CASE mode = "baseline"
    <3>1. security'["verify"] = None
      BY <1>3, <2>1 DEF DetectInv, PlaceInv, Modes
    <3> QED
      BY <3>1 DEF DriftExplained
  <2>2. CASE mode = "verify"
    <3>1. security'["verify"].drift = ComputeDrift(digests["baseline"], digests["verify"])
      BY <1>1, <1>3, <2>2 DEF ComputeDrift
    <3> QED
      BY ZenonT(60), <1>2, <3>1, DriftMeans DEF DetectInv, DriftExplained
  <2> QED
    BY <1>3, <2>1, <2>2 DEF Modes
<1> QED
  BY <1>2, <1>4, <1>5, <1>6, <1>7, <1>8, TesterSame DEF DetectInv

LEMMA GateStep == DetectInv /\ Gate => DetectInv'
<1> SUFFICES ASSUME DetectInv, Gate PROVE DetectInv'
  OBVIOUS
<1>1. /\ pc = "gate" /\ pc' \in {"chaos", "aborted"} /\ (pc' = "chaos" => security["baseline"].severe = {})
      /\ UNCHANGED <<mode, probes, answers, tester, request, severe, digests, security, scanned>>
  BY DEF Gate, BaselineHealthy, testerVars, securityVars
<1>2. ShapeInv' /\ PlaceInv'
  BY <1>1 DEF DetectInv, ShapeInv, PlaceInv
<1>3. LookInv'
  BY <1>1 DEF DetectInv, LookInv, PlaceInv, SevereMatches
<1> QED
  BY <1>1, <1>2, <1>3, TesterSame, ScansSame DEF DetectInv

LEMMA DecideStep == DetectInv /\ Decide => DetectInv'
<1> SUFFICES ASSUME DetectInv, Decide PROVE DetectInv'
  OBVIOUS
<1>1. /\ pc = "decide" /\ pc' \in {"steady", "regressed"}
      /\ UNCHANGED <<mode, probes, answers, tester, request, severe, digests, security, scanned>>
  BY DEF Decide, testerVars, securityVars
<1>2. ShapeInv' /\ PlaceInv'
  BY <1>1 DEF DetectInv, ShapeInv, PlaceInv
<1>3. LookInv'
  BY <1>1 DEF DetectInv, LookInv, SevereMatches
<1> QED
  BY <1>1, <1>2, <1>3, TesterSame, ScansSame DEF DetectInv

LEMMA DetectStep == DetectInv /\ [Next]_vars => DetectInv'
<1> SUFFICES ASSUME DetectInv, [Next]_vars PROVE DetectInv'
  OBVIOUS
<1>1. CASE Change
  BY <1>1, OtherStep DEF Change
<1>2. CASE UNCHANGED vars
  BY <1>2, OtherStep DEF vars
<1> QED
  BY <1>1, <1>2, AskTesterStep, QueryStep, ReportProbesStep, ScanStep, ReportScansStep,
     GateStep, DecideStep DEF Next

-----------------------------------------------------------------------------

\* What the reports say stands on what the probes and the scans saw.
THEOREM DetectInvariant == Spec => []DetectInv
BY DetectInit, DetectStep, PTL DEF Spec

\* A steady report was earned: every query of every run of every probe came
\* back with data, for any number of probes and runs (_run_probes,
\* evaluate_probe).
THEOREM SteadyIsEarned == Spec => []SteadyIsWitnessed
BY DetectInvariant, PTL DEF DetectInv

\* SBOM drift is about what is installed, and a difference that both modes saw
\* is never missed, also when an image is listed twice or is pushed between
\* two scans (_compute_drift).
THEOREM DriftIsExplained == Spec => []DriftExplained
BY DetectInvariant, PTL DEF DetectInv

\* A severe finding in a regressed run is of something baseline's scans had
\* not reported on: the gate on the baseline makes it so
\* (check_baseline_healthy).
THEOREM FindingsAreNew == Spec => []FindingIsNew
<1>1. DetectInv => FindingIsNew
  <2>1. SUFFICES ASSUME DetectInv, pc = "regressed",
                        NEW scan \in security["verify"].severe, scan[1] # "cosign"
                 PROVE  \E look \in scanned["verify"] \ scanned["baseline"] : look[1] = scan
    BY DEF FindingIsNew
  <2>2. /\ SevereMatches("verify", security["verify"].severe)
        /\ SevereMatches("baseline", {})
    BY <2>1 DEF DetectInv, PlaceInv, LookInv
  <2>3. PICK look \in scanned["verify"] :
           look[1] = scan /\ look[2] \in Vulnerable /\ scan[1] # "syft"
    BY <2>1, <2>2 DEF SevereMatches
  <2>4. look \notin scanned["baseline"]
    BY <2>1, <2>2, <2>3 DEF SevereMatches
  <2> QED
    BY <2>3, <2>4
<1> QED
  BY <1>1, DetectInvariant, PTL

-----------------------------------------------------------------------------
(* Induction over the positions of a list, as in Triage_proofs. *)

\* Every inhabited set of naturals has a least element.
LEMMA Least ==
  ASSUME NEW T, T \subseteq Nat, T # {}
  PROVE  \E x \in T : \A y \in T : x <= y
<1>1. PICK x \in T : \A y \in T : ~(<<y, x>> \in OpToRel(<, Nat))
  BY Zenon, WFMin, NatLessThanWellFounded
<1>2. \A y \in T : ~(y < x)
  BY <1>1 DEF OpToRel
<1> QED
  BY <1>2

\* A set of naturals that has 0, and n + 1 with n, up to a bound, has them all.
LEMMA Climb ==
  ASSUME NEW N \in Nat, NEW G, 0 \in G, \A n \in 0 .. N - 1 : n \in G => n + 1 \in G
  PROVE  0 .. N \subseteq G
<1> DEFINE Bad == (0 .. N) \ G
<1>1. SUFFICES ASSUME Bad # {} PROVE FALSE
  OBVIOUS
<1>2. Bad \subseteq Nat
  OBVIOUS
<1>3. PICK m \in Bad : \A y \in Bad : m <= y
  BY <1>1, <1>2, Least
<1>4. m # 0
  BY <1>3
<1>5. m - 1 \in 0 .. N - 1 /\ m - 1 \in G
  BY <1>3, <1>4
<1> QED
  BY <1>3, <1>5

\* The functions that a recursion over the positions of a list defines, from
\* what it starts with and what it does at each position.
Recursions(N, V, first, step) ==
    {f \in [0 .. N -> V] : f[0] = first /\ \A n \in 1 .. N : f[n] = step[<<n, f[n - 1]>>]}

\* There is one.
LEMMA RecursionExists ==
  ASSUME NEW N \in Nat, NEW V, NEW first \in V, NEW step \in [(1 .. N) \X V -> V]
  PROVE  Recursions(N, V, first, step) # {}
<1> DEFINE Upto(n) == {f \in [0 .. N -> V] :
                          f[0] = first /\ \A k \in 1 .. n : f[k] = step[<<k, f[k - 1]>>]}
           G == {n \in 0 .. N : Upto(n) # {}}
<1>1. 0 \in G
  <2>1. [k \in 0 .. N |-> first] \in Upto(0)
    OBVIOUS
  <2>2. Upto(0) # {} /\ 0 \in 0 .. N
    BY <2>1
  <2> QED
    BY <2>2, Zenon
<1>2. ASSUME NEW n \in 0 .. N - 1, n \in G
      PROVE  n + 1 \in G
  <2>1. PICK f \in [0 .. N -> V] : f[0] = first /\ \A k \in 1 .. n : f[k] = step[<<k, f[k - 1]>>]
    BY <1>2
  <2>2. n + 1 \in 1 .. N /\ n \in 0 .. N
    OBVIOUS
  <2>3. f[n] \in V
    BY <2>2
  <2>4. PICK x \in V : x = step[<<n + 1, f[n]>>]
    BY <2>2, <2>3
  <2> DEFINE g == [k \in 0 .. N |-> IF k = n + 1 THEN x ELSE f[k]]
  <2>5. g \in [0 .. N -> V]
    OBVIOUS
  <2>6. g[n + 1] = x /\ \A k \in 0 .. n : g[k] = f[k]
    BY <2>2
  <2> HIDE DEF g
  <2>7. g[0] = first
    BY <2>1, <2>6
  <2>8. ASSUME NEW k \in 1 .. n + 1 PROVE g[k] = step[<<k, g[k - 1]>>]
    <3>1. CASE k = n + 1
      BY <2>4, <2>6, <3>1
    <3>2. CASE k # n + 1
      <4>1. k \in 1 .. n /\ k \in 0 .. n /\ k - 1 \in 0 .. n
        BY <3>2
      <4> QED
        BY <2>1, <2>6, <4>1
    <3> QED
      BY <3>1, <3>2
  <2>9. g \in Upto(n + 1)
    BY <2>5, <2>7, <2>8
  <2>10. n + 1 \in 0 .. N
    BY <2>2
  <2> HIDE DEF Upto
  <2> QED
    BY <2>9, <2>10
<1>3. N \in G
  <2> HIDE DEF G
  <2>1. 0 .. N \subseteq G
    BY <1>1, <1>2, Climb
  <2> QED
    BY <2>1
<1> QED
  BY <1>3 DEF Recursions

\* What the sum of a list is made of: the sums of its prefixes.
LEMMA SumParts ==
  ASSUME NEW s \in Seq(Int)
  PROVE  \E f \in [0 .. Len(s) -> Int] :
            /\ f[0] = 0 /\ \A n \in 1 .. Len(s) : f[n] = f[n - 1] + s[n]
            /\ SumOf(s) = f[Len(s)]
<1> DEFINE N == Len(s)
           p == CHOOSE g : g = [n \in 0 .. N |-> IF n = 0 THEN 0 ELSE g[n - 1] + s[n]]
           step == [q \in (1 .. N) \X Int |-> q[2] + s[q[1]]]
<1>1. N \in Nat /\ \A n \in 1 .. N : s[n] \in Int
  OBVIOUS
<1>2. step \in [(1 .. N) \X Int -> Int]
  BY <1>1
<1>3. PICK f \in [0 .. N -> Int] : f[0] = 0 /\ \A n \in 1 .. N : f[n] = step[<<n, f[n - 1]>>]
  <2>1. 0 \in Int
    OBVIOUS
  <2> HIDE DEF step, N, p
  <2>2. Recursions(N, Int, 0, step) # {}
    BY <1>1, <1>2, <2>1, RecursionExists, Zenon
  <2> QED
    BY <2>2 DEF Recursions
<1>4. \A n \in 1 .. N : f[n] = f[n - 1] + s[n]
  <2>1. \A n \in 1 .. N : f[n - 1] \in Int
    BY <1>1
  <2> QED
    BY <1>3, <2>1
<1>5. f = [n \in 0 .. N |-> IF n = 0 THEN 0 ELSE f[n - 1] + s[n]]
  BY <1>1, <1>3, <1>4
<1>6. p = [n \in 0 .. N |-> IF n = 0 THEN 0 ELSE p[n - 1] + s[n]]
  BY <1>5, Zenon
<1>7. SumOf(s) = p[N]
  BY DEF SumOf
<1> HIDE DEF p, step
<1>8. p[0] = 0 /\ \A n \in 1 .. N : p[n] = p[n - 1] + s[n]
  BY SMTT(60), <1>1, <1>6
<1>9. 0 .. N \subseteq {n \in 0 .. N : p[n] \in Int}
  <2> DEFINE G == {n \in 0 .. N : p[n] \in Int}
  <2>1. 0 \in G
    BY <1>1, <1>8
  <2>2. ASSUME NEW n \in 0 .. N - 1, n \in G PROVE n + 1 \in G
    <3>1. n + 1 \in 1 .. N /\ p[n] \in Int /\ (n + 1) - 1 = n
      BY <1>1, <2>2
    <3>2. p[n + 1] = p[n] + s[n + 1]
      BY <1>8, <3>1
    <3> QED
      BY <1>1, <3>1, <3>2
  <2> HIDE DEF G, N
  <2>3. 0 .. N \subseteq G
    BY <1>1, <2>1, <2>2, Climb
  <2> QED
    BY <2>3 DEF G
<1>10. p \in [0 .. N -> Int]
  BY <1>6, <1>9
<1> QED
  BY <1>7, <1>8, <1>10

\* What the concatenation of a list of lists is made of.
LEMMA FlattenParts ==
  ASSUME NEW S, NEW seqs \in Seq(Seq(S))
  PROVE  \E f \in [0 .. Len(seqs) -> Seq(S)] :
            /\ f[0] = <<>> /\ \A n \in 1 .. Len(seqs) : f[n] = f[n - 1] \o seqs[n]
            /\ FlattenSeq(seqs) = f[Len(seqs)]
<1> DEFINE N == Len(seqs)
           p == CHOOSE g : g = [i \in 1 .. N |-> IF i = 1 THEN seqs[i] ELSE g[i - 1] \o seqs[i]]
           step == [q \in (1 .. N) \X Seq(S) |-> q[2] \o seqs[q[1]]]
<1>1. N \in Nat /\ \A n \in 1 .. N : seqs[n] \in Seq(S)
  OBVIOUS
<1>2. step \in [(1 .. N) \X Seq(S) -> Seq(S)]
  BY <1>1
<1>3. CASE N = 0
  <2>1. FlattenSeq(seqs) = <<>>
    BY <1>3 DEF FlattenSeq
  <2> DEFINE f == [n \in 0 .. N |-> <<>>]
  <2>2. f \in [0 .. N -> Seq(S)] /\ f[0] = <<>> /\ f[N] = <<>>
    BY <1>1
  <2>3. \A n \in 1 .. N : FALSE
    BY <1>3
  <2> HIDE DEF f
  <2> QED
    BY <2>1, <2>2, <2>3
<1>4. CASE N # 0
  <2>1. PICK f \in [0 .. N -> Seq(S)] :
           f[0] = <<>> /\ \A n \in 1 .. N : f[n] = step[<<n, f[n - 1]>>]
    <3>1. <<>> \in Seq(S)
      OBVIOUS
    <3> HIDE DEF step, N, p
    <3>2. Recursions(N, Seq(S), <<>>, step) # {}
      BY <1>1, <1>2, <3>1, RecursionExists, Zenon
    <3> QED
      BY <3>2 DEF Recursions
  <2>2. \A n \in 1 .. N : f[n] = f[n - 1] \o seqs[n] /\ f[n - 1] \in Seq(S)
    <3>1. \A n \in 1 .. N : f[n - 1] \in Seq(S)
      <4>1. \A n \in 1 .. N : n - 1 \in 0 .. N
        BY <1>1
      <4> QED
        BY <4>1, Zenon
    <3> QED
      BY <2>1, <3>1
  <2> DEFINE g == [n \in 1 .. N |-> f[n]]
  <2>3. g = [n \in 1 .. N |-> IF n = 1 THEN seqs[n] ELSE g[n - 1] \o seqs[n]]
    <3>1. ASSUME NEW n \in 1 .. N
          PROVE  f[n] = IF n = 1 THEN seqs[n] ELSE g[n - 1] \o seqs[n]
      <4>1. CASE n = 1
        <5>1. <<>> \o seqs[n] = seqs[n]
          BY <1>1
        <5>2. n - 1 = 0
          BY <4>1
        <5> QED
          BY ZenonT(60), <2>1, <2>2, <4>1, <5>1, <5>2
      <4>2. CASE n # 1
        <5>1. n - 1 \in 1 .. N
          BY <1>1, <4>2
        <5> QED
          BY <2>2, <4>2, <5>1
      <4> QED
        BY <4>1, <4>2
    <3> QED
      BY <3>1
  <2>4. p = [n \in 1 .. N |-> IF n = 1 THEN seqs[n] ELSE p[n - 1] \o seqs[n]]
    BY <2>3, Zenon
  <2>5. FlattenSeq(seqs) = p[N]
    BY <1>4 DEF FlattenSeq
  <2> HIDE DEF p, step, g
  <2> DEFINE h == [n \in 0 .. N |-> IF n = 0 THEN <<>> ELSE p[n]]
  <2>6. h[0] = <<>> /\ h[N] = p[N]
    BY <1>1, <1>4
  <2>7. \A n \in 0 .. N : n # 0 => h[n] = p[n]
    OBVIOUS
  <2> DEFINE G == {n \in 0 .. N : h[n] \in Seq(S) /\ (n # 0 => h[n] = h[n - 1] \o seqs[n])}
  <2>8. 0 \in G
    BY <1>1, <2>6
  <2>9. ASSUME NEW n \in 0 .. N - 1, n \in G PROVE n + 1 \in G
    <3>1. n + 1 \in 1 .. N /\ h[n] \in Seq(S) /\ (n + 1) - 1 = n /\ h[n + 1] = p[n + 1]
      BY <1>1, <2>7, <2>9
    <3>2. h[n + 1] = h[n] \o seqs[n + 1]
      <4>1. CASE n = 0
        <5>1. p[1] = seqs[1] /\ <<>> \o seqs[1] = seqs[1]
          BY <1>1, <2>4, <3>1, <4>1
        <5>2. h[n] = <<>> /\ n + 1 = 1
          BY <2>6, <4>1
        <5> HIDE DEF h, G
        <5> QED
          BY <3>1, <5>1, <5>2
      <4>2. CASE n # 0
        <5>1. n + 1 # 1 /\ h[n] = p[n]
          BY <2>7, <4>2
        <5>2. p[n + 1] = p[n] \o seqs[n + 1]
          BY <2>4, <3>1, <5>1
        <5> QED
          BY <3>1, <5>1, <5>2
      <4> QED
        BY <4>1, <4>2
    <3>3. h[n] \o seqs[n + 1] \in Seq(S)
      BY <1>1, <3>1
    <3>4. n + 1 \in 0 .. N
      BY <3>1
    <3> HIDE DEF h
    <3> QED
      BY <3>1, <3>2, <3>3, <3>4
  <2>10. 0 .. N \subseteq G
    <3> HIDE DEF G, N, h
    <3> QED
      BY <1>1, <2>8, <2>9, Climb
  <2>11. h \in [0 .. N -> Seq(S)]
    BY <2>10
  <2>12. \A n \in 1 .. N : h[n] = h[n - 1] \o seqs[n]
    <3> HIDE DEF h
    <3>1. \A n \in 1 .. N : n \in 0 .. N /\ n # 0
      BY <1>1
    <3>2. \A n \in 1 .. N : n \in G
      BY <2>10, <3>1, Zenon
    <3> QED
      BY <3>1, <3>2, Zenon
  <2> HIDE DEF h
  <2> QED
    BY <2>5, <2>6, <2>11, <2>12
<1> QED
  BY <1>3, <1>4

-----------------------------------------------------------------------------
(* The deviation of a list of numbers, from the sums of its prefixes. *)

\* Bounds on the sum S and the sum of squares Q of k values between lo and hi.
Bounds(k, S, Q, lo, hi) ==
    k * lo <= S /\ S <= k * hi /\ Q <= (hi + lo) * S - k * lo * hi

LEMMA BoundsStep ==
  ASSUME NEW k \in Int, NEW S \in Int, NEW Q \in Int, NEW lo \in Int, NEW hi \in Int,
         NEW x \in Int, lo <= x, x <= hi, Bounds(k, S, Q, lo, hi)
  PROVE  Bounds(k + 1, S + x, Q + x * x, lo, hi)
<1>1. (x - lo) * (hi - x) >= 0
  OBVIOUS
<1>2. k * lo <= S /\ S <= k * hi /\ Q <= (hi + lo) * S - k * lo * hi
  BY DEF Bounds
<1>3. (k + 1) * lo = k * lo + lo /\ (k + 1) * hi = k * hi + hi
  OBVIOUS
<1>4. (k + 1) * lo <= S + x /\ S + x <= (k + 1) * hi
  BY <1>2, <1>3
<1>5. Q + x * x <= (hi + lo) * (S + x) - (k + 1) * lo * hi
  BY <1>1, <1>2
<1> QED
  BY <1>4, <1>5 DEF Bounds

\* The sum of the squares of n * x - t, for the first k values x.
Dev(n, t, k, S, Q) == n * n * Q - 2 * n * t * S + k * t * t

LEMMA DevStep ==
  ASSUME NEW n \in Int, NEW t \in Int, NEW k \in Int, NEW S \in Int, NEW Q \in Int, NEW x \in Int
  PROVE  /\ Dev(n, t, k, S, Q) \in Int /\ Dev(n, t, k + 1, S + x, Q + x * x) \in Int
         /\ Dev(n, t, k + 1, S + x, Q + x * x) >= Dev(n, t, k, S, Q)
         /\ n * x # t => Dev(n, t, k + 1, S + x, Q + x * x) > Dev(n, t, k, S, Q)
<1> DEFINE e == (n * x - t) * (n * x - t)
<1>1. e \in Int /\ e >= 0 /\ (n * x # t => e > 0)
  OBVIOUS
<1>2. n * n * (Q + x * x) - 2 * n * t * (S + x) + (k + 1) * t * t
        = (n * n * Q - 2 * n * t * S + k * t * t) + e
  OBVIOUS
<1>3. Dev(n, t, k + 1, S + x, Q + x * x) = Dev(n, t, k, S, Q) + e
  BY <1>2 DEF Dev
<1>4. Dev(n, t, k, S, Q) \in Int
  BY DEF Dev
<1> HIDE DEF e
<1> QED
  BY <1>1, <1>3, <1>4

LEMMA DevAll ==
  ASSUME NEW n \in Nat \ {0}, NEW S \in Int, NEW Q \in Int, Dev(n, S, n, S, Q) > 0
  PROVE  n * Q - S * S > 0
<1>1. Dev(n, S, n, S, Q) = n * (n * Q - S * S)
  BY DEF Dev
<1>2. \A y \in Int : n * y > 0 => y > 0
  OBVIOUS
<1>3. n * Q - S * S \in Int
  OBVIOUS
<1> QED
  BY <1>1, <1>2, <1>3

\* The values, the sums of the first ones and the sums of their squares.
SumsOf(n, s, f, g) ==
    /\ s \in [1 .. n -> Int] /\ f \in [0 .. n -> Int] /\ g \in [0 .. n -> Int]
    /\ f[0] = 0 /\ g[0] = 0
    /\ \A k \in 0 .. n - 1 : f[k + 1] = f[k] + s[k + 1] /\ g[k + 1] = g[k] + s[k + 1] * s[k + 1]

LEMMA SumsExist ==
  ASSUME NEW n \in Nat, NEW s \in [1 .. n -> Int]
  PROVE  \E f, g : /\ SumsOf(n, s, f, g) /\ SumOf(s) = f[n]
                   /\ SumOf([k \in 1 .. n |-> s[k] * s[k]]) = g[n]
<1> DEFINE sq == [k \in 1 .. n |-> s[k] * s[k]]
<1>1. /\ s \in Seq(Int) /\ Len(s) = n /\ sq \in Seq(Int) /\ Len(sq) = n
      /\ \A k \in 1 .. n : sq[k] = s[k] * s[k]
  OBVIOUS
<1> HIDE DEF sq
<1>2. PICK f \in [0 .. n -> Int] :
            /\ f[0] = 0 /\ \A k \in 1 .. n : f[k] = f[k - 1] + s[k]
            /\ SumOf(s) = f[n]
  BY <1>1, SumParts
<1>3. PICK g \in [0 .. n -> Int] :
            /\ g[0] = 0 /\ \A k \in 1 .. n : g[k] = g[k - 1] + sq[k]
            /\ SumOf(sq) = g[n]
  BY <1>1, SumParts
<1>4. \A k \in 0 .. n - 1 : k + 1 \in 1 .. n /\ (k + 1) - 1 = k
  OBVIOUS
<1>5. \A k \in 0 .. n - 1 : f[k + 1] = f[k] + s[k + 1] /\ g[k + 1] = g[k] + s[k + 1] * s[k + 1]
  BY <1>1, <1>2, <1>3, <1>4
<1>6. SumsOf(n, s, f, g)
  BY <1>2, <1>3, <1>5 DEF SumsOf
<1> QED
  BY <1>2, <1>3, <1>6 DEF sq

\* One step of them.
LEMMA SumsStep ==
  ASSUME NEW n \in Nat, NEW s, NEW f, NEW g, SumsOf(n, s, f, g), NEW k \in 0 .. n - 1
  PROVE  /\ k \in Int /\ k + 1 \in 0 .. n /\ k + 1 \in 1 .. n
         /\ f[k] \in Int /\ g[k] \in Int /\ s[k + 1] \in Int
         /\ f[k + 1] = f[k] + s[k + 1] /\ g[k + 1] = g[k] + s[k + 1] * s[k + 1]
<1>1. k \in Int /\ k \in 0 .. n /\ k + 1 \in 0 .. n /\ k + 1 \in 1 .. n
  OBVIOUS
<1> QED
  BY <1>1 DEF SumsOf

LEMMA SumsBounded ==
  ASSUME NEW n \in Nat, NEW s, NEW f, NEW g, SumsOf(n, s, f, g),
         NEW lo \in Int, NEW hi \in Int, \A k \in 1 .. n : lo <= s[k] /\ s[k] <= hi
  PROVE  Bounds(n, f[n], g[n], lo, hi)
<1> DEFINE G == {k \in 0 .. n : Bounds(k, f[k], g[k], lo, hi)}
<1>1. 0 \in G
  <2>1. Bounds(0, 0, 0, lo, hi)
    BY DEF Bounds
  <2>2. f[0] = 0 /\ g[0] = 0 /\ 0 \in 0 .. n
    BY DEF SumsOf
  <2> QED
    BY <2>1, <2>2
<1>2. ASSUME NEW k \in 0 .. n - 1, k \in G PROVE k + 1 \in G
  <2>1. /\ k \in Int /\ k + 1 \in 0 .. n /\ k + 1 \in 1 .. n
        /\ f[k] \in Int /\ g[k] \in Int /\ s[k + 1] \in Int
        /\ f[k + 1] = f[k] + s[k + 1] /\ g[k + 1] = g[k] + s[k + 1] * s[k + 1]
    BY SumsStep
  <2>2. Bounds(k, f[k], g[k], lo, hi)
    BY <1>2
  <2>3. Bounds(k + 1, f[k] + s[k + 1], g[k] + s[k + 1] * s[k + 1], lo, hi)
    BY <2>1, <2>2, BoundsStep
  <2> QED
    BY <2>1, <2>3
<1> HIDE DEF G
<1>3. 0 .. n \subseteq G
  BY <1>1, <1>2, Climb
<1>4. n \in G
  BY <1>3
<1> QED
  BY <1>4 DEF G

LEMMA SumsDiffer ==
  ASSUME NEW n \in Nat, NEW s, NEW f, NEW g, SumsOf(n, s, f, g), NEW t \in Int,
         NEW j \in 1 .. n, n * s[j] # t
  PROVE  Dev(n, t, n, f[n], g[n]) > 0
<1> DEFINE d(k) == Dev(n, t, k, f[k], g[k])
           H == {k \in 0 .. n : d(k) \in Int /\ d(k) >= 0 /\ (k >= j => d(k) > 0)}
<1>1. 0 \in H
  <2>1. Dev(n, t, 0, 0, 0) = 0
    BY DEF Dev
  <2>2. f[0] = 0 /\ g[0] = 0 /\ 0 \in 0 .. n
    BY DEF SumsOf
  <2>3. d(0) = 0
    BY <2>1, <2>2
  <2> HIDE DEF d
  <2> QED
    BY <2>2, <2>3
<1>2. ASSUME NEW k \in 0 .. n - 1, k \in H PROVE k + 1 \in H
  <2>1. /\ k \in Int /\ k + 1 \in 0 .. n /\ k + 1 \in 1 .. n
        /\ f[k] \in Int /\ g[k] \in Int /\ s[k + 1] \in Int
        /\ f[k + 1] = f[k] + s[k + 1] /\ g[k + 1] = g[k] + s[k + 1] * s[k + 1]
    BY SumsStep
  <2>2. d(k + 1) = Dev(n, t, k + 1, f[k] + s[k + 1], g[k] + s[k + 1] * s[k + 1])
    BY <2>1
  <2>3. /\ d(k) \in Int /\ d(k + 1) \in Int /\ d(k + 1) >= d(k)
        /\ n * s[k + 1] # t => d(k + 1) > d(k)
    <3>1. PICK S \in Int, Q \in Int, x \in Int : S = f[k] /\ Q = g[k] /\ x = s[k + 1]
      BY <2>1
    <3>2. /\ Dev(n, t, k, S, Q) \in Int /\ Dev(n, t, k + 1, S + x, Q + x * x) \in Int
          /\ Dev(n, t, k + 1, S + x, Q + x * x) >= Dev(n, t, k, S, Q)
          /\ n * x # t => Dev(n, t, k + 1, S + x, Q + x * x) > Dev(n, t, k, S, Q)
      <4>1. n \in Int /\ k \in Int
        OBVIOUS
      <4> QED
        BY Zenon, <4>1, DevStep
    <3> QED
      BY <2>2, <3>1, <3>2
  <2>4. k + 1 = j => n * s[k + 1] # t
    OBVIOUS
  <2>5. d(k) >= 0 /\ (k >= j => d(k) > 0)
    BY <1>2
  <2>6. k + 1 >= j => k + 1 = j \/ k >= j
    OBVIOUS
  <2> HIDE DEF d
  <2>7. n * s[k + 1] # t => d(k + 1) > 0
    BY <2>3, <2>5
  <2>8. k + 1 >= j => d(k + 1) > 0
    <3>1. CASE k + 1 = j
      BY <2>4, <2>7, <3>1
    <3>2. CASE k >= j
      <4>1. d(k) > 0
        BY <2>5, <3>2
      <4> QED
        BY <2>3, <4>1
    <3> QED
      BY <2>6, <3>1, <3>2
  <2> QED
    BY <2>1, <2>3, <2>5, <2>8
<1> HIDE DEF H
<1>3. 0 .. n \subseteq H
  BY <1>1, <1>2, Climb
<1>4. n \in H
  BY <1>3
<1>5. d(n) > 0
  BY <1>4 DEF H
<1> QED
  BY <1>5

\* A value within three deviations of the mean is within one and a half times
\* the range: the deviation is at most half the range.
LEMMA ThreeDeviations ==
  ASSUME NEW n \in Nat \ {0}, NEW S \in Int, NEW Q \in Int, NEW lo \in Int, NEW hi \in Int, lo < hi,
         n * lo <= S, S <= n * hi, Q <= (hi + lo) * S - n * lo * hi, NEW v \in Int,
         (v * n - S) * (v * n - S) <= 9 * (n * Q - S * S)
  PROVE  2 * v \in (2 * lo - 3 * (hi - lo)) .. (2 * hi + 3 * (hi - lo))
<1> DEFINE P == n * hi - S
           R == S - n * lo
           D == n * (hi - lo)
           w == v * n - S
<1>1. P \in Int /\ R \in Int /\ D \in Int /\ w \in Int /\ P >= 0 /\ R >= 0 /\ P + R = D
  OBVIOUS
<1>2. n * Q - S * S <= P * R
  <2>1. n * Q <= n * ((hi + lo) * S - n * lo * hi)
    OBVIOUS
  <2>2. n * ((hi + lo) * S - n * lo * hi) - S * S = P * R
    OBVIOUS
  <2> QED
    BY <2>1, <2>2
<1>3. w * w <= 9 * (P * R)
  BY <1>2
<1>5. 2 * w <= 3 * D /\ 2 * w >= 0 - 3 * D
  <2> HIDE DEF P, R, D, w
  <2>1. (P - R) * (P - R) >= 0
    BY <1>1
  <2>2. 4 * (P * R) <= D * D
    BY <1>1, <2>1
  <2>3. (2 * w) * (2 * w) <= (3 * D) * (3 * D)
    BY <1>1, <1>3, <2>2
  <2>4. D >= 0
    BY <1>1
  <2> QED
    BY <1>1, <2>3, <2>4
<1>6. n * (2 * v) <= n * (2 * hi + 3 * (hi - lo)) /\ n * (2 * v) >= n * (2 * lo - 3 * (hi - lo))
  BY <1>1, <1>5
<1>7. \A a, b \in Int : n * a <= n * b => a <= b
  OBVIOUS
<1> HIDE DEF P, R, D, w
<1> QED
  BY <1>6, <1>7

\* One value more.
LEMMA OneMore ==
  ASSUME NEW S, NEW a \in Seq(S), NEW y \in S, NEW m \in Nat, Len(a) = m
  PROVE  LET b == a \o <<y>>
         IN  Len(b) = m + 1 /\ b[m + 1] = y /\ \A k \in 1 .. m : b[k] = a[k]
<1>0. <<y>> \in Seq(S) /\ Len(<<y>>) = 1 /\ <<y>>[1] = y
  OBVIOUS
<1>1. PICK one \in Seq(S) : one = <<y>> /\ Len(one) = 1 /\ one[1] = y
  BY <1>0, Zenon
<1>2. Len(a \o one) = m + 1 /\ \A k \in 1 .. m : (a \o one)[k] = a[k]
  BY <1>1
<1>3. (a \o one)[m + 1] = one[1]
  BY <1>1
<1> QED
  BY <1>1, <1>2, <1>3

\* Lists of one value each, in a row.
LEMMA FlattenSingles ==
  ASSUME NEW n \in Nat, NEW S, NEW x \in [1 .. n -> S]
  PROVE  FlattenSeq([k \in 1 .. n |-> <<x[k]>>]) = x
<1> DEFINE seqs == [k \in 1 .. n |-> <<x[k]>>]
<1>1. seqs \in Seq(Seq(S)) /\ Len(seqs) = n /\ \A k \in 1 .. n : seqs[k] = <<x[k]>> /\ x[k] \in S
  OBVIOUS
<1> HIDE DEF seqs
<1>2. PICK f \in [0 .. n -> Seq(S)] :
            /\ f[0] = <<>> /\ \A k \in 1 .. n : f[k] = f[k - 1] \o seqs[k]
            /\ FlattenSeq(seqs) = f[n]
  BY <1>1, FlattenParts
<1> DEFINE G == {m \in 0 .. n : Len(f[m]) = m /\ \A k \in 1 .. m : f[m][k] = x[k]}
<1>3. 0 \in G
  BY <1>2
<1>4. ASSUME NEW m \in 0 .. n - 1, m \in G PROVE m + 1 \in G
  <2>1. m + 1 \in 1 .. n /\ (m + 1) - 1 = m /\ m \in 0 .. n /\ m + 1 \in 0 .. n
    OBVIOUS
  <2>2. f[m] \in Seq(S) /\ Len(f[m]) = m /\ \A k \in 1 .. m : f[m][k] = x[k]
    BY <1>4, <2>1
  <2>3. PICK a \in Seq(S), y \in S : a = f[m] /\ y = x[m + 1] /\ f[m + 1] = a \o <<y>>
    BY <1>1, <1>2, <2>1, <2>2
  <2>4. Len(a \o <<y>>) = m + 1 /\ (a \o <<y>>)[m + 1] = y /\ \A k \in 1 .. m : (a \o <<y>>)[k] = a[k]
    <3>1. m \in Nat /\ Len(a) = m
      BY <2>2, <2>3
    <3> QED
      BY <3>1, OneMore
  <2>5. \A k \in 1 .. m + 1 : k \in 1 .. m \/ k = m + 1
    OBVIOUS
  <2> QED
    BY <2>1, <2>2, <2>3, <2>4, <2>5
<1>5. n \in G
  <2> HIDE DEF G
  <2>1. 0 .. n \subseteq G
    BY <1>3, <1>4, Climb
  <2> QED
    BY <2>1
<1>6. f[n] \in Seq(S) /\ Len(f[n]) = n /\ \A k \in 1 .. n : f[n][k] = x[k]
  BY <1>5
<1>7. f[n] = x
  BY <1>6
<1> QED
  BY <1>2, <1>7 DEF seqs

\* The totals of probe i, and that all of its runs, or of a report's, had data.
Totals(r, ans, i) == [k \in 1 .. r |-> Total(ans[(i - 1) * r + k].values)]
RunsAnswered(r, ans, i) == \A k \in 1 .. r : LET a == ans[(i - 1) * r + k]
                                           IN  a.form = "vector" /\ a.values # <<>>
Answered(ans) == \A k \in DOMAIN ans : ans[k].form = "vector" /\ ans[k].values # <<>>

\* The values of a probe whose every run came back with data.
LEMMA ValuesKept ==
  ASSUME NEW ps, NEW r \in Nat, NEW ans, NEW i, RunsAnswered(r, ans, i)
  PROVE  Values(ps, r, ans, i) = Totals(r, ans, i)
<1> DEFINE x == [k \in 1 .. r |-> Total(ans[(i - 1) * r + k].values)]
           S == {x[k] : k \in 1 .. r}
<1>1. x \in [1 .. r -> S]
  OBVIOUS
<1>2. \A k \in 1 .. r : ProbeRuns(ps, r, ans, i)[k].samples = <<x[k]>>
  BY DEF ProbeRuns, EvaluateProbe, RunsAnswered
<1>3. Values(ps, r, ans, i) = FlattenSeq([k \in 1 .. r |-> <<x[k]>>])
  BY <1>2 DEF Values
<1> HIDE DEF x, S
<1>4. Values(ps, r, ans, i) = x
  BY <1>1, <1>3, FlattenSingles
<1> QED
  BY <1>4 DEF x, Totals

\* The total of one number is that number.
LEMMA TotalOfOne ==
  ASSUME NaN \notin Int, NEW v \in Int
  PROVE  Total(<<v>>) = v
<1> DEFINE s == <<v>>
<1>1. s \in Seq(Int) /\ Len(s) = 1 /\ s[1] = v
  OBVIOUS
<1>2. ToSet(s) = {v}
  BY DEF ToSet
<1> HIDE DEF s
<1>3. PICK f \in [0 .. 1 -> Int] : /\ f[0] = 0 /\ \A n \in 1 .. 1 : f[n] = f[n - 1] + s[n]
                                   /\ SumOf(s) = f[1]
  BY <1>1, SumParts
<1>4. f[1] = f[0] + s[1]
  BY <1>3
<1>5. SumOf(s) = v
  BY <1>1, <1>3, <1>4
<1>6. Total(s) = v
  BY <1>2, <1>5 DEF Total
<1> QED
  BY <1>6 DEF s

\* How far three deviations reach from a baseline between lo and hi.
Near(v, lo, hi) == 2 * v \in (2 * lo - 3 * (hi - lo)) .. (2 * hi + 3 * (hi - lo))
Between(n, s, lo, hi) == \A k \in 1 .. n : lo <= s[k] /\ s[k] <= hi

\* A distribution that is not shifted is near the baseline's.
LEMMA NearBaseline ==
  ASSUME NaN \notin Int, NEW n \in Nat \ {0}, NEW s \in [1 .. n -> Int], NEW base, base.values = s,
         NEW v \in Int, NEW d, d.values = <<v>>, ~Shifted(d, base),
         NEW a \in 1 .. n, NEW b \in 1 .. n, NEW lo \in Int, NEW hi \in Int,
         lo = s[a], hi = s[b], lo < hi, Between(n, s, lo, hi)
  PROVE  Near(v, lo, hi)
<1>0. \A k \in 1 .. n : lo <= s[k] /\ s[k] <= hi
  BY DEF Between
<1>1. PICK f, g : /\ SumsOf(n, s, f, g) /\ SumOf(s) = f[n]
                  /\ SumOf([k \in 1 .. n |-> s[k] * s[k]]) = g[n]
  BY SumsExist
<1>2. PICK S \in Int, Q \in Int : S = f[n] /\ Q = g[n]
  BY <1>1 DEF SumsOf
<1>3. Bounds(n, S, Q, lo, hi)
  BY <1>0, <1>1, <1>2, SumsBounded
<1>4. n * lo # S \/ n * hi # S
  <2>1. n * lo # n * hi
    OBVIOUS
  <2> QED
    BY <2>1
<1>5. Dev(n, S, n, S, Q) > 0
  <2>1. CASE n * lo # S
    BY <1>1, <1>2, <2>1, SumsDiffer
  <2>2. CASE n * hi # S
    BY <1>1, <1>2, <2>2, SumsDiffer
  <2> QED
    BY <1>4, <2>1, <2>2
<1>6. n * Q - S * S > 0
  BY <1>5, DevAll
<1>7. Sum(d) = v /\ Len(d.values) = 1
  BY TotalOfOne DEF Sum
<1>8. Sum(base) = S /\ Len(base.values) = n
  <2>1. s \in Seq(Int) /\ Len(s) = n /\ ToSet(s) \subseteq Int
    BY DEF ToSet
  <2> QED
    BY <1>1, <1>2, <2>1 DEF Sum, Total
<1>9. Spread(base) = n * Q - S * S
  BY <1>1, <1>2, <1>8 DEF Spread
<1>10. Shifted(d, base) = (/\ v # NaN /\ S # NaN /\ n * Q - S * S # 0
                           /\ (v * n - S * 1) * (v * n - S * 1) > 9 * 1 * 1 * (n * Q - S * S))
  BY <1>7, <1>8, <1>9 DEF Shifted
<1>11. (v * n - S * 1) * (v * n - S * 1) <= 9 * 1 * 1 * (n * Q - S * S)
  <2>1. v # NaN /\ S # NaN
    OBVIOUS
  <2>2. PICK y \in Int, z \in Int : /\ y = (v * n - S * 1) * (v * n - S * 1)
                                    /\ z = 9 * 1 * 1 * (n * Q - S * S)
    OBVIOUS
  <2>3. ~(y > z)
    BY <1>6, <1>10, <2>1, <2>2
  <2> QED
    BY <2>2, <2>3
<1>12. (v * n - S) * (v * n - S) <= 9 * (n * Q - S * S)
  BY <1>11
<1>13. n * lo <= S /\ S <= n * hi /\ Q <= (hi + lo) * S - n * lo * hi
  BY <1>3 DEF Bounds
<1>14. 2 * v \in (2 * lo - 3 * (hi - lo)) .. (2 * hi + 3 * (hi - lo))
  BY <1>12, <1>13, ThreeDeviations
<1> QED
  BY <1>14 DEF Near

-----------------------------------------------------------------------------
(* Verify against baseline. *)

\* A total that is not NaN is a number.
LEMMA TotalType ==
  ASSUME NEW values \in Seq(Int \union {NaN}), Total(values) # NaN
  PROVE  Total(values) \in Int
<1>1. NaN \notin ToSet(values) /\ Total(values) = SumOf(values)
  BY DEF Total
<1>2. values \in Seq(Int)
  BY <1>1 DEF ToSet
<1>3. PICK N \in Nat : N = Len(values)
  BY <1>2
<1>4. PICK f \in [0 .. N -> Int] : /\ f[0] = 0 /\ \A n \in 1 .. N : f[n] = f[n - 1] + values[n]
                                   /\ SumOf(values) = f[N]
  BY <1>2, <1>3, SumParts
<1> QED
  BY <1>1, <1>3, <1>4

\* The answers to the runs of a probe are among the answers.
LEMMA AnswerOf ==
  ASSUME NEW n \in Nat, NEW r \in Nat \ {0}, NEW i \in 1 .. n, NEW k \in 1 .. r
  PROVE  (i - 1) * r + k \in 1 .. n * r
<1>1. (i - 1) * r >= 0 /\ (i - 1) * r \in Int /\ n * r \in Int
  OBVIOUS
<1>2. (n - i) * r >= 0
  OBVIOUS
<1>3. n * r = (i - 1) * r + r + (n - i) * r
  OBVIOUS
<1> QED
  BY <1>1, <1>2, <1>3

\* The samples of a set of answers that all came with data: one distribution
\* per probe, of the totals.
LEMMA SamplesKept ==
  ASSUME NEW ps, ps \in Seq(ToSet(ps)), NEW r \in Nat \ {0}, NEW ans, ans \in Seq(Answers),
         Len(ans) = Len(ps) * r, Answered(ans), NEW i \in DOMAIN ps
  PROVE  /\ i \in DOMAIN Samples(ps, r, ans) /\ DOMAIN Samples(ps, r, ans) \subseteq DOMAIN ps
         /\ Samples(ps, r, ans)[i].metric = ps[i].metric
         /\ Samples(ps, r, ans)[i].values = Totals(r, ans, i)
<1>1. Len(ps) \in Nat /\ DOMAIN ps = 1 .. Len(ps) /\ DOMAIN ans = 1 .. Len(ps) * r
  OBVIOUS
<1>2. \A k \in 1 .. r : (i - 1) * r + k \in DOMAIN ans
  BY <1>1, AnswerOf
<1>3. Values(ps, r, ans, i) = Totals(r, ans, i)
  <2>1. RunsAnswered(r, ans, i)
    BY <1>2 DEF Answered, RunsAnswered
  <2>2. r \in Nat
    OBVIOUS
  <2> QED
    BY <2>1, <2>2, ValuesKept
<1>4. Values(ps, r, ans, i) # <<>>
  <2>1. 1 \in DOMAIN Values(ps, r, ans, i)
    BY <1>3 DEF Totals
  <2> QED
    BY <2>1
<1> QED
  BY <1>3, <1>4 DEF Samples, Distribution

\* A steady report has nothing that is shifted from the last distribution of
\* its metric.
LEMMA NotShifted ==
  ASSUME NEW ps, NEW r, NEW ans, NEW base, RunReport(ps, r, ans, base).steady,
         NEW i \in DOMAIN Samples(ps, r, ans), i \in DOMAIN base,
         base[i].metric = Samples(ps, r, ans)[i].metric,
         \A j \in DOMAIN base : base[j].metric = base[i].metric => j <= i
  PROVE  ~Shifted(Samples(ps, r, ans)[i], base[i])
<1>1. PICK all : all = Samples(ps, r, ans)
  OBVIOUS
<1>2. {all[j].metric : j \in {k \in DOMAIN all : Anomalous(all[k], base)}} = {}
  BY <1>1 DEF RunReport
<1>3. ~Anomalous(all[i], base)
  BY <1>1, <1>2
<1> QED
  BY <1>1, <1>3 DEF Anomalous

\* A steady report of verify is near the baseline that it was compared with.
LEMMA SteadyIsNear ==
  ASSUME NEW ps, ps \in Seq(ToSet(ps)), NEW ab, ab \in Seq(Answers), Len(ab) = Len(ps) * RunCount,
         Answered(ab), NEW av, av \in Seq(Answers), Len(av) = Len(ps) * 1,
         RunReport(ps, 1, av, Samples(ps, RunCount, ab)).steady,
         NEW i \in DOMAIN ps, \A j \in DOMAIN ps : ps[j].metric = ps[i].metric => j <= i,
         NEW s, s = Totals(RunCount, ab, i), \A k \in 1 .. RunCount : s[k] # NaN,
         Total(av[i].values) # NaN,
         NEW a \in 1 .. RunCount, NEW b \in 1 .. RunCount, NEW lo, NEW hi,
         lo = s[a], hi = s[b], lo < hi, \A k \in 1 .. RunCount : s[k] \in lo .. hi
  PROVE  Near(Total(av[i].values), lo, hi)
<1>0. PICK v, base, new : /\ v = Total(av[i].values) /\ base = Samples(ps, RunCount, ab)
                          /\ new = Samples(ps, 1, av)
  OBVIOUS
<1>1. RunCount \in Nat \ {0} /\ 1 \in Nat \ {0} /\ NaN \notin Int
  BY RunCountAssumption, AnswersAssumption
<1>2. /\ Len(ps) \in Nat /\ DOMAIN ps = 1 .. Len(ps) /\ DOMAIN ab = 1 .. Len(ps) * RunCount
      /\ DOMAIN av = 1 .. Len(ps) * 1 /\ DOMAIN av = DOMAIN ps
  BY <1>1
<1>3. Answered(av)
  <2>1. \A k \in DOMAIN av : av[k].form = "vector" /\ av[k].values # <<>>
    BY ZenonT(60), <1>1, SteadyEarned
  <2> QED
    BY <2>1 DEF Answered
<1>4. s \in [1 .. RunCount -> Int]
  <2>1. ASSUME NEW k \in 1 .. RunCount PROVE s[k] \in Int
    <3>1. (i - 1) * RunCount + k \in DOMAIN ab
      BY <1>1, <1>2, AnswerOf
    <3>2. PICK w : /\ w = ab[(i - 1) * RunCount + k] /\ w \in Answers /\ w.form = "vector"
                   /\ s[k] = Total(w.values)
      BY <3>1 DEF Totals, Answered
    <3>3. w.values \in Seq(Int \union {NaN})
      BY <3>2, AnswersAssumption
    <3> QED
      BY <2>1, <3>2, <3>3, TotalType
  <2> QED
    BY <2>1 DEF Totals
<1>5. v \in Int
  <2>1. av[i] \in Answers /\ av[i].form = "vector"
    BY <1>2, <1>3 DEF Answered
  <2>2. av[i].values \in Seq(Int \union {NaN})
    BY <2>1, AnswersAssumption
  <2> QED
    BY <1>0, <2>2, TotalType
<1>6. /\ i \in DOMAIN base /\ DOMAIN base \subseteq DOMAIN ps
      /\ base[i].metric = ps[i].metric /\ base[i].values = s
  BY <1>0, <1>1, SamplesKept
<1>7. /\ i \in DOMAIN new /\ new[i].metric = ps[i].metric
      /\ new[i].values = Totals(1, av, i)
  BY <1>0, <1>1, <1>3, SamplesKept
<1>8. new[i].values = <<v>>
  <2>1. (i - 1) * 1 + 1 = i
    BY <1>2
  <2>2. \A k \in 1 .. 1 : k = 1
    OBVIOUS
  <2>3. Totals(1, av, i) = [k \in 1 .. 1 |-> v]
    BY <1>0, <2>1, <2>2 DEF Totals
  <2>4. [k \in 1 .. 1 |-> v] = <<v>>
    OBVIOUS
  <2> QED
    BY <1>7, <2>3, <2>4
<1>9. \A j \in DOMAIN base : base[j].metric = ps[j].metric
  BY <1>0 DEF Samples, Distribution
<1>10. ~Shifted(new[i], base[i])
  <2>1. \A j \in DOMAIN base : base[j].metric = base[i].metric => j <= i
    BY <1>6, <1>9
  <2> QED
    BY <1>0, <1>6, <1>7, <2>1, NotShifted
<1>11. lo \in Int /\ hi \in Int
  BY <1>4
<1>12. Between(RunCount, s, lo, hi)
  BY <1>4, <1>11 DEF Between
<1>13. PICK d, e : d = new[i] /\ e = base[i]
  OBVIOUS
<1>14. Near(v, lo, hi)
  <2>1. e.values = s /\ d.values = <<v>> /\ ~Shifted(d, e)
    BY <1>6, <1>8, <1>10, <1>13
  <2> QED
    BY <1>1, <1>4, <1>5, <1>11, <1>12, <2>1, NearBaseline
<1> QED
  BY <1>0, <1>14

-----------------------------------------------------------------------------
(* The baseline that verify is compared with is the one that was measured. *)

ReportInv ==
    /\ tester["baseline"].steady =>
         /\ tester["baseline"].made
         /\ tester["baseline"].samples = Samples(probes, RunCount, answers["baseline"])
    /\ mode = "verify" \/ pc = "chaos" => tester["baseline"].steady

NearInv == ReportInv /\ ShiftCaught

\* The bound of ShiftCaught, for the answers ab of baseline and av of verify.
NearReport(ps, ab, av) ==
    \A i \in DOMAIN ps :
        LET base == {Total(ab[(i - 1) * RunCount + k].values) : k \in 1 .. RunCount}
        IN  /\ \A j \in DOMAIN ps : ps[j].metric = ps[i].metric => j <= i
            /\ NaN \notin base /\ Total(av[i].values) # NaN
            => \A lo, hi \in base : lo < hi /\ (\A y \in base : y \in lo .. hi) =>
                  Near(Total(av[i].values), lo, hi)

LEMMA NearInit == Init => NearInv
<1> SUFFICES ASSUME Init PROVE NearInv
  OBVIOUS
<1>1. \A m \in Modes : tester[m] = NoReport
  BY DEF Init, PerMode
<1> QED
  BY <1>1, NothingSteady DEF Init, NearInv, ReportInv, ShiftCaught, Modes

\* Nothing is steady in verify while its report is not written.
LEMMA NearUntouched ==
  ASSUME NearInv, UNCHANGED <<probes, tester, answers>>,
         mode' = "verify" \/ pc' = "chaos" => tester["baseline"].steady
  PROVE  NearInv'
<1>1. ReportInv'
  BY DEF NearInv, ReportInv
<1>2. ShiftCaught'
  BY ZenonT(60) DEF NearInv, ShiftCaught
<1> QED
  BY <1>1, <1>2 DEF NearInv

LEMMA AskTesterNear == DetectInv /\ NearInv /\ AskTester => NearInv'
<1> SUFFICES ASSUME DetectInv, NearInv, AskTester PROVE NearInv'
  OBVIOUS
<1>1. /\ pc \in {"start", "chaos"} /\ UNCHANGED <<probes, answers>> /\ pc' # "chaos"
      /\ mode' = IF pc = "start" THEN "baseline" ELSE "verify"
      /\ UNCHANGED tester \/ tester' = [tester EXCEPT ![mode'] = NoProbes]
      /\ DOMAIN tester = Modes
  BY DEF AskTester, DetectInv, ShapeInv
<1>2. mode = "baseline" /\ ~tester["verify"].steady
  BY <1>1, NothingSteady DEF DetectInv, PlaceInv
<1>3. ~tester'["verify"].steady
  BY <1>1, <1>2, NothingSteady DEF Modes
<1>4. ReportInv'
  <2>1. CASE pc = "start"
    BY <1>1, <2>1, NothingSteady DEF NearInv, ReportInv, Modes
  <2>2. CASE pc = "chaos"
    <3>1. tester'["baseline"] = tester["baseline"] /\ tester["baseline"].steady
      BY <1>1, <2>2 DEF NearInv, ReportInv, Modes
    <3> QED
      BY <1>1, <3>1 DEF NearInv, ReportInv
  <2> QED
    BY <1>1, <2>1, <2>2
<1> QED
  BY <1>3, <1>4 DEF NearInv, ShiftCaught

LEMMA QueryNear == DetectInv /\ NearInv /\ Query => NearInv'
<1> SUFFICES ASSUME DetectInv, NearInv, Query PROVE NearInv'
  OBVIOUS
<1>1. /\ pc = "tester" /\ pc' # "chaos" /\ UNCHANGED <<mode, probes, tester>> /\ mode \in Modes
      /\ tester[mode] = NoReport /\ DOMAIN answers = Modes
      /\ (mode = "baseline" => tester["verify"] = NoReport)
  BY DEF Query, DetectInv, ShapeInv, PlaceInv
<1>2. ~tester'["verify"].steady
  BY <1>1, NothingSteady DEF Modes
<1>3. ReportInv'
  <2>1. CASE mode = "baseline"
    BY <1>1, <2>1, NothingSteady DEF ReportInv
  <2>2. CASE mode = "verify"
    <3>1. answers'["baseline"] = answers["baseline"]
      BY <1>1, <2>2 DEF Query, Modes
    <3> QED
      BY <1>1, <2>2, <3>1 DEF NearInv, ReportInv
  <2> QED
    BY <1>1, <2>1, <2>2 DEF Modes
<1> QED
  BY <1>2, <1>3 DEF NearInv, ShiftCaught

LEMMA ReportProbesNear == DetectInv /\ NearInv /\ ReportProbes => NearInv'
<1> SUFFICES ASSUME DetectInv, NearInv, ReportProbes PROVE NearInv'
  OBVIOUS
<1>1. PICK report : report = RunReport(probes, Runs(mode), answers[mode], Baseline(mode))
  OBVIOUS
<1>2. /\ pc = "tester" /\ pc' = "security" /\ UNCHANGED <<mode, probes, answers>>
      /\ Len(answers[mode]) = Len(probes) * Runs(mode)
      /\ tester' = [tester EXCEPT ![mode] = report]
  BY <1>1 DEF ReportProbes
<1>3. /\ DOMAIN tester = Modes /\ mode \in Modes /\ probes \in Seq(ToSet(probes))
      /\ \A m \in Modes : answers[m] \in Seq(Answers)
      /\ (mode = "baseline" => tester["verify"] = NoReport)
  BY <1>2 DEF DetectInv, ShapeInv, PlaceInv
<1>4. CASE mode = "baseline"
  <2>1. tester'["baseline"] = report /\ tester'["verify"] = NoReport
    BY <1>2, <1>3, <1>4 DEF Modes
  <2>2. report.made /\ report.samples = Samples(probes, RunCount, answers["baseline"])
    BY <1>1, <1>4 DEF RunReport, Runs
  <2> QED
    BY <1>2, <1>4, <2>1, <2>2, NothingSteady DEF NearInv, ReportInv, ShiftCaught
<1>5. CASE mode = "verify"
  <2>1. tester'["baseline"] = tester["baseline"] /\ tester'["verify"] = report
    BY <1>2, <1>3, <1>5 DEF Modes
  <2>2. /\ tester["baseline"].steady /\ tester["baseline"].made
        /\ tester["baseline"].samples = Samples(probes, RunCount, answers["baseline"])
    BY <1>5 DEF NearInv, ReportInv
  <2>3. report = RunReport(probes, 1, answers["verify"], Samples(probes, RunCount, answers["baseline"]))
    BY <1>1, <1>5, <2>2 DEF Runs, Baseline
  <2>4. /\ Len(answers["baseline"]) = Len(probes) * RunCount
        /\ \A k \in DOMAIN answers["baseline"] :
             answers["baseline"][k].form = "vector" /\ answers["baseline"][k].values # <<>>
    BY <2>2 DEF DetectInv, SteadyIsWitnessed, Runs, Modes
  <2>4a. Answered(answers["baseline"])
    BY <2>4 DEF Answered
  <2>5. Len(answers["verify"]) = Len(probes) * 1
    BY <1>2, <1>5 DEF Runs
  <2>6. PICK ab, av : /\ ab = answers["baseline"] /\ av = answers["verify"]
                      /\ ab \in Seq(Answers) /\ av \in Seq(Answers)
    BY <1>3 DEF Modes
  <2>7. ASSUME report.steady,
               NEW i \in DOMAIN probes,
               \A j \in DOMAIN probes : probes[j].metric = probes[i].metric => j <= i,
               NEW base, base = {Total(ab[(i - 1) * RunCount + k].values) : k \in 1 .. RunCount},
               NaN \notin base, Total(av[i].values) # NaN,
               NEW lo \in base, NEW hi \in base, lo < hi, \A y \in base : y \in lo .. hi
        PROVE  Near(Total(av[i].values), lo, hi)
    <3>1. PICK s : s = Totals(RunCount, ab, i)
      OBVIOUS
    <3>2. base = {s[k] : k \in 1 .. RunCount}
      BY <2>7, <3>1 DEF Totals
    <3>3. PICK a \in 1 .. RunCount : lo = s[a]
      BY <3>2
    <3>4. PICK b \in 1 .. RunCount : hi = s[b]
      BY <3>2
    <3>5. \A k \in 1 .. RunCount : s[k] # NaN /\ s[k] \in lo .. hi
      BY <2>7, <3>2
    <3> QED
      BY ZenonT(60), <1>3, <2>3, <2>5, <2>6, <2>7, <2>4, <2>4a, <3>1, <3>3, <3>4, <3>5, SteadyIsNear
  <2>8. ShiftCaught'
    <3>1. report.steady => NearReport(probes, ab, av)
      BY <2>7 DEF NearReport
    <3>2. tester'["verify"].steady => NearReport(probes', answers'["baseline"], answers'["verify"])
      BY <1>2, <2>1, <2>6, <3>1
    <3> QED
      BY <3>2 DEF ShiftCaught, NearReport, Near
  <2>9. ReportInv'
    BY <1>2, <2>1, <2>2 DEF ReportInv
  <2> QED
    BY <2>8, <2>9 DEF NearInv
<1> QED
  BY <1>3, <1>4, <1>5 DEF Modes

LEMMA NearStep == DetectInv /\ NearInv /\ [Next]_vars => NearInv'
<1> SUFFICES ASSUME DetectInv, NearInv, [Next]_vars PROVE NearInv'
  OBVIOUS
<1>1. CASE Change \/ UNCHANGED vars
  <2>1. UNCHANGED <<pc, mode, probes, tester, answers>>
    BY <1>1 DEF Change, vars, testerVars
  <2> QED
    BY <2>1, NearUntouched DEF NearInv, ReportInv
<1>2. CASE Scan \/ ReportScans \/ Decide
  <2>1. UNCHANGED <<mode, probes, tester, answers>>
    BY <1>2 DEF Scan, ReportScans, Decide, testerVars
  <2>2. pc' # "chaos"
    BY <1>2 DEF Scan, ReportScans, Decide
  <2> QED
    BY <2>1, <2>2, NearUntouched DEF NearInv, ReportInv
<1>3. CASE Gate
  <2>1. /\ UNCHANGED <<mode, probes, tester, answers>>
        /\ pc' = "chaos" => tester["baseline"].steady
    BY <1>3 DEF Gate, BaselineHealthy, testerVars
  <2> QED
    BY <2>1, NearUntouched DEF NearInv, ReportInv
<1> QED
  BY <1>1, <1>2, <1>3, AskTesterNear, QueryNear, ReportProbesNear DEF Next

\* A steady verify is near the baseline, for any number of probes and runs
\* and whatever values Prometheus gave: three deviations are never more than
\* one and a half times the range (_compare_to_baseline).
THEOREM ShiftsAreCaught == Spec => []ShiftCaught
BY NearInit, NearStep, DetectInvariant, PTL DEF Spec, NearInv
=============================================================================
