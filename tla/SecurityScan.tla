---------------------------- MODULE SecurityScan ----------------------------
(***************************************************************************)
(* The security agent's decisions (agents/security): which scanners a      *)
(* request runs and in which order, what each makes of its process, and    *)
(* the drift of the software inventory between two scans.                  *)
(***************************************************************************)
EXTENDS Integers, Sequences, SequencesExt, FiniteSets, TLC

CONSTANTS Vulnerable,   \* contents that a scanner rates high or critical
          Unsigned,     \* image contents whose signature does not verify
          OddlyNamed,   \* contents with a vulnerable package whose name has a
                        \* character other than a letter, a digit, "-" or "_"
          Packages      \* contents -> the packages in them, with versions

\* A request is [images, repo, enabled, trust].  baseline and verify scan each
\* image in the order of _scan_one_image, then the checkout and the cluster;
\* the n-th scan is run if its scanner is enabled.
ImageScanners == <<"trivy", "syft", "grype", "cosign">>
LastScan(req) == 4 * Len(req.images) + 2
ScanAt(req, n) ==
    IF n <= 4 * Len(req.images)
    THEN <<ImageScanners[((n - 1) % 4) + 1], req.images[((n - 1) \div 4) + 1]>>
    ELSE IF n < LastScan(req) THEN <<"gitleaks", "repo">> ELSE <<"kubescape", "cluster">>
ScanPlan(req) ==
    {n \in 1 .. LastScan(req) :
        ScanAt(req, n)[1] \in req.enabled /\ (ScanAt(req, n)[1] = "gitleaks" => req.repo)}

\* What a scanner's process may do (SubprocessRunner.run).
Processes ==
    [ended : {"exited"}, exit : 0 .. 2, out : {"json", "empty", "garbled"}, missing : BOOLEAN]
        \union [ended : {"timeout", "not_installed"}]

\* What the scanner's coroutine comes to: findings, a ScannerError, or an
\* exception of another kind.
Findings(severe) == [kind |-> "findings", severe |-> severe]
Failed == [kind |-> "error"]
Raises(reason) == [kind |-> "raises", reason |-> reason]

\* trivy and grype build the id of a finding from the package's name, which
\* the contract's pattern for ids may refuse.
FromPackages(held) ==
    IF held \in OddlyNamed THEN Raises("bad id") ELSE Findings(held \in Vulnerable)
Trivy(p, held) == IF p.exit # 0 \/ p.out # "json" THEN Failed ELSE FromPackages(held)
Grype(p, held) == IF p.exit # 0 \/ p.out # "json" THEN Failed ELSE FromPackages(held)

\* syft finds nothing; its digest is of the packages only.
Syft(p) == IF p.exit # 0 \/ p.out # "json" THEN Failed ELSE Findings(FALSE)
DigestSbom(held) == Packages[held]

\* gitleaks exits with 1 when it found leaks, all of which are rated high; it
\* may print nothing when it found none.
Gitleaks(p, held) ==
    IF p.exit >= 2 \/ p.out = "garbled" THEN Failed
    ELSE Findings(p.out = "json" /\ held \in Vulnerable)

\* kubescape's exit code is not looked at.
Kubescape(p, held) ==
    IF p.out = "garbled" THEN Failed ELSE Findings(p.out = "json" /\ held \in Vulnerable)

\* Without a key or an identity there is no command to run.  Any other exit
\* than 0 is a finding unless the message names a missing file.
Cosign(p) ==
    CASE p.exit = 0 -> Findings(FALSE)
      [] p.exit # 0 /\ p.missing -> Failed
      [] OTHER -> Findings(TRUE)

\* What the programs guarantee: cosign does not pass what is not signed.
Possible(scan, p, held) ==
    scan[1] = "cosign" /\ held \in Unsigned /\ p.ended = "exited" => p.exit # 0

RunScanner(scan, p, held, req) ==
    IF scan[1] = "cosign" /\ ~req.trust THEN Raises("no trust")
    ELSE IF p.ended = "not_installed" THEN Raises("not installed")
    ELSE IF p.ended = "timeout" THEN Failed
    ELSE CASE scan[1] = "trivy" -> Trivy(p, held)
           [] scan[1] = "grype" -> Grype(p, held)
           [] scan[1] = "syft" -> Syft(p)
           [] scan[1] = "gitleaks" -> Gitleaks(p, held)
           [] scan[1] = "kubescape" -> Kubescape(p, held)
           [] scan[1] = "cosign" -> Cosign(p)

\* sbom_digests_by_image[image] = digest
Record(digests, image, digest) ==
    [i \in DOMAIN digests \union {image} |-> IF i = image THEN digest ELSE digests[i]]

\* _compute_drift over the digests kept per image (a partial function).
ComputeDrift_bothSides(baseline, verify) ==
    \E img \in DOMAIN baseline \intersect DOMAIN verify : verify[img] # baseline[img]
ComputeDrift(baseline, verify) ==
    \E img \in DOMAIN baseline : img \notin DOMAIN verify \/ verify[img] # baseline[img]
=============================================================================
