---------------------------- MODULE Hypothesizer ----------------------------
(***************************************************************************)
(* What "chaos hypothesize" proposes to try: one hypothesis per match of a *)
(* detector in the source code, merged with the model's when the profile   *)
(* has one (agents/tester/hypothesizer.py, agents/tester/agent.py).  A     *)
(* reference is [file, line]: _normalize_ref keeps the first line of a     *)
(* range.                                                                  *)
(***************************************************************************)
EXTENDS FaultCatalogue, Ranking

CONSTANT None   \* Python's None

\* _DETECTOR_CONFIG, in the order of default_detectors: the fault and the
\* confidence a detector's issues stand for.
DetectorConfig ==
    << <<"missing-timeout", "network.delay", 70>>,
       <<"missing-retry", "network.loss", 60>>,
       <<"missing-circuit-breaker", "network.partition", 65>>,
       <<"no-fallback-for-cache", "pod.kill", 55>>,
       <<"sync-call-in-async", "network.delay", 70>>,
       <<"single-replica", "pod.kill", 85>>,
       <<"hard-pod-affinity", "pod.kill", 50>>,
       <<"hardcoded-secret", "secret.rotate", 40>> >>

Proposal(fault, conf, refs) == [fault |-> fault, confidence |-> conf, refs |-> refs]

\* What one detector's matches become.
DetectorHypotheses(d, issues) ==
    LET name == DetectorConfig[d][1]
        at == IF name \in DOMAIN issues THEN issues[name] ELSE <<>>
    IN  [i \in DOMAIN at |-> Proposal(DetectorConfig[d][2], DetectorConfig[d][3], {at[i]})]

\* StaticHypothesizer.generate; issues gives, per detector, where it matched.
StaticHypotheses(code, issues) ==
    IF code
    THEN FlattenSeq([d \in DOMAIN DetectorConfig |-> DetectorHypotheses(d, issues)])
    ELSE <<>>

\* _are_duplicates
SameFinding(a, b) ==
    {p \in Pairs(a, b) : p[1].fault = p[2].fault /\ p[1].refs \intersect p[2].refs # {}}
MergeFindings(a, b) == Ranked(Merged(a, b, SameFinding(a, b)))

\* What a hypothesizer returns, unless it raises.
Outcome(list) == [raised |-> FALSE, list |-> list]
Raised == [raised |-> TRUE, list |-> <<>>]

\* The profile's hypothesizer.  The model's answer is already parsed (invalid
\* items dropped), or None when the call raised; only "hybrid" catches that.
Generate_noCatch(profile, code, issues, answer) ==
    LET static == StaticHypotheses(code, issues)
    IN  CASE profile = "static" -> Outcome(static)
          [] profile = "llm" -> IF answer = None THEN Raised ELSE Outcome(answer)
          [] profile = "hybrid" ->
               IF answer = None THEN Raised ELSE Outcome(MergeFindings(static, answer))
Generate(profile, code, issues, answer) ==
    LET static == StaticHypotheses(code, issues)
    IN  CASE profile = "static" -> Outcome(static)
          [] profile = "llm" -> IF answer = None THEN Raised ELSE Outcome(answer)
          [] profile = "hybrid" ->
               Outcome(IF answer = None THEN static ELSE MergeFindings(static, answer))

\* ClaudeTesterAgent.hypothesize: an exception becomes a report, a fault the
\* catalogue does not have is rejected.
HypothesizeReport(out) ==
    LET raw == out.list
        known == {h \in ToSet(raw) : h.fault \in Catalogue}
    IN  [ok |-> ~out.raised,
         accepted |-> Only(raw, known), rejected |-> Only(raw, ToSet(raw) \ known)]
=============================================================================
