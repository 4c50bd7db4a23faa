------------------------------- MODULE Triage -------------------------------
(***************************************************************************)
(* What the loop does with a regression: the diagnostician ranks root      *)
(* causes (static rules, the LLM's answer, or both), suppression tags the  *)
(* ones the operator has muted, and the fixer proposes a change for the    *)
(* first one.  Operators edit the rules meanwhile with "chaos suppress     *)
(* add", which rewrites .chaos/suppress.yaml without a lock.  Before the   *)
(* first run the command line may ask what to try, in "chaos hypothesize", *)
(* which ranks and merges its candidates as the diagnostician does.        *)
(*                                                                         *)
(* The gates between the steps (budget, pause, abort) are ExperimentLoop's.*)
(***************************************************************************)
EXTENDS Hypothesizer

CONSTANTS
    Regressions,    \* the runs to explore: the profile and whether the agents
                    \* have a code reader, the events of the chaos timeline, the
                    \* known phrases of the failed report, the plan's own rules
    Scenarios,      \* code, detector matches and model answer for hypothesize
    LlmAnswers,     \* what the diagnosing model may answer
    FixAnswers,     \* what the fixing model may answer
    Files,          \* what suppress.yaml may hold before the first run
    Expiries,       \* what --expires may be given as
    Denied,         \* the paths the fixer's denylist matches
    MaxHypotheses,  \* max_hypotheses of the diagnosers
    MinConfidence,  \* min_confidence of the fixer, in percent
    Operators,      \* the people (shells) running "chaos suppress add"
    Naive,          \* a datetime without a time zone
    MaxRuns, MaxNow, MaxAdds   \* bounds: experiments, clock, calls of suppress add

ASSUME FilesAssumption == \A f \in Files :
    /\ f.state \in {"missing", "malformed", "listed"}
    /\ f.state = "listed" => f.rules \in Seq(ToSet(f.rules))
ASSUME PlanAssumption == \A r \in Regressions : r.plan \in Seq(ToSet(r.plan))
ASSUME EventsAssumption == \A r \in Regressions :
    r.profile \in {"static", "llm", "hybrid"} /\ r.events \in Seq(ToSet(r.events))
ASSUME AnswersAssumption == \A a \in LlmAnswers :
    /\ a.form \in {"raises", "prose", "object", "array"}
    /\ a.form \in {"object", "array"} => a.items \in Seq(ToSet(a.items))
ASSUME MaxHypothesesAssumption == MaxHypotheses \in Nat \ {0}
ASSUME ScenariosAssumption == \A s \in Scenarios :
    /\ s.profile \in {"static", "llm", "hybrid"}
    /\ \A name \in DOMAIN s.issues : s.issues[name] \in Seq(ToSet(s.issues[name]))
    /\ s.answer # None => /\ s.answer \in Seq(ToSet(s.answer))
                          /\ \A i \in DOMAIN s.answer : s.answer[i].confidence \in 0 .. 100

VARIABLES
    pc,          \* "idle", "diagnose", "tag", "fix", or how the run ended:
                 \* "declined", "proposed", "raised"
    run,         \* the run's inputs, and what it read (see NewRun)
    hypotheses,  \* diagnosis.hypotheses
    suppressed,  \* diagnosis.suppressed_fingerprints
    proposal,    \* record.fix_proposal, or None
    saved,       \* the hypotheses of the diagnoses in the store
    artifacts,   \* files under experiments/runs/<experiment>/proposed
    file,        \* .chaos/suppress.yaml
    adding,      \* per operator, the "suppress add" under way: its step, the
                 \* rule it adds and the rules it will write
    now,         \* the clock
    adds,        \* calls of suppress add, for the bound
    ideas,       \* the last hypothesize call: its scenario and its report, or None
    committed,   \* ghost: rules an operator was told were added
    disturbed    \* ghost: two adds overlapped, or one was killed half way

runVars == <<pc, run, hypotheses, suppressed, proposal, saved, artifacts>>
fileVars == <<file, adding, adds, committed, disturbed>>
vars == <<runVars, fileVars, now, ideas>>

-----------------------------------------------------------------------------
(* The static diagnoser. *)

FixClasses == {"code-patch", "config-change", "missing-retry", "missing-timeout",
               "missing-circuit-breaker", "missing-fallback", "auth-control-gap",
               "secret-handling", "image-policy", "test-gap", "working-as-intended"}

\* _FAULT_TO_FIX_RULES: candidate fix classes of a category, with their base
\* confidence.  Radio, power and sensor faults have no rule.
FixRules ==
    [network |-> << <<"missing-retry", 55>>, <<"missing-timeout", 45>>,
                    <<"missing-fallback", 35>> >>,
     pod     |-> << <<"missing-fallback", 45>>, <<"working-as-intended", 30>> >>,
     stress  |-> << <<"missing-timeout", 45>>, <<"config-change", 30>> >>,
     cert    |-> << <<"secret-handling", 60>> >>,
     tls     |-> << <<"auth-control-gap", 55>> >>,
     auth    |-> << <<"auth-control-gap", 65>> >>,
     secret  |-> << <<"secret-handling", 65>> >>,
     image   |-> << <<"image-policy", 70>> >>,
     iam     |-> << <<"auth-control-gap", 55>> >>,
     netpol  |-> << <<"config-change", 55>> >>,
     dns     |-> << <<"missing-retry", 45>>, <<"missing-timeout", 40>> >>,
     io      |-> << <<"missing-timeout", 45>> >>,
     http    |-> << <<"missing-retry", 45>>, <<"missing-fallback", 30>> >>,
     time    |-> << <<"config-change", 35>> >>,
     kernel  |-> << <<"config-change", 30>> >>,
     egress  |-> << <<"auth-control-gap", 45>> >>,
     runtime |-> << <<"config-change", 40>> >>]
RulesFor(cat) == IF cat \in DOMAIN FixRules THEN FixRules[cat] ELSE <<>>

\* _SYMPTOM_BOOSTS: phrases of the failed reports, and what each adds to the
\* confidence of the class.
BoostsFor(class) ==
    CASE class = "missing-timeout" ->
           << <<"latency", 15>>, <<"p95", 10>>, <<"hung", 20>>, <<"timeout", 10>> >>
      [] class = "missing-retry" ->
           << <<"transient", 15>>, <<"connection refused", 15>>, <<"5xx", 10>>, <<"retry", 5>> >>
      [] class = "missing-fallback" -> << <<"503", 10>>, <<"unavailable", 10>>, <<"cascade", 20>> >>
      [] class = "auth-control-gap" ->
           << <<"401", 10>>, <<"403", 10>>, <<"unauthenticated", 15>>, <<"bypass", 20>> >>
      [] class = "secret-handling" ->
           << <<"expired", 20>>, <<"invalid signature", 15>>, <<"rotation", 15>> >>
      [] class = "image-policy" -> << <<"admitted", 20>>, <<"vulnerable", 10>>, <<"cve-", 10>> >>
      [] OTHER -> <<>>

AdjustConfidence(base, class, symptoms) ==
    LET boosts == BoostsFor(class)
        conf == base + SumOf([k \in DOMAIN boosts |->
                                IF boosts[k][1] \in symptoms THEN boosts[k][2] ELSE 0])
    IN  IF conf > 100 THEN 100 ELSE conf

\* A hypothesis: its summary is the rule's sentence about a selector, which
\* is the event's detail (the name of the Chaos Mesh resource: the fault and
\* the experiment) or, without detail, the fault's name.
Summary(text, fault, exp) == [text |-> text, fault |-> fault, exp |-> exp]
Hypothesis(class, conf, paths, summary) ==
    [fix_class |-> class, confidence |-> conf, paths |-> paths, summary |-> summary]
Fingerprint(h) == [fix_class |-> h.fix_class, paths |-> h.paths, summary |-> h.summary]

\* Each fault of the catalogue counts once, where it first appears; its most
\* descriptive event is the first one that has a detail.
FirstOfFault(events, i) ==
    /\ events[i].fault \in Catalogue
    /\ \A j \in 1 .. i - 1 : events[j].fault # events[i].fault
HasDetail(events, fault) ==
    \E i \in DOMAIN events : events[i].fault = fault /\ events[i].detail

\* The candidates of one fault; exp is the experiment its detail names, or 0.
FaultCandidates(fault, exp, symptoms) ==
    LET cat == CategoryOf(fault)
    IN  [k \in DOMAIN RulesFor(cat) |->
           LET rule == RulesFor(cat)[k]
           IN  Hypothesis(rule[1], AdjustConfidence(rule[2], rule[1], symptoms), {},
                          Summary(cat, fault, exp))]

StaticCandidates(exp, events, symptoms) ==
    LET cands == FlattenSeq([i \in DOMAIN events |->
            LET fault == events[i].fault
            IN  IF FirstOfFault(events, i)
                THEN FaultCandidates(fault, IF HasDetail(events, fault) THEN exp ELSE 0, symptoms)
                ELSE <<>>])
    IN  IF cands = <<>>
        THEN << Hypothesis("working-as-intended", 10, {}, Summary("no rule", "", 0)) >>
        ELSE cands
StaticDiagnosis(r) ==
    Cut(Ranked(StaticCandidates(r.exp, r.events, r.symptoms)), MaxHypotheses)

-----------------------------------------------------------------------------
(* The LLM's answer, the merge, and the diagnostician's report. *)

\* _parse_hypotheses: prose holds no JSON, an object is taken for a list of
\* one, and items that are malformed or name an unknown class are dropped.
ParseHypotheses(answer) ==
    IF answer.form = "prose" THEN <<>>
    ELSE Only(answer.items, {h \in ToSet(answer.items) : /\ h.fix_class \in FixClasses
                                                         /\ h.confidence \in 0 .. 100})

\* _are_root_cause_duplicates
Duplicates(a, b) ==
    {p \in Pairs(a, b) :
        /\ p[1].fix_class = p[2].fix_class
        /\ \/ p[1].paths = {} /\ p[2].paths = {}
           \/ p[1].paths \intersect p[2].paths # {}}

MergeHypotheses_unsorted(a, b) == Merged(a, b, Duplicates(a, b))
MergeHypotheses(a, b) == Ranked(Merged(a, b, Duplicates(a, b)))

Raises(answer) == answer.form = "raises"

\* The diagnoser of the profile; "llm" does not catch the model's exception
\* (Diagnose does not ask then).
Diagnosis(r) ==
    CASE r.profile = "static" -> StaticDiagnosis(r)
      [] r.profile = "llm" -> ParseHypotheses(r.answer)
      [] r.profile = "hybrid" ->
           IF Raises(r.answer) THEN StaticDiagnosis(r)
           ELSE Cut(MergeHypotheses(StaticDiagnosis(r), ParseHypotheses(r.answer)),
                    MaxHypotheses)

\* ClaudeDiagnosticianAgent.diagnose: never empty, and ranked once more.
Unknown == Hypothesis("working-as-intended", 0, {}, Summary("no hypotheses", "", 0))
Report(hyps) == IF hyps = <<>> THEN <<Unknown>> ELSE Ranked(hyps)

-----------------------------------------------------------------------------
(* Suppression rules. *)

\* The file as written: missing, not readable as a rule list, or a list.  A
\* file truncated for writing reads as an empty list, because of "or {}".
Listed(rules) == [state |-> "listed", rules |-> rules]
Load(f) == IF f.state = "missing" THEN <<>> ELSE f.rules

\* rule_matches.  path_glob and summary_contains are given by the paths and
\* the sentences they match.
RuleMatches(rule, h, when) ==
    /\ rule.expires_at = None \/ when <= rule.expires_at
    /\ rule.hypothesis_id = None \/ rule.hypothesis_id = Fingerprint(h)
    /\ rule.fix_class = None \/ rule.fix_class = h.fix_class
    /\ rule.path_glob = None \/ rule.path_glob \intersect h.paths # {}
    /\ rule.summary_contains = None \/ h.summary.text \in rule.summary_contains

\* apply_to_diagnosis tries the rules in order, up to and with the first that
\* matches.  Comparing the clock with a naive expiry raises TypeError.
Matches(rule, h, when) == rule.expires_at # Naive /\ RuleMatches(rule, h, when)
Muted(rules, h, when) == \E k \in DOMAIN rules : Matches(rules[k], h, when)
TypeErrorOn(rules, h, when) ==
    \E n \in DOMAIN rules : /\ rules[n].expires_at = Naive
                            /\ \A k \in 1 .. n - 1 : ~Matches(rules[k], h, when)

ActiveHypotheses(hyps, tags) == SelectSeq(hyps, LAMBDA h : Fingerprint(h) \notin tags)

-----------------------------------------------------------------------------
(* The run. *)

NewRun == [exp |-> 0, profile |-> "static", code |-> FALSE, events |-> <<>>,
           symptoms |-> {}, plan |-> <<>>, answer |-> [form |-> "prose", items |-> <<>>],
           why |-> "nothing", now |-> 0, known |-> {}, rules |-> <<>>, sure |-> FALSE]

NoAdd == [step |-> "none", rule |-> None, rules |-> <<>>]

Init ==
    /\ pc = "idle" /\ run = NewRun
    /\ hypotheses = <<>> /\ suppressed = {} /\ proposal = None
    /\ saved = {} /\ artifacts = {}
    /\ file \in Files
    /\ adding = [o \in Operators |-> NoAdd]
    /\ now = 0 /\ adds = 0 /\ ideas = None
    /\ committed = IF file.state = "listed" THEN ToSet(file.rules) ELSE {}
    /\ disturbed = FALSE

\* tester.hypothesize, which the command line asks for before any experiment.
Hypothesize ==
    /\ pc = "idle" /\ ideas = None
    /\ \E s \in Scenarios :
         ideas' = [scenario |-> s,
                   report |-> HypothesizeReport(Generate(s.profile, s.code, s.issues, s.answer))]
    /\ UNCHANGED <<runVars, fileVars, now>>

Ended == {"idle", "declined", "proposed", "raised"}

\* An experiment reaches DIAGNOSE.
Regress ==
    /\ pc \in Ended /\ run.exp < MaxRuns
    /\ pc' = "diagnose"
    /\ \E r \in Regressions :
         run' = [NewRun EXCEPT !.exp = run.exp + 1, !.profile = r.profile, !.code = r.code,
                               !.events = r.events, !.symptoms = r.symptoms, !.plan = r.plan]
    /\ hypotheses' = <<>> /\ suppressed' = {} /\ proposal' = None /\ artifacts' = {}
    /\ ideas' = None
    /\ UNCHANGED <<saved, fileVars, now>>

Raise(why) == pc' = "raised" /\ run' = [run EXCEPT !.why = why]

\* diagnostician.diagnose
Diagnose ==
    /\ pc = "diagnose"
    /\ \E a \in IF run.profile = "static" THEN {run.answer} ELSE LlmAnswers :
         IF run.profile = "llm" /\ Raises(a)
         THEN Raise("llm") /\ UNCHANGED hypotheses
         ELSE /\ pc' = "tag"
              /\ run' = [run EXCEPT !.answer = a]
              /\ hypotheses' = Report(Diagnosis(run'))
    /\ UNCHANGED <<suppressed, proposal, saved, artifacts, fileVars, now, ideas>>

\* build_active_list and apply_to_diagnosis, then the save.  The run keeps
\* what it read, for the properties.
Tag ==
    /\ pc = "tag"
    /\ LET rules == Load(file) \o run.plan
           tags == {Fingerprint(hypotheses[i]) :
                      i \in {j \in DOMAIN hypotheses : Muted(rules, hypotheses[j], now)}}
           writing == \E o \in Operators : adding[o].step = "write"
       IN  IF \/ file.state = "malformed"
              \/ \E i \in DOMAIN hypotheses : TypeErrorOn(rules, hypotheses[i], now)
           THEN Raise("rules") /\ UNCHANGED <<suppressed, saved>>
           ELSE /\ suppressed' = tags
                /\ saved' = saved \union ToSet(hypotheses)
                /\ pc' = IF ActiveHypotheses(hypotheses, tags) = <<>>
                         THEN "declined" ELSE "fix"
                /\ run' = [run EXCEPT !.now = now, !.known = committed, !.rules = rules,
                                      !.sure = ~disturbed /\ ~writing]
    /\ UNCHANGED <<hypotheses, proposal, artifacts, fileVars, now, ideas>>

-----------------------------------------------------------------------------
(* The fixer. *)

DecideAction(h) ==
    CASE h.confidence < MinConfidence -> "none"
      [] h.confidence >= MinConfidence /\ h.fix_class = "working-as-intended" -> "doc-only"
      [] h.confidence >= MinConfidence /\ h.fix_class \in {"config-change", "image-policy"} ->
           "config-change"
      [] OTHER -> "code-patch"

\* _FIX_TEMPLATES: the classes whose template suggests a regression test; the
\* suggested path is a new file next to the first affected one.
SuggestsTest == FixClasses \ {"config-change", "image-policy", "working-as-intended"}
TestFor(paths) == IF paths = {} THEN {} ELSE {"tests/regression"}

Output(files, enough) == [files |-> files, enough |-> enough]
StaticFix(h) ==
    Output(h.paths \union (IF h.fix_class \in SuggestsTest THEN TestFor(h.paths) ELSE {}), TRUE)

\* ClaudeFixerStrategy.propose, from the model's answer and whether the
\* artifact could be written.  "enough" is HybridFixerStrategy's test: files,
\* or a reasoning of _MIN_REASONING_LEN characters - which the sentences
\* about a missing reader or an unparsable answer, and the one that names the
\* artifact, all have.
ClaudeFix(ans, written) ==
    IF ~run.code \/ ans.form # "proposal" THEN Output({}, TRUE)
    ELSE Output(ans.files, ans.files # {} \/ ans.long \/ written)
WritesArtifact(ans) == run.code /\ ans.form = "proposal"

Propose(action, files) ==
    /\ proposal' = [action |-> action, files |-> files]
    /\ pc' = "proposed"

\* The strategy's output goes through the denylist.
Finish(action, h, out) ==
    IF out.files \intersect Denied # {} THEN Propose("none", {}) ELSE Propose(action, out.files)

\* propose_fix below the confidence threshold, or for an intended behaviour.
ProposeNoPatch ==
    /\ pc = "fix"
    /\ LET action == DecideAction(hypotheses[1])
       IN  \/ /\ action = "none"
              /\ Propose("none", {})
              /\ UNCHANGED <<run, artifacts>>
           \/ /\ action = "doc-only"
              /\ artifacts' = artifacts \union {"working-as-intended.md"}
              /\ Propose("doc-only", {"working-as-intended.md"})
              /\ UNCHANGED run
           \/ /\ action = "doc-only"
              /\ Raise("disk")
              /\ UNCHANGED <<proposal, artifacts>>
    /\ UNCHANGED <<hypotheses, suppressed, saved, fileVars, now, ideas>>

\* propose_fix through a strategy.
ProposePatch ==
    /\ pc = "fix"
    /\ DecideAction(hypotheses[1]) \in {"code-patch", "config-change"}
    /\ \E ans \in IF run.profile = "static" THEN {[form |-> "none"]} ELSE FixAnswers,
          written \in BOOLEAN :
         LET h == hypotheses[1]
             raised == run.profile # "static" /\ run.code /\ Raises(ans)
             claude == ClaudeFix(ans, written)
             out == IF \/ run.profile = "static"
                       \/ run.profile = "hybrid" /\ (raised \/ ~claude.enough)
                    THEN StaticFix(h) ELSE claude
         IN  /\ artifacts' = artifacts \union
                   (IF run.profile # "static" /\ WritesArtifact(ans) /\ written
                    THEN {"edits.json"} ELSE {})
             /\ IF raised /\ run.profile = "llm"
                THEN Raise("llm") /\ UNCHANGED proposal
                ELSE Finish(DecideAction(h), h, out) /\ UNCHANGED run
    /\ UNCHANGED <<hypotheses, suppressed, saved, fileVars, now, ideas>>

-----------------------------------------------------------------------------
(* "chaos suppress add": look the hypothesis up, read the file, append,    *)
(* write it back.  write_text truncates the file first.                    *)

NewRule(h, expires) ==
    [hypothesis_id |-> Fingerprint(h), fix_class |-> None, path_glob |-> None,
     summary_contains |-> None, expires_at |-> expires]

AddRead_fresh(o) ==
    /\ adding[o].step = "none" /\ file.state # "malformed" /\ adds < MaxAdds
    /\ \E h \in saved, x \in Expiries :
         LET rule == NewRule(h, x)
         IN  adding' = [adding EXCEPT ![o] =
                          [step |-> "open", rule |-> rule, rules |-> <<rule>>]]
    /\ adds' = adds + 1
    /\ disturbed' = (disturbed \/ \E p \in Operators : adding[p].step # "none")
    /\ UNCHANGED <<runVars, file, committed, now, ideas>>
AddRead(o) ==
    /\ adding[o].step = "none" /\ file.state # "malformed" /\ adds < MaxAdds
    /\ \E h \in saved, x \in Expiries :
         LET rule == NewRule(h, x)
         IN  adding' = [adding EXCEPT ![o] =
                          [step |-> "open", rule |-> rule, rules |-> Append(Load(file), rule)]]
    /\ adds' = adds + 1
    /\ disturbed' = (disturbed \/ \E p \in Operators : adding[p].step # "none")
    /\ UNCHANGED <<runVars, file, committed, now, ideas>>

AddOpen(o) ==
    /\ adding[o].step = "open"
    /\ file' = Listed(<<>>)
    /\ adding' = [adding EXCEPT ![o].step = "write"]
    /\ UNCHANGED <<runVars, adds, committed, disturbed, now, ideas>>

AddWrite(o) ==
    /\ adding[o].step = "write"
    /\ file' = Listed(adding[o].rules)
    /\ committed' = committed \union {adding[o].rule}
    /\ adding' = [adding EXCEPT ![o] = NoAdd]
    /\ UNCHANGED <<runVars, adds, disturbed, now, ideas>>

\* The command is killed between opening the file and writing it.
AddKilled(o) ==
    /\ adding[o].step = "write"
    /\ adding' = [adding EXCEPT ![o] = NoAdd]
    /\ disturbed' = TRUE
    /\ UNCHANGED <<runVars, file, adds, committed, now, ideas>>

Tick == now < MaxNow /\ now' = now + 1 /\ UNCHANGED <<runVars, fileVars, ideas>>

Next ==
    \/ Hypothesize \/ Regress \/ Diagnose \/ Tag \/ ProposeNoPatch \/ ProposePatch
    \/ \E o \in Operators : AddRead(o) \/ AddOpen(o) \/ AddWrite(o) \/ AddKilled(o)
    \/ Tick

Spec == Init /\ [][Next]_vars

-----------------------------------------------------------------------------
(* Properties. *)

\* Everything the diagnosers proposed for a run, before any cut.
Candidates(r) ==
    (IF r.profile = "llm" THEN <<>> ELSE StaticCandidates(r.exp, r.events, r.symptoms))
      \o (IF r.profile = "static" \/ Raises(r.answer) THEN <<>> ELSE ParseHypotheses(r.answer))

\* The report keeps what matters.  Its first hypothesis, the one the fixer will
\* read, is at least as confident as every candidate; a candidate that it does
\* not carry was displaced by one of the same fix class that is at least as
\* confident, or by max_hypotheses other candidates: three sorts and two cuts,
\* of lists merged with duplicates removed, lose nothing else (diagnoser.py
\* StaticDiagnoser, HybridDiagnoser; diagnostician/agent.py).  And with the
\* hybrid profile there is a report whatever the model does ("the loop survives
\* if the LLM fails", agents/_factory.py build_real_agents).
ReportKeepsBest ==
    /\ run.profile = "hybrid" => run.why # "llm"
    /\ pc \in {"tag", "fix"} =>
         LET cands == Candidates(run)
         IN  \A n \in DOMAIN cands :
                /\ hypotheses[1].confidence >= cands[n].confidence
                /\ \/ \E i \in DOMAIN hypotheses :
                         /\ hypotheses[i].fix_class = cands[n].fix_class
                         /\ hypotheses[i].confidence >= cands[n].confidence
                   \/ Cardinality({m \in DOMAIN cands :
                                     cands[m].confidence >= cands[n].confidence}) > MaxHypotheses

InForce(rule) == /\ rule.expires_at # Naive
                 /\ rule.expires_at = None \/ run.now <= rule.expires_at

\* What is muted is what the operators muted.  A hypothesis is muted only by a
\* rule still in force whose every condition it meets; and once "suppress add"
\* has reported a rule, every later run mutes the hypothesis it names until the
\* rule expires - unless two adds overlapped, one was killed half way, or the
\* run read the file while it was being rewritten (suppression.py rule_matches
\* and load_repo_suppress_list, main.py suppress_add_cmd).
MutesExact ==
    /\ \A fp \in suppressed : \E k \in DOMAIN run.rules :
         LET r == run.rules[k]
         IN  /\ InForce(r)
             /\ {r.hypothesis_id} \subseteq {None, fp}
             /\ {r.fix_class} \subseteq {None, fp.fix_class}
             /\ r.path_glob # None => \E p \in fp.paths : p \in r.path_glob
             /\ r.summary_contains # None => fp.summary.text \in r.summary_contains
    /\ pc \in {"fix", "proposed", "declined"} /\ run.sure =>
         \A i \in DOMAIN hypotheses : \A r \in run.known :
            r = NewRule(hypotheses[i], r.expires_at) /\ InForce(r)
              => Fingerprint(hypotheses[i]) \in suppressed

\* What docs/SUPPRESSION.md promises: "If some are suppressed and some active,
\* the fixer runs against the active ones only."  The fixer reads
\* diagnosis.hypotheses[0].
FixerUsesActive ==
    pc = "proposed" /\ proposal.action # "none" => Fingerprint(hypotheses[1]) \notin suppressed

\* What a detector found in the code is in the hypotheses, or one as
\* confident about the same fault is - whatever the model answered, and also
\* when it raised (hypothesizer.py HybridHypothesizer, "the loop never breaks
\* because of an optional augmentation").
DetectorHeard ==
    ideas # None /\ ideas.scenario.profile # "llm" =>
        \A h \in ToSet(StaticHypotheses(ideas.scenario.code, ideas.scenario.issues)) :
            \E g \in ToSet(ideas.report.accepted) :
                g.fault = h.fault /\ g.confidence >= h.confidence
=============================================================================
