------------------------------ MODULE MC_Triage ------------------------------
(* A small instance of Triage. *)
EXTENDS Triage

Llm(class, conf, paths) == Hypothesis(class, conf, paths, Summary("llm", "", 0))
Array(items) == [form |-> "array", items |-> items]
MCLlmAnswers ==
    { [form |-> "raises"], [form |-> "prose"],
      \* The merge leaves the second valid one twice, in front of the last.
      Array(<< Llm("invented", 99, {}), Llm("missing-retry", 60, {"app/a.py"}),
               Llm("missing-retry", 80, {"app/b.py", "app/c.py"}), Llm("config-change", 101, {}),
               Llm("missing-retry", 70, {"app/a.py", "app/b.py"}),
               Llm("missing-retry", 80, {"app/b.py", "app/c.py"}),
               Llm("image-policy", 75, {"infra/policy.yaml"}) >>),
      [form |-> "object", items |-> << Llm("working-as-intended", 70, {}) >>] }

Proposes(files, long) == [form |-> "proposal", files |-> files, long |-> long]
MCFixAnswers == { [form |-> "raises"], [form |-> "no_json"], Proposes({}, FALSE),
                  Proposes({"infra/policy.yaml"}, TRUE) }

Rule(class, glob, expires) ==
    [hypothesis_id |-> None, fix_class |-> class, path_glob |-> glob,
     summary_contains |-> None, expires_at |-> expires]
MCFiles == { [state |-> "missing"], [state |-> "malformed"],
             Listed(<< Rule("missing-retry", None, 0) >>),
             Listed(<< Rule("missing-fallback", None, None), Rule("test-gap", None, Naive) >>) }
MCRegressions ==
    LET ev(f, d) == [fault |-> f, detail |-> d]
        net == << ev("(preflight)", TRUE), ev("network.loss", FALSE),
                  ev("network.loss", TRUE), ev("pod.kill", TRUE) >>
        rf == << ev("wifi.deauth", TRUE) >>
        bad == {"cascade", "503", "latency"}
        muted == << Rule("missing-retry", {"app/b.py"}, None),
                    [Rule(None, None, None) EXCEPT !.summary_contains = {"pod"}] >>
        in(profile, code, events, symptoms, plan) ==
            [profile |-> profile, code |-> code, events |-> events,
             symptoms |-> symptoms, plan |-> plan]
    IN  { in("static", FALSE, net, bad, muted),
          in("hybrid", TRUE, net, {}, <<>>), in("hybrid", FALSE, rf, {}, <<>>),
          in("llm", TRUE, rf, {}, muted) }
MCExpiries == {None}
MCSymmetry == Permutations(Operators)
MCDenied == {"infra/policy.yaml"}

At(path, line) == [file |-> path, line |-> line]
Scenario(profile, code, issues, answer) ==
    [profile |-> profile, code |-> code, issues |-> issues, answer |-> answer]
MCScenarios ==
    LET issues == ("missing-timeout" :> <<At("a.py", 3), At("b.py", 7)>>)
                    @@ ("sync-call-in-async" :> <<At("a.py", 3)>>)
                    @@ ("hardcoded-secret" :> <<At("c.py", 1)>>)
        model == << Proposal("network.delay", 90, {At("a.py", 3), At("b.py", 7)}),
                    Proposal("network.delay", 60, {At("a.py", 3)}),
                    Proposal("disk.melt", 95, {At("c.py", 1)}),
                    Proposal("secret.rotate", 20, {At("c.py", 1)}) >>
    IN  { Scenario(p, c, issues, a) :
            p \in {"static", "llm", "hybrid"}, c \in BOOLEAN, a \in {None, model} }
=============================================================================
