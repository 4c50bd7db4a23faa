------------------------ MODULE MC_RegressionSuite ------------------------
(* A small instance of RegressionSuite: a shop. *)
EXTENDS RegressionSuite

Browse == <<"shop", "browse">>
Buy == <<"shop", "buy">>
AdminBuy == <<"admin", "buy for a customer">>
MCOccurs == { <<"buy", AdminBuy>> }
Smoke == <<"command", "smoke">>
Latency == <<"metric", "latency">>

Fault(category, name, targets) == [category |-> category, name |-> name, targets |-> targets]
Playwright(title, fault, journeys, quarantine) ==
    [title |-> title, oracle |-> "playwright", fault |-> fault, journeys |-> journeys,
     quarantine |-> quarantine, thresholds |-> {}]
Command(title, fault, journeys) ==
    [title |-> title, oracle |-> "command", fault |-> fault, journeys |-> journeys,
     quarantine |-> {}, command |-> Smoke, thresholds |-> {}]
Metric(title, fault, journeys) ==
    [title |-> title, oracle |-> "metric", fault |-> fault, journeys |-> journeys,
     quarantine |-> {}, thresholds |-> {[metric |-> Latency, floor |-> 0, worse |-> "higher", ratio |-> 15]}]
SuiteOf(scns) == [scenarios |-> scns, all_journeys |-> {Browse, Buy, AdminBuy}]

Kill == Fault("pod", "pod.kill", {"cart"})
KillAny == Fault("pod", "pod.kill", {})
Slow == Fault("network", "network.delay", {"web"})

MCSuites ==
    { SuiteOf(<<Playwright("checkout", KillAny, {Buy}, {}), Command("smoke", Slow, {Browse})>>),
      SuiteOf(<<Metric("latency", Kill, {Buy}), 
                [grep |-> {Browse, Buy}] @@ Playwright("checkout", KillAny, {Browse, Buy}, {Browse})>>),
      SuiteOf(<<Playwright("checkout", Fault("pod", "pod.melt", {}), {Buy}, {})>>),
      SuiteOf(<<[Playwright("checkout", Kill, {Buy}, {}) EXCEPT !.oracle = "negative"]>>) }

MCHealthy == (Browse :> "passed") @@ (Buy :> "passed") @@ (AdminBuy :> "passed")
               @@ (Smoke :> "passed") @@ (Latency :> 10)
MCReleases == { <<Buy, "flaky">>, <<Buy, "skipped">>, <<Latency, 20>> }
MCPath == (Browse :> {"web"}) @@ (Buy :> {"web", "cart"}) @@ (AdminBuy :> {"admin"})
            @@ (Smoke :> {"web"}) @@ (Latency :> {"cart"})
MCFootprints == { (Browse :> {"web"}) @@ (AdminBuy :> {"admin"}), (<<"shop", "typo">> :> {"web"}) }
MCScopes == { {"pod.kill"}, {} }
Option(save, against, failOnDrift, dry) ==
    [save |-> save, against |-> against, failOnDrift |-> failOnDrift, dry |-> dry]
MCOptions == { Option("v1", None, FALSE, FALSE), Option(None, "v1", TRUE, FALSE),
               Option(None, "v1", FALSE, TRUE) }
=============================================================================
