---------------------------- MODULE MC_Detection ----------------------------
(* A small instance of Detection. *)
EXTENDS Detection

Probe(name, metric, kind, lo, hi) ==
    [name |-> name, metric |-> metric, kind |-> kind, lo |-> lo, hi |-> hi]
Latency == Probe("latency_ok", "latency", "value_below", 0, 20)
Rate == Probe("rate_ok", "rate", "value_between", 1, 8)
Up == Probe("up", "up", "result_not_empty", 0, 0)
Shared == Probe("errors_low", "latency", "value_above", 0, 0)

Request(images, enabled, trust) ==
    [images |-> images, repo |-> TRUE, enabled |-> enabled, trust |-> trust]
\* The request the loop sends to the agent the factory builds: no image, and
\* only trivy enabled.
LoopRequest == Request(<<>>, {"trivy"}, FALSE)

MCSetups ==
    { [probes |-> p, request |-> LoopRequest] :
        p \in {None, <<>>, <<Latency, Up>>, <<Latency, Shared>>, <<Rate>>} }
    \union
    { [probes |-> <<>>, request |-> r] :
        r \in { Request(<<"a", "b">>, {"trivy", "syft"}, FALSE),
                Request(<<"a", "a">>, {"trivy", "syft"}, FALSE),
                Request(<<"a">>, {"grype", "cosign", "gitleaks", "kubescape"}, TRUE),
                Request(<<"a">>, {"syft", "cosign"}, FALSE) } }

\* A new build of the same packages; one of them turns out to be vulnerable.
MCPackages == "v1" :> "p1" @@ "v2" :> "p2" @@ "v3" :> "p1"

Vector(values) == [form |-> "vector", values |-> values]
MCAnswers == { Vector(<<>>), Vector(<<2>>), Vector(<<4>>), Vector(<<1, 1>>), Vector(<<4, 5>>),
               Vector(<<NaN>>), [form |-> "query_error"], [form |-> "transport"] }
=============================================================================
