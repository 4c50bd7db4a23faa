-------------------------- MODULE MC_ExperimentLoop --------------------------
(***************************************************************************)
(* Instances of ExperimentLoop for TLC.                                    *)
(***************************************************************************)
EXTENDS ExperimentLoop, TLC

\* "live" and "Live" are one word in two spellings.
LowerCased ==
  [w \in {"kind", "dev", "prod", "live", "Live"} |-> IF w = "Live" THEN "live" ELSE w]

F(d) == [duration |-> d]

GoodPlan ==
  [context |-> {"kind", "dev"}, forbidden |-> {"prod", "live"}, faults |-> <<F(1)>>,
   allow_multi_fault |-> FALSE, max_duration |-> 1, require_annotation |-> TRUE,
   annotation |-> "true"]

\* A plan that passes every gate, one at the edge of three of them (the word it
\* forbids with a capital is in the cluster's name), and one that each gate
\* refuses, a cluster whose name has the forbidden word with a capital included.
GatePlans ==
  {GoodPlan,
   [GoodPlan EXCEPT !.faults = <<F(1), F(1)>>, !.allow_multi_fault = TRUE,
                    !.context = {"kind", "Live"}, !.forbidden = {"prod", "Live"}],
   [GoodPlan EXCEPT !.context = {"kind", "Live"}],
   [GoodPlan EXCEPT !.faults = <<F(2)>>],
   [GoodPlan EXCEPT !.faults = <<F(1), F(1)>>],
   [GoodPlan EXCEPT !.annotation = "absent"],
   [GoodPlan EXCEPT !.annotation = "unavailable"]}

\* The plan of a run that no gate refuses and that skips the annotation gate.
OnePlan == {[GoodPlan EXCEPT !.require_annotation = FALSE, !.annotation = "unavailable"]}

\* Two runs of the same id are interchangeable.
RunSymmetry == Permutations(Runs)
==============================================================================
