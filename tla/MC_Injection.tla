----------------------------- MODULE MC_Injection -----------------------------
(***************************************************************************)
(* Instances of Injection for TLC: faults of two kinds, the first one      *)
(* repeated, so that a name comes back after it was deleted.               *)
(***************************************************************************)
EXTENDS Injection, TLC

ThreeFaults == <<"network-loss", "pod-kill", "network-loss">>
TwoKinds == <<"NetworkChaos", "PodChaos">>
KindOfName == ("network-loss" :> "NetworkChaos") @@ ("pod-kill" :> "PodChaos")
OneFault == <<"network-loss">>
KindOfOne == "network-loss" :> "NetworkChaos"
===============================================================================
