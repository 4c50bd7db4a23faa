------------------------- MODULE ExperimentLifecycle -------------------------
(***************************************************************************)
(* What an observer of the store may rely on: the state machine the        *)
(* architecture document draws, as the sequence of states the row of one   *)
(* experiment shows.  A pause hides the phase but does not lose it: after  *)
(* it the experiment continues where it was, or is aborted.                *)
(***************************************************************************)

VARIABLES
  shown,   \* the state the row shows, "ABSENT" before there is a row
  phase    \* the last state shown that is not PAUSED

\* Where an experiment may go from each phase, besides being paused or aborted.
\* STEADY, FIX_PROPOSED and FIX_DECLINED are passed through on the way to
\* RECORDED and never shown.
Edges ==
  [ABSENT       |-> {"INITIALIZING"},
   INITIALIZING |-> {"BASELINE"},
   BASELINE     |-> {"BASELINE_OK"},
   BASELINE_OK  |-> {"INJECT"},
   INJECT       |-> {"INJECTED", "INJECT_FAILED"},
   INJECT_FAILED |-> {},
   INJECTED     |-> {"VERIFY"},
   VERIFY       |-> {"REGRESSED", "RECORDED"},
   REGRESSED    |-> {"DIAGNOSE", "RECORDED"},
   DIAGNOSE     |-> {"DIAGNOSED"},
   DIAGNOSED    |-> {"PROPOSE_FIX", "RECORDED"},
   PROPOSE_FIX  |-> {"RECORDED"},
   RECORDED     |-> {},
   ABORTED      |-> {}]

\* The phases after which the orchestrator polls for a pause.
Pausable == {"INITIALIZING", "BASELINE_OK", "INJECTED", "VERIFY", "DIAGNOSED"}

Init == shown = "ABSENT" /\ phase = "ABSENT"

Advance == shown' \in Edges[phase] /\ phase' = shown'

Pause == phase \in Pausable /\ shown # "PAUSED" /\ shown' = "PAUSED" /\ phase' = phase

Abort ==
  /\ phase \notin {"ABSENT", "ABORTED", "RECORDED"}
  /\ shown' = "ABORTED" /\ phase' = "ABORTED"

Next == Advance \/ Pause \/ Abort

Spec == Init /\ [][Next]_<<shown, phase>>
==============================================================================
