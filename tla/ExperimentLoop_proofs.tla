------------------------ MODULE ExperimentLoop_proofs ------------------------
(***************************************************************************)
(* Theorems about ExperimentLoop, for any number of runs and operators,    *)
(* any plans and any budget: first its types, the gates, the budget and    *)
(* the sessions, then what is left in the store of an experiment and its   *)
(* refinement of ExperimentLifecycle.                                      *)
(***************************************************************************)
EXTENDS ExperimentLoop, TLAPS

(***************************************************************************)
(* Type correctness.  The lemmas say what the shared fragments do to the   *)
(* types, so that the steps about the actions need not unfold them.        *)
(***************************************************************************)

\* Every place a run can be is a label.
LEMMA LabelFacts ==
  /\ SavePoints \subseteq Label
  /\ AgentCalls \subseteq Label
  /\ Stopped \subseteq Label
  /\ {"preflight", "enter", "body", "annot", "budget", "poll", "mark_paused", "sleeping",
      "finish", "fix", "save_terminal", "clear", "exit", "unwind", "final",
      "final_raise"} \subseteq Label
  /\ ControlPoints \subseteq Label
  BY DEF Label, ControlPoints, SavePoints, PhaseState

\* The members of the sets of labels.
LEMMA LabelMembers ==
  /\ SavePoints = {"baseline", "baseline_ok", "inject", "injected", "verify", "regressed",
                   "diagnose", "diagnosed", "propose"}
  /\ \A l \in SavePoints : PhaseState[l] \in ExperimentState
  BY DEF SavePoints, PhaseState, ExperimentState

\* A record can be rebuilt from typed fields, and its fields are typed.
LEMMA RecordFacts ==
  /\ \A s \in ExperimentState, w \in AbortReason \cup {NoReason}, n \in Nat :
       [state |-> s, reason |-> w, spend |-> n] \in Record
  /\ \A rd \in Record, s \in ExperimentState : [rd EXCEPT !.state = s] \in Record
  /\ \A rd \in Record, n \in Nat : [rd EXCEPT !.spend = n] \in Record
  /\ \A rd \in Record : rd.reason \in AbortReason \cup {NoReason}
  /\ NewRecord \in Record
  /\ \A rd \in Record \cup {NoRow}, w \in AbortReason :
       [rd EXCEPT !.state = "ABORTED", !.reason = w] \in Record
  <1>1. "INITIALIZING" \in ExperimentState /\ "ABORTED" \in ExperimentState
    BY DEF ExperimentState
  <1>2. \A rd \in Record : rd.reason \in AbortReason \cup {NoReason}
    BY DEF Record
  <1>3. ASSUME NEW rd \in Record \cup {NoRow}, NEW w \in AbortReason
        PROVE  [rd EXCEPT !.state = "ABORTED", !.reason = w] \in Record
    <2>1. CASE rd \in Record
      BY <1>1, <2>1 DEF Record
    <2>2. CASE rd = NoRow
      BY <1>1, <2>2 DEF Record, NoRow
    <2> QED
      BY <2>1, <2>2
  <1>4. ASSUME NEW rd \in Record, NEW s \in ExperimentState
        PROVE  [rd EXCEPT !.state = s] \in Record
    BY DEF Record
  <1>5. ASSUME NEW rd \in Record, NEW n \in Nat
        PROVE  [rd EXCEPT !.spend = n] \in Record
    BY DEF Record
  <1>6. NewRecord \in Record
    BY <1>1 DEF Record, NewRecord
  <1>7. ASSUME NEW s \in ExperimentState, NEW w \in AbortReason \cup {NoReason}, NEW n \in Nat
        PROVE  [state |-> s, reason |-> w, spend |-> n] \in Record
    BY DEF Record
  <1> QED
    BY <1>2, <1>3, <1>4, <1>5, <1>6, <1>7

\* Ending a run, one way or the other, keeps the types.
LEMMA EndAsType ==
  ASSUME TypeOK, NEW r \in Runs, NEW s \in ExperimentState,
         NEW why \in AbortReason \cup {NoReason},
         spent' \in [Runs -> Nat], EndAs(r, s, why)
  PROVE  rec' \in [Runs -> Record] /\ pc' \in [Runs -> Label]
  BY RecordFacts, LabelFacts DEF TypeOK, EndAs, Goto

\* Aborting keeps the types.
LEMMA AbortType ==
  ASSUME TypeOK, NEW r \in Runs, NEW why \in AbortReason,
         spent' \in [Runs -> Nat], Abort(r, why)
  PROVE  rec' \in [Runs -> Record] /\ pc' \in [Runs -> Label]
  <1>1. "ABORTED" \in ExperimentState
    BY DEF ExperimentState
  <1> QED
    BY <1>1, EndAsType DEF Abort

\* Finishing keeps the types: the reason is the one the record has.
LEMMA FinishType ==
  ASSUME TypeOK, NEW r \in Runs, spent' \in [Runs -> Nat], Finish(r)
  PROVE  rec' \in [Runs -> Record] /\ pc' \in [Runs -> Label]
  <1>1. "RECORDED" \in ExperimentState
    BY DEF ExperimentState
  <1>2. rec[r].reason \in AbortReason \cup {NoReason}
    BY RecordFacts DEF TypeOK
  <1> QED
    BY <1>1, <1>2, EndAsType DEF Finish

\* An agent call only adds a natural number to what its run has spent.
LEMMA ChargeType ==
  ASSUME TypeOK, NEW r \in Runs, NEW limit \in Nat, Charge(r, limit)
  PROVE  /\ spent' \in [Runs -> Nat]
         /\ \A q \in Runs \ {r} : spent'[q] = spent[q]
         /\ spent[r] =< spent'[r] /\ spent'[r] =< spent[r] + limit
  BY DEF TypeOK, Charge

\* Moving to a label keeps the type of the program counters.
LEMMA GotoType ==
  ASSUME TypeOK, NEW r \in Runs, NEW l \in Label, Goto(r, l)
  PROVE  pc' \in [Runs -> Label]
  BY DEF TypeOK, Goto

\* Saving at a phase boundary keeps the types of the record, the row and pc.
LEMMA SavePhaseType ==
  ASSUME TypeOK, NEW r \in Runs, NEW l \in Label, pc[r] \in SavePoints, SavePhase(r, l)
  PROVE  /\ rec' \in [Runs -> Record] /\ row' \in Record \cup {NoRow} /\ ctl' = ctl
         /\ pc' \in [Runs -> Label]
  <1>1. rec' \in [Runs -> Record] /\ rec'[r] \in Record
    BY LabelMembers, RecordFacts DEF TypeOK, SavePhase
  <1> QED
    BY <1>1, GotoType DEF SavePhase, store_save

\* The initial state is well typed.
LEMMA TypeInit == Init => TypeOK
  <1>1. NewRecord \in Record
    BY RecordFacts
  <1>2. "idle" \in Label /\ "baseline" \in ControlPoints
    BY LabelFacts DEF Stopped, ControlPoints
  <1> QED
    BY <1>1, <1>2 DEF Init, TypeOK, NoSignals, NoReason, Facts, ControlSignals, OpState

\* Every step of every actor keeps the types.
LEMMA TypeStep == TypeOK /\ [Next]_vars => TypeOK'
  <1> SUFFICES ASSUME TypeOK, [Next]_vars PROVE TypeOK'
    OBVIOUS
  <1>1. ASSUME NEW r \in Runs, Start(r) PROVE TypeOK'
    BY <1>1, RecordFacts, LabelFacts, GotoType
    DEF TypeOK, Start, store_save
  <1>2. ASSUME NEW r \in Runs, Preflight(r) PROVE TypeOK'
    BY <1>2, AbortType, GotoType, LabelFacts
    DEF TypeOK, Preflight, AbortReason, store_untouched
  <1>3. ASSUME NEW r \in Runs, EnterSession(r) PROVE TypeOK'
    BY <1>3, GotoType, LabelFacts
    DEF TypeOK, EnterSession, Raise, store_untouched
  <1>4. ASSUME NEW r \in Runs, EnterBody(r) PROVE TypeOK'
    BY <1>4, GotoType, LabelFacts
    DEF TypeOK, EnterBody, store_save, ControlPoints
  <1>5. ASSUME NEW r \in Runs, CheckNamespaceAnnotation(r) PROVE TypeOK'
    BY <1>5, AbortType, GotoType, LabelFacts
    DEF TypeOK, CheckNamespaceAnnotation, AbortReason, store_untouched
  <1>6. ASSUME NEW r \in Runs, CheckBudget(r) PROVE TypeOK'
    <2>1. spent[r] \in Nat /\ rec[r] \in Record /\ "budget_exceeded" \in AbortReason
      BY DEF TypeOK, AbortReason
    <2>2. CASE Abort(r, "budget_exceeded")
      BY <1>6, <2>1, <2>2, AbortType DEF TypeOK, CheckBudget, store_untouched
    <2>3. CASE /\ rec' = [rec EXCEPT ![r].spend = spent[r]]
               /\ Goto(r, "poll")
      <3>1. rec' \in [Runs -> Record]
        BY <2>1, <2>3, RecordFacts DEF TypeOK
      <3> QED
        BY <1>6, <2>3, <3>1, GotoType, LabelFacts DEF TypeOK, CheckBudget, store_untouched
    <2> QED
      BY <1>6, <2>2, <2>3 DEF CheckBudget
  <1>7. ASSUME NEW r \in Runs, PollControl(r) PROVE TypeOK'
    <2>1. ctl.abort \in AbortReason \cup {NoReason} /\ then[r] \in Label
      BY LabelFacts DEF TypeOK, ControlSignals
    <2>2. rec' \in [Runs -> Record] /\ pc' \in [Runs -> Label]
      BY <1>7, <2>1, AbortType, GotoType, LabelFacts DEF TypeOK, PollControl
    <2> QED
      BY <1>7, <2>2 DEF TypeOK, PollControl, store_untouched
  <1>8. ASSUME NEW r \in Runs, MarkPaused(r) PROVE TypeOK'
    <2>1. "PAUSED" \in ExperimentState
      BY DEF ExperimentState
    <2>2. rec' \in [Runs -> Record] /\ rec'[r] \in Record
      BY <1>8, <2>1 DEF TypeOK, MarkPaused, Record
    <2> QED
      BY <1>8, <2>2, GotoType, LabelFacts DEF TypeOK, MarkPaused, store_save
  <1>9. ASSUME NEW r \in Runs, EnterBaseline(r) PROVE TypeOK'
    BY <1>9, SavePhaseType, LabelFacts, LabelMembers
    DEF TypeOK, EnterBaseline, AgentCalls
  <1>10. ASSUME NEW r \in Runs, Baseline(r) PROVE TypeOK'
    <2>1. spent' \in [Runs -> Nat]
      BY <1>10, ChargeType, ConstantsAssumption DEF Baseline
    <2>2. facts' \in [Runs -> Facts]
      BY SMTT(60), <1>10 DEF TypeOK, Baseline, Facts
    <2>3. rec' \in [Runs -> Record] /\ pc' \in [Runs -> Label]
      BY <1>10, <2>1, AbortType, GotoType, LabelFacts DEF TypeOK, Baseline, Raise, AgentCalls, AbortReason, SavePoints, PhaseState
    <2> QED
      BY <1>10, <2>1, <2>2, <2>3 DEF TypeOK, Baseline, store_untouched
  <1>11. ASSUME NEW r \in Runs, BaselineOk(r) PROVE TypeOK'
    BY <1>11, SavePhaseType, LabelFacts, LabelMembers
    DEF TypeOK, BaselineOk, ControlPoints
  <1>12. ASSUME NEW r \in Runs, EnterInject(r) PROVE TypeOK'
    BY <1>12, SavePhaseType, LabelFacts, LabelMembers
    DEF TypeOK, EnterInject, AgentCalls
  <1>13. ASSUME NEW r \in Runs, Inject(r) PROVE TypeOK'
    <2>1. "INJECT_FAILED" \in ExperimentState /\ "agent_failure" \in AbortReason
      BY DEF ExperimentState, AbortReason
    <2>2. rec' \in [Runs -> Record] /\ pc' \in [Runs -> Label]
      <3>1. CASE Abort(r, "agent_failure")
        BY <1>13, <2>1, <3>1, AbortType DEF TypeOK, Inject
      <3>2. CASE Goto(r, "injected") /\ rec' = rec
        BY <3>2, GotoType, LabelFacts, LabelMembers DEF TypeOK
      <3>3. CASE Goto(r, "guard_cleanup") /\ rec' = [rec EXCEPT ![r].state = "INJECT_FAILED"]
        <4>1. "guard_cleanup" \in Label
          BY LabelFacts DEF AgentCalls
        <4>2. [rec[r] EXCEPT !.state = "INJECT_FAILED"] \in Record
          BY <2>1, RecordFacts DEF TypeOK
        <4> QED
          BY <3>3, <4>1, <4>2, GotoType DEF TypeOK
      <3> QED
        BY <1>13, <3>1, <3>2, <3>3 DEF Inject
    <2> QED
      BY <1>13, <2>2 DEF TypeOK, Inject, store_untouched
  <1>14. ASSUME NEW r \in Runs, GuardCleanup(r) PROVE TypeOK'
    BY <1>14, AbortType, GotoType, LabelFacts
    DEF TypeOK, GuardCleanup, Raise, AbortReason, store_untouched
  <1>15. ASSUME NEW r \in Runs, Injected(r) PROVE TypeOK'
    BY <1>15, SavePhaseType, LabelFacts, LabelMembers
    DEF TypeOK, Injected, ControlPoints
  <1>16. ASSUME NEW r \in Runs, EnterVerify(r) PROVE TypeOK'
    BY <1>16, SavePhaseType, LabelFacts, LabelMembers
    DEF TypeOK, EnterVerify, AgentCalls
  <1>17. ASSUME NEW r \in Runs, Verify(r) PROVE TypeOK'
    <2>1. spent' \in [Runs -> Nat]
      BY <1>17, ChargeType, ConstantsAssumption DEF Verify
    <2>2. facts' \in [Runs -> Facts]
      <3>1. CASE facts' = facts
        BY <3>1 DEF TypeOK
      <3>2. ASSUME NEW v \in {"steady", "plugin_only", "builtin"},
                   facts' = [facts EXCEPT ![r].verdict = v]
            PROVE  facts' \in [Runs -> Facts]
        BY ZenonT(60), <3>2 DEF TypeOK, Facts
      <3>3. \A steady, crit, drift \in BOOLEAN, plugin \in {"none", "passed", "failed"} :
              VerdictOf(steady, crit, drift, plugin) \in {"steady", "plugin_only", "builtin"}
        BY DEF VerdictOf
      <3> QED
        BY <1>17, <3>1, <3>2, <3>3 DEF Verify
    <2>3. rec' \in [Runs -> Record] /\ pc' \in [Runs -> Label]
      BY <1>17, <2>1, FinishType, GotoType, LabelFacts DEF TypeOK, Verify, Raise, AgentCalls, AbortReason, SavePoints, PhaseState
    <2> QED
      BY <1>17, <2>1, <2>2, <2>3 DEF TypeOK, Verify, store_untouched
  <1>18. ASSUME NEW r \in Runs, CollectDiagnostics(r) PROVE TypeOK'
    BY <1>18, GotoType, LabelFacts
    DEF TypeOK, CollectDiagnostics, Raise, ControlPoints, store_untouched
  <1>19. ASSUME NEW r \in Runs, EnterRegressed(r) PROVE TypeOK'
    BY <1>19, SavePhaseType, LabelFacts, LabelMembers
    DEF TypeOK, EnterRegressed, AgentCalls
  <1>20. ASSUME NEW r \in Runs, FinishPluginOnly(r) PROVE TypeOK'
    BY <1>20, FinishType, GotoType, LabelFacts, LabelMembers
    DEF TypeOK, FinishPluginOnly, store_untouched
  <1>21. ASSUME NEW r \in Runs, EnterDiagnose(r) PROVE TypeOK'
    BY <1>21, SavePhaseType, LabelFacts, LabelMembers
    DEF TypeOK, EnterDiagnose, AgentCalls
  <1>22. ASSUME NEW r \in Runs, Diagnose(r) PROVE TypeOK'
    <2>1. spent' \in [Runs -> Nat]
      BY <1>22, ChargeType, ConstantsAssumption DEF Diagnose
    <2>2. facts' \in [Runs -> Facts]
      BY SMTT(60), <1>22 DEF TypeOK, Diagnose, Facts
    <2>3. rec' \in [Runs -> Record] /\ pc' \in [Runs -> Label]
      BY <1>22, GotoType, LabelFacts, LabelMembers DEF TypeOK, Diagnose, Raise
    <2> QED
      BY <1>22, <2>1, <2>2, <2>3 DEF TypeOK, Diagnose, store_untouched
  <1>23. ASSUME NEW r \in Runs, Diagnosed(r) PROVE TypeOK'
    BY <1>23, SavePhaseType, LabelFacts, LabelMembers
    DEF TypeOK, Diagnosed, ControlPoints
  <1>24. ASSUME NEW r \in Runs, FixGate(r) PROVE TypeOK'
    BY <1>24, FinishType, GotoType, LabelFacts, LabelMembers
    DEF TypeOK, FixGate, store_untouched
  <1>25. ASSUME NEW r \in Runs, EnterPropose(r) PROVE TypeOK'
    BY <1>25, SavePhaseType, LabelFacts, LabelMembers
    DEF TypeOK, EnterPropose, AgentCalls
  <1>26. ASSUME NEW r \in Runs, ProposeFix(r) PROVE TypeOK'
    <2>1. spent' \in [Runs -> Nat]
      BY <1>26, ChargeType, ConstantsAssumption DEF ProposeFix
    <2>2. rec' \in [Runs -> Record] /\ pc' \in [Runs -> Label]
      BY <1>26, <2>1, FinishType, GotoType, LabelFacts DEF TypeOK, ProposeFix, Raise
    <2> QED
      BY <1>26, <2>1, <2>2 DEF TypeOK, ProposeFix, store_untouched
  <1>27. ASSUME NEW r \in Runs, SaveTerminal(r) PROVE TypeOK'
    BY <1>27, GotoType, LabelFacts
    DEF TypeOK, SaveTerminal, store_save
  <1>28. ASSUME NEW r \in Runs, ClearControl(r) PROVE TypeOK'
    BY <1>28, GotoType, LabelFacts
    DEF TypeOK, ClearControl, clear_control, NoSignals, ControlSignals, NoReason, AfterClear, Stopped
  <1>29. ASSUME NEW r \in Runs, ExitSession(r) PROVE TypeOK'
    BY <1>29, GotoType, LabelFacts
    DEF TypeOK, ExitSession, store_untouched
  <1>30. ASSUME NEW r \in Runs, HandleException(r) PROVE TypeOK'
    BY <1>30, AbortType, GotoType, LabelFacts
    DEF TypeOK, HandleException, Raise, AbortReason, store_untouched
  <1>31. ASSUME NEW r \in Runs, FinalSave(r) PROVE TypeOK'
    BY <1>31, GotoType, LabelFacts
    DEF TypeOK, FinalSave, store_save, Stopped
  <1>32. ASSUME NEW r \in Runs, StoreFault(r) PROVE TypeOK'
    <2>1. rec' \in [Runs -> Record]
      BY <1>32, LabelMembers, RecordFacts DEF TypeOK, StoreFault
    <2>2. pc' \in [Runs -> Label]
      BY <1>32, GotoType, LabelFacts DEF StoreFault, Stopped
    <2> QED
      BY <1>32, <2>1, <2>2 DEF TypeOK, StoreFault, store_untouched
  <1>33. ASSUME NEW r \in Runs, Interrupt(r) PROVE TypeOK'
    BY <1>33, GotoType, LabelFacts
    DEF TypeOK, Interrupt, store_untouched
  <1>34. ASSUME NEW r \in Runs, Kill(r) PROVE TypeOK'
    BY <1>34, GotoType, LabelFacts
    DEF TypeOK, Kill, Stopped, store_untouched
  <1>35. ASSUME NEW o \in Ops, CliLoad(o) PROVE TypeOK'
    BY <1>35, ConstantsAssumption
    DEF TypeOK, CliLoad, OpIdle, OpState, store_untouched, loop_untouched
  <1>36. ASSUME NEW o \in Ops, CliPause(o) PROVE TypeOK'
    BY <1>36, ConstantsAssumption
    DEF TypeOK, CliPause, set_pause, ControlSignals, OpDone, OpIdle, OpState, loop_untouched
  <1>37. ASSUME NEW o \in Ops, CliResume(o) PROVE TypeOK'
    BY <1>37, ConstantsAssumption
    DEF TypeOK, CliResume, set_pause, ControlSignals, OpDone, OpIdle, OpState, store_untouched, loop_untouched
  <1>38. ASSUME NEW o \in Ops, CliAbort(o) PROVE TypeOK'
    BY <1>38, ConstantsAssumption
    DEF TypeOK, CliAbort, request_abort, ControlSignals, OpDone, OpIdle, OpState, loop_untouched
  <1>39. ASSUME NEW o \in Ops, CliForceAbort(o) PROVE TypeOK'
    <2>1. op[o].seen \in Record \cup {NoRow}
      BY DEF TypeOK, OpState
    <2>2. row' \in Record
      <3>1. PICK why \in OperatorReasons :
              row' = [op[o].seen EXCEPT !.state = "ABORTED", !.reason = why]
        BY <1>39 DEF CliForceAbort, store_save
      <3>2. why \in AbortReason
        BY ConstantsAssumption
      <3> QED
        BY <2>1, <3>1, <3>2, RecordFacts
    <2> QED
      BY <1>39, <2>2 DEF TypeOK, CliForceAbort, store_save, OpDone, OpIdle, OpState, loop_untouched
  <1>40. ASSUME NEW o \in Ops, UiSignal(o) PROVE TypeOK'
    BY <1>40, ConstantsAssumption
    DEF TypeOK, UiSignal, set_pause, request_abort, ControlSignals, OpDone, OpIdle, OpState, loop_untouched
  <1>41. CASE UNCHANGED vars
    BY <1>41 DEF TypeOK, vars
  <1> QED
    BY <1>1, <1>2, <1>3, <1>4, <1>5, <1>6, <1>7, <1>8, <1>9, <1>10, <1>11, <1>12, <1>13, <1>14,
       <1>15, <1>16, <1>17, <1>18, <1>19, <1>20, <1>21, <1>22, <1>23, <1>24, <1>25, <1>26, <1>27, <1>28,
       <1>29, <1>30, <1>31, <1>32, <1>33, <1>34, <1>35, <1>36, <1>37, <1>38, <1>39, <1>40, <1>41
    DEF Next, RunStep, OpStep

\* Every variable keeps its type, for any number of runs and operators.
THEOREM TypeCorrect == Spec => []TypeOK
  <1> QED
    BY TypeInit, TypeStep, PTL DEF Spec
------------------------------------------------------------------------------
(***************************************************************************)
(* The gates, the fixer and the budget.  What makes them hold is what a    *)
(* run remembers of the checks it has been through, wherever it is now,    *)
(* also while it polls or is paused: RunInv(r) is inductive, the           *)
(* properties are not.                                                     *)
(***************************************************************************)
BaselineLabels == {"baseline", "baseline_agents", "baseline_ok"}
ExitLabels == {"save_terminal", "clear", "exit", "unwind", "final", "final_raise", "done",
               "crashed"}

\* The gates r is past.
GateInv(r) ==
  /\ Where(r) \in {"enter", "body", "annot"} \cup BaselineLabels \cup InjectionLabels =>
       check_cluster_allowed(plan[r]) /\ check_blast_radius(plan[r])
  /\ Where(r) \in BaselineLabels \cup InjectionLabels => check_namespace_annotation(plan[r])
  /\ Where(r) \in {"baseline_ok"} \cup InjectionLabels => facts[r].baseline = "healthy"
  /\ pc[r] = "annot" => then[r] = "baseline"

\* What the verdict and the suppressions allowed r to do.
FixInv(r) ==
  /\ Where(r) \in DiagnosisLabels => facts[r].verdict = "builtin"
  /\ Where(r) \in FixLabels => facts[r].active

\* The phases r enters only with money left.
BudgetedLabels == FixLabels \cup
  {"inject", "injecting", "guard_cleanup", "injected", "verify", "verifying", "regressed",
   "finish", "diagnose", "diagnosing", "fix"}

SpendInv(r) ==
  /\ spent[r] < HardCap + 2 * MaxCost
  /\ Where(r) \in {"idle", "preflight", "enter", "body", "annot", "baseline",
                   "baseline_agents"} => spent[r] = 0
  /\ Where(r) \in BudgetedLabels /\ pc[r] # "budget" => spent[r] < HardCap
  /\ Where(r) = "diagnosed" => spent[r] < HardCap + MaxCost

RunInv(r) == GateInv(r) /\ FixInv(r) /\ SpendInv(r)

\* A run that is on its way out only has to keep within the bound on its spend.
LEMMA ExitInv ==
  ASSUME NEW r \in Runs, pc'[r] \in ExitLabels, spent'[r] < HardCap + 2 * MaxCost
  PROVE  RunInv(r)'
  <1>1. Where(r)' = pc'[r]
    BY DEF Where, ExitLabels
  <1>2. Where(r)' \in ExitLabels
    BY <1>1
  <1>3. GateInv(r)'
    BY <1>1, <1>2 DEF GateInv, ExitLabels, BaselineLabels, InjectionLabels, VerifiedLabels,
      DiagnosisLabels, FixLabels
  <1>4. FixInv(r)'
    BY <1>2 DEF FixInv, ExitLabels, DiagnosisLabels, FixLabels
  <1>5. SpendInv(r)'
    BY <1>1, <1>2 DEF SpendInv, ExitLabels, BudgetedLabels, FixLabels
  <1> QED
    BY <1>3, <1>4, <1>5 DEF RunInv

\* What RunInv speaks of; a step of another actor does not touch it.
Mine(r) == <<pc[r], then[r], plan[r], facts[r], spent[r]>>

\* A step that touches none of it keeps RunInv(r).
LEMMA FrameInv ==
  ASSUME NEW r \in Runs, RunInv(r), Mine(r)' = Mine(r)
  PROVE  RunInv(r)'
  <1>1. /\ pc'[r] = pc[r] /\ then'[r] = then[r] /\ plan'[r] = plan[r]
        /\ facts'[r] = facts[r] /\ spent'[r] = spent[r]
    BY DEF Mine
  <1>2. Where(r)' = Where(r)
    BY <1>1 DEF Where
  <1>3. GateInv(r)'
    BY <1>1, <1>2 DEF RunInv, GateInv
  <1>4. FixInv(r)'
    BY <1>1, <1>2 DEF RunInv, FixInv
  <1>5. SpendInv(r)'
    BY <1>1, <1>2 DEF RunInv, SpendInv
  <1> QED
    BY <1>3, <1>4, <1>5 DEF RunInv

\* An aborted or finished run is on its way out.
LEMMA EndInv ==
  ASSUME TypeOK, NEW r \in Runs, NEW s, NEW why, EndAs(r, s, why),
         spent'[r] < HardCap + 2 * MaxCost
  PROVE  RunInv(r)'
  <1>1. pc'[r] = "save_terminal"
    BY DEF TypeOK, EndAs, Goto
  <1> QED
    BY <1>1, ExitInv DEF ExitLabels

\* A run that polls, or waits in a pause, keeps what it knew.
LEMMA PollInv ==
  ASSUME NEW r \in Runs, RunInv(r), Where(r)' = Where(r), pc[r] # "budget", pc'[r] # "annot",
         plan' = plan, facts' = facts, spent' = spent
  PROVE  RunInv(r)'
  BY DEF RunInv, GateInv, FixInv, SpendInv

\* A step of r keeps RunInv(r).
LEMMA OwnStep ==
  ASSUME TypeOK, NEW r \in Runs, RunInv(r),
         Start(r) \/ RunStep(r) \/ StoreFault(r) \/ Interrupt(r) \/ Kill(r)
  PROVE  RunInv(r)'
  <1>1. CASE Start(r)
    BY <1>1 DEF TypeOK, Start, Goto, RunInv, GateInv, FixInv, SpendInv,
         Where, BaselineLabels, InjectionLabels, VerifiedLabels, DiagnosisLabels, FixLabels,
         BudgetedLabels
  <1>2. CASE Preflight(r)
    <2>1. CASE pc'[r] = "enter"
      BY <1>2, <2>1, ConstantsAssumption
      DEF TypeOK, Preflight, Abort, EndAs, Goto, RunInv, GateInv, FixInv, SpendInv,
         Where, BaselineLabels, InjectionLabels, VerifiedLabels, DiagnosisLabels, FixLabels,
         BudgetedLabels
    <2>2. CASE pc'[r] # "enter"
      BY <1>2, <2>2, EndInv DEF TypeOK, Preflight, Abort, Goto, RunInv, SpendInv
    <2> QED
      BY <2>1, <2>2
  <1>3. CASE EnterSession(r)
    <2>1. CASE pc'[r] = "body"
      BY <1>3, <2>1 DEF TypeOK, EnterSession, Goto, RunInv, GateInv, FixInv, SpendInv,
         Where, BaselineLabels, InjectionLabels, VerifiedLabels, DiagnosisLabels, FixLabels,
         BudgetedLabels
    <2>2. CASE pc'[r] # "body"
      BY <1>3, <2>2, ExitInv DEF TypeOK, EnterSession, Raise, Goto, ExitLabels, RunInv, SpendInv
    <2> QED
      BY <2>1, <2>2
  <1>4. CASE EnterBody(r)
    <2>1. then'[r] = "baseline" /\ Where(r) = "body" /\ spent'[r] = spent[r]
      BY <1>4 DEF TypeOK, EnterBody, Where
    <2>2. CASE plan[r].require_annotation
      BY <1>4, <2>1, <2>2 DEF TypeOK, EnterBody, Goto, RunInv, GateInv, FixInv, SpendInv,
         Where, BaselineLabels, InjectionLabels, VerifiedLabels, DiagnosisLabels, FixLabels,
         BudgetedLabels
    <2>3. CASE ~plan[r].require_annotation
      <3>1. Where(r)' = "baseline" /\ pc'[r] = "poll" /\ check_namespace_annotation(plan[r])
        BY <1>4, <2>1, <2>3 DEF TypeOK, EnterBody, Goto, Where, check_namespace_annotation
      <3> QED
        BY <1>4, <2>1, <3>1 DEF EnterBody, RunInv, GateInv, FixInv, SpendInv,
         Where, BaselineLabels, InjectionLabels, VerifiedLabels, DiagnosisLabels, FixLabels,
         BudgetedLabels
    <2> QED
      BY <2>2, <2>3
  <1>5. CASE CheckNamespaceAnnotation(r)
    <2>1. CASE pc'[r] = "poll"
      BY <1>5, <2>1 DEF TypeOK, CheckNamespaceAnnotation, Abort, EndAs, Goto, RunInv, GateInv, FixInv, SpendInv,
         Where, BaselineLabels, InjectionLabels, VerifiedLabels, DiagnosisLabels, FixLabels,
         BudgetedLabels
    <2>2. CASE pc'[r] # "poll"
      BY <1>5, <2>2, EndInv
      DEF TypeOK, CheckNamespaceAnnotation, Abort, Goto, RunInv, SpendInv
    <2> QED
      BY <2>1, <2>2
  <1>6. CASE CheckBudget(r)
    <2>1. CASE pc'[r] = "poll"
      BY <1>6, <2>1, ConstantsAssumption DEF TypeOK, CheckBudget, Abort, EndAs, Goto, RunInv, GateInv, FixInv, SpendInv,
         Where, BaselineLabels, InjectionLabels, VerifiedLabels, DiagnosisLabels, FixLabels,
         BudgetedLabels
    <2>2. CASE pc'[r] # "poll"
      BY <1>6, <2>2, EndInv DEF TypeOK, CheckBudget, Abort, Goto, RunInv, SpendInv
    <2> QED
      BY <2>1, <2>2
  <1>7. CASE PollControl(r)
    <2>1. Where(r) = then[r] /\ then[r] \in ControlPoints /\ pc[r] # "budget"
      BY <1>7 DEF TypeOK, PollControl, Where
    <2>2. CASE Abort(r, ctl.abort)
      BY <1>7, <2>2, EndInv DEF PollControl, Abort, RunInv, SpendInv
    <2>3. CASE Goto(r, then[r])
      <3>1. pc'[r] = then[r] /\ Where(r)' = Where(r) /\ pc'[r] # "annot"
        BY <1>7, <2>1, <2>3 DEF TypeOK, PollControl, Goto, Where, ControlPoints
      <3> QED
        BY <1>7, <2>1, <3>1, PollInv DEF PollControl
    <2>4. CASE Goto(r, "mark_paused")
      <3>1. Where(r)' = Where(r) /\ pc'[r] # "annot"
        BY <1>7, <2>1, <2>4 DEF TypeOK, PollControl, Goto, Where
      <3> QED
        BY <1>7, <2>1, <3>1, PollInv DEF PollControl
    <2> QED
      BY <1>7, <2>2, <2>3, <2>4 DEF PollControl
  <1>8. CASE MarkPaused(r)
    <2>1. Where(r)' = Where(r) /\ pc[r] # "budget" /\ pc'[r] # "annot"
      BY <1>8 DEF TypeOK, MarkPaused, Goto, Where
    <2> QED
      BY <1>8, <2>1, PollInv DEF MarkPaused
  <1>9. CASE EnterBaseline(r)
    BY <1>9 DEF TypeOK, EnterBaseline, SavePhase, Goto, RunInv, GateInv, FixInv, SpendInv,
         Where, BaselineLabels, InjectionLabels, VerifiedLabels, DiagnosisLabels, FixLabels,
         BudgetedLabels
  <1>10. CASE Baseline(r)
    <2>1. spent'[r] \in Nat /\ spent'[r] =< spent[r] + 2 * MaxCost
      BY <1>10, ChargeType, ConstantsAssumption DEF Baseline
    <2>2. spent[r] = 0
      BY <1>10 DEF Baseline, RunInv, SpendInv, Where, BudgetedLabels, FixLabels
    <2>3. spent'[r] < HardCap + 2 * MaxCost
      BY <2>1, <2>2, ConstantsAssumption DEF TypeOK
    <2>4. CASE pc'[r] = "baseline_ok"
      <3>1. facts'[r].baseline = "healthy"
        BY <1>10, <2>4
        DEF TypeOK, Facts, Baseline, check_baseline_healthy, Abort, EndAs, Raise, Goto
      <3>2. Where(r) = "baseline_agents" /\ Where(r)' = "baseline_ok"
        BY <1>10, <2>4 DEF Baseline, Where
      <3>3. plan' = plan
        BY <1>10 DEF Baseline
      <3> QED
        BY <2>3, <2>4, <3>1, <3>2, <3>3
        DEF RunInv, GateInv, FixInv, SpendInv, BaselineLabels, InjectionLabels, VerifiedLabels,
            DiagnosisLabels, FixLabels, BudgetedLabels
    <2>5. CASE pc'[r] # "baseline_ok"
      <3>1. pc'[r] \in {"save_terminal", "unwind"}
        BY <1>10, <2>5 DEF TypeOK, Baseline, Abort, EndAs, Raise, Goto
      <3> QED
        BY <2>3, <3>1, ExitInv DEF ExitLabels
    <2> QED
      BY <2>4, <2>5
  <1>11. CASE BaselineOk(r)
    BY <1>11 DEF TypeOK, BaselineOk, SavePhase, Goto, RunInv, GateInv, FixInv, SpendInv,
         Where, BaselineLabels, InjectionLabels, VerifiedLabels, DiagnosisLabels, FixLabels,
         BudgetedLabels
  <1>12. CASE EnterInject(r)
    BY <1>12 DEF TypeOK, EnterInject, SavePhase, Goto, RunInv, GateInv, FixInv, SpendInv,
         Where, BaselineLabels, InjectionLabels, VerifiedLabels, DiagnosisLabels, FixLabels,
         BudgetedLabels
  <1>13. CASE Inject(r)
    <2>1. CASE pc'[r] \in {"injected", "guard_cleanup"}
      BY <1>13, <2>1 DEF TypeOK, Inject, Abort, EndAs, Goto, RunInv, GateInv, FixInv, SpendInv,
         Where, BaselineLabels, InjectionLabels, VerifiedLabels, DiagnosisLabels, FixLabels,
         BudgetedLabels
    <2>2. CASE pc'[r] \notin {"injected", "guard_cleanup"}
      BY <1>13, <2>2, EndInv DEF TypeOK, Inject, Abort, Goto, RunInv, SpendInv
    <2> QED
      BY <2>1, <2>2
  <1>14. CASE GuardCleanup(r)
    <2>1. pc'[r] \in ExitLabels
      BY <1>14 DEF TypeOK, GuardCleanup, Abort, EndAs, Raise, Goto, ExitLabels
    <2> QED
      BY <1>14, <2>1, ExitInv DEF GuardCleanup, RunInv, SpendInv
  <1>15. CASE Injected(r)
    BY <1>15 DEF TypeOK, Injected, SavePhase, Goto, RunInv, GateInv, FixInv, SpendInv,
         Where, BaselineLabels, InjectionLabels, VerifiedLabels, DiagnosisLabels, FixLabels,
         BudgetedLabels
  <1>16. CASE EnterVerify(r)
    BY <1>16 DEF TypeOK, EnterVerify, SavePhase, Goto, RunInv, GateInv, FixInv, SpendInv,
         Where, BaselineLabels, InjectionLabels, VerifiedLabels, DiagnosisLabels, FixLabels,
         BudgetedLabels
  <1>17. CASE Verify(r)
    <2>1. spent'[r] \in Nat /\ spent'[r] =< spent[r] + 2 * MaxCost
      BY <1>17, ChargeType, ConstantsAssumption DEF Verify
    <2>2. spent[r] < HardCap
      BY <1>17 DEF Verify, RunInv, SpendInv, Where, BudgetedLabels, FixLabels
    <2>3. spent'[r] < HardCap + 2 * MaxCost
      BY <2>1, <2>2, ConstantsAssumption DEF TypeOK
    <2>4. CASE pc'[r] = "diagnostics"
      <3>1. facts'[r].baseline = facts[r].baseline
        BY <1>17 DEF TypeOK, Facts, Verify
      <3>2. Where(r) = "verifying" /\ Where(r)' = "diagnostics"
        BY <1>17, <2>4 DEF Verify, Where
      <3>3. plan' = plan
        BY <1>17 DEF Verify
      <3> QED
        BY <2>3, <2>4, <3>1, <3>2, <3>3
        DEF RunInv, GateInv, FixInv, SpendInv, BaselineLabels, InjectionLabels, VerifiedLabels,
            DiagnosisLabels, FixLabels, BudgetedLabels
    <2>5. CASE pc'[r] # "diagnostics"
      <3>1. pc'[r] \in {"save_terminal", "unwind"}
        BY <1>17, <2>5 DEF TypeOK, Verify, Finish, EndAs, Raise, Goto
      <3> QED
        BY <2>3, <3>1, ExitInv DEF ExitLabels
    <2> QED
      BY <2>4, <2>5
  <1>18. CASE CollectDiagnostics(r)
    <2>1. CASE pc'[r] = "budget"
      BY <1>18, <2>1 DEF TypeOK, CollectDiagnostics, Raise, Goto, RunInv, GateInv, FixInv, SpendInv,
         Where, BaselineLabels, InjectionLabels, VerifiedLabels, DiagnosisLabels, FixLabels,
         BudgetedLabels
    <2>2. CASE pc'[r] # "budget"
      BY <1>18, <2>2, ExitInv
      DEF TypeOK, CollectDiagnostics, Raise, Goto, ExitLabels, RunInv, SpendInv
    <2> QED
      BY <2>1, <2>2
  <1>19. CASE EnterRegressed(r)
    BY <1>19 DEF TypeOK, EnterRegressed, SavePhase, Goto, RunInv, GateInv, FixInv, SpendInv,
         Where, BaselineLabels, InjectionLabels, VerifiedLabels, DiagnosisLabels, FixLabels,
         BudgetedLabels
  <1>20. CASE FinishPluginOnly(r)
    <2>1. pc'[r] \in ExitLabels /\ spent'[r] = spent[r]
      BY <1>20 DEF TypeOK, FinishPluginOnly, Finish, EndAs, Goto, ExitLabels
    <2> QED
      BY <2>1, ExitInv DEF RunInv, SpendInv
  <1>21. CASE EnterDiagnose(r)
    BY <1>21 DEF TypeOK, EnterDiagnose, SavePhase, Goto, RunInv, GateInv, FixInv, SpendInv,
         Where, BaselineLabels, InjectionLabels, VerifiedLabels, DiagnosisLabels, FixLabels,
         BudgetedLabels
  <1>22. CASE Diagnose(r)
    <2>1. spent'[r] \in Nat /\ spent'[r] =< spent[r] + MaxCost
      BY <1>22, ChargeType, ConstantsAssumption DEF Diagnose
    <2>2. spent[r] < HardCap
      BY <1>22 DEF Diagnose, RunInv, SpendInv, Where, BudgetedLabels, FixLabels
    <2>3. spent'[r] < HardCap + 2 * MaxCost
      BY <2>1, <2>2, ConstantsAssumption DEF TypeOK
    <2>4. CASE pc'[r] = "diagnosed"
      <3>1. facts'[r].baseline = facts[r].baseline /\ facts'[r].verdict = facts[r].verdict
        BY <1>22 DEF TypeOK, Facts, Diagnose
      <3>2. Where(r) = "diagnosing" /\ Where(r)' = "diagnosed"
        BY <1>22, <2>4 DEF Diagnose, Where
      <3>3. plan' = plan
        BY <1>22 DEF Diagnose
      <3>4. spent'[r] < HardCap + MaxCost
        BY <2>1, <2>2, ConstantsAssumption DEF TypeOK
      <3> QED
        BY <2>3, <2>4, <3>1, <3>2, <3>3, <3>4
        DEF RunInv, GateInv, FixInv, SpendInv, BaselineLabels, InjectionLabels, VerifiedLabels,
            DiagnosisLabels, FixLabels, BudgetedLabels
    <2>5. CASE pc'[r] # "diagnosed"
      <3>1. pc'[r] = "unwind"
        BY <1>22, <2>5 DEF TypeOK, Diagnose, Raise, Goto
      <3> QED
        BY <2>3, <3>1, ExitInv DEF ExitLabels
    <2> QED
      BY <2>4, <2>5
  <1>23. CASE Diagnosed(r)
    BY <1>23 DEF TypeOK, Diagnosed, SavePhase, Goto, RunInv, GateInv, FixInv, SpendInv,
         Where, BaselineLabels, InjectionLabels, VerifiedLabels, DiagnosisLabels, FixLabels,
         BudgetedLabels
  <1>24. CASE FixGate(r)
    <2>1. CASE pc'[r] = "propose"
      BY <1>24, <2>1 DEF TypeOK, FixGate, Finish, EndAs, Goto, RunInv, GateInv, FixInv, SpendInv,
         Where, BaselineLabels, InjectionLabels, VerifiedLabels, DiagnosisLabels, FixLabels,
         BudgetedLabels
    <2>2. CASE pc'[r] # "propose"
      BY <1>24, <2>2, EndInv DEF TypeOK, FixGate, Finish, Goto, RunInv, SpendInv
    <2> QED
      BY <2>1, <2>2
  <1>25. CASE EnterPropose(r)
    BY <1>25 DEF TypeOK, EnterPropose, SavePhase, Goto, RunInv, GateInv, FixInv, SpendInv,
         Where, BaselineLabels, InjectionLabels, VerifiedLabels, DiagnosisLabels, FixLabels,
         BudgetedLabels
  <1>26. CASE ProposeFix(r)
    <2>1. spent'[r] \in Nat /\ spent'[r] =< spent[r] + MaxCost
      BY <1>26, ChargeType, ConstantsAssumption DEF ProposeFix
    <2>2. spent[r] < HardCap
      BY <1>26 DEF ProposeFix, RunInv, SpendInv, Where, BudgetedLabels, FixLabels
    <2>3. spent'[r] < HardCap + 2 * MaxCost
      BY <2>1, <2>2, ConstantsAssumption DEF TypeOK
    <2>4. pc'[r] \in ExitLabels
      BY <1>26 DEF TypeOK, ProposeFix, Finish, EndAs, Raise, Goto, ExitLabels
    <2> QED
      BY <2>3, <2>4, ExitInv
  <1>27. CASE SaveTerminal(r)
    <2>1. pc'[r] \in ExitLabels /\ spent'[r] = spent[r]
      BY <1>27 DEF TypeOK, SaveTerminal, Goto, ExitLabels
    <2> QED
      BY <2>1, ExitInv DEF RunInv, SpendInv
  <1>28. CASE ClearControl(r)
    <2>1. pc'[r] \in ExitLabels /\ spent'[r] = spent[r]
      BY <1>28 DEF TypeOK, ClearControl, AfterClear, Goto, ExitLabels
    <2> QED
      BY <2>1, ExitInv DEF RunInv, SpendInv
  <1>29. CASE ExitSession(r)
    <2>1. pc'[r] \in ExitLabels /\ spent'[r] = spent[r]
      BY <1>29 DEF TypeOK, ExitSession, Goto, ExitLabels
    <2> QED
      BY <2>1, ExitInv DEF RunInv, SpendInv
  <1>30. CASE HandleException(r)
    <2>1. pc'[r] \in ExitLabels /\ spent'[r] = spent[r]
      BY <1>30 DEF TypeOK, HandleException, Abort, EndAs, Goto, ExitLabels
    <2> QED
      BY <2>1, ExitInv DEF RunInv, SpendInv
  <1>31. CASE FinalSave(r)
    <2>1. pc'[r] \in ExitLabels /\ spent'[r] = spent[r]
      BY <1>31 DEF TypeOK, FinalSave, Goto, ExitLabels
    <2> QED
      BY <2>1, ExitInv DEF RunInv, SpendInv
  <1>32. CASE StoreFault(r)
    <2>1. pc'[r] \in ExitLabels /\ spent'[r] = spent[r]
      BY <1>32 DEF TypeOK, StoreFault, Goto, ExitLabels
    <2> QED
      BY <2>1, ExitInv DEF RunInv, SpendInv
  <1>33. CASE Interrupt(r)
    <2>1. pc'[r] \in ExitLabels /\ spent'[r] = spent[r]
      BY <1>33 DEF TypeOK, Interrupt, Goto, ExitLabels
    <2> QED
      BY <2>1, ExitInv DEF RunInv, SpendInv
  <1>34. CASE Kill(r)
    <2>1. pc'[r] \in ExitLabels /\ spent'[r] = spent[r]
      BY <1>34 DEF TypeOK, Kill, Goto, ExitLabels
    <2> QED
      BY <2>1, ExitInv DEF RunInv, SpendInv
  <1> QED
    BY <1>1, <1>2, <1>3, <1>4, <1>5, <1>6, <1>7, <1>8, <1>9, <1>10, <1>11,
       <1>12, <1>13, <1>14, <1>15, <1>16, <1>17, <1>18, <1>19, <1>20, <1>21,
       <1>22, <1>23, <1>24, <1>25, <1>26, <1>27, <1>28, <1>29, <1>30, <1>31,
       <1>32, <1>33, <1>34
    DEF RunStep

\* A step of q leaves what RunInv says of the other runs alone.
LEMMA OtherStep ==
  ASSUME TypeOK, NEW r \in Runs, NEW q \in Runs \ {r},
         Start(q) \/ RunStep(q) \/ StoreFault(q) \/ Interrupt(q) \/ Kill(q)
  PROVE  Mine(r)' = Mine(r)
  <1>1. CASE Start(q) \/ Preflight(q) \/ EnterSession(q) \/ EnterBody(q) \/
            CheckNamespaceAnnotation(q)
    BY <1>1 DEF TypeOK, Mine, Start, Preflight, EnterSession, EnterBody,
       CheckNamespaceAnnotation, Goto, Raise, Abort, EndAs
  <1>2. CASE CheckBudget(q) \/ PollControl(q) \/ MarkPaused(q)
    BY <1>2 DEF TypeOK, Mine, CheckBudget, PollControl, MarkPaused, Goto, Abort, EndAs
  <1>3. CASE EnterBaseline(q) \/ BaselineOk(q) \/ EnterInject(q) \/ Injected(q)
            \/ EnterVerify(q) \/ EnterRegressed(q) \/ EnterDiagnose(q) \/
            Diagnosed(q) \/ EnterPropose(q)
    BY <1>3 DEF TypeOK, Mine, EnterBaseline, BaselineOk, EnterInject, Injected,
       EnterVerify, EnterRegressed, EnterDiagnose, Diagnosed, EnterPropose, Goto,
       SavePhase
  <1>4. CASE Baseline(q) \/ Verify(q) \/ Diagnose(q) \/ ProposeFix(q)
    BY <1>4 DEF TypeOK, Mine, Baseline, Verify, Diagnose, ProposeFix, Goto, Raise,
       Abort, Finish, EndAs, Charge
  <1>5. CASE Inject(q) \/ GuardCleanup(q) \/ CollectDiagnostics(q) \/ FixGate(q)
            \/ FinishPluginOnly(q)
    BY <1>5 DEF TypeOK, Mine, Inject, GuardCleanup, CollectDiagnostics, FixGate,
       FinishPluginOnly, Goto, Raise, Abort, Finish, EndAs
  <1>6. CASE SaveTerminal(q) \/ ClearControl(q) \/ ExitSession(q) \/
            HandleException(q) \/ FinalSave(q)
    BY <1>6 DEF TypeOK, Mine, SaveTerminal, ClearControl, ExitSession, HandleException,
       FinalSave, Goto, Abort, EndAs
  <1>7. CASE StoreFault(q) \/ Interrupt(q) \/ Kill(q)
    BY <1>7 DEF TypeOK, Mine, StoreFault, Interrupt, Kill, Goto
  <1> QED
    BY <1>1, <1>2, <1>3, <1>4, <1>5, <1>6, <1>7
    DEF RunStep

\* No operator touches what RunInv speaks of.
LEMMA OpStepFrame ==
  ASSUME NEW o \in Ops, OpStep(o), NEW r \in Runs
  PROVE  Mine(r)' = Mine(r)
  BY DEF OpStep, CliLoad, CliPause, CliResume, CliAbort, CliForceAbort, UiSignal,
         loop_untouched, Mine

AllRunInv == \A r \in Runs : RunInv(r)

\* Initially nothing is spent and no run is past a gate.
LEMMA RunInvInit == Init => AllRunInv
  <1> SUFFICES ASSUME Init, NEW r \in Runs PROVE RunInv(r)
    BY DEF AllRunInv
  <1>1. Where(r) = "idle" /\ pc[r] = "idle" /\ spent[r] = 0
    BY DEF Init, Where
  <1>2. 0 < HardCap + 2 * MaxCost
    BY ConstantsAssumption
  <1> QED
    BY <1>1, <1>2
    DEF RunInv, GateInv, FixInv, SpendInv, BaselineLabels, InjectionLabels, VerifiedLabels,
        DiagnosisLabels, FixLabels, BudgetedLabels

\* Every step of every actor keeps what every run remembers.
LEMMA RunInvStep == TypeOK /\ AllRunInv /\ [Next]_vars => AllRunInv'
  <1> SUFFICES ASSUME TypeOK, AllRunInv, [Next]_vars, NEW r \in Runs PROVE RunInv(r)'
    BY DEF AllRunInv
  <1>1. RunInv(r)
    BY DEF AllRunInv
  <1>2. ASSUME NEW q \in Runs,
               Start(q) \/ RunStep(q) \/ StoreFault(q) \/ Interrupt(q) \/ Kill(q)
        PROVE  RunInv(r)'
    <2>1. CASE q = r
      BY <1>1, <1>2, <2>1, OwnStep
    <2>2. CASE q # r
      BY <1>1, <1>2, <2>2, OtherStep, FrameInv
    <2> QED
      BY <2>1, <2>2
  <1>3. ASSUME NEW o \in Ops, OpStep(o) PROVE RunInv(r)'
    BY <1>1, <1>3, OpStepFrame, FrameInv
  <1>4. CASE UNCHANGED vars
    BY <1>1, <1>4, FrameInv DEF vars, Mine
  <1> QED
    BY <1>2, <1>3, <1>4 DEF Next

\* RunInv holds of every run throughout.
LEMMA RunInvAlways == Spec => []AllRunInv
  BY TypeCorrect, RunInvInit, RunInvStep, PTL DEF Spec

\* A run that passed the gates respects what they are about.
LEMMA RunInvGates == TypeOK /\ AllRunInv => GatedInjection
  <1> SUFFICES ASSUME AllRunInv, NEW r \in Runs, Where(r) \in InjectionLabels
               PROVE  /\ \A f \in plan[r].forbidden, w \in plan[r].context :
                           Lower[f] = f => Lower[w] # Lower[f]
                      /\ \A i \in DOMAIN plan[r].faults :
                           plan[r].faults[i].duration <= plan[r].max_duration
                      /\ plan[r].allow_multi_fault \/ ~(Len(plan[r].faults) > 1)
                      /\ plan[r].annotation = "true" \/ ~plan[r].require_annotation
                      /\ facts[r].baseline = "healthy"
    BY DEF GatedInjection
  <1>1. GateInv(r)
    BY DEF AllRunInv, RunInv
  <1> QED
    BY <1>1
    DEF GateInv, check_cluster_allowed, check_blast_radius, check_namespace_annotation

\* No fault is injected past a gate that refuses it, for any plan.
THEOREM GatesHold == Spec => []GatedInjection
  BY TypeCorrect, RunInvAlways, RunInvGates, PTL

\* The fixer and the diagnostician only work on what is theirs.
THEOREM FixerGated == Spec => []FixerOnlyWhenActionable
  <1>1. AllRunInv => FixerOnlyWhenActionable
    BY DEF AllRunInv, RunInv, FixInv, FixerOnlyWhenActionable
  <1> QED
    BY <1>1, RunInvAlways, PTL

\* The overshoot of the hard cap is bounded, for any cap and any cost.
THEOREM BudgetOvershootBounded == Spec => []SpendBounded
  <1>1. AllRunInv => SpendBounded
    BY DEF AllRunInv, RunInv, SpendInv, SpendBounded
  <1> QED
    BY <1>1, RunInvAlways, PTL
------------------------------------------------------------------------------
(***************************************************************************)
(* What reaches the store.  The row is always a copy of some record, so    *)
(* the records must be classified too; an operator writes only ABORTED.    *)
(***************************************************************************)
Classified == LIVE_STATES \cup Terminal

RowInv == RowClassified /\ \A r \in Runs : rec[r].state \in Classified

\* The states that phases and endings assign are classified.
LEMMA ClassifiedFacts ==
  /\ \A l \in SavePoints : PhaseState[l] \in Classified
  /\ {"INITIALIZING", "INJECT_FAILED", "PAUSED", "ABORTED", "RECORDED"} \subseteq Classified
  BY DEF SavePoints, PhaseState, Classified, LIVE_STATES, Terminal

\* A step that gives the record of r a classified state, and the row nothing
\* but its own value or that record, keeps RowInv.
LEMMA RowFrame ==
  ASSUME TypeOK, RowInv, NEW r \in Runs,
         \A q \in Runs \ {r} : rec'[q] = rec[q],
         rec'[r].state \in Classified,
         row' \in {row, rec'[r]}
  PROVE  RowInv'
  BY DEF RowInv, RowClassified, Classified

\* A phase's save.
LEMMA SavePhaseRow ==
  ASSUME TypeOK, RowInv, NEW r \in Runs, NEW l, pc[r] \in SavePoints, SavePhase(r, l)
  PROVE  RowInv'
  <1>1. /\ \A q \in Runs \ {r} : rec'[q] = rec[q]
        /\ rec'[r].state = PhaseState[pc[r]]
        /\ row' = rec'[r]
    BY DEF TypeOK, Record, SavePhase, store_save
  <1> QED
    BY <1>1, ClassifiedFacts, RowFrame

\* An ending, whose save comes later.
LEMMA EndRow ==
  ASSUME TypeOK, RowInv, NEW r \in Runs, NEW s \in {"ABORTED", "RECORDED"}, NEW why,
         EndAs(r, s, why), row' = row
  PROVE  RowInv'
  <1>1. /\ \A q \in Runs \ {r} : rec'[q] = rec[q]
        /\ rec'[r].state \in {"ABORTED", "RECORDED"}
    BY DEF TypeOK, EndAs
  <1> QED
    BY <1>1, ClassifiedFacts, RowFrame

\* A step that leaves the record alone and the row too, or copies the record.
LEMMA SameRow ==
  ASSUME TypeOK, RowInv, NEW r \in Runs, rec' = rec, row' \in {row, rec[r]}
  PROVE  RowInv'
  BY DEF RowInv, RowClassified, Classified

\* Every step of every actor keeps the row and the records classified.
LEMMA RowInvStep == TypeOK /\ RowInv /\ [Next]_vars => RowInv'
  <1> SUFFICES ASSUME TypeOK, RowInv, [Next]_vars PROVE RowInv'
    OBVIOUS
  <1>1. ASSUME NEW r \in Runs, Start(r) PROVE RowInv'
    <2>1. /\ \A q \in Runs \ {r} : rec'[q] = rec[q]
          /\ rec'[r] = NewRecord /\ row' = NewRecord
      BY <1>1 DEF TypeOK, Start, store_save
    <2> QED
      BY <2>1, ClassifiedFacts, RowFrame DEF NewRecord
  <1>2. ASSUME NEW r \in Runs,
               \/ EnterBaseline(r) \/ BaselineOk(r) \/ EnterInject(r) \/ Injected(r)
               \/ EnterVerify(r) \/ EnterRegressed(r) \/ EnterDiagnose(r) \/ Diagnosed(r)
               \/ EnterPropose(r)
        PROVE  RowInv'
    <2>1. pc[r] \in SavePoints /\ \E l : SavePhase(r, l)
      BY <1>2, LabelMembers
      DEF EnterBaseline, BaselineOk, EnterInject, Injected, EnterVerify, EnterRegressed,
          EnterDiagnose, Diagnosed, EnterPropose
    <2> QED
      BY <2>1, SavePhaseRow
  <1>3. ASSUME NEW r \in Runs,
               \/ EnterSession(r) \/ EnterBody(r) \/ CollectDiagnostics(r) \/ SaveTerminal(r)
               \/ ClearControl(r) \/ ExitSession(r) \/ FinalSave(r) \/ Interrupt(r) \/ Kill(r)
        PROVE  RowInv'
    <2>1. rec' = rec /\ row' \in {row, rec[r]}
      BY <1>3
      DEF EnterSession, EnterBody, CollectDiagnostics, SaveTerminal, ClearControl, ExitSession,
          FinalSave, Interrupt, Kill, Raise, store_save, store_untouched, clear_control
    <2> QED
      BY <2>1, SameRow
  <1>4. ASSUME NEW r \in Runs,
               \/ Preflight(r) \/ CheckNamespaceAnnotation(r) \/ PollControl(r) \/ Baseline(r)
               \/ GuardCleanup(r) \/ Verify(r) \/ FinishPluginOnly(r) \/ Diagnose(r)
               \/ FixGate(r) \/ ProposeFix(r) \/ HandleException(r)
        PROVE  RowInv'
    <2>1. row' = row
      BY <1>4
      DEF Preflight, CheckNamespaceAnnotation, PollControl, Baseline, GuardCleanup, Verify,
          FinishPluginOnly, Diagnose, FixGate, ProposeFix, HandleException, store_untouched
    <2>2. rec' = rec \/ (\E why : EndAs(r, "ABORTED", why)) \/ (\E why : EndAs(r, "RECORDED", why))
      BY <1>4
      DEF Preflight, CheckNamespaceAnnotation, PollControl, Baseline, GuardCleanup, Verify,
          FinishPluginOnly, Diagnose, FixGate, ProposeFix, HandleException, Raise, Abort, Finish
    <2> QED
      BY <2>1, <2>2, SameRow, EndRow
  <1>5. ASSUME NEW r \in Runs, CheckBudget(r) PROVE RowInv'
    <2>1. CASE Abort(r, "budget_exceeded")
      BY <1>5, <2>1, EndRow DEF CheckBudget, store_untouched, Abort
    <2>2. CASE rec' = [rec EXCEPT ![r].spend = spent[r]]
      <3>1. /\ \A q \in Runs \ {r} : rec'[q] = rec[q]
            /\ rec'[r].state = rec[r].state /\ rec[r].state \in Classified
        BY <2>2 DEF TypeOK, Record, RowInv
      <3> QED
        BY <1>5, <3>1, RowFrame DEF CheckBudget, store_untouched
    <2> QED
      BY <1>5, <2>1, <2>2 DEF CheckBudget
  <1>6. ASSUME NEW r \in Runs, MarkPaused(r) PROVE RowInv'
    <2>1. /\ \A q \in Runs \ {r} : rec'[q] = rec[q]
          /\ rec'[r].state = "PAUSED" /\ row' = rec'[r]
      BY <1>6 DEF TypeOK, Record, MarkPaused, store_save
    <2> QED
      BY <2>1, ClassifiedFacts, RowFrame
  <1>7. ASSUME NEW r \in Runs, Inject(r) PROVE RowInv'
    <2>1. CASE Abort(r, "agent_failure")
      BY <1>7, <2>1, EndRow DEF Inject, store_untouched, Abort
    <2>2. CASE rec' = rec
      BY <1>7, <2>2, SameRow DEF Inject, store_untouched
    <2>3. CASE rec' = [rec EXCEPT ![r].state = "INJECT_FAILED"]
      <3>1. /\ \A q \in Runs \ {r} : rec'[q] = rec[q]
            /\ rec'[r].state = "INJECT_FAILED"
        BY <2>3 DEF TypeOK, Record
      <3> QED
        BY <1>7, <3>1, ClassifiedFacts, RowFrame DEF Inject, store_untouched
    <2> QED
      BY <1>7, <2>1, <2>2, <2>3 DEF Inject
  <1>8. ASSUME NEW r \in Runs, StoreFault(r) PROVE RowInv'
    <2>1. row' = row
      BY <1>8 DEF StoreFault, store_untouched
    <2>2. CASE pc[r] \in SavePoints
      <3>1. /\ \A q \in Runs \ {r} : rec'[q] = rec[q]
            /\ rec'[r].state = PhaseState[pc[r]]
        BY <1>8, <2>2 DEF TypeOK, Record, StoreFault
      <3> QED
        BY <2>1, <2>2, <3>1, ClassifiedFacts, RowFrame
    <2>3. CASE pc[r] \notin SavePoints
      BY <1>8, <2>1, <2>3, SameRow DEF StoreFault
    <2> QED
      BY <2>2, <2>3
  <1>9. ASSUME NEW o \in Ops, OpStep(o) PROVE RowInv'
    <2>1. rec' = rec
      BY <1>9
      DEF OpStep, CliLoad, CliPause, CliResume, CliAbort, CliForceAbort, UiSignal, loop_untouched
    <2>2. CASE CliForceAbort(o)
      <3>1. PICK why \in OperatorReasons :
              row' = [op[o].seen EXCEPT !.state = "ABORTED", !.reason = why]
        BY <2>2 DEF CliForceAbort, store_save
      <3>2. op[o].seen \in Record \cup {NoRow} /\ why \in AbortReason
        BY ConstantsAssumption DEF TypeOK, OpState
      <3>3. row'.state = "ABORTED"
        BY <3>1, <3>2 DEF Record, NoRow
      <3> QED
        BY <2>1, <3>3, ClassifiedFacts DEF RowInv, RowClassified, Classified
    <2>3. CASE ~CliForceAbort(o)
      <3>1. row' = row
        BY <1>9, <2>3
        DEF OpStep, CliLoad, CliPause, CliResume, CliAbort, UiSignal, set_pause, request_abort,
            store_untouched
      <3> QED
        BY <2>1, <3>1 DEF RowInv, RowClassified
    <2> QED
      BY <2>2, <2>3
  <1>10. CASE UNCHANGED vars
    BY <1>10 DEF vars, RowInv, RowClassified
  <1> QED
    BY <1>1, <1>2, <1>3, <1>4, <1>5, <1>6, <1>7, <1>8, <1>9, <1>10 DEF Next, RunStep

\* Whatever processes share the row, fail or are killed, what it holds is live
\* or terminal.
THEOREM RowAlwaysClassified == Spec => []RowClassified
  <1>1. Init => RowInv
    BY ClassifiedFacts DEF Init, RowInv, RowClassified, NewRecord
  <1>2. RowInv => RowClassified
    BY DEF RowInv
  <1> QED
    BY <1>1, <1>2, RowInvStep, TypeCorrect, PTL DEF Spec

-----------------------------------------------------------------------------
(***************************************************************************)
(* What is left in the store of an experiment, for any plans, budget and   *)
(* operators.                                                              *)
(*                                                                         *)
(* SettledRowIsTerminal holds for any number of processes that share the   *)
(* row: whoever writes a live state still owes a terminal one, and no      *)
(* other process can pay for it.  The other three are about one process,   *)
(* as `chaos run` starts it, and without `abort --force`, which writes the *)
(* row behind its back; two of them also need a store that does not fail,  *)
(* since a failure after the terminal save makes the run abort once more.  *)
(***************************************************************************)

\* One process writes the row.
OneWriter == Runs = {TheRun} /\ "cli_force" \notin Commands

\* A run that has its terminal record in memory, and one that has saved it.
Ending == {"save_terminal", "clear", "exit", "final"}
Saved == {"clear", "exit", "final", "done"}

Owes(r) == pc[r] \notin {"idle"} \cup Saved

SettleInv ==
  /\ \A r \in Runs : pc[r] \in Ending => rec[r].state \in Terminal
  /\ row # NoRow /\ row.state \notin Terminal => \E r \in Runs : Owes(r)

\* The row is the run's own record once the terminal one is saved.
OutcomeInv(r) ==
  /\ pc[r] \in Ending \cup {"done"} => rec[r].state \in Terminal /\ rec[r].spend = spent[r]
  /\ pc[r] \in Saved => row = rec[r]
  /\ pc[r] = "final" => session[r] = "closed"
  /\ pc[r] = "done" => session[r] # "open"

\* The state that the row shows while a run is at one of these places.
ShownAt ==
  [preflight |-> "INITIALIZING", enter |-> "INITIALIZING", body |-> "INITIALIZING",
   annot |-> "INITIALIZING", baseline_agents |-> "BASELINE", baseline_ok |-> "BASELINE",
   injecting |-> "INJECT", guard_cleanup |-> "INJECT", injected |-> "INJECT",
   verifying |-> "VERIFY", diagnostics |-> "VERIFY", finish |-> "REGRESSED",
   diagnose |-> "REGRESSED", diagnosing |-> "DIAGNOSE", diagnosed |-> "DIAGNOSE",
   proposing |-> "PROPOSE_FIX"]

\* The phase of the row, through a pause.
RowPhase(r) == IF row.state = "PAUSED" THEN PausedAfter[then[r]] ELSE row.state

\* What was saved last is what the record says, except after a guard tripped.
Same(r) ==
  \/ rec[r].state = row.state
  \/ /\ pc[r] \in {"guard_cleanup", "unwind", "final_raise"}
     /\ row.state = "INJECT" /\ rec[r].state = "INJECT_FAILED"

LifeInv(r) ==
  /\ pc[r] = "idle" => row = NoRow
  /\ pc[r] \in DOMAIN ShownAt => row.state = ShownAt[pc[r]]
  /\ pc[r] \in {"budget", "poll", "mark_paused"} => row.state = PausedAfter[then[r]]
  /\ pc[r] = "annot" => then[r] = "baseline"
  /\ pc[r] = "sleeping" => row.state = "PAUSED"
  /\ pc[r] \in ControlPoints => then[r] = pc[r] /\ RowPhase(r) = PausedAfter[pc[r]]
  /\ pc[r] = "propose" => RowPhase(r) = "DIAGNOSED"
  /\ pc[r] \in {"unwind", "save_terminal"} => row.state \notin Terminal \cup {"ABSENT"}
  /\ pc[r] = "save_terminal" =>
       /\ rec[r].state \in Terminal
       /\ rec[r].state = "RECORDED" =>
            RowPhase(r) \in {"VERIFY", "REGRESSED", "DIAGNOSED", "PROPOSE_FIX"}
  /\ pc[r] \in Saved => row = rec[r]
  /\ pc[r] = "final_raise" => row = rec[r] \/ (row.state \notin Terminal \cup {"ABSENT"} /\ Same(r))
  /\ pc[r] \notin {"idle", "save_terminal", "final_raise", "crashed"} \cup Saved => Same(r)
-------------------------------------------------------------------------------
(***************************************************************************)
(* The steps of a run, as what they do to its place, its record and the    *)
(* row.                                                                    *)
(***************************************************************************)
\* Between two accesses to the store; the places that show the same state, ...
Inside ==
  {<<"preflight", "enter">>, <<"enter", "body">>, <<"baseline_agents", "baseline_ok">>,
   <<"injecting", "injected">>, <<"verifying", "diagnostics">>, <<"diagnosing", "diagnosed">>}
\* ... to and from the gates before a phase, ...
Between ==
  {<<"annot", "poll">>, <<"budget", "poll">>, <<"poll", "mark_paused">>, <<"fix", "propose">>}
\* ... and an exception.
Raising == {"enter", "baseline_agents", "guard_cleanup", "verifying", "diagnosing", "proposing"}

Goes(r) ==
  /\ \/ <<pc[r], pc'[r]>> \in Inside \cup Between
     \/ pc[r] \in Raising /\ pc'[r] = "unwind"
     \/ pc[r] \in {"poll", "sleeping"} /\ pc'[r] = then[r]
  /\ rec'[r].state = rec[r].state /\ row' = row /\ then'[r] = then[r]

Collects(r) ==
  /\ pc[r] = "diagnostics" /\ pc'[r] \in {"budget", "unwind"} /\ then'[r] = "regressed"
  /\ rec'[r] = rec[r] /\ row' = row

Trips(r) ==
  /\ pc[r] = "injecting" /\ pc'[r] = "guard_cleanup" /\ then'[r] = then[r]
  /\ rec'[r].state = "INJECT_FAILED" /\ row' = row

RecordsFrom == {"verifying", "finish", "fix", "proposing"}
AbortsFrom == {"preflight", "annot", "budget", "poll", "sleeping", "baseline_agents",
               "injecting", "guard_cleanup", "unwind"}

Ends(r) ==
  /\ pc[r] \in AbortsFrom \cup RecordsFrom /\ pc'[r] = "save_terminal"
  /\ rec'[r].state \in Terminal /\ rec'[r].spend = spent'[r]
  /\ rec'[r].state = "RECORDED" => pc[r] \in RecordsFrom
  /\ row' = row /\ then'[r] = then[r]

AfterSave ==
  {<<"baseline", "baseline_agents">>, <<"inject", "injecting">>, <<"verify", "verifying">>,
   <<"regressed", "diagnose">>, <<"regressed", "finish">>, <<"diagnose", "diagnosing">>,
   <<"propose", "proposing">>}

SavesPhase(r) ==
  /\ pc[r] \in SavePoints
  /\ rec'[r].state = PhaseState[pc[r]] /\ row' = rec'[r]
  /\ \/ <<pc[r], pc'[r]>> \in AfterSave /\ then'[r] = then[r]
     \/ pc[r] = "baseline_ok" /\ pc'[r] = "budget" /\ then'[r] = "inject"
     \/ pc[r] = "injected" /\ pc'[r] = "poll" /\ then'[r] = "verify"
     \/ pc[r] = "diagnosed" /\ pc'[r] = "budget" /\ then'[r] = "fix"

SavesPause(r) ==
  /\ pc[r] = "mark_paused" /\ pc'[r] = "sleeping" /\ then'[r] = then[r]
  /\ rec'[r].state = "PAUSED" /\ row' = rec'[r]

\* The row becomes the record as it is.
Copies(r) ==
  /\ \/ pc[r] = "body" /\ pc'[r] \in {"annot", "poll"} /\ then'[r] = "baseline"
     \/ pc[r] = "save_terminal" /\ pc'[r] = "clear" /\ then'[r] = then[r]
     \/ pc[r] = "final" /\ pc'[r] = "done" /\ then'[r] = then[r]
     \/ pc[r] = "final_raise" /\ pc'[r] = "crashed" /\ then'[r] = then[r]
  /\ rec'[r] = rec[r] /\ row' = rec[r] /\ spent'[r] = spent[r] /\ session'[r] = session[r]

Leaves(r) ==
  /\ \/ pc[r] = "clear" /\ pc'[r] = AfterClear(r) /\ session'[r] = session[r]
     \/ pc[r] = "exit" /\ pc'[r] = "final" /\ session'[r] = "closed"
  /\ rec'[r] = rec[r] /\ row' = row /\ then'[r] = then[r] /\ spent'[r] = spent[r]

Begins(r) ==
  pc[r] = "idle" /\ pc'[r] = "preflight" /\ rec'[r] = NewRecord /\ row' = NewRecord

Interrupted(r) ==
  /\ \/ pc[r] \in AgentCalls \cup {"enter", "annot", "sleeping", "exit", "unwind"} /\ pc'[r] = "final_raise"
     \/ pc[r] \notin Stopped /\ pc'[r] = "crashed"
  /\ rec'[r] = rec[r] /\ row' = row /\ then'[r] = then[r]

Busy(r) ==
  /\ faults < MaxStoreFaults
  /\ pc'[r] \in {"unwind", "final_raise", "crashed"} /\ row' = row

Effect(r) ==
  \/ Goes(r) \/ Collects(r) \/ Trips(r) \/ Ends(r) \/ SavesPhase(r) \/ SavesPause(r)
  \/ Copies(r) \/ Leaves(r) \/ Begins(r) \/ Interrupted(r) \/ Busy(r)

\* An ending, up to its save.
LEMMA EndAsEffect ==
  ASSUME TypeOK, NEW r \in Runs, NEW s, NEW why, EndAs(r, s, why)
  PROVE  pc'[r] = "save_terminal" /\ rec'[r].state = s /\ rec'[r].spend = spent'[r]
BY DEF TypeOK, EndAs, Goto

\* A save at a phase boundary.
LEMMA SaveEffect ==
  ASSUME TypeOK, NEW r \in Runs, NEW l, SavePhase(r, l)
  PROVE  pc'[r] = l /\ rec'[r].state = PhaseState[pc[r]] /\ row' = rec'[r]
BY DEF TypeOK, Record, SavePhase, Goto, store_save

\* Every step of a run is one of these.
LEMMA RunEffect ==
  ASSUME TypeOK, NEW r \in Runs,
         Start(r) \/ RunStep(r) \/ StoreFault(r) \/ Interrupt(r) \/ Kill(r)
  PROVE  Effect(r)
<1> USE DEF Effect
<1>1. CASE Start(r)
  BY <1>1 DEF TypeOK, Start, store_save, Goto, Begins
<1>2. CASE EnterSession(r)
  BY <1>2 DEF TypeOK, EnterSession, Raise, Goto, store_untouched, Goes, Inside, Raising
<1>3. CASE EnterBody(r)
  BY <1>3 DEF TypeOK, EnterBody, Goto, store_save, Copies
<1>4. CASE Preflight(r)
  <2>1. CASE \E why : Abort(r, why)
    BY <1>4, <2>1, EndAsEffect DEF Preflight, Abort, store_untouched, Ends, AbortsFrom, Terminal
  <2>2. CASE Goto(r, "enter") /\ rec' = rec
    BY <1>4, <2>2 DEF TypeOK, Preflight, Goto, store_untouched, Goes, Inside
  <2> QED
    BY <1>4, <2>1, <2>2 DEF Preflight
<1>5. CASE CheckNamespaceAnnotation(r)
  <2>1. CASE Abort(r, "cluster_denied")
    BY <1>5, <2>1, EndAsEffect DEF CheckNamespaceAnnotation, Abort, store_untouched, Ends, AbortsFrom, Terminal
  <2>2. CASE Goto(r, "poll") /\ rec' = rec
    BY <1>5, <2>2 DEF TypeOK, CheckNamespaceAnnotation, Goto, store_untouched, Goes, Between
  <2> QED
    BY <1>5, <2>1, <2>2 DEF CheckNamespaceAnnotation
<1>6. CASE CheckBudget(r)
  <2>1. CASE Abort(r, "budget_exceeded")
    BY <1>6, <2>1, EndAsEffect DEF CheckBudget, Abort, store_untouched, Ends, AbortsFrom, Terminal
  <2>2. CASE rec' = [rec EXCEPT ![r].spend = spent[r]] /\ Goto(r, "poll")
    <3>1. rec'[r].state = rec[r].state
      BY <2>2 DEF TypeOK, Record
    <3> QED
      BY <1>6, <2>2, <3>1 DEF TypeOK, CheckBudget, Goto, store_untouched, Goes, Between
  <2> QED
    BY <1>6, <2>1, <2>2 DEF CheckBudget
<1>7. CASE PollControl(r)
  <2>1. CASE Abort(r, ctl.abort)
    BY <1>7, <2>1, EndAsEffect DEF PollControl, Abort, store_untouched, Ends, AbortsFrom, Terminal
  <2>2. CASE Goto(r, then[r]) /\ rec' = rec
    BY <1>7, <2>2 DEF TypeOK, PollControl, Goto, store_untouched, Goes
  <2>3. CASE pc[r] = "poll" /\ Goto(r, "mark_paused") /\ rec' = rec
    BY <1>7, <2>3 DEF TypeOK, PollControl, Goto, store_untouched, Goes, Between
  <2> QED
    BY <1>7, <2>1, <2>2, <2>3 DEF PollControl
<1>8. CASE MarkPaused(r)
  <2>1. rec'[r].state = "PAUSED"
    BY <1>8 DEF TypeOK, Record, MarkPaused
  <2> QED
    BY <1>8, <2>1 DEF TypeOK, MarkPaused, Goto, store_save, SavesPause
<1>9. CASE EnterBaseline(r) \/ EnterInject(r) \/ EnterVerify(r)
  BY <1>9, SaveEffect, LabelMembers DEF EnterBaseline, EnterInject, EnterVerify, SavesPhase, AfterSave
<1>10. CASE EnterRegressed(r) \/ EnterDiagnose(r) \/ EnterPropose(r)
  BY <1>10, SaveEffect, LabelMembers DEF EnterRegressed, EnterDiagnose, EnterPropose, SavesPhase, AfterSave
<1>11. CASE BaselineOk(r)
  BY <1>11, SaveEffect, LabelMembers DEF TypeOK, BaselineOk, SavesPhase
<1>12. CASE Injected(r)
  BY <1>12, SaveEffect, LabelMembers DEF TypeOK, Injected, SavesPhase
<1>13. CASE Diagnosed(r)
  BY <1>13, SaveEffect, LabelMembers DEF TypeOK, Diagnosed, SavesPhase
<1>14. CASE Baseline(r)
  <2>1. CASE Abort(r, "baseline_unhealthy")
    BY <1>14, <2>1, EndAsEffect DEF Baseline, Abort, store_untouched, Ends, AbortsFrom, Terminal
  <2>2. CASE Goto(r, "baseline_ok") /\ rec' = rec
    BY <1>14, <2>2 DEF TypeOK, Baseline, Goto, store_untouched, Goes, Inside
  <2>3. CASE Raise(r)
    BY <1>14, <2>3 DEF TypeOK, Baseline, Raise, Goto, store_untouched, Goes, Raising
  <2> QED
    BY <1>14, <2>1, <2>2, <2>3 DEF Baseline
<1>15. CASE Inject(r)
  <2>1. CASE Abort(r, "agent_failure")
    BY <1>15, <2>1, EndAsEffect DEF Inject, Abort, store_untouched, Ends, AbortsFrom, Terminal
  <2>2. CASE Goto(r, "injected") /\ rec' = rec
    BY <1>15, <2>2 DEF TypeOK, Inject, Goto, store_untouched, Goes, Inside
  <2>3. CASE Goto(r, "guard_cleanup") /\ rec' = [rec EXCEPT ![r].state = "INJECT_FAILED"]
    BY <1>15, <2>3 DEF TypeOK, Record, Inject, Goto, store_untouched, Trips
  <2> QED
    BY <1>15, <2>1, <2>2, <2>3 DEF Inject
<1>16. CASE GuardCleanup(r)
  <2>1. CASE Abort(r, "slo_breach")
    BY <1>16, <2>1, EndAsEffect DEF GuardCleanup, Abort, store_untouched, Ends, AbortsFrom, Terminal
  <2>2. CASE Raise(r)
    BY <1>16, <2>2 DEF TypeOK, GuardCleanup, Raise, Goto, store_untouched, Goes, Raising
  <2> QED
    BY <1>16, <2>1, <2>2 DEF GuardCleanup
<1>17. CASE Verify(r)
  <2>1. CASE Finish(r)
    BY <1>17, <2>1, EndAsEffect DEF Verify, Finish, store_untouched, Ends, RecordsFrom, Terminal
  <2>2. CASE Goto(r, "diagnostics") /\ rec' = rec
    BY <1>17, <2>2 DEF TypeOK, Verify, Goto, store_untouched, Goes, Inside
  <2>3. CASE Raise(r)
    BY <1>17, <2>3 DEF TypeOK, Verify, Raise, Goto, store_untouched, Goes, Raising
  <2> QED
    BY <1>17, <2>1, <2>2, <2>3 DEF Verify
<1>18. CASE CollectDiagnostics(r)
  BY <1>18 DEF TypeOK, CollectDiagnostics, Raise, Goto, store_untouched, Collects
<1>19. CASE FinishPluginOnly(r) 
  BY <1>19, EndAsEffect DEF FinishPluginOnly, Finish, store_untouched, Ends, RecordsFrom, Terminal
<1>20. CASE Diagnose(r)
  <2>1. CASE Goto(r, "diagnosed") /\ rec' = rec
    BY <1>20, <2>1 DEF TypeOK, Diagnose, Goto, store_untouched, Goes, Inside
  <2>2. CASE Raise(r)
    BY <1>20, <2>2 DEF TypeOK, Diagnose, Raise, Goto, store_untouched, Goes, Raising
  <2> QED
    BY <1>20, <2>1, <2>2 DEF Diagnose
<1>21. CASE FixGate(r)
  <2>1. CASE Finish(r)
    BY <1>21, <2>1, EndAsEffect DEF FixGate, Finish, store_untouched, Ends, RecordsFrom, Terminal
  <2>2. CASE Goto(r, "propose") /\ rec' = rec
    BY <1>21, <2>2 DEF TypeOK, FixGate, Goto, store_untouched, Goes, Between
  <2> QED
    BY <1>21, <2>1, <2>2 DEF FixGate
<1>22. CASE ProposeFix(r)
  <2>1. CASE Finish(r)
    BY <1>22, <2>1, EndAsEffect DEF ProposeFix, Finish, store_untouched, Ends, RecordsFrom, Terminal
  <2>2. CASE Raise(r)
    BY <1>22, <2>2 DEF TypeOK, ProposeFix, Raise, Goto, store_untouched, Goes, Raising
  <2> QED
    BY <1>22, <2>1, <2>2 DEF ProposeFix
<1>23. CASE SaveTerminal(r) \/ FinalSave(r)
  BY <1>23 DEF TypeOK, SaveTerminal, FinalSave, Goto, store_save, Copies
<1>24. CASE ClearControl(r)
  BY <1>24 DEF TypeOK, ClearControl, clear_control, Goto, Leaves
<1>25. CASE ExitSession(r)
  BY <1>25 DEF TypeOK, ExitSession, store_untouched, Goto, Leaves
<1>26. CASE HandleException(r)
  BY <1>26, EndAsEffect DEF HandleException, Abort, store_untouched, Ends, AbortsFrom, Terminal
<1>27. CASE StoreFault(r)
  BY <1>27 DEF TypeOK, StoreFault, store_untouched, Goto, Busy
<1>28. CASE Interrupt(r) \/ Kill(r)
  BY <1>28 DEF TypeOK, Interrupt, Kill, Running, store_untouched, Goto, Interrupted
<1> QED
  BY <1>1, <1>2, <1>3, <1>4, <1>5, <1>6, <1>7, <1>8, <1>9, <1>10, <1>11, <1>12, <1>13, <1>14,
     <1>15, <1>16, <1>17, <1>18, <1>19, <1>20, <1>21, <1>22, <1>23, <1>24, <1>25, <1>26, <1>27,
     <1>28 DEF RunStep

\* The other runs keep their place and their record.
LEMMA OtherRuns ==
  ASSUME TypeOK, NEW r \in Runs, NEW q \in Runs \ {r},
         Start(r) \/ RunStep(r) \/ StoreFault(r) \/ Interrupt(r) \/ Kill(r)
  PROVE  pc'[q] = pc[q] /\ rec'[q] = rec[q]
<1>1. pc'[q] = pc[q]
  BY OtherStep DEF Mine
<1>2. CASE Start(r) \/ EnterSession(r) \/ EnterBody(r) \/ MarkPaused(r) \/ CollectDiagnostics(r)
  BY <1>1, <1>2 DEF TypeOK, Start, EnterSession, EnterBody, MarkPaused, CollectDiagnostics, Raise
<1>3. CASE Preflight(r) \/ CheckNamespaceAnnotation(r) \/ CheckBudget(r) \/ PollControl(r)
  BY <1>1, <1>3 DEF TypeOK, Preflight, CheckNamespaceAnnotation, CheckBudget, PollControl, Abort, EndAs
<1>4. CASE \/ EnterBaseline(r) \/ BaselineOk(r) \/ EnterInject(r) \/ Injected(r) \/ EnterVerify(r)
           \/ EnterRegressed(r) \/ EnterDiagnose(r) \/ Diagnosed(r) \/ EnterPropose(r)
  BY <1>1, <1>4 DEF TypeOK, EnterBaseline, BaselineOk, EnterInject, Injected, EnterVerify,
     EnterRegressed, EnterDiagnose, Diagnosed, EnterPropose, SavePhase
<1>5. CASE Baseline(r) \/ Inject(r) \/ GuardCleanup(r) \/ Verify(r)
  BY <1>1, <1>5 DEF TypeOK, Baseline, Inject, GuardCleanup, Verify, Raise, Abort, Finish, EndAs
<1>6. CASE FinishPluginOnly(r) \/ Diagnose(r) \/ FixGate(r) \/ ProposeFix(r) \/ HandleException(r)
  BY <1>1, <1>6 DEF TypeOK, FinishPluginOnly, Diagnose, FixGate, ProposeFix, HandleException, Raise,
     Abort, Finish, EndAs
<1>7. CASE \/ SaveTerminal(r) \/ ClearControl(r) \/ ExitSession(r) \/ FinalSave(r)
           \/ StoreFault(r) \/ Interrupt(r) \/ Kill(r)
  BY <1>1, <1>7 DEF TypeOK, SaveTerminal, ClearControl, ExitSession, FinalSave, StoreFault,
     Interrupt, Kill
<1> QED
  BY <1>2, <1>3, <1>4, <1>5, <1>6, <1>7 DEF RunStep

\* Operators leave the runs alone; without --force they leave the row alone too.
LEMMA OperatorEffect ==
  ASSUME TypeOK, NEW o \in Ops, OpStep(o)
  PROVE  /\ UNCHANGED <<pc, then, rec, spent, session>>
         /\ row' = row \/ ("cli_force" \in Commands /\ row'.state = "ABORTED")
<1>1. UNCHANGED <<pc, then, rec, spent, session>>
  BY DEF OpStep, CliLoad, CliPause, CliResume, CliAbort, CliForceAbort, UiSignal, loop_untouched
<1>2. CASE CliForceAbort(o)
  <2>1. PICK why \in OperatorReasons :
          row' = [op[o].seen EXCEPT !.state = "ABORTED", !.reason = why]
    BY <1>2 DEF CliForceAbort, store_save
  <2>2. op[o].seen \in Record \cup {NoRow} /\ op[o].cmd \in Commands \cup {"none"}
    BY DEF TypeOK, OpState
  <2>3. row'.state = "ABORTED"
    BY <2>1, <2>2 DEF Record, NoRow
  <2>4. "cli_force" \in Commands
    BY <1>2, <2>2 DEF CliForceAbort
  <2> QED
    BY <1>1, <2>3, <2>4
<1>3. CASE ~CliForceAbort(o)
  BY <1>1, <1>3
  DEF OpStep, CliLoad, CliPause, CliResume, CliAbort, UiSignal, set_pause, request_abort,
      store_untouched
<1> QED
  BY <1>2, <1>3
-------------------------------------------------------------------------------
(***************************************************************************)
(* Any number of processes.                                                *)
(***************************************************************************)
\* A run that writes a live state owes a terminal one, and only stops owing it
\* by writing it.
LEMMA OwesUntilSaved ==
  ASSUME TypeOK, SettleInv, NEW r \in Runs, Effect(r)
  PROVE  /\ pc'[r] \in Ending => rec'[r].state \in Terminal
         /\ Owes(r)' \/ row'.state \in Terminal \/ (row' = row /\ ~Owes(r))
<1>0. pc[r] \in Ending => rec[r].state \in Terminal
  BY DEF SettleInv
<1>1. CASE Goes(r)
  <2>1. pc'[r] \notin {"idle"} \cup Saved \cup Ending
    BY <1>1 DEF TypeOK, ControlPoints, Goes, Inside, Between, Saved, Ending
  <2> QED
    BY <2>1 DEF Owes
<1>2. CASE Collects(r) \/ Trips(r) \/ SavesPause(r) \/ Begins(r) \/ Interrupted(r) \/ Busy(r)
  BY <1>2 DEF Collects, Trips, SavesPause, Begins, Interrupted, Busy, Saved, Ending, Owes
<1>3. CASE SavesPhase(r)
  BY <1>3 DEF SavesPhase, AfterSave, Saved, Ending, Owes
<1>4. CASE Ends(r)
  BY <1>4 DEF Ends, Saved, Ending, Owes
<1>5. CASE Copies(r)
  BY <1>0, <1>5 DEF Copies, Saved, Ending, Owes
<1>6. CASE Leaves(r)
  BY <1>0, <1>6 DEF Leaves, AfterClear, Saved, Ending, Owes
<1> QED
  BY <1>1, <1>2, <1>3, <1>4, <1>5, <1>6 DEF Effect

\* Every step of every actor keeps SettleInv.
LEMMA SettleStep == TypeOK /\ SettleInv /\ [Next]_vars => SettleInv'
<1> SUFFICES ASSUME TypeOK, SettleInv, [Next]_vars PROVE SettleInv'
  OBVIOUS
<1>1. ASSUME NEW r \in Runs,
             Start(r) \/ RunStep(r) \/ StoreFault(r) \/ Interrupt(r) \/ Kill(r)
      PROVE  SettleInv'
  <2>1. /\ pc'[r] \in Ending => rec'[r].state \in Terminal
        /\ Owes(r)' \/ row'.state \in Terminal \/ (row' = row /\ ~Owes(r))
    BY <1>1, RunEffect, OwesUntilSaved
  <2>2. \A q \in Runs \ {r} : pc'[q] = pc[q] /\ rec'[q] = rec[q]
    BY <1>1, OtherRuns
  <2>3. \A q \in Runs \ {r} : Owes(q) => Owes(q)'
    BY <2>2 DEF Owes
  <2> QED
    BY <2>1, <2>2, <2>3 DEF SettleInv
<1>2. ASSUME NEW o \in Ops, OpStep(o) PROVE SettleInv'
  <2>1. UNCHANGED <<pc, rec>> /\ (row' = row \/ row'.state \in Terminal)
    BY <1>2, OperatorEffect DEF Terminal
  <2> QED
    BY <2>1 DEF SettleInv, Owes
<1>3. CASE UNCHANGED vars
  BY <1>3 DEF vars, SettleInv, Owes
<1> QED
  BY <1>1, <1>2, <1>3 DEF Next

\* Once all the processes that share a row have returned it is terminal, for any
\* number of them, whatever operators, the store, Ctrl-C and kills do meanwhile.
THEOREM SettledRows == Spec => []SettledRowIsTerminal
<1>1. Init => SettleInv
  BY DEF Init, SettleInv, Ending
<1>2. SettleInv => SettledRowIsTerminal
  BY DEF SettleInv, SettledRowIsTerminal, Owes, Saved
<1> QED
  BY <1>1, <1>2, SettleStep, TypeCorrect, PTL DEF Spec
-------------------------------------------------------------------------------
(***************************************************************************)
(* One process.                                                            *)
(***************************************************************************)
\* A step of its own, an operator's, or none.
LEMMA OneWriterStep ==
  ASSUME OneWriter, TypeOK, [Next]_vars
  PROVE  \/ Effect(TheRun)
         \/ UNCHANGED <<pc, then, rec, spent, session, row>>
BY RunEffect, OperatorEffect DEF OneWriter, Next, vars

\* Every step keeps OutcomeInv of the one process.
LEMMA OutcomeStep ==
  ASSUME OneWriter, TypeOK, OutcomeInv(TheRun), [Next]_vars
  PROVE  OutcomeInv(TheRun)'
<1> DEFINE r == TheRun
<1>0. r \in Runs
  BY DEF OneWriter
<1> HIDE DEF r
<1> USE DEF OutcomeInv, Saved, Ending
<1>1. CASE Goes(r)
  <2>1. pc'[r] \notin Saved \cup Ending
    BY <1>0, <1>1 DEF TypeOK, ControlPoints, Goes, Inside, Between
  <2> QED
    BY <2>1 DEF r
<1>2. CASE Collects(r) \/ Trips(r) \/ SavesPause(r) \/ Begins(r) \/ Interrupted(r) \/ Busy(r)
  BY <1>2 DEF Collects, Trips, SavesPause, Begins, Interrupted, Busy, r
<1>3. CASE SavesPhase(r)
  BY <1>3 DEF SavesPhase, AfterSave, r
<1>4. CASE Ends(r)
  BY <1>4 DEF Ends, r
<1>5. CASE Copies(r)
  BY <1>5 DEF Copies, r
<1>6. CASE Leaves(r)
  BY <1>0, <1>6 DEF TypeOK, Leaves, AfterClear, r
<1>7. CASE UNCHANGED <<pc, then, rec, spent, session, row>>
  BY <1>7
<1> QED
  BY <1>1, <1>2, <1>3, <1>4, <1>5, <1>6, <1>7, OneWriterStep DEF Effect, r

\* When run() returns, the row holds its outcome: the record it has in memory,
\* terminal and with all it spent, whatever hooks, agents, SQLite and signals did.
THEOREM OutcomeReachesRow ==
  ASSUME OneWriter
  PROVE  Spec => []OutcomePersisted
<1>1. Init => OutcomeInv(TheRun)
  BY DEF Init, OutcomeInv, OneWriter, Ending, Saved
<1>2. OutcomeInv(TheRun) => OutcomePersisted
  BY DEF OneWriter, OutcomeInv, OutcomePersisted, Ending, Saved
<1>3. TypeOK /\ OutcomeInv(TheRun) /\ [Next]_vars => OutcomeInv(TheRun)'
  BY OutcomeStep
<1> QED
  BY <1>1, <1>2, <1>3, TypeCorrect, PTL DEF Spec
-------------------------------------------------------------------------------
(***************************************************************************)
(* One process and a store that does not fail.                             *)
(***************************************************************************)
\* SQLite never raises.
StoreHealthy == MaxStoreFaults = 0

\* None of the states that a place shows is terminal.
LEMMA Shown ==
  /\ DOMAIN ShownAt = {"preflight", "enter", "body", "annot", "baseline_agents", "baseline_ok",
                       "injecting", "guard_cleanup", "injected", "verifying", "diagnostics",
                       "finish", "diagnose", "diagnosing", "diagnosed", "proposing"}
  /\ \A l \in DOMAIN ShownAt : ShownAt[l] \notin Terminal \cup {"ABSENT", "PAUSED"}
  /\ \A c \in ControlPoints : PausedAfter[c] \notin Terminal \cup {"ABSENT", "PAUSED"}
  /\ \A l \in SavePoints : PhaseState[l] \notin Terminal \cup {"ABSENT", "PAUSED"}
<1>1. DOMAIN ShownAt = {"preflight", "enter", "body", "annot", "baseline_agents", "baseline_ok",
                       "injecting", "guard_cleanup", "injected", "verifying", "diagnostics",
                       "finish", "diagnose", "diagnosing", "diagnosed", "proposing"}
  BY DEF ShownAt
<1>2. \A l \in DOMAIN ShownAt : ShownAt[l] \notin Terminal \cup {"ABSENT", "PAUSED"}
  BY <1>1 DEF ShownAt, Terminal
<1>3. \A c \in ControlPoints : PausedAfter[c] \notin Terminal \cup {"ABSENT", "PAUSED"}
  BY DEF PausedAfter, ControlPoints, Terminal
<1>4. \A l \in SavePoints : PhaseState[l] \notin Terminal \cup {"ABSENT", "PAUSED"}
  BY LabelMembers DEF PhaseState, Terminal
<1> QED
  BY <1>1, <1>2, <1>3, <1>4

\* Before the terminal save the row is live, in every place but one.
LEMMA LiveBefore ==
  ASSUME TypeOK, NEW r \in Runs, LifeInv(r),
         pc[r] \notin {"idle", "final_raise", "crashed"} \cup Saved
  PROVE  /\ row.state \notin Terminal \cup {"ABSENT"}
         /\ RowPhase(r) \notin Terminal \cup {"ABSENT", "PAUSED"}
<1>1. pc[r] \in Label /\ then[r] \in ControlPoints
  BY DEF TypeOK
<1>2. row.state \notin Terminal \cup {"ABSENT"}
  <2>1. CASE pc[r] \in DOMAIN ShownAt
    BY <2>1, Shown DEF LifeInv
  <2>2. CASE pc[r] \in {"budget", "poll", "mark_paused", "sleeping", "unwind", "save_terminal"}
    BY <1>1, <2>2, Shown DEF LifeInv, Terminal
  <2>3. CASE pc[r] \in ControlPoints \cup {"propose"}
    BY <1>1, <2>3, Shown DEF LifeInv, RowPhase, Terminal
  <2> QED
    BY <1>1, <2>1, <2>2, <2>3, Shown, LabelMembers
    DEF Label, AgentCalls, Stopped, Saved, ControlPoints
<1>3. RowPhase(r) \notin Terminal \cup {"ABSENT", "PAUSED"}
  BY <1>1, <1>2, Shown DEF RowPhase
<1> QED
  BY <1>2, <1>3

\* A run arrives at a place that shows a state.
LEMMA AtShown ==
  ASSUME NEW r \in Runs, pc'[r] \in DOMAIN ShownAt, row'.state = ShownAt[pc'[r]], Same(r)',
         pc'[r] = "annot" => then'[r] = "baseline"
  PROVE  LifeInv(r)'
<1>1. pc'[r] \notin {"idle", "budget", "poll", "mark_paused", "sleeping", "propose", "unwind",
                     "save_terminal", "final_raise", "crashed"} \cup ControlPoints \cup Saved
  BY Shown DEF ControlPoints, Saved
<1> QED
  BY <1>1 DEF LifeInv

\* Where a run is says what the row shows, and the row follows the record.
LEMMA LifeStep ==
  ASSUME TypeOK, NEW r \in Runs, LifeInv(r), Effect(r), ~Busy(r)
  PROVE  LifeInv(r)'
<1>0. then[r] \in ControlPoints /\ pc[r] \in Label /\ rec[r] \in Record /\ session[r] \in {"none", "open", "closed"}
  BY DEF TypeOK
<1>1. CASE Goes(r) /\ <<pc[r], pc'[r]>> \in Inside
  <2>1. /\ pc[r] \in DOMAIN ShownAt /\ pc'[r] \in DOMAIN ShownAt /\ ShownAt[pc[r]] = ShownAt[pc'[r]]
        /\ pc[r] \notin {"guard_cleanup", "idle", "save_terminal", "unwind", "final_raise", "crashed"} \cup Saved
        /\ pc'[r] # "annot"
    BY <1>1, Shown DEF Inside, ShownAt, Saved
  <2>2. row'.state = ShownAt[pc'[r]] /\ Same(r)'
    BY <1>1, <2>1 DEF LifeInv, Same, Goes
  <2> QED
    BY <2>1, <2>2, AtShown
<1>2. CASE Goes(r) /\ <<pc[r], pc'[r]>> \in Between
  <2>0. pc[r] \in {"annot", "budget", "poll", "fix"}
    BY <1>2 DEF Between
  <2>1. Same(r) /\ rec[r].state = row.state
    BY <2>0 DEF LifeInv, Saved, Same
  <2>2. row' = row /\ then'[r] = then[r] /\ Same(r)'
    BY <1>2, <2>1 DEF Goes, Same
  <2>3. CASE pc[r] = "annot" /\ pc'[r] = "poll"
    <3>1. row.state = "INITIALIZING" /\ then[r] = "baseline"
      BY <2>3, Shown DEF LifeInv, ShownAt
    <3> QED
      BY <2>2, <2>3, <3>1, Shown DEF LifeInv, PausedAfter, Saved, ControlPoints
  <2>4. CASE pc[r] = "budget" /\ pc'[r] = "poll"
    BY <2>2, <2>4, Shown DEF LifeInv, Saved, ControlPoints
  <2>5. CASE pc[r] = "poll" /\ pc'[r] = "mark_paused"
    BY <2>2, <2>5, Shown DEF LifeInv, Saved, ControlPoints
  <2>6. CASE pc[r] = "fix" /\ pc'[r] = "propose"
    <3>1. RowPhase(r) = "DIAGNOSED" /\ RowPhase(r)' = RowPhase(r)
      BY <2>2, <2>6 DEF LifeInv, ControlPoints, PausedAfter, RowPhase
    <3> QED
      BY <2>2, <2>6, <3>1, Shown DEF LifeInv, Saved, ControlPoints
  <2> QED
    BY <1>2, <2>3, <2>4, <2>5, <2>6 DEF Between
<1>3. CASE Goes(r) /\ pc[r] \in Raising /\ pc'[r] = "unwind"
  <2>1. pc[r] \in DOMAIN ShownAt /\ Same(r)
    BY <1>3, Shown DEF Raising, LifeInv, Saved
  <2>2. row.state \notin Terminal \cup {"ABSENT"}
    BY <2>1, Shown DEF LifeInv
  <2>3. row' = row /\ Same(r)'
    BY <1>3, <2>1 DEF Goes, Same
  <2> QED
    BY <1>3, <2>2, <2>3, Shown DEF LifeInv, Saved, ControlPoints
<1>4. CASE Goes(r) /\ pc[r] \in {"poll", "sleeping"} /\ pc'[r] = then[r]
  <2>1. rec[r].state = row.state /\ row.state \in {"PAUSED", PausedAfter[then[r]]}
    BY <1>4 DEF LifeInv, Same, Saved
  <2>2. row' = row /\ then'[r] = then[r] /\ Same(r)' /\ pc'[r] \in ControlPoints
    BY <1>0, <1>4, <2>1 DEF Goes, Same
  <2>3. RowPhase(r)' = PausedAfter[then[r]]
    BY <2>1, <2>2 DEF RowPhase
  <2> QED
    BY <1>4, <2>2, <2>3, Shown DEF LifeInv, Saved, ControlPoints
<1>5. CASE Collects(r)
  <2>1. row.state = "VERIFY" /\ rec[r].state = row.state
    BY <1>5, Shown DEF Collects, LifeInv, ShownAt, Same, Saved
  <2>2. row' = row /\ Same(r)' /\ row'.state = PausedAfter["regressed"]
    BY <1>5, <2>1 DEF Collects, Same, PausedAfter
  <2> QED
    BY <1>5, <2>1, <2>2, Shown DEF Collects, LifeInv, Saved, ControlPoints, Terminal
<1>6. CASE Trips(r)
  <2>1. row.state = "INJECT" /\ Same(r)' /\ ShownAt["guard_cleanup"] = "INJECT"
    BY <1>6, Shown DEF Trips, LifeInv, ShownAt, Same
  <2> QED
    BY <1>6, <2>1, Shown, AtShown DEF Trips
<1>7. CASE Ends(r)
  <2>1. pc[r] \notin {"idle", "final_raise", "crashed"} \cup Saved
    BY <1>7 DEF Ends, AbortsFrom, RecordsFrom, Saved
  <2>2. row.state \notin Terminal \cup {"ABSENT"}
    BY <2>1, LiveBefore
  <2>3. pc[r] \in RecordsFrom => RowPhase(r) \in {"VERIFY", "REGRESSED", "DIAGNOSED", "PROPOSE_FIX"}
    <3>1. pc[r] = "fix" => RowPhase(r) = "DIAGNOSED"
      BY DEF LifeInv, ControlPoints, PausedAfter
    <3>2. pc[r] \in {"verifying", "finish", "proposing"} => row.state \in {"VERIFY", "REGRESSED", "PROPOSE_FIX"}
      BY Shown DEF LifeInv, ShownAt
    <3> QED
      BY <3>1, <3>2 DEF RecordsFrom, RowPhase
  <2>4. row' = row /\ RowPhase(r)' = RowPhase(r)
    BY <1>7 DEF Ends, RowPhase
  <2> QED
    BY <1>7, <2>2, <2>3, <2>4, Shown DEF Ends, LifeInv, Saved, ControlPoints
<1>8. CASE SavesPhase(r)
  <2>1. row'.state = PhaseState[pc[r]] /\ Same(r)'
    BY <1>8 DEF SavesPhase, Same
  <2>2. CASE <<pc[r], pc'[r]>> \in AfterSave
    <3>1. pc'[r] \in DOMAIN ShownAt /\ PhaseState[pc[r]] = ShownAt[pc'[r]] /\ pc'[r] # "annot"
      BY <2>2, Shown DEF AfterSave, ShownAt, PhaseState
    <3> QED
      BY <2>1, <3>1, AtShown
  <2>3. CASE /\ pc'[r] \in {"budget", "poll"} /\ row'.state = PausedAfter[then'[r]]
    BY <2>1, <2>3, Shown DEF LifeInv, Saved, ControlPoints
  <2>4. ~(<<pc[r], pc'[r]>> \in AfterSave) =>
           pc'[r] \in {"budget", "poll"} /\ PhaseState[pc[r]] = PausedAfter[then'[r]]
    BY <1>8 DEF SavesPhase, PhaseState, PausedAfter
  <2> QED
    BY <2>1, <2>2, <2>3, <2>4
<1>9. CASE SavesPause(r)
  BY <1>9, Shown DEF SavesPause, LifeInv, Same, Saved, ControlPoints
<1>10. CASE Copies(r) /\ pc[r] = "body"
  <2>1. row'.state = "INITIALIZING" /\ rec'[r].state = "INITIALIZING" /\ then'[r] = "baseline"
    BY <1>10, Shown DEF Copies, LifeInv, ShownAt, Same, Saved
  <2>2. Same(r)' /\ ShownAt["annot"] = "INITIALIZING" /\ PausedAfter["baseline"] = "INITIALIZING"
    BY <2>1 DEF Same, ShownAt, PausedAfter
  <2>3. CASE pc'[r] = "annot"
    BY <2>1, <2>2, <2>3, AtShown, Shown
  <2>4. CASE pc'[r] = "poll"
    BY <2>1, <2>2, <2>4, Shown DEF LifeInv, Saved, ControlPoints
  <2> QED
    BY <1>10, <2>3, <2>4 DEF Copies
<1>11. CASE Copies(r) /\ pc[r] # "body"
  BY <1>11, Shown DEF Copies, LifeInv, Saved, ControlPoints
<1>12. CASE Leaves(r)
  <2>1. pc'[r] \in Saved /\ row' = rec'[r]
    BY <1>12 DEF Leaves, AfterClear, LifeInv, Saved
  <2> QED
    BY <2>1, Shown DEF LifeInv, Saved, ControlPoints
<1>13. CASE Begins(r)
  BY <1>13, AtShown, Shown DEF Begins, NewRecord, ShownAt, Same
<1>14. CASE Interrupted(r) /\ pc'[r] = "crashed"
  BY <1>14, Shown DEF LifeInv, Saved, ControlPoints
<1>15. CASE Interrupted(r) /\ pc'[r] = "final_raise"
  <2>1. row' = row /\ rec'[r] = rec[r]
    BY <1>15 DEF Interrupted
  <2>2. CASE pc[r] \in Saved
    BY <1>15, <2>1, <2>2, Shown DEF LifeInv, Saved, ControlPoints
  <2>3. CASE pc[r] \notin Saved
    <3>1. pc[r] \notin {"idle", "save_terminal", "final_raise", "crashed"} \cup Saved
      BY <1>15, <2>3 DEF Interrupted, AgentCalls
    <3>2. row.state \notin Terminal \cup {"ABSENT"} /\ Same(r)
      BY <3>1, LiveBefore DEF LifeInv
    <3>3. Same(r)'
      BY <1>15, <2>1, <3>2 DEF Same
    <3> QED
      BY <1>15, <2>1, <3>2, <3>3, Shown DEF LifeInv, Saved, ControlPoints
  <2> QED
    BY <2>2, <2>3
<1> QED
  BY <1>1, <1>2, <1>3, <1>4, <1>5, <1>6, <1>7, <1>8, <1>9, <1>10, <1>11, <1>12, <1>13, <1>14, <1>15
  DEF Effect, Goes, Interrupted

\* The phase that the refinement mapping gives.
LEMMA MappedPhase ==
  /\ (IF row.state = "PAUSED" THEN PausedAfter[then[TheRun]] ELSE row.state) = RowPhase(TheRun)
  /\ (IF row'.state = "PAUSED" THEN PausedAfter[then'[TheRun]] ELSE row'.state) = RowPhase(TheRun)'
BY DEF RowPhase

\* A step shows what ExperimentLifecycle allows, or nothing new.
LEMMA LifecycleStep ==
  ASSUME TypeOK, NEW r \in Runs, r = TheRun, LifeInv(r), Effect(r), ~Busy(r)
  PROVE  \/ row'.state = row.state /\ RowPhase(r)' = RowPhase(r)
         \/ Lifecycle!Next
<1>0. then[r] \in ControlPoints /\ rec[r] \in Record
  BY DEF TypeOK
<1>1. CASE row' = row /\ then'[r] = then[r]
  BY <1>1 DEF RowPhase
<1>2. CASE Collects(r)
  <2>1. row.state = "VERIFY" /\ row' = row
    BY <1>2, Shown DEF Collects, LifeInv, ShownAt
  <2> QED
    BY <2>1 DEF RowPhase
<1>3. CASE SavesPhase(r)
  <2>1. row'.state = PhaseState[pc[r]] /\ pc[r] \in SavePoints /\ RowPhase(r)' = row'.state
    BY <1>3, Shown DEF SavesPhase, RowPhase
  <2>2. PhaseState[pc[r]] \in Lifecycle!Edges[RowPhase(r)]
    <3>1. pc[r] \in ControlPoints => RowPhase(r) = PausedAfter[pc[r]]
      BY DEF LifeInv
    <3>2. pc[r] \in DOMAIN ShownAt => RowPhase(r) = ShownAt[pc[r]]
      BY Shown DEF LifeInv, RowPhase
    <3>3. pc[r] = "propose" => RowPhase(r) = "DIAGNOSED"
      BY DEF LifeInv
    <3>4. CASE pc[r] \in {"baseline", "inject", "verify", "regressed"}
      BY <3>1, <3>4 DEF ControlPoints, PausedAfter, PhaseState, Lifecycle!Edges
    <3>5. CASE pc[r] \in {"baseline_ok", "injected", "diagnose", "diagnosed"}
      BY <3>2, <3>5, Shown DEF ShownAt, PhaseState, Lifecycle!Edges
    <3>6. CASE pc[r] = "propose"
      BY <3>3, <3>6 DEF PhaseState, Lifecycle!Edges
    <3> QED
      BY <2>1, <3>4, <3>5, <3>6, LabelMembers
  <2> QED
    BY <2>1, <2>2, MappedPhase DEF Lifecycle!Next, Lifecycle!Advance
<1>4. CASE SavesPause(r)
  <2>1. row.state = PausedAfter[then[r]] /\ row'.state = "PAUSED" /\ then'[r] = then[r]
    BY <1>4 DEF SavesPause, LifeInv
  <2>2. row.state \in {"INITIALIZING", "BASELINE_OK", "INJECTED", "VERIFY", "DIAGNOSED"}
    BY <1>0, <2>1 DEF ControlPoints, PausedAfter
  <2>3. RowPhase(r) = row.state /\ RowPhase(r)' = row.state
    BY <2>1, <2>2 DEF RowPhase
  <2> QED
    BY <2>1, <2>2, <2>3, MappedPhase DEF Lifecycle!Next, Lifecycle!Pause, Lifecycle!Pausable
<1>5. CASE Copies(r) /\ pc[r] = "body"
  <2>1. row.state = "INITIALIZING" /\ row'.state = "INITIALIZING"
    BY <1>5, Shown DEF Copies, LifeInv, ShownAt, Same, Saved
  <2> QED
    BY <2>1 DEF RowPhase
<1>6. CASE Copies(r) /\ pc[r] = "save_terminal"
  <2>1. /\ row'.state = rec[r].state /\ rec[r].state \in Terminal /\ RowPhase(r)' = row'.state
        /\ RowPhase(r) \notin Terminal \cup {"ABSENT"}
        /\ rec[r].state = "RECORDED" =>
             RowPhase(r) \in {"VERIFY", "REGRESSED", "DIAGNOSED", "PROPOSE_FIX"}
    <3>1. row'.state = rec[r].state /\ rec[r].state \in Terminal
      BY <1>6 DEF Copies, LifeInv
    <3>2. RowPhase(r)' = row'.state
      BY <3>1 DEF RowPhase, Terminal
    <3>3. RowPhase(r) \notin Terminal \cup {"ABSENT"}
      BY <1>6, LiveBefore DEF Saved
    <3> QED
      BY <1>6, <3>1, <3>2, <3>3 DEF LifeInv
  <2>2. CASE rec[r].state = "RECORDED"
    <3>1. row'.state \in Lifecycle!Edges[RowPhase(r)]
      BY <2>1, <2>2 DEF Lifecycle!Edges
    <3> QED
      BY <2>1, <3>1, MappedPhase DEF Lifecycle!Next, Lifecycle!Advance
  <2>3. CASE rec[r].state = "ABORTED"
    BY <2>1, <2>3, MappedPhase DEF Lifecycle!Next, Lifecycle!Abort, Terminal
  <2> QED
    BY <2>1, <2>2, <2>3 DEF Terminal
<1>7. CASE Copies(r) /\ pc[r] \in {"final", "final_raise"}
  <2>1. row' = rec[r] /\ then'[r] = then[r]
    BY <1>7 DEF Copies
  <2>2. CASE row = rec[r] \/ rec[r].state = row.state
    BY <2>1, <2>2 DEF RowPhase
  <2>3. CASE row.state = "INJECT" /\ rec[r].state = "INJECT_FAILED"
    <3>1. RowPhase(r) = "INJECT" /\ RowPhase(r)' = "INJECT_FAILED" /\ row'.state = "INJECT_FAILED"
      BY <2>1, <2>3 DEF RowPhase
    <3>2. "INJECT_FAILED" \in Lifecycle!Edges["INJECT"]
      BY DEF Lifecycle!Edges
    <3> QED
      BY <3>1, <3>2, MappedPhase DEF Lifecycle!Next, Lifecycle!Advance
  <2> QED
    BY <1>7, <2>2, <2>3 DEF LifeInv, Same, Saved
<1>8. CASE Begins(r)
  <2>1. row.state = "ABSENT" /\ row'.state = "INITIALIZING"
    BY <1>8 DEF Begins, LifeInv, NoRow, NewRecord
  <2>2. RowPhase(r) = "ABSENT" /\ RowPhase(r)' = "INITIALIZING"
    BY <2>1 DEF RowPhase
  <2>3. "INITIALIZING" \in Lifecycle!Edges["ABSENT"]
    BY DEF Lifecycle!Edges
  <2> QED
    BY <2>1, <2>2, <2>3, MappedPhase DEF Lifecycle!Next, Lifecycle!Advance
<1>9. CASE Goes(r) \/ Trips(r) \/ Ends(r) \/ Leaves(r) \/ Interrupted(r)
  BY <1>1, <1>9 DEF Goes, Trips, Ends, Leaves, Interrupted
<1>10. CASE Copies(r)
  BY <1>5, <1>6, <1>7, <1>10 DEF Copies
<1> QED
  BY <1>2, <1>3, <1>4, <1>8, <1>9, <1>10 DEF Effect

\* A terminal row is never written again, but with itself.
LEMMA FinalStep ==
  ASSUME TypeOK, NEW r \in Runs, LifeInv(r), Effect(r), ~Busy(r), row.state \in Terminal
  PROVE  row' = row
<1>1. pc[r] \in {"idle", "final_raise", "crashed"} \cup Saved /\ pc[r] # "idle"
  BY LiveBefore DEF LifeInv, NoRow, Terminal
<1>2. CASE Copies(r)
  BY <1>1, <1>2 DEF Copies, LifeInv, Saved
<1>3. CASE ~Copies(r)
  BY <1>1, <1>3, LabelMembers DEF Effect, Goes, Collects, Trips, Ends, SavesPhase, SavesPause, Leaves,
     Begins, Interrupted, Saved
<1> QED
  BY <1>2, <1>3

\* The life invariant of the one process.
LEMMA LifeInvariant ==
  ASSUME OneWriter, StoreHealthy
  PROVE  Spec => []LifeInv(TheRun)
<1>1. Init => LifeInv(TheRun)
  BY Shown DEF Init, LifeInv, OneWriter, Saved, ControlPoints
<1>2. TypeOK /\ LifeInv(TheRun) /\ [Next]_vars => LifeInv(TheRun)'
  <2> SUFFICES ASSUME TypeOK, LifeInv(TheRun), [Next]_vars PROVE LifeInv(TheRun)'
    OBVIOUS
  <2>1. TheRun \in Runs /\ ~Busy(TheRun)
    BY DEF OneWriter, StoreHealthy, Busy, TypeOK
  <2>2. CASE Effect(TheRun)
    BY <2>1, <2>2, LifeStep
  <2>3. CASE UNCHANGED <<pc, then, rec, spent, session, row>>
    BY <2>3 DEF LifeInv, RowPhase, Same
  <2> QED
    BY <2>2, <2>3, OneWriterStep
<1> QED
  BY <1>1, <1>2, TypeCorrect, PTL DEF Spec

\* The outcome of an experiment is never rewritten by the process that runs it,
\* also when it is interrupted after the terminal save.
THEOREM OutcomeIsFinal ==
  ASSUME OneWriter, StoreHealthy
  PROVE  Spec => TerminalIsFinal
<1>1. TypeOK /\ LifeInv(TheRun) /\ [Next]_vars => [row.state \in Terminal => row' = row]_row
  <2> SUFFICES ASSUME TypeOK, LifeInv(TheRun), [Next]_vars, row.state \in Terminal
               PROVE  row' = row
    OBVIOUS
  <2>1. TheRun \in Runs /\ ~Busy(TheRun)
    BY DEF OneWriter, StoreHealthy, Busy, TypeOK
  <2> QED
    BY <2>1, FinalStep, OneWriterStep
<1> QED
  BY <1>1, LifeInvariant, TypeCorrect, PTL DEF Spec, TerminalIsFinal

\* The states that the row shows are a behaviour of ExperimentLifecycle, the state
\* machine that the architecture document draws: initial states map to initial
\* states and every step to a step or a stutter.
THEOREM LoopImplementsLifecycle ==
  ASSUME OneWriter, StoreHealthy
  PROVE  Spec => ImplementsLifecycle
<1>1. Init => Lifecycle!Init
  BY DEF Init, NoRow, Lifecycle!Init
<1>2. TypeOK /\ LifeInv(TheRun) /\ [Next]_vars =>
        [Lifecycle!Next]_<<row.state, IF row.state = "PAUSED" THEN PausedAfter[then[TheRun]] ELSE row.state>>
  <2> SUFFICES ASSUME TypeOK, LifeInv(TheRun), [Next]_vars
               PROVE  \/ Lifecycle!Next
                      \/ row'.state = row.state /\ RowPhase(TheRun)' = RowPhase(TheRun)
    BY MappedPhase
  <2>1. TheRun \in Runs /\ ~Busy(TheRun)
    BY DEF OneWriter, StoreHealthy, Busy, TypeOK
  <2>2. CASE Effect(TheRun)
    BY <2>1, <2>2, LifecycleStep
  <2>3. CASE UNCHANGED <<pc, then, rec, spent, session, row>>
    BY <2>3 DEF RowPhase
  <2> QED
    BY <2>2, <2>3, OneWriterStep
<1> QED
  BY <1>1, <1>2, LifeInvariant, TypeCorrect, PTL DEF Spec, ImplementsLifecycle, Lifecycle!Spec
===============================================================================
