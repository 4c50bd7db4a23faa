---------------------------- MODULE ExperimentLoop ----------------------------
(***************************************************************************)
(* The orchestrator's experiment loop (orchestrator/loop.py), the row it   *)
(* keeps in SQLite (orchestrator/store.py), the safety and budget gates    *)
(* and the operators who signal a running experiment through the `chaos`   *)
(* command line or the UI server.                                          *)
(*                                                                         *)
(* One experiment id, hence one row.  Runs are the `chaos run` processes   *)
(* started for it: usually one, but nothing in the code stops a second     *)
(* one, at the same time or later.  A step of a run goes from one store    *)
(* transaction, or one await, to the next: everything in between is        *)
(* invisible to the other processes.                                       *)
(***************************************************************************)
EXTENDS Naturals, Sequences

CONSTANTS
  Runs,             \* orchestrator processes for the one experiment id
  Ops,              \* operator commands (each is one CLI process or HTTP call)
  Commands,         \* the kinds of command the operators use
  OperatorReasons,  \* abort reasons an operator may give
  Plans,            \* the plans a run may be given, see PlanFields
  Lower,            \* str.lower() on the words of cluster contexts and constraints
  HardCap,          \* TokenBudget.hard_cap_usd
  MaxCost,          \* bound: the most one agent call spends
  MaxStoreFaults    \* bound: how often SQLite may raise SQLITE_BUSY

(***************************************************************************)
(* What the gates read of an ExperimentPlan: the words of the cluster      *)
(* context and the forbidden ones, each as it is spelled, the faults, the  *)
(* declared constraints, and what the cluster says of the namespace's      *)
(* annotation.                                                             *)
(***************************************************************************)
Fault == [duration : Nat]

PlanFields == {"context", "forbidden", "faults", "allow_multi_fault", "max_duration",
               "require_annotation", "annotation"}

AbortReason == {"baseline_unhealthy", "slo_breach", "budget_exceeded", "user_kill",
                "blast_radius_violation", "cluster_denied", "approval_rejected",
                "agent_failure"}

NoReason == "none"

AllCommands == {"cli_pause", "cli_resume", "cli_abort", "cli_force",
                "ui_pause", "ui_resume", "ui_abort"}

ASSUME ConstantsAssumption ==
  /\ Commands \subseteq AllCommands
  /\ OperatorReasons \subseteq AbortReason
  /\ HardCap \in Nat \ {0}
  /\ MaxCost \in Nat
  /\ MaxStoreFaults \in Nat

ASSUME LowerAssumption ==
  \A w \in DOMAIN Lower : Lower[w] \in DOMAIN Lower /\ Lower[Lower[w]] = Lower[w]

ASSUME PlansAssumption ==
  \A p \in Plans :
    /\ DOMAIN p = PlanFields
    /\ p.context \cup p.forbidden \subseteq DOMAIN Lower
    /\ p.faults \in Seq(Fault)
    /\ p.max_duration \in Nat
    /\ p.allow_multi_fault \in BOOLEAN
    /\ p.require_annotation \in BOOLEAN
    /\ p.annotation \in {"unavailable", "absent", "true"}

(***************************************************************************)
(* The states of an experiment, and the command line's _LIVE_STATES.       *)
(***************************************************************************)
ExperimentState ==
  {"INITIALIZING", "BASELINE", "BASELINE_OK", "BASELINE_FAIL", "INJECT", "INJECTED",
   "INJECT_FAILED", "VERIFY", "STEADY", "REGRESSED", "DIAGNOSE", "DIAGNOSED",
   "PROPOSE_FIX", "FIX_PROPOSED", "FIX_DECLINED", "PAUSED", "ABORTED", "RECORDED"}

\* Mutant: paused experiments are forgotten.
LIVE_STATES_without_paused ==
  {"INITIALIZING", "BASELINE", "BASELINE_OK", "BASELINE_FAIL", "INJECT", "INJECTED",
   "INJECT_FAILED", "VERIFY", "REGRESSED", "DIAGNOSE", "DIAGNOSED", "PROPOSE_FIX"}

LIVE_STATES ==
  {"INITIALIZING", "BASELINE", "BASELINE_OK", "BASELINE_FAIL", "INJECT", "INJECTED",
   "INJECT_FAILED", "VERIFY", "REGRESSED", "DIAGNOSE", "DIAGNOSED", "PROPOSE_FIX",
   "PAUSED"}

Terminal == {"ABORTED", "RECORDED"}

Record == [state : ExperimentState, reason : AbortReason \cup {NoReason}, spend : Nat]

\* ExperimentRecord(...) as run() builds it.
NewRecord == [state |-> "INITIALIZING", reason |-> NoReason, spend |-> 0]

VARIABLES
  pc,        \* pc[r]: where run r is
  then,      \* then[r]: where the next _check_control of r continues
  plan,      \* plan[r]: the plan r executes
  rec,       \* rec[r]: r's in-memory ExperimentRecord
  facts,     \* facts[r]: what r's agents reported
  spent,     \* spent[r]: the sum over r's harness.invocations
  session,   \* session[r]: the plugin session of r
  row,       \* the persisted record, NoRow before the first save
  ctl,       \* the control columns of the row
  op,        \* op[o]: progress of the operator command o
  faults     \* SQLITE_BUSY errors so far

vars == <<pc, then, plan, rec, facts, spent, session, row, ctl, op, faults>>

NoRow == [state |-> "ABSENT", reason |-> NoReason, spend |-> 0]
NoSignals == [pause |-> FALSE, abort |-> NoReason]

(***************************************************************************)
(* The places where a run assigns record.state and saves, with the state.  *)
(***************************************************************************)
PhaseState ==
  [baseline    |-> "BASELINE",   baseline_ok |-> "BASELINE_OK",
   inject      |-> "INJECT",     injected    |-> "INJECTED",
   verify      |-> "VERIFY",     regressed   |-> "REGRESSED",
   diagnose    |-> "DIAGNOSE",   diagnosed   |-> "DIAGNOSED",
   propose     |-> "PROPOSE_FIX"]

SavePoints == DOMAIN PhaseState
ControlPoints == {"baseline", "inject", "verify", "regressed", "fix"}
AgentCalls == {"baseline_agents", "injecting", "guard_cleanup", "verifying",
               "diagnostics", "diagnosing", "proposing"}
Stopped == {"idle", "done", "crashed"}
Label == SavePoints \cup AgentCalls \cup Stopped \cup
         {"preflight", "enter", "body", "annot", "budget", "poll", "mark_paused", "sleeping",
          "finish", "fix", "save_terminal", "clear", "exit", "unwind", "final",
          "final_raise"}

Running(r) == pc[r] \notin Stopped

Init ==
  /\ pc = [r \in Runs |-> "idle"]
  /\ then = [r \in Runs |-> "baseline"]
  /\ plan \in [Runs -> Plans]
  /\ rec = [r \in Runs |-> NewRecord]
  /\ facts = [r \in Runs |-> [baseline |-> "unknown", verdict |-> "none", active |-> FALSE]]
  /\ spent = [r \in Runs |-> 0]
  /\ session = [r \in Runs |-> "none"]
  /\ row = NoRow
  /\ ctl = NoSignals
  /\ op = [o \in Ops |-> [at |-> "start", cmd |-> "none", seen |-> NoRow]]
  /\ faults = 0
------------------------------------------------------------------------------
(***************************************************************************)
(* ExperimentStore.  save() upserts every column but the control ones.     *)
(***************************************************************************)
store_save(rd) == row' = rd /\ ctl' = ctl

set_pause(paused) == ctl' = [ctl EXCEPT !.pause = paused] /\ row' = row
request_abort(why) == ctl' = [ctl EXCEPT !.abort = why] /\ row' = row
clear_control == ctl' = NoSignals /\ row' = row
store_untouched == UNCHANGED <<row, ctl>>

(***************************************************************************)
(* The gates of orchestrator/safety.py: TRUE lets the run pass.            *)
(***************************************************************************)
\* The context is lower-cased, the forbidden words are compared as the plan
\* spells them: one with a capital in it matches nothing.
check_cluster_allowed(p) == {Lower[w] : w \in p.context} \cap p.forbidden = {}

\* Mutant: the duration is compared with the wrong bound.
check_blast_radius_off_by_one(p) ==
  /\ Len(p.faults) > 1 => p.allow_multi_fault
  /\ \A i \in DOMAIN p.faults : p.faults[i].duration <= p.max_duration + 1

check_blast_radius(p) ==
  /\ Len(p.faults) > 1 => p.allow_multi_fault
  /\ \A i \in DOMAIN p.faults : p.faults[i].duration <= p.max_duration

\* Fails closed: an unreachable cluster is not an annotated one.
check_namespace_annotation(p) == p.require_annotation => p.annotation = "true"

check_baseline_healthy(steady, crit) == steady /\ ~crit

(***************************************************************************)
(* Shared fragments of the loop.                                           *)
(***************************************************************************)
Goto(r, l) == pc' = [pc EXCEPT ![r] = l]

\* Mutant: the spend of the last agent calls is not refreshed.
EndAs_stale_spend(r, s, why) ==
  /\ rec' = [rec EXCEPT ![r] = [state |-> s, reason |-> why, spend |-> rec[r].spend]]
  /\ Goto(r, "save_terminal")

\* _abort and _finish up to their save: the record becomes terminal in memory
\* and its spend is what the harness has counted so far.
EndAs(r, s, why) ==
  /\ rec' = [rec EXCEPT ![r] = [state |-> s, reason |-> why, spend |-> spent'[r]]]
  /\ Goto(r, "save_terminal")

Abort(r, why) == EndAs(r, "ABORTED", why)
Finish(r) == EndAs(r, "RECORDED", rec[r].reason)

\* An agent call spends through the harness, whether it returns or raises.
Charge(r, limit) == \E c \in 0 .. limit : spent' = [spent EXCEPT ![r] = @ + c]

\* An exception leaves _run_body.
Raise(r) == Goto(r, "unwind") /\ rec' = rec

\* `record.state = ...; self.store.save(record)`, then continue at l.
SavePhase(r, l) ==
  /\ rec' = [rec EXCEPT ![r].state = PhaseState[pc[r]]]
  /\ store_save(rec'[r])
  /\ Goto(r, l)
------------------------------------------------------------------------------
(***************************************************************************)
(* run(): the record is saved, the plan-only gates come before the plugin  *)
(* session opens, and everything else happens inside the session.          *)
(***************************************************************************)
Start(r) ==
  /\ pc[r] = "idle"
  /\ rec' = [rec EXCEPT ![r] = NewRecord]
  /\ store_save(NewRecord)
  /\ Goto(r, "preflight")
  /\ UNCHANGED <<then, plan, facts, spent, session, op, faults>>

Preflight(r) ==
  /\ pc[r] = "preflight"
  /\ \/ /\ ~check_cluster_allowed(plan[r])
        /\ UNCHANGED <<session, spent>>
        /\ Abort(r, "cluster_denied")
     \/ /\ check_cluster_allowed(plan[r]) /\ ~check_blast_radius(plan[r])
        /\ UNCHANGED <<session, spent>>
        /\ Abort(r, "blast_radius_violation")
     \/ /\ check_cluster_allowed(plan[r]) /\ check_blast_radius(plan[r])
        /\ session' = [session EXCEPT ![r] = "open"]
        /\ Goto(r, "enter")
        /\ UNCHANGED <<rec, spent>>
  /\ store_untouched
  /\ UNCHANGED <<then, plan, facts, op, faults>>

\* session.__aenter__: the setup hooks run, or one of them raises.
EnterSession(r) ==
  /\ pc[r] = "enter"
  /\ \/ Goto(r, "body") /\ rec' = rec
     \/ Raise(r)
  /\ store_untouched
  /\ UNCHANGED <<then, plan, facts, spent, session, op, faults>>

\* _run_body persists the setup stages; the annotation gate only runs if required.
EnterBody(r) ==
  /\ pc[r] = "body"
  /\ store_save(rec[r])
  /\ Goto(r, IF plan[r].require_annotation THEN "annot" ELSE "poll")
  /\ then' = [then EXCEPT ![r] = "baseline"]
  /\ UNCHANGED <<plan, rec, facts, spent, session, op, faults>>

CheckNamespaceAnnotation(r) ==
  /\ pc[r] = "annot"
  /\ spent' = spent
  /\ \/ check_namespace_annotation(plan[r]) /\ Goto(r, "poll") /\ rec' = rec
     \/ ~check_namespace_annotation(plan[r]) /\ Abort(r, "cluster_denied")
  /\ store_untouched
  /\ UNCHANGED <<then, plan, facts, session, op, faults>>
------------------------------------------------------------------------------
(***************************************************************************)
(* _check_budget_step and _check_control.                                  *)
(***************************************************************************)
\* Mutant: only the wall clock is checked.
CheckBudget_wall_clock_only(r) ==
  /\ pc[r] = "budget"
  /\ spent' = spent
  /\ \/ Abort(r, "budget_exceeded")
     \/ /\ rec' = [rec EXCEPT ![r].spend = spent[r]]
        /\ Goto(r, "poll")
  /\ store_untouched
  /\ UNCHANGED <<then, plan, facts, session, op, faults>>

\* The wall clock may have run out whatever was spent.
CheckBudget(r) ==
  /\ pc[r] = "budget"
  /\ spent' = spent
  /\ \/ Abort(r, "budget_exceeded")
     \/ /\ spent[r] < HardCap
        /\ rec' = [rec EXCEPT ![r].spend = spent[r]]
        /\ Goto(r, "poll")
  /\ store_untouched
  /\ UNCHANGED <<then, plan, facts, session, op, faults>>

\* Mutant: pause is looked at before abort.
PollControl_pause_first(r) ==
  /\ pc[r] \in {"poll", "sleeping"}
  /\ spent' = spent
  /\ \/ pc[r] = "poll" /\ ctl.pause /\ Goto(r, "mark_paused") /\ rec' = rec
     \/ ~ctl.pause /\ ctl.abort # NoReason /\ Abort(r, ctl.abort)
     \/ ~ctl.pause /\ ctl.abort = NoReason /\ Goto(r, then[r]) /\ rec' = rec
  /\ store_untouched
  /\ UNCHANGED <<then, plan, facts, session, op, faults>>

\* Mutant: while paused, the flags are not read again.
PollControl_once(r) ==
  /\ pc[r] = "poll"
  /\ spent' = spent
  /\ \/ ctl.abort # NoReason /\ Abort(r, ctl.abort)
     \/ ctl.abort = NoReason /\ ~ctl.pause /\ Goto(r, then[r]) /\ rec' = rec
     \/ ctl.abort = NoReason /\ ctl.pause /\ Goto(r, "mark_paused") /\ rec' = rec
  /\ store_untouched
  /\ UNCHANGED <<then, plan, facts, session, op, faults>>

\* Mutant: a resumed run starts over at its baseline.
PollControl_restarting(r) ==
  /\ pc[r] \in {"poll", "sleeping"}
  /\ spent' = spent
  /\ \/ ctl.abort # NoReason /\ Abort(r, ctl.abort)
     \/ /\ ctl.abort = NoReason /\ ~ctl.pause /\ rec' = rec
        /\ Goto(r, IF pc[r] = "sleeping" THEN "baseline" ELSE then[r])
     \/ ctl.abort = NoReason /\ ctl.pause /\ pc[r] = "poll" /\ Goto(r, "mark_paused") /\ rec' = rec
  /\ store_untouched
  /\ UNCHANGED <<then, plan, facts, session, op, faults>>

\* One load_control: at "poll" the first of a call, at "sleeping" a later one,
\* which does nothing as long as the pause lasts.
PollControl(r) ==
  /\ pc[r] \in {"poll", "sleeping"}
  /\ spent' = spent
  /\ \/ ctl.abort # NoReason /\ Abort(r, ctl.abort)
     \/ ctl.abort = NoReason /\ ~ctl.pause /\ Goto(r, then[r]) /\ rec' = rec
     \/ ctl.abort = NoReason /\ ctl.pause /\ pc[r] = "poll" /\ Goto(r, "mark_paused") /\ rec' = rec
  /\ store_untouched
  /\ UNCHANGED <<then, plan, facts, session, op, faults>>

MarkPaused(r) ==
  /\ pc[r] = "mark_paused"
  /\ rec' = [rec EXCEPT ![r].state = "PAUSED", ![r].spend = spent[r]]
  /\ store_save(rec'[r])
  /\ Goto(r, "sleeping")
  /\ UNCHANGED <<then, plan, facts, spent, session, op, faults>>
------------------------------------------------------------------------------
(***************************************************************************)
(* The phases of _run_body.  An agent call or plugin hook that can raise   *)
(* has a Raise disjunct; two calls with no store access between them are   *)
(* one step.                                                               *)
(***************************************************************************)
EnterBaseline(r) ==
  /\ pc[r] = "baseline"
  /\ SavePhase(r, "baseline_agents")
  /\ UNCHANGED <<then, plan, facts, spent, session, op, faults>>

\* tester.baseline, security.baseline, capture_baseline, check_baseline_healthy.
Baseline(r) ==
  /\ pc[r] = "baseline_agents"
  /\ Charge(r, 2 * MaxCost)
  /\ \/ Raise(r) /\ facts' = facts
     \/ \E steady, crit \in BOOLEAN :
          /\ facts' = [facts EXCEPT ![r].baseline =
                         IF steady /\ ~crit THEN "healthy" ELSE "unhealthy"]
          /\ \/ check_baseline_healthy(steady, crit) /\ Goto(r, "baseline_ok") /\ rec' = rec
             \/ ~check_baseline_healthy(steady, crit) /\ Abort(r, "baseline_unhealthy")
  /\ store_untouched
  /\ UNCHANGED <<then, plan, session, op, faults>>

BaselineOk(r) ==
  /\ pc[r] = "baseline_ok"
  /\ SavePhase(r, "budget")
  /\ then' = [then EXCEPT ![r] = "inject"]
  /\ UNCHANGED <<plan, facts, spent, session, op, faults>>

EnterInject(r) ==
  /\ pc[r] = "inject"
  /\ SavePhase(r, "injecting")
  /\ UNCHANGED <<then, plan, facts, spent, session, op, faults>>

\* session.drive_run(chaos.execute): it succeeds, it fails (the timeline is
\* unsuccessful or the call raises), or the steady-state guard trips.
Inject(r) ==
  /\ pc[r] = "injecting"
  /\ spent' = spent
  /\ \/ Goto(r, "injected") /\ rec' = rec
     \/ Abort(r, "agent_failure")
     \/ Goto(r, "guard_cleanup") /\ rec' = [rec EXCEPT ![r].state = "INJECT_FAILED"]
  /\ store_untouched
  /\ UNCHANGED <<then, plan, facts, session, op, faults>>

\* Best-effort chaos cleanup never raises; collect_diagnostics may.
GuardCleanup(r) ==
  /\ pc[r] = "guard_cleanup"
  /\ spent' = spent
  /\ \/ Abort(r, "slo_breach")
     \/ Raise(r)
  /\ store_untouched
  /\ UNCHANGED <<then, plan, facts, session, op, faults>>

Injected(r) ==
  /\ pc[r] = "injected"
  /\ SavePhase(r, "poll")
  /\ then' = [then EXCEPT ![r] = "verify"]
  /\ UNCHANGED <<plan, facts, spent, session, op, faults>>

EnterVerify(r) ==
  /\ pc[r] = "verify"
  /\ SavePhase(r, "verifying")
  /\ UNCHANGED <<then, plan, facts, spent, session, op, faults>>

\* regressed = builtin_regressed or plugin_regressed.
VerdictOf(steady, crit, drift, plugin) ==
  IF ~steady \/ crit \/ drift THEN "builtin"
  ELSE IF plugin = "failed" THEN "plugin_only" ELSE "steady"

\* tester.verify, security.verify, session.verify.  A regression the built-in
\* agents saw is told apart from one only the plugin saw.
Verify(r) ==
  /\ pc[r] = "verifying"
  /\ Charge(r, 2 * MaxCost)
  /\ \/ Raise(r) /\ facts' = facts
     \/ \E steady, crit, drift \in BOOLEAN, plugin \in {"none", "passed", "failed"} :
          LET v == VerdictOf(steady, crit, drift, plugin)
          IN  /\ facts' = [facts EXCEPT ![r].verdict = v]
              /\ \/ v = "steady" /\ Finish(r)
                 \/ v # "steady" /\ Goto(r, "diagnostics") /\ rec' = rec
  /\ store_untouched
  /\ UNCHANGED <<then, plan, session, op, faults>>

CollectDiagnostics(r) ==
  /\ pc[r] = "diagnostics"
  /\ \/ Goto(r, "budget") /\ rec' = rec
     \/ Raise(r)
  /\ then' = [then EXCEPT ![r] = "regressed"]
  /\ store_untouched
  /\ UNCHANGED <<plan, facts, spent, session, op, faults>>

\* Only a regression of the built-in agents goes to the diagnostician.
EnterRegressed(r) ==
  /\ pc[r] = "regressed"
  /\ SavePhase(r, IF facts[r].verdict = "builtin" THEN "diagnose" ELSE "finish")
  /\ UNCHANGED <<then, plan, facts, spent, session, op, faults>>

FinishPluginOnly(r) ==
  /\ pc[r] = "finish"
  /\ spent' = spent
  /\ Finish(r)
  /\ store_untouched
  /\ UNCHANGED <<then, plan, facts, session, op, faults>>

EnterDiagnose(r) ==
  /\ pc[r] = "diagnose"
  /\ SavePhase(r, "diagnosing")
  /\ UNCHANGED <<then, plan, facts, spent, session, op, faults>>

\* diagnose, build_active_list (which raises on a malformed suppress.yaml) and
\* apply_to_diagnosis: some hypothesis stays active, or all are suppressed.
Diagnose(r) ==
  /\ pc[r] = "diagnosing"
  /\ Charge(r, MaxCost)
  /\ \/ Raise(r) /\ facts' = facts
     \/ /\ \E a \in BOOLEAN : facts' = [facts EXCEPT ![r].active = a]
        /\ Goto(r, "diagnosed") /\ rec' = rec
  /\ store_untouched
  /\ UNCHANGED <<then, plan, session, op, faults>>

Diagnosed(r) ==
  /\ pc[r] = "diagnosed"
  /\ SavePhase(r, "budget")
  /\ then' = [then EXCEPT ![r] = "fix"]
  /\ UNCHANGED <<plan, facts, spent, session, op, faults>>

FixGate(r) ==
  /\ pc[r] = "fix"
  /\ spent' = spent
  /\ \/ ~facts[r].active /\ Finish(r)
     \/ facts[r].active /\ Goto(r, "propose") /\ rec' = rec
  /\ store_untouched
  /\ UNCHANGED <<then, plan, facts, session, op, faults>>

EnterPropose(r) ==
  /\ pc[r] = "propose"
  /\ SavePhase(r, "proposing")
  /\ UNCHANGED <<then, plan, facts, spent, session, op, faults>>

ProposeFix(r) ==
  /\ pc[r] = "proposing"
  /\ Charge(r, MaxCost)
  /\ \/ Raise(r)
     \/ Finish(r)
  /\ store_untouched
  /\ UNCHANGED <<then, plan, facts, session, op, faults>>
------------------------------------------------------------------------------
(***************************************************************************)
(* The ways out: the terminal save, clear_control, the session's teardown, *)
(* the handler of run() and its finally.                                   *)
(***************************************************************************)
SaveTerminal(r) ==
  /\ pc[r] = "save_terminal"
  /\ store_save(rec[r])
  /\ Goto(r, "clear")
  /\ UNCHANGED <<then, plan, rec, facts, spent, session, op, faults>>

\* An abort before the session returns from run(); one in the body leaves the
\* session next; one in the handler goes on to the finally.
AfterClear(r) ==
  IF session[r] = "none" THEN "done" ELSE IF session[r] = "open" THEN "exit" ELSE "final"

ClearControl(r) ==
  /\ pc[r] = "clear"
  /\ clear_control
  /\ Goto(r, AfterClear(r))
  /\ UNCHANGED <<then, plan, rec, facts, spent, session, op, faults>>

ExitSession(r) ==
  /\ pc[r] = "exit"
  /\ session' = [session EXCEPT ![r] = "closed"]
  /\ Goto(r, "final")
  /\ store_untouched
  /\ UNCHANGED <<then, plan, rec, facts, spent, op, faults>>

\* Mutant: the handler logs the exception and lets run() return.
HandleException_log_only(r) ==
  /\ pc[r] = "unwind"
  /\ session' = [session EXCEPT ![r] = "closed"]
  /\ Goto(r, "final")
  /\ store_untouched
  /\ UNCHANGED <<then, plan, rec, facts, spent, op, faults>>

\* `except Exception`, after the session has unwound.
HandleException(r) ==
  /\ pc[r] = "unwind"
  /\ session' = [session EXCEPT ![r] = "closed"]
  /\ spent' = spent
  /\ Abort(r, "agent_failure")
  /\ store_untouched
  /\ UNCHANGED <<then, plan, facts, op, faults>>

FinalSave(r) ==
  /\ pc[r] \in {"final", "final_raise"}
  /\ store_save(rec[r])
  /\ Goto(r, IF pc[r] = "final" THEN "done" ELSE "crashed")
  /\ UNCHANGED <<then, plan, rec, facts, spent, session, op, faults>>
------------------------------------------------------------------------------
(***************************************************************************)
(* What can go wrong with the process or the database.                     *)
(***************************************************************************)
StoreSteps == SavePoints \cup
  {"idle", "body", "poll", "sleeping", "mark_paused", "save_terminal", "clear",
   "final", "final_raise"}

\* sqlite3 raises (a writer held the lock longer than the connection timeout).
\* Nothing is written; record.state may already have been assigned.
StoreFault(r) ==
  /\ faults < MaxStoreFaults
  /\ pc[r] \in StoreSteps
  /\ faults' = faults + 1
  /\ rec' = IF pc[r] \in SavePoints
            THEN [rec EXCEPT ![r].state = PhaseState[pc[r]]]
            ELSE rec
  /\ Goto(r, IF session[r] = "open" THEN "unwind"
             ELSE IF session[r] = "closed" /\ pc[r] \in {"save_terminal", "clear"}
             THEN "final_raise"
             ELSE "crashed")
  /\ store_untouched
  /\ UNCHANGED <<then, plan, facts, spent, session, op>>

\* Ctrl-C: asyncio cancels the coroutine at an await.  No `except Exception`
\* sees it; the session unwinds and the finally still saves the record.
Interrupt(r) ==
  /\ pc[r] \in AgentCalls \cup {"enter", "annot", "sleeping", "exit", "unwind"}
  /\ session' = [session EXCEPT ![r] = "closed"]
  /\ Goto(r, "final_raise")
  /\ store_untouched
  /\ UNCHANGED <<then, plan, rec, facts, spent, op, faults>>

Kill(r) ==
  /\ Running(r)
  /\ Goto(r, "crashed")
  /\ store_untouched
  /\ UNCHANGED <<then, plan, rec, facts, spent, session, op, faults>>
------------------------------------------------------------------------------
(***************************************************************************)
(* Operators.  A CLI command loads the record, decides, and writes in a    *)
(* transaction of its own; the UI server only checks that the row exists.  *)
(***************************************************************************)
OpIdle(l) == [at |-> l, cmd |-> "none", seen |-> NoRow]
OpDone(o) == op' = [op EXCEPT ![o] = OpIdle("done")]
loop_untouched == UNCHANGED <<pc, then, plan, rec, facts, spent, session, faults>>

\* store.load; pause, abort and force give up unless the record is live.
CliLoad(o) ==
  /\ op[o].at = "start"
  /\ \E c \in Commands \cap {"cli_pause", "cli_resume", "cli_abort", "cli_force"} :
       op' = [op EXCEPT ![o] =
                IF row = NoRow \/ (c # "cli_resume" /\ row.state \notin LIVE_STATES)
                THEN OpIdle("done") ELSE [at |-> "loaded", cmd |-> c, seen |-> row]]
  /\ store_untouched
  /\ loop_untouched

CliPause(o) ==
  /\ op[o].cmd = "cli_pause"
  /\ set_pause(TRUE)
  /\ OpDone(o)
  /\ loop_untouched

\* resume also reads the control columns: nothing to do if not paused at all.
CliResume(o) ==
  /\ op[o].cmd = "cli_resume"
  /\ \/ (ctl.pause \/ op[o].seen.state = "PAUSED") /\ set_pause(FALSE)
     \/ ~ctl.pause /\ op[o].seen.state # "PAUSED" /\ store_untouched
  /\ OpDone(o)
  /\ loop_untouched

\* Mutant: abort marks the record itself instead of asking the run to.
CliAbort_marking(o) ==
  /\ op[o].cmd = "cli_abort"
  /\ \E why \in OperatorReasons :
       store_save([op[o].seen EXCEPT !.state = "ABORTED", !.reason = why])
  /\ OpDone(o)
  /\ loop_untouched

CliAbort(o) ==
  /\ op[o].cmd = "cli_abort"
  /\ \E why \in OperatorReasons : request_abort(why)
  /\ OpDone(o)
  /\ loop_untouched

\* --force writes back the record it loaded, marked ABORTED.
CliForceAbort(o) ==
  /\ op[o].cmd = "cli_force"
  /\ \E why \in OperatorReasons :
       store_save([op[o].seen EXCEPT !.state = "ABORTED", !.reason = why])
  /\ OpDone(o)
  /\ loop_untouched

\* POST /experiments/:id/pause, /resume and /abort.
UiSignal(o) ==
  /\ op[o].at = "start" /\ row # NoRow
  /\ \/ "ui_pause" \in Commands /\ set_pause(TRUE)
     \/ "ui_resume" \in Commands /\ set_pause(FALSE)
     \/ "ui_abort" \in Commands /\ \E why \in OperatorReasons : request_abort(why)
  /\ OpDone(o)
  /\ loop_untouched
------------------------------------------------------------------------------
RunStep(r) ==
  \/ Preflight(r) \/ EnterSession(r) \/ EnterBody(r) \/ CheckNamespaceAnnotation(r)
  \/ CheckBudget(r) \/ PollControl(r) \/ MarkPaused(r)
  \/ EnterBaseline(r) \/ Baseline(r) \/ BaselineOk(r)
  \/ EnterInject(r) \/ Inject(r) \/ GuardCleanup(r) \/ Injected(r)
  \/ EnterVerify(r) \/ Verify(r) \/ CollectDiagnostics(r)
  \/ EnterRegressed(r) \/ FinishPluginOnly(r) \/ EnterDiagnose(r) \/ Diagnose(r)
  \/ Diagnosed(r) \/ FixGate(r) \/ EnterPropose(r) \/ ProposeFix(r)
  \/ SaveTerminal(r) \/ ClearControl(r) \/ ExitSession(r) \/ HandleException(r)
  \/ FinalSave(r)

OpStep(o) ==
  CliLoad(o) \/ CliPause(o) \/ CliResume(o) \/ CliAbort(o) \/ CliForceAbort(o) \/ UiSignal(o)

Next ==
  \/ \E r \in Runs : Start(r) \/ RunStep(r) \/ StoreFault(r) \/ Interrupt(r) \/ Kill(r)
  \/ \E o \in Ops : OpStep(o)

\* A started run keeps going: asyncio resumes a coroutine whose await is over,
\* and agent calls return.  Operators, faults and kills owe nothing.
Fairness == \A r \in Runs : WF_vars(RunStep(r))

Spec == Init /\ [][Next]_vars /\ Fairness
------------------------------------------------------------------------------
(***************************************************************************)
(* Properties.                                                             *)
(***************************************************************************)
Facts == [baseline : {"unknown", "healthy", "unhealthy"},
          verdict : {"none", "steady", "plugin_only", "builtin"},
          active : BOOLEAN]

ControlSignals == [pause : BOOLEAN, abort : AbortReason \cup {NoReason}]

OpState == [at : {"start", "loaded", "done"}, cmd : Commands \cup {"none"},
            seen : Record \cup {NoRow}]

\* Every variable has its type.
TypeOK ==
  /\ pc \in [Runs -> Label]
  /\ then \in [Runs -> ControlPoints]
  /\ plan \in [Runs -> Plans]
  /\ rec \in [Runs -> Record]
  /\ facts \in [Runs -> Facts]
  /\ spent \in [Runs -> Nat]
  /\ session \in [Runs -> {"none", "open", "closed"}]
  /\ row \in Record \cup {NoRow}
  /\ ctl \in ControlSignals
  /\ op \in [Ops -> OpState]
  /\ faults \in Nat

\* Where run r is, seeing through the budget check, the poll and the pause
\* that come before a phase.
Where(r) == IF pc[r] \in {"budget", "poll", "mark_paused", "sleeping"} THEN then[r] ELSE pc[r]

FixLabels == {"propose", "proposing"}
DiagnosisLabels == FixLabels \cup {"diagnose", "diagnosing", "diagnosed", "fix"}
VerifiedLabels == DiagnosisLabels \cup {"diagnostics", "regressed", "finish"}
InjectionLabels == VerifiedLabels \cup
  {"inject", "injecting", "guard_cleanup", "injected", "verify", "verifying"}

\* No run gets as far as injecting a fault, or anywhere past it, unless all
\* four gates let it: no word the plan forbids in lower case is in the cluster's
\* name in any spelling (a word forbidden with a capital is not looked for),
\* every fault respects the declared duration and number, the namespace
\* annotation was verified where required, and the baseline was healthy,
\* however the run was paused and resumed on the way.
GatedInjection ==
  \A r \in Runs : Where(r) \in InjectionLabels =>
    /\ \A f \in plan[r].forbidden, w \in plan[r].context :
         Lower[f] = f => Lower[w] # Lower[f]
    /\ \A i \in DOMAIN plan[r].faults : plan[r].faults[i].duration <= plan[r].max_duration
    /\ plan[r].allow_multi_fault \/ Len(plan[r].faults) <= 1
    /\ plan[r].annotation = "true" \/ ~plan[r].require_annotation
    /\ facts[r].baseline = "healthy"

\* The diagnostician only ever sees a regression found by the built-in agents
\* and the fixer is only asked when some hypothesis is not suppressed.
FixerOnlyWhenActionable ==
  \A r \in Runs :
    /\ Where(r) \in DiagnosisLabels => facts[r].verdict = "builtin"
    /\ Where(r) \in FixLabels => facts[r].active

\* The budget is only checked between phases, so a run may overshoot the hard
\* cap, but by less than what the two agents of one phase can spend.
SpendBounded == \A r \in Runs : spent[r] < HardCap + 2 * MaxCost

\* Whatever is persisted is classified by the command line: it is live and an
\* operator can still pause, resume or abort it, or it is a terminal state.
\* The transient states STEADY, FIX_PROPOSED and FIX_DECLINED never reach the
\* store, even when the process is interrupted or killed.
RowClassified == row = NoRow \/ row.state \in LIVE_STATES \cup Terminal

\* When a run returns, the row is what the run holds in memory: terminal, with
\* the spend of every agent call in it, and the session is closed.
OutcomePersisted ==
  \A r \in Runs : pc[r] = "done" =>
    /\ row = rec[r]
    /\ row.state \in Terminal
    /\ row.spend = spent[r]
    /\ session[r] # "open"

\* Once every started run has returned, the row they share is terminal: a run
\* that ends never leaves the other's, or an operator's, outcome half written.
SettledRowIsTerminal ==
  (\A r \in Runs : pc[r] \in {"idle", "done"}) /\ row # NoRow => row.state \in Terminal

\* The outcome of an experiment is never rewritten.
TerminalIsFinal == [][row.state \in Terminal => row' = row]_row

\* An abort request ends the run, also when it is paused when the request
\* comes, or is paused after it: no save may lose the request.
AbortHonoured == \A r \in Runs : (Running(r) /\ ctl.abort # NoReason) ~> ~Running(r)

\* Only a pause can hold a run up: if the flag is eventually cleared for good,
\* the run ends.
OnlyPauseHolds ==
  (<>[](~ctl.pause)) => \A r \in Runs : Running(r) ~> ~Running(r)
------------------------------------------------------------------------------
(***************************************************************************)
(* With a single run the loop implements ExperimentLifecycle: the row      *)
(* shows the states, and a PAUSED row stands for the phase after which     *)
(* the run polled.                                                         *)
(***************************************************************************)
TheRun == CHOOSE r \in Runs : TRUE

PausedAfter ==
  [baseline |-> "INITIALIZING", inject |-> "BASELINE_OK", verify |-> "INJECTED",
   regressed |-> "VERIFY", fix |-> "DIAGNOSED"]

Lifecycle == INSTANCE ExperimentLifecycle WITH
  shown <- row.state,
  phase <- IF row.state = "PAUSED" THEN PausedAfter[then[TheRun]] ELSE row.state

\* The sequence of states the row of a single run shows is a behaviour of the
\* documented state machine, whatever operators, hooks and signals do.
ImplementsLifecycle == Lifecycle!Spec
==============================================================================
