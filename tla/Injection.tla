------------------------------ MODULE Injection ------------------------------
(***************************************************************************)
(* One fault injection: PluginSession.drive_run (plugins/host.py), which   *)
(* runs the chaos agent next to the plugin's workload and its steady-state *)
(* guard; ClaudeChaosAgent.execute and cleanup (agents/chaos/agent.py);    *)
(* KubernetesClusterIO (agents/chaos/cluster.py); and the loop's cleanup   *)
(* after a guard that tripped (orchestrator/loop.py).                      *)
(*                                                                         *)
(* Every cluster call runs in a thread of its own (asyncio.to_thread).     *)
(* Cancelling the coroutine that awaits it does not stop the thread: the   *)
(* call still takes effect, later, and nobody hears of it.                 *)
(***************************************************************************)
EXTENDS Naturals, Sequences, FiniteSets

CONSTANTS
  PlanFaults,     \* plan.faults, by the name of the resource each renders to
  Kinds,          \* _CHAOS_MESH_KINDS, in the order of the sweep
  KindOf,         \* KindOf[n]: the kind of resource n
  Hooks,          \* which of "workload" and "guard" a plugin may bring
  MaxApiErrors    \* bound: how many cluster calls fail

Names == {PlanFaults[i] : i \in DOMAIN PlanFaults}
KindSet == {Kinds[i] : i \in DOMAIN Kinds}

ASSUME InjectionAssumption ==
  /\ PlanFaults \in Seq(Names) /\ Len(PlanFaults) > 0
  /\ Kinds \in Seq(KindSet) /\ Len(Kinds) > 0
  /\ KindOf \in [Names -> KindSet]
  /\ Hooks \subseteq {"workload", "guard"}
  /\ MaxApiErrors \in Nat

Tasks == {"inject", "workload", "guard"}
Work == {"inject", "workload"}
Sweepers == {"inject", "loop"}     \* who runs ClaudeChaosAgent.cleanup

VARIABLES
  task,       \* task[t]: "absent", "running", "ok", "raised", "tripped" or "cancelled"
  driver,     \* drive_run and its caller: "waiting", "cleaning" or "over"
  outcome,    \* how drive_run ended
  at,         \* at[s]: the await at which s is
  index,      \* the fault that execute is at
  sweep,      \* sweep[s]: the kind being swept, and the resources listed and not yet deleted
  missed,     \* the resources that a sweep skipped because a call failed
  success,    \* ChaosTimeline.success
  live,       \* the resources in the cluster
  orphans,    \* calls still in their thread whose coroutine was cancelled
  late,       \* the resources that an orphaned call created
  errors      \* cluster calls that failed so far

vars == <<task, driver, outcome, at, index, sweep, missed, success, live, orphans, late, errors>>

NoSweep == [kind |-> 0, todo |-> {}]

Init ==
  /\ \E h \in SUBSET Hooks :
       task = [t \in Tasks |-> IF t = "inject" \/ t \in h THEN "running" ELSE "absent"]
  /\ driver = "waiting"
  /\ outcome = "none"
  /\ at = [inject |-> "preflight", loop |-> "idle"]
  /\ index = 1
  /\ sweep = [s \in Sweepers |-> NoSweep]
  /\ missed = {}
  /\ success = FALSE
  /\ live = {}
  /\ orphans = {}
  /\ late = {}
  /\ errors = 0
------------------------------------------------------------------------------
(***************************************************************************)
(* KubernetesClusterIO.  apply creates or replaces, delete is idempotent.  *)
(* A call that fails may have taken effect (its answer was lost) or not.   *)
(* "Gone" is what the code can see: the API server took the deletion.  A   *)
(* finalizer may keep the object a while longer; nothing in the code waits *)
(* for that or looks again (agents/chaos/README.md, section 9, "Cleanup    *)
(* hangs").                                                                *)
(***************************************************************************)
apply(n) == live \cup {n}
delete(n) == live \ {n}
list_by_labels(k) == {n \in live : KindOf[n] = k}

Answered(effect) == live' = effect /\ errors' = errors

Failed(effect) ==
  /\ errors < MaxApiErrors
  /\ errors' = errors + 1
  /\ live' \in {live, effect}

tasks_untouched == UNCHANGED <<task, driver, outcome>>
------------------------------------------------------------------------------
(***************************************************************************)
(* ClaudeChaosAgent.cleanup, for execute or for the loop: list each kind,  *)
(* then delete what was listed.  An error skips what it is about.          *)
(***************************************************************************)
StartSweep(s) ==
  /\ at' = [at EXCEPT ![s] = "list"]
  /\ sweep' = [sweep EXCEPT ![s] = [kind |-> 1, todo |-> {}]]

\* What is left of this kind, then the next one, then the sweep is over.
GoOn(s, todo) ==
  /\ sweep' = [sweep EXCEPT ![s] =
                 IF todo # {} THEN [@ EXCEPT !.todo = todo]
                 ELSE IF @.kind < Len(Kinds) THEN [kind |-> @.kind + 1, todo |-> {}]
                 ELSE NoSweep]
  /\ at' = [at EXCEPT ![s] =
              IF todo # {} THEN "sweep"
              ELSE IF sweep[s].kind < Len(Kinds) THEN "list" ELSE "swept"]

\* Mutant: the first kind that cannot be listed ends the sweep.
SweepList_stopping(s) ==
  /\ at[s] = "list"
  /\ LET k == Kinds[sweep[s].kind]
     IN  \/ Answered(live) /\ GoOn(s, list_by_labels(k)) /\ missed' = missed
         \/ /\ Failed(live) /\ missed' = missed \cup list_by_labels(k)
            /\ at' = [at EXCEPT ![s] = "swept"] /\ sweep' = [sweep EXCEPT ![s] = NoSweep]
  /\ tasks_untouched
  /\ UNCHANGED <<index, success, orphans, late>>

SweepList(s) ==
  /\ at[s] = "list"
  /\ LET k == Kinds[sweep[s].kind]
     IN  \/ Answered(live) /\ GoOn(s, list_by_labels(k)) /\ missed' = missed
         \/ Failed(live) /\ GoOn(s, {}) /\ missed' = missed \cup list_by_labels(k)
  /\ tasks_untouched
  /\ UNCHANGED <<index, success, orphans, late>>

SweepDelete(s) ==
  /\ at[s] = "sweep"
  /\ \E n \in sweep[s].todo :
       /\ GoOn(s, sweep[s].todo \ {n})
       /\ \/ Answered(delete(n)) /\ missed' = missed
          \/ Failed(delete(n)) /\ missed' = missed \cup {n}
  /\ tasks_untouched
  /\ UNCHANGED <<index, success, orphans, late>>
------------------------------------------------------------------------------
(***************************************************************************)
(* ClaudeChaosAgent.execute                                                *)
(***************************************************************************)
Return(ok) ==
  /\ task' = [task EXCEPT !["inject"] = "ok"]
  /\ success' = ok
  /\ at' = [at EXCEPT !["inject"] = "end"]

\* A fault that is unknown, or has no renderer, ends it before anything is done.
Preflight ==
  /\ at["inject"] = "preflight"
  /\ \/ at' = [at EXCEPT !["inject"] = "quiet"] /\ UNCHANGED <<task, success>>
     \/ Return(FALSE)
  /\ UNCHANGED <<driver, outcome, index, sweep, missed, live, orphans, late, errors>>

\* The quiet window, or the fault before, is over; rendering may raise.
NextFault ==
  /\ at["inject"] = "quiet"
  /\ \/ at' = [at EXCEPT !["inject"] = "apply"] /\ sweep' = sweep
     \/ StartSweep("inject")
  /\ UNCHANGED <<task, driver, outcome, index, missed, success, live, orphans, late, errors>>

\* cluster.apply was answered.
Apply ==
  /\ at["inject"] = "apply"
  /\ LET n == PlanFaults[index]
     IN  \/ Answered(apply(n)) /\ at' = [at EXCEPT !["inject"] = "active"] /\ sweep' = sweep
         \/ Failed(apply(n)) /\ StartSweep("inject")
  /\ tasks_untouched
  /\ UNCHANGED <<index, missed, success, orphans, late>>

\* The fault's duration is over.
DurationOver ==
  /\ at["inject"] = "active"
  /\ at' = [at EXCEPT !["inject"] = "delete"]
  /\ UNCHANGED <<task, driver, outcome, index, sweep, missed, success, live, orphans, late, errors>>

\* Mutant: a fault that cannot be deleted does not stop the sequence.
Delete_ignoring_errors ==
  /\ at["inject"] = "delete"
  /\ LET n == PlanFaults[index]
     IN  Answered(delete(n)) \/ Failed(delete(n))
  /\ index' = IF index < Len(PlanFaults) THEN index + 1 ELSE index
  /\ at' = [at EXCEPT !["inject"] = IF index < Len(PlanFaults) THEN "quiet" ELSE "post"]
  /\ tasks_untouched
  /\ UNCHANGED <<sweep, missed, success, orphans, late>>

\* cluster.delete was answered: on to the next fault, or the last quiet window.
Delete ==
  /\ at["inject"] = "delete"
  /\ LET n == PlanFaults[index]
     IN  \/ /\ Answered(delete(n))
            /\ index' = IF index < Len(PlanFaults) THEN index + 1 ELSE index
            /\ at' = [at EXCEPT !["inject"] = IF index < Len(PlanFaults) THEN "quiet" ELSE "post"]
            /\ sweep' = sweep
         \/ Failed(delete(n)) /\ StartSweep("inject") /\ index' = index
  /\ tasks_untouched
  /\ UNCHANGED <<missed, success, orphans, late>>

ExecuteReturns ==
  /\ at["inject"] \in {"post", "swept"}
  /\ Return(at["inject"] = "post")
  /\ UNCHANGED <<driver, outcome, index, sweep, missed, live, orphans, late, errors>>
------------------------------------------------------------------------------
(***************************************************************************)
(* The other tasks: run_test ends or raises; the guard polls for ever,     *)
(* unless it is unhealthy or its check raises.                             *)
(***************************************************************************)
WorkloadEnds ==
  /\ task["workload"] = "running"
  /\ \E e \in {"ok", "raised"} : task' = [task EXCEPT !["workload"] = e]
  /\ UNCHANGED <<driver, outcome, at, index, sweep, missed, success, live, orphans, late, errors>>

GuardStops ==
  /\ task["guard"] = "running"
  /\ \E e \in {"tripped", "raised"} : task' = [task EXCEPT !["guard"] = e]
  /\ UNCHANGED <<driver, outcome, at, index, sweep, missed, success, live, orphans, late, errors>>
------------------------------------------------------------------------------
(***************************************************************************)
(* drive_run: asyncio.wait(FIRST_COMPLETED) in a loop, and its finally.    *)
(***************************************************************************)
\* The call that coroutine s awaits, if it changes the cluster.
CallOf(s) ==
  IF at[s] = "apply" THEN {[op |-> "apply", name |-> PlanFaults[index]]}
  ELSE IF at[s] = "delete" THEN {[op |-> "delete", name |-> PlanFaults[index]]}
  ELSE IF at[s] = "sweep" THEN {[op |-> "delete", name |-> n] : n \in sweep[s].todo}
  ELSE {}

\* s is cancelled: the call it awaits goes on in its thread.
Orphan(s) ==
  IF CallOf(s) = {} THEN orphans' = orphans
  ELSE \E c \in CallOf(s) : orphans' = orphans \cup {c}

\* The tasks that are still running are cancelled and awaited.
CancelPending ==
  /\ task' = [t \in Tasks |-> IF task[t] = "running" THEN "cancelled" ELSE task[t]]
  /\ IF task["inject"] = "running"
     THEN Orphan("inject")
     ELSE orphans' = orphans

\* Mutant: drive_run also waits for the guard.
DriveReturns_all ==
  /\ driver = "waiting"
  /\ \A t \in Tasks : task[t] \in {"ok", "absent"}
  /\ CancelPending
  /\ driver' = "over" /\ outcome' = "returned"
  /\ UNCHANGED <<at, index, sweep, missed, success, live, late, errors>>

\* Both kinds of work are done, and no task failed.
DriveReturns ==
  /\ driver = "waiting"
  /\ \A t \in Work : task[t] \in {"ok", "absent"}
  /\ \A t \in Tasks : task[t] \notin {"raised", "tripped"}
  /\ CancelPending
  /\ driver' = "over" /\ outcome' = "returned"
  /\ UNCHANGED <<at, index, sweep, missed, success, live, late, errors>>

\* The first exception found is raised.  For GuardTripped the loop then cleans
\* up; for any other it aborts the run without.
DriveRaises ==
  /\ driver = "waiting"
  /\ \E t \in Tasks :
       \/ task[t] = "raised" /\ outcome' = "error" /\ driver' = "over" /\ UNCHANGED <<at, sweep>>
       \/ task[t] = "tripped" /\ outcome' = "tripped" /\ driver' = "cleaning" /\ StartSweep("loop")
  /\ CancelPending
  /\ UNCHANGED <<index, missed, success, live, late, errors>>

CleanupReturns ==
  /\ driver = "cleaning" /\ at["loop"] = "swept"
  /\ driver' = "over"
  /\ UNCHANGED <<task, outcome, at, index, sweep, missed, success, live, orphans, late, errors>>

\* Ctrl-C reaches drive_run, or the cleanup after it.
Interrupt ==
  /\ driver # "over"
  /\ driver' = "over" /\ outcome' = "interrupted"
  /\ \/ driver = "waiting" /\ CancelPending
     \/ driver = "cleaning" /\ Orphan("loop") /\ task' = task
  /\ UNCHANGED <<at, index, sweep, missed, success, live, late, errors>>

\* The thread of an orphaned call gets through to the cluster, or fails.
OrphanLands ==
  /\ \E c \in orphans :
       /\ orphans' = orphans \ {c}
       /\ \/ Answered(IF c.op = "apply" THEN apply(c.name) ELSE delete(c.name))
          \/ Failed(IF c.op = "apply" THEN apply(c.name) ELSE delete(c.name))
       /\ late' = IF c.op = "apply" THEN late \cup {c.name} ELSE late
  /\ UNCHANGED <<task, driver, outcome, at, index, sweep, missed, success>>
------------------------------------------------------------------------------
Execute ==
  /\ task["inject"] = "running"
  /\ \/ Preflight \/ NextFault \/ Apply \/ DurationOver \/ Delete \/ ExecuteReturns
     \/ SweepList("inject") \/ SweepDelete("inject")

Drive ==
  \/ DriveReturns \/ DriveRaises \/ CleanupReturns
  \/ driver = "cleaning" /\ (SweepList("loop") \/ SweepDelete("loop"))

Next == Execute \/ WorkloadEnds \/ GuardStops \/ Drive \/ Interrupt \/ OrphanLands

\* Sleeps end, calls are answered, run_test ends.  The guard owes nothing.
Spec ==
  /\ Init /\ [][Next]_vars
  /\ WF_vars(Execute) /\ WF_vars(WorkloadEnds) /\ WF_vars(Drive) /\ WF_vars(OrphanLands)
------------------------------------------------------------------------------
\* Every variable has its type.
TypeOK ==
  /\ task \in [Tasks -> {"absent", "running", "ok", "raised", "tripped", "cancelled"}]
  /\ driver \in {"waiting", "cleaning", "over"}
  /\ outcome \in {"none", "returned", "tripped", "error", "interrupted"}
  /\ at \in [Sweepers -> {"preflight", "idle", "quiet", "apply", "active", "delete", "post",
                          "list", "sweep", "swept", "end"}]
  /\ index \in DOMAIN PlanFaults
  /\ sweep \in [Sweepers -> [kind : 0 .. Len(Kinds), todo : SUBSET Names]]
  /\ missed \subseteq Names
  /\ success \in BOOLEAN
  /\ live \subseteq Names
  /\ orphans \subseteq [op : {"apply", "delete"}, name : Names]
  /\ late \subseteq Names
  /\ errors \in 0 .. MaxApiErrors

\* The faults of a plan are injected one at a time: whatever fails, is cancelled
\* or arrives late, the cluster never holds two resources of the experiment.
OneFaultAtATime == Cardinality(live) <= 1

\* An injection that reports success has deleted every resource it created,
\* and none of its calls is still under way.
SuccessLeavesNothing ==
  outcome = "returned" /\ success => live = {} /\ orphans = {}

\* When an injection fails on its own, or its guard trips, a resource is only
\* left behind if the sweep could not list or delete that very resource, or if
\* its creation was still in a thread: an error about one kind or one resource
\* does not spare the others.
LeftoverExplained ==
  driver = "over" /\ outcome \in {"returned", "tripped"} => live \subseteq missed \cup late

\* drive_run returns, with or without a guard that goes on polling.
DriveEnds == <>(driver = "over")
------------------------------------------------------------------------------
(***************************************************************************)
(* What the documentation says, and the code does not do.                  *)
(***************************************************************************)
Settled == driver = "over" /\ orphans = {} /\ errors = 0

\* docs/ARTICLE.md: the chaos agent's "cleanup is deterministic even on crash";
\* agents/chaos/README.md: "`execute()` never leaks CRDs even on hard kill".
\* Said of a workload, or a guard's check, that raises.
FailureLeavesNothing == Settled /\ outcome = "error" => live = {}
==============================================================================
