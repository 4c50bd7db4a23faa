---------------------------- MODULE PluginSession ----------------------------
(***************************************************************************)
(* The plugin lifecycle host (plugins/host.py): one PluginSession around   *)
(* the body of a run.  Entering it runs the setup hooks, leaving it runs   *)
(* the cleanups that were registered, those of the test scope before those *)
(* of the environment.  A cleanup is a teardown hook or a compensation     *)
(* that a hook registered with ctx.defer.                                  *)
(*                                                                         *)
(* A hook is a coroutine of the plugin: it may register compensations, and *)
(* it returns, raises, or is cancelled (Ctrl-C, or a guard that tripped).  *)
(***************************************************************************)
EXTENDS Naturals, Sequences

CONSTANTS
  Plugins,        \* the sets of hooks that a plugin may implement
  MaxRegistered   \* bound: ctx.defer is not called once there are so many cleanups

\* __aenter__ calls the setup hooks in this order, then the body runs.
AfterSetup ==
  [validate |-> "provision_env", provision_env |-> "await_ready", await_ready |-> "seed",
   seed |-> "setup_test", setup_test |-> "body"]

\* The hooks the body calls, and those the loop calls before them.
CalledAfter ==
  [capture_baseline |-> {}, run_test |-> {"capture_baseline"},
   verify |-> {"run_test"}, collect_diagnostics |-> {"run_test"}]

SetupHooks == DOMAIN AfterSetup
BodyHooks == DOMAIN CalledAfter
TeardownHooks == {"teardown_env", "teardown_test"}
Hooks == SetupHooks \cup BodyHooks \cup TeardownHooks

ASSUME PluginsAssumption == Plugins \subseteq SUBSET Hooks /\ MaxRegistered \in Nat

Scopes == {"env", "test"}

VARIABLES
  overridden,   \* the hooks the plugin implements
  at,           \* the hook being awaited, or "body", "unwinding", "closed"
  called,       \* the hooks the host got to
  current,      \* where ctx.defer registers
  stack,        \* stack[s]: the cleanups of scope s, the next one to run last
  closing,      \* the stack that _teardown is closing
  cleanup,      \* the cleanup being awaited, NoCleanup if none
  cut,          \* a cleanup was cancelled: aclose raises once its stack is empty
  next_id,      \* the number of the next registration
  ran,          \* the cleanups in the order in which they were started
  records       \* the StageResults, in order

vars == <<overridden, at, called, current, stack, closing, cleanup, cut, next_id, ran, records>>

NoCleanup == [id |-> 0, name |-> "none", during |-> "none"]

Init ==
  /\ overridden \in Plugins
  /\ at = "new"
  /\ called = {}
  /\ current = "env"
  /\ stack = [s \in Scopes |-> <<>>]
  /\ closing = "none"
  /\ cleanup = NoCleanup
  /\ cut = FALSE
  /\ next_id = 1
  /\ ran = <<>>
  /\ records = <<>>
------------------------------------------------------------------------------
(***************************************************************************)
(* Fragments.                                                              *)
(***************************************************************************)
Result(h, s) == [hook |-> h, status |-> s]

\* push_async_callback; `during` is what was going on then.
Push(scope, name) ==
  /\ stack' = [stack EXCEPT ![scope] =
                 Append(@, [id |-> next_id, name |-> name,
                            during |-> IF at = "unwinding" THEN closing ELSE at])]
  /\ next_id' = next_id + 1

\* _teardown: the test stack is closed first.
BeginTeardown ==
  /\ at' = "unwinding"
  /\ closing' = "test"

\* Mutant: teardown_env is registered once provision_env has returned.
OpenScope_late(h) ==
  /\ current' = IF h = "setup_test" THEN "test" ELSE current
  /\ IF h = "await_ready" /\ "teardown_env" \in overridden
     THEN Push("env", "teardown_env")
     ELSE IF h = "setup_test" /\ "teardown_test" \in overridden
     THEN Push("test", "teardown_test")
     ELSE UNCHANGED <<stack, next_id>>

\* The statements of __aenter__ before it invokes h.
OpenScope(h) ==
  /\ current' = IF h = "setup_test" THEN "test" ELSE current
  /\ IF h = "provision_env" /\ "teardown_env" \in overridden
     THEN Push("env", "teardown_env")
     ELSE IF h = "setup_test" /\ "teardown_test" \in overridden
     THEN Push("test", "teardown_test")
     ELSE UNCHANGED <<stack, next_id>>
------------------------------------------------------------------------------
(***************************************************************************)
(* __aenter__                                                              *)
(***************************************************************************)
Enter ==
  /\ at = "new"
  /\ at' = "validate"
  /\ called' = {"validate"}
  /\ UNCHANGED <<overridden, current, stack, closing, cleanup, cut, next_id, ran, records>>

\* A setup hook returned, or there is none to call.
SetupHookOk ==
  /\ at \in SetupHooks
  /\ records' = Append(records, Result(at, IF at \in overridden THEN "ok" ELSE "skipped"))
  /\ at' = AfterSetup[at]
  /\ called' = called \cup (IF at' = "body" THEN {} ELSE {at'})
  /\ OpenScope(at')
  /\ UNCHANGED <<overridden, closing, cleanup, cut, ran>>

\* It raised, or was cancelled: `except BaseException` unwinds and re-raises.
\* The record of a cancelled hook is the one it was given: ok.
SetupHookFails ==
  /\ at \in SetupHooks /\ at \in overridden
  /\ \E s \in {"failed", "ok"} : records' = Append(records, Result(at, s))
  /\ BeginTeardown
  /\ UNCHANGED <<overridden, called, current, stack, cleanup, cut, next_id, ran>>
------------------------------------------------------------------------------
(***************************************************************************)
(* The body of the run calls the other hooks in the loop's order, and may  *)
(* leave the session between any two of them.                              *)
(***************************************************************************)
\* capture_baseline, verify and collect_diagnostics record a skip; drive_run
\* just has no workload.
CallBodyHook(h) ==
  /\ at = "body" /\ h \notin called /\ CalledAfter[h] \subseteq called
  /\ "collect_diagnostics" \notin called
  /\ called' = called \cup {h}
  /\ \/ h \in overridden /\ at' = h /\ records' = records
     \/ /\ h \notin overridden /\ at' = at
        /\ records' = IF h = "run_test" THEN records
                      ELSE Append(records, Result(h, "skipped"))
  /\ UNCHANGED <<overridden, current, stack, closing, cleanup, cut, next_id, ran>>

BodyHookOk ==
  /\ at \in BodyHooks
  /\ records' = Append(records, Result(at, "ok"))
  /\ at' = "body"
  /\ UNCHANGED <<overridden, called, current, stack, closing, cleanup, cut, next_id, ran>>

\* It raised or was cancelled, and the exception leaves the session.
BodyHookFails ==
  /\ at \in BodyHooks
  /\ \E s \in {"failed", "ok"} : records' = Append(records, Result(at, s))
  /\ BeginTeardown
  /\ UNCHANGED <<overridden, called, current, stack, cleanup, cut, next_id, ran>>

\* The guard tripped: the workload is cancelled, which it may answer with an
\* error of its own, or it returned or raised in the wait that saw the trip.
\* In each case the loop goes straight to collect_diagnostics.
GuardTrips ==
  /\ at = "run_test"
  /\ called' = called \cup {"collect_diagnostics"}
  /\ \E s \in {"ok", "failed"} :
       \/ /\ "collect_diagnostics" \in overridden /\ at' = "collect_diagnostics"
          /\ records' = Append(records, Result(at, s))
       \/ /\ "collect_diagnostics" \notin overridden /\ at' = "body"
          /\ records' = records \o <<Result(at, s), Result("collect_diagnostics", "skipped")>>
  /\ UNCHANGED <<overridden, current, stack, closing, cleanup, cut, next_id, ran>>

\* __aexit__, with or without an exception.
Exit ==
  /\ at = "body"
  /\ BeginTeardown
  /\ UNCHANGED <<overridden, called, current, stack, cleanup, cut, next_id, ran, records>>

\* Mutant: a compensation always belongs to the environment.
Defer_to_env ==
  /\ at \in overridden \/ cleanup # NoCleanup
  /\ next_id <= MaxRegistered
  /\ Push("env", "defer")
  /\ UNCHANGED <<overridden, at, called, current, closing, cleanup, cut, ran, records>>

\* ctx.defer, from a hook that is running or from a cleanup.
Defer ==
  /\ at \in overridden \/ cleanup # NoCleanup
  /\ next_id <= MaxRegistered
  /\ Push(current, "defer")
  /\ UNCHANGED <<overridden, at, called, current, closing, cleanup, cut, ran, records>>
------------------------------------------------------------------------------
(***************************************************************************)
(* _teardown: AsyncExitStack.aclose pops and awaits one cleanup after the  *)
(* other, also after one that was cancelled.                               *)
(***************************************************************************)
StartCleanup ==
  /\ at = "unwinding" /\ cleanup = NoCleanup /\ stack[closing] # <<>>
  /\ cleanup' = stack[closing][Len(stack[closing])]
  /\ stack' = [stack EXCEPT ![closing] = SubSeq(@, 1, Len(@) - 1)]
  /\ ran' = Append(ran, cleanup')
  /\ UNCHANGED <<overridden, at, called, current, closing, cut, next_id, records>>

\* Mutant: a cleanup that fails is not recorded.
EndCleanup_unrecorded ==
  /\ cleanup # NoCleanup
  /\ \/ records' = Append(records, Result(cleanup.name, "ok"))
     \/ records' = records
  /\ cleanup' = NoCleanup
  /\ UNCHANGED <<overridden, at, called, current, stack, closing, cut, next_id, ran>>

\* _run_teardown records an error and goes on.
EndCleanup ==
  /\ cleanup # NoCleanup
  /\ \E s \in {"ok", "failed"} : records' = Append(records, Result(cleanup.name, s))
  /\ cleanup' = NoCleanup
  /\ UNCHANGED <<overridden, at, called, current, stack, closing, cut, next_id, ran>>

\* Ctrl-C while a cleanup is awaited: CancelledError is no Exception.
CancelCleanup ==
  /\ cleanup # NoCleanup
  /\ records' = Append(records, Result(cleanup.name, "ok"))
  /\ cleanup' = NoCleanup
  /\ cut' = TRUE
  /\ UNCHANGED <<overridden, at, called, current, stack, closing, next_id, ran>>

\* Mutant: an error in the test scope ends the teardown.
StackClosed_first_only ==
  /\ at = "unwinding" /\ cleanup = NoCleanup /\ stack[closing] = <<>>
  /\ at' = "closed" /\ closing' = closing
  /\ UNCHANGED <<overridden, called, current, stack, cleanup, cut, next_id, ran, records>>

\* A stack is empty.  A cancellation escapes from _teardown here.
StackClosed ==
  /\ at = "unwinding" /\ cleanup = NoCleanup /\ stack[closing] = <<>>
  /\ \/ closing = "test" /\ ~cut /\ closing' = "env" /\ at' = at
     \/ (closing = "env" \/ cut) /\ at' = "closed" /\ closing' = closing
  /\ UNCHANGED <<overridden, called, current, stack, cleanup, cut, next_id, ran, records>>
------------------------------------------------------------------------------
HostStep ==
  \/ SetupHookOk \/ SetupHookFails \/ BodyHookOk \/ BodyHookFails \/ GuardTrips \/ Exit
  \/ StartCleanup \/ EndCleanup \/ StackClosed

Next ==
  \/ Enter \/ HostStep \/ Defer \/ CancelCleanup
  \/ \E h \in BodyHooks : CallBodyHook(h)

\* Hooks return in the end, and so does the loop's body.
Spec == Init /\ [][Next]_vars /\ WF_vars(HostStep)
------------------------------------------------------------------------------
Cleanup == [id : Nat, name : TeardownHooks \cup {"defer", "none"},
            during : Hooks \cup Scopes \cup {"none"}]

\* Every variable has its type.
TypeOK ==
  /\ overridden \subseteq Hooks
  /\ at \in Hooks \cup {"new", "body", "unwinding", "closed"}
  /\ called \subseteq Hooks
  /\ current \in Scopes
  /\ stack \in [Scopes -> Seq(Cleanup)]
  /\ closing \in Scopes \cup {"none"}
  /\ cleanup \in Cleanup
  /\ cut \in BOOLEAN
  /\ next_id \in Nat
  /\ ran \in Seq(Cleanup)
  /\ records \in Seq([hook : Hooks \cup {"defer"}, status : {"ok", "failed", "skipped"}])

Started(name) == \E i \in DOMAIN ran : ran[i].name = name

\* Teardown is guaranteed: when the session is closed every cleanup of the test
\* scope has been run, and unless a cleanup was cancelled every one of the
\* environment too, whichever hook raised or was cancelled before, and whichever
\* cleanup failed.  The one exception is what a cleanup of the environment
\* itself defers.
Unwound ==
  at = "closed" =>
    /\ \A i \in DOMAIN stack["test"] : stack["test"][i].during = "env"
    /\ ~cut => stack["env"] = <<>>

\* Strict LIFO across both mechanisms and both scopes: of two cleanups the one
\* registered last runs first, unless it was registered by a cleanup.
ReverseOrder ==
  \A i, j \in DOMAIN ran :
    i < j => ran[j].id < ran[i].id \/ ran[j].during \in Scopes

\* A scope is torn down exactly if it was opened: its teardown hook runs, once,
\* if the host got as far as its first setup hook, even if that one failed, and
\* does not run otherwise.
ScopesPaired ==
  at = "closed" /\ ~cut =>
    /\ Started("teardown_env") <=> "teardown_env" \in overridden /\ "provision_env" \in called
    /\ Started("teardown_test") <=> "teardown_test" \in overridden /\ "setup_test" \in called
    /\ \A i, j \in DOMAIN ran : ran[i].id = ran[j].id => i = j

\* The stage results tell what happened: every cleanup that ran, also one that
\* failed or was cancelled, has its result, in order and after all others, and
\* no hook was called after one that failed.  The one exception is a workload
\* that failed as the guard tripped: the loop still collects diagnostics.
AuditTrail ==
  LET n == Len(records) - Len(ran)
  IN  at = "closed" =>
        /\ \A i \in DOMAIN ran : records[n + i].hook = ran[i].name
        /\ \A i \in 1 .. n : /\ records[i].hook \notin TeardownHooks
                             /\ records[i].status = "failed" =>
                                  \/ i = n
                                  \/ /\ i = n - 1 /\ records[i].hook = "run_test"
                                     /\ records[n].hook = "collect_diagnostics"

==============================================================================
