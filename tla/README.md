# Verification of chaos-loop

chaos-loop runs chaos experiments: an orchestrator takes a plan, checks that the
system is healthy, has an agent inject faults, verifies, diagnoses a regression and
proposes a fix, while operators watch, pause and abort it. This directory holds TLA+
models of its control core, the TLC runs that check them, and TLAPS proofs of the
properties that matter most. `PROJECT.json` maps every definition to the source lines
it models. Paths below are relative to `src/`.

    tlc -workers 2 -config MC_Loop.cfg MC_ExperimentLoop      # a run
    tlapm ExperimentLoop_proofs.tla                           # the proofs

## 1. The system

| Component | State it keeps | Operations | Talks to |
|---|---|---|---|
| Experiment loop (`orchestrator/loop.py`) | the in-memory `ExperimentRecord`, the harness's invocations | `run`, `_run_body`'s phases, `_check_control`, `_check_budget_step`, `_abort`, `_finish` | store (saves, polls), agents and plugin session (awaits) |
| Gates and budget (`orchestrator/safety.py`, `budget.py`) | none | four gates, `check` of spend and wall clock | called by the loop |
| Store (`orchestrator/store.py`) | one SQLite row per experiment with two control columns; goldens; suites | `save` (upsert of all but the control columns), `load`, `load_control`, `set_pause`, `request_abort`, `clear_control` | loop, command line, UI server: separate processes |
| Command line (`orchestrator/main.py`) | none | `run`, `abort [--force]`, `pause`, `resume`, suite, golden, suppress, show | store, in two transactions per command |
| UI server (`ui/server`) | child processes of its runner | three control endpoints, aggregates, runner | the same SQLite file |
| Plugin host (`plugins/host.py`, `base.py`) | two exit stacks, the current scope, stage results | `__aenter__`, `__aexit__`, hooks, `ctx.defer`, `drive_run` | loop, plugin code |
| Chaos agent (`agents/chaos/agent.py`, `cluster.py`) | none between calls; resources live in the cluster | `execute`, `cleanup`; `apply`, `delete`, `list_by_labels` in threads | Kubernetes API |
| Hardware agent and bench (`agents/chaos/hardware_*.py`, `hil_transport.py`, `firmware/`) | open handles; on the device: active faults, handle counter; lines in the serial buffers | `execute`, `cleanup`; five gates; `info`, `inject`, `cleanup`, `reset` | serial line without request numbers, HTTP telemetry |
| Regression suite (`regression/`, `main.py`) | the suite file; suite runs and goldens in the store | validate, run scenarios, classify, drift, coverage and relevance, exit code | loop, oracles, store |
| Suppression (`orchestrator/suppression.py`) | `.chaos/suppress.yaml` | load, match, expire; `suppress add` rewrites the file | loop, operators |
| Diagnostician (`agents/diagnostician/`) | none | static rules, LLM, merge, rank, cut | LLM client, Loki, Prometheus, checkout |
| Fixer (`agents/fixer/`) | files it writes beside the run | choose an action, static, LLM and hybrid strategy, denylist | loop, LLM client |
| Tester (`agents/tester/`) | none | hypothesize, probe, compare with the baseline | Prometheus, checkout, LLM client |
| Security agent (`agents/security/`) | digests of the baseline per experiment | scan before and after, drift | six scanner processes |
| LLM client, harness, retry (`agents/_llm.py`, `_harness.py`, `_retry.py`) | invocations with their cost and tool calls | tool loop, retries, accounts | provider, HTTP back ends |

**What is hard.** Nothing but the database connects the orchestrator, the `chaos`
commands and the UI server: each decides on a row it read in an earlier transaction. Every
await of the orchestrator is a point where an operator's signal, Ctrl-C or a cancellation
arrives. Cluster calls go on in their thread after the coroutine is cancelled. The serial
line has no request numbers, so a late reply answers the wrong question. Money is spent before it
is counted. Teardown has to be right for every way a plugin can fail. Verdicts rest on measurements that may be missing,
empty or failed in one of two phases, on lists that are sorted, merged and cut several times, and on
goldens and rules written by earlier commands that have been edited since. The list of these
hazards, each with its line and the properties that would catch it, is in
`PROJECT.json`.

**What makes each part correct.**

- loop: no injection past a refused gate, also after a pause; the persisted
  outcome is the run's, terminal and final; an abort request is heard; the spend exceeds
  the cap by a bounded amount; the row follows the documented state machine;
- store and operators: whatever interleaves, the row is classified;
- plugin host: exactly what was opened or deferred is undone, once, in reverse, and recorded;
- chaos agent: one fault at a time; success leaves nothing; a leftover has a cause;
- bench: the agent holds the handle of its own fault; success is not claimed on a stray reply;
  a fault declared as rf stays on licensed channels; an abandoned fault ends by itself;
- agent calls: what the provider charged is attributed, the audit trail is complete, the call ends;
- detection: a steady verdict was witnessed, drift and findings are about a change;
- triage: the ranking keeps the best, what is muted is what operators muted;
- suite: a verdict, a golden, a drift report, an exit code and a coverage cell say what was observed.

## 2. Modules

| Module | Models | Kind |
|---|---|---|
| `ExperimentLoop` | the loop, the gates, the budget, the row and its control columns, the operators; the mapping to `ExperimentLifecycle` | specification |
| `ExperimentLifecycle` | what an observer of the row may rely on | abstract specification |
| `ExperimentLoop_proofs` | types, gates, budget, the row, the outcome, the refinement | TLAPS |
| `PluginSession` | the plugin host's scopes, stacks and audit trail | specification |
| `PluginSession_proofs` | types and teardown | TLAPS |
| `Injection` | `drive_run`, the chaos agent, cluster calls in threads, the loop's cleanup | specification |
| `Injection_proofs` | what is in the cluster | TLAPS |
| `HilBench` | hardware agent, gates, serial line, firmware | specification |
| `HilBench_proofs` | licence and handles | TLAPS |
| `LlmSession` | an agent call through the harness: tool loop, tools, retries, accounts | specification |
| `LlmSession_proofs` | accounts, conversation, loop detection, audit trail | TLAPS |
| `FaultCatalogue` | the faults by category | operators |
| `Ranking` | sum, filter, stable sort, cut and merge of candidates | operators |
| `Hypothesizer` | detectors' hypotheses, the model's, their merge | operators |
| `Tester` | probes, distributions, comparison with the baseline | operators |
| `SecurityScan` | the plan of scans, what each scanner makes of its process, drift | operators |
| `Detection` | `Tester` and `SecurityScan` as the loop asks for them, the gate and the verdict | specification |
| `Detection_proofs` | steady verdicts, the bound on shifts, drift, findings | TLAPS |
| `Triage` | `hypothesize`, diagnosis, suppression, the fixer, operators who add rules | specification |
| `Triage_proofs` | what is muted, what the rankings keep | TLAPS |
| `Oracles` | the three oracles, metric thresholds, drift against a golden | operators |
| `SuiteCoverage` | identity and validation of a suite, coverage matrix | operators |
| `RegressionSuite` | `chaos regression run` and `coverage` on a target that changes | specification |
| `RegressionSuite_proofs` | verdicts, goldens, drift, exit code, coverage cells | TLAPS |
| `MC_*` | constants for TLC | instances |

A definition named `X_something` just before `X` is a plausible bug of the code that `X` models. It is
not used by any specification; put in the place of `X` it makes TLC
find a property violated, which shows that the property depends on that code.

### ExperimentLoop

One experiment id, hence one row. A run is one `chaos run` process; nothing in the
code prevents two for the same id. `pc[r]` names the store transaction or await the run
is at, so a step is what happens between two points where another process can see or change
anything. `rec[r]` is the in-memory record (state, abort reason, spend), `row` the
persisted one, `ctl` the pause and abort columns, `facts[r]` what the agents
reported, `spent[r]` what the harness has counted, `session[r]` whether the plugin session
is open (which decides where an exception goes). `then[r]` is where `_check_control`
continues: it is called at five places.

`_abort` and `_finish` are three steps: the record becomes terminal in memory (`EndAs`), it
is saved (`SaveTerminal`), the flags are cleared (`ClearControl`); between them an
operator may signal and the process may die. `run()`'s handler and its `finally` are
`HandleException` and `FinalSave`. Agents are inputs: each may return any verdict, raise,
and spend up to `MaxCost`. An agent phase that makes two calls (tester and security) may spend twice that. `StoreFault` is
SQLite raising because a writer held the lock for longer than the timeout; `Interrupt` is
Ctrl-C at an await; `Kill` may come anywhere. A CLI command is `CliLoad` (load and
decide) followed by a write in a second transaction; the UI endpoints only check that the row
exists.

Gates are predicates on a plan abstracted to what they read: words of the cluster's name and forbidden
words as sets (each as it is spelled, with `Lower` for `str.lower()`, since the gate lower-cases only the name), durations, the declared limits and what the cluster answers about
the annotation.

### PluginSession

`at` is the hook being awaited; `stack["env"]` and `stack["test"]` are the two
`AsyncExitStack`s; `current` is the scope `ctx.defer` registers in. A hook may defer any
number of compensations (bounded by `MaxRegistered`) and then return, raise or be cancelled.
The order of the body's hooks is the loop's. When the guard trips, the workload's own result is whatever it came to in the same wait. `cut` records that a
cleanup was cancelled: the exit stack still runs the rest of its callbacks and then
raises. `ran` and `records` are histories: the cleanups started, and the stage results.

### Injection

Three tasks (`inject`, `workload`, `guard`) and the loop's cleanup. `execute` and
`cleanup` go from one cluster call to the next. A delete that the API accepted is done: in the cluster a finalizer may hold the resource a little
longer, which no step of the code looks at (`agents/chaos/README.md:172` speaks of force-finalizing; nothing does it), so "left nothing" here means that every resource is gone or marked for deletion. A failing call may or may not have taken effect.
Cancelling a coroutine leaves the call it awaits in `orphans`; it lands later (`OrphanLands`).
`missed` and `late` record why a resource may be left: a sweep could not list or delete it, or
an orphaned call created it.

### HilBench

The agent at one end of the serial line, the firmware at the other, `to_bench` and `to_host` in between.
Each reply is interpreted as the code does it, by the fields it has: a
stale reply to `info` is an inject reply without a handle (`KeyError`), a stale
handle is an info reply without a mode (refused). A timeout, a cancelled
`recv_line` or a device that restarts (`PowerLoss`, `Boot`) leaves a line astray (`late` counts them). Execution may be
repeated on the same transport, as a suite does. Time is abstracted: the device's clock and
the host's are independent, so a fault may expire before or after the host cleans it up.
A fault has the category and the channel its plan declares, which the emission gate reads, and the radio its name stands for, which
the renderer and the firmware follow; nothing in the code ties the two. The telemetry gates are inputs. The module `hil_transport.py` has only the protocol and
in-memory fakes: a line stays in the buffer until it is read, as in the fakes.

### LlmSession

`pc` is the await the agent's call is at: the provider, a tool's handler, an HTTP request. `messages` is
the conversation, `calls` the tool calls of the current response and `turn_records` the records of those that have run,
`trace` what the loop will return; `inv` is the invocation the harness will put on its log, `spend_usd` the loop's own account, `reported` what the
provider said. Arguments are abstracted to what `json.loads` makes of them. A tool is refused, missing its
back end (text, not an error), local, or behind `async_retry`; a handler may raise before it sends anything (a missing key), and a body may not decode. The provider, a handler or Ctrl-C may end
the call at each await. This is where the bound `MaxCost` of `ExperimentLoop` comes from: `CallBudget`
says by how much one call may overshoot its `max_budget_usd`.

### Detection

One experiment seen from its measurements. A query of a probe and a scan are one step each, since
Prometheus and the scanners may fail at each and the scanned artefacts change in between. Values are integers
or NaN; the mean and the deviation are compared in integers (the sum and n squared times the variance), exactly as
z > 3 does over the reals. A scanner's process is its exit code, what it printed and whether its message names a missing
file; `SecurityScan` has one operator per scanner for what becomes of it. The
scans follow the plan in its order: `done` counts them, `scanned` keeps for each mode the looks taken, a scan and what its location held
at that moment. The factory enables trivy only and the loop's request names no image, so the setups are that one, with five probe files, and
four requests of a caller that names images, one of which lists an image twice.

### Triage

Three steps of the loop (diagnose, tag, propose) and the operators' `suppress add`, which is a read, a
truncation and a write (`adding[o].step`). The static rules and boosts are the code's tables; the model's answer is an
exception, prose, or a list of items some of which are invalid. A summary is the sentence of a rule
with the selector in it, so fingerprints are equal exactly when the code's hashes are of equal text. Globs and
substrings are given by the paths and sentences they match. `hypothesize` is here and not with the measurements because it ranks and merges its lists as the
diagnostician does; the command line asks for it before an experiment, and a detector is the list of lines that its
expression matched. `disturbed` records that two adds overlapped or
one was killed, `run.known` which rules had been reported when the run read the file.

### RegressionSuite

The target is a state per signal (a journey, a command, a metric) that releases change and faults damage; an
oracle observes the signals its scenario watches. Of the loop only what decides a verdict is
here: baseline, the health and the budget gate, injection (which deletes the fault before it returns), verify, diagnosis, and
`Abort` for all else (`ExperimentLoop` has the details). The resource itself is not followed here: one that a failed injection leaves behind is `Injection`'s subject, and its damage to the target
stays until `Heal`. Titles are names with the relation `Occurs` for "is part of the full title of", as `--grep` is not anchored. `before`, `after`, `dry`, `hurt` (which of the signals it blames a fault had damaged) and `spent` in a verdict, and `from` in a golden,
are history: the properties compare what the code concluded with what the target was.

## 3. Runs

Passing runs:

| Run | Instance | Shows |
|---|---|---|
| `loop_safety` | 1 run, 2 operator commands of six kinds, 7 plans, hard cap 2, cost 0..1 | `GatedInjection`, `SpendBounded`, `OutcomePersisted`, `TerminalIsFinal`, refinement `ImplementsLifecycle`, and under fairness `AbortHonoured`, `OnlyPauseHolds` |
| `loop_shared_row` | 2 runs of one id, a forcing operator, one busy database | `RowClassified`, `SettledRowIsTerminal` |
| `session_teardown` | 4 plugins, no defer once there are 4 registrations | `Unwound`, `ReverseOrder`, `ScopesPaired`, `AuditTrail` |
| `injection` | 3 faults of 2 kinds, one repeated; workload and guard present or not; 3 failing calls | `OneFaultAtATime`, `SuccessLeavesNothing`, `LeftoverExplained`, `DriveEnds` |
| `hil_bench` | 4 executions of 6 plans, 2 slots, 2 lines astray, 1 flip of the pin | `HoldsOwnFault`, `SuccessLeavesBenchQuiet`, `OnlyLicensedEmissions`, `BenchQuietsDown` |
| `llm_session` | 2 calls of 3 turns, 3 kinds of reply, a cost of 2 or none with a budget of 3, 2 attempts | `SpendAttributed`, `CallBudget`, `ConversationComplete`, `NoRunawayLoop`, `AuditComplete`, `CallEnds` |
| `detection` | 9 setups, 8 answers, 2 baseline queries per probe, 3 versions, 2 changes | `SteadyIsWitnessed`, `ShiftCaught`, `DriftExplained`, `FindingIsNew` |
| `triage` | 12 calls of `hypothesize`, 2 experiments, 2 operators, lists cut to 2, 4 rule files, one tick of the clock | `ReportKeepsBest`, `MutesExact`, `DetectorHeard` |
| `suite` | 2 invocations over 4 contents of the suite file, 1 release, 3 command lines, hard cap 2, cost 0 or 2 | `VerdictJustified`, `GoldenTrustworthy`, `DriftHonest`, `GateHonest`, `NaSound` |

Violations: each checks one sentence of the documentation or of a comment and shows how the code
departs from it. `PROJECT.json` quotes the lines.

| Run | Sentence | What happens |
|---|---|---|
| `injection_failure` | `execute()` never leaks, cleanup is deterministic | the workload raises: the injection is cancelled, nobody cleans up |
| `fixer_suppressed` | the fixer runs against the active hypotheses only | it reads the first hypothesis, which may be a muted one |
| `suite_budget` | the suite budget applies per scenario | a scenario that spent nothing is aborted as over budget, for what the one before it spent: they share one harness |

**Bounds.** Operators interact with a run only through the row, and a command is one read and
one write: two commands cover a command overtaken by another (pause and abort, pause and resume), and each
may be anywhere. A hard cap of 2 with costs 0 and 1 reaches the cap exactly, from below
and past it. Seven plans are one that passes, one at the edge of three gates, and one for each refusal, a cluster named in capitals included. The
two-run instance sets the cost to 0, since spend is irrelevant to its properties. `loop_safety` has no store fault: with one, `TerminalIsFinal` and the refinement are false
(see below), and what holds for the row then is checked in `loop_shared_row`. Two runs are all that can race for a row pairwise, and
every save writes the whole row. Four registrations are the two
teardown hooks and two compensations, which may be in the same scope, in different scopes, or deferred by a
cleanup. Three faults with one name repeated let a late call of the first meet the third;
three failing calls let an injection, its sweep and a delete fail in one behaviour. On
the bench, one line astray takes three executions to come back to the same offset, and two
lines are needed to show that the condition `late <= 1` matters: without it `HoldsOwnFault` is violated. Two of the plans have
a fault that the emission gate does not see for what it is.
Three turns are a call, its repetition and one more with `RepeatLimit` 1; two responses of cost 2 pass a
budget of 3 and one does not; two attempts are one retry. The detection setups have a metric shared by two probes, an
empty file and none; a change may come before, between and after the scans of both phases. Two hypotheses per list
make every cut of the diagnosers matter, since the static rules give up to five and the model's list seven, of which the merge keeps one hypothesis twice. Two experiments let
a rule added after one meet the next, one tick lets a rule expire between them. Two invocations are a golden and a
comparison, with an edit, a reordering and a release between them; a cost that reaches the cap in the first scenario shows the
shared harness in the second; an injection injures at most one signal at a time.
`loop_shared_row` uses symmetry on the two runs, which is sound: its invariants do not
tell them apart; so does `triage`, on the operators.

**Fairness.** A started run is weakly fair: asyncio resumes a coroutine whose await is over,
and the agents' calls are assumed to return (they have timeouts of their own). `Interrupt`, `Kill`,
`StoreFault` and operators are not fair. `OnlyPauseHolds` assumes that the pause flag is eventually
cleared, which only an operator can do. In `Injection` sleeps, calls, threads and the workload end, while
the guard may poll for ever. On the bench `recv_line` has a timeout
and the device's `loop()` runs for ever; nobody has to call `execute()`. In `LlmSession` the provider, handlers and HTTP
attempts answer or raise (all have timeouts); nobody owes a new call. `Triage`, `Detection` and `RegressionSuite` state safety only.
Deadlock is not checked: in all of them a run that is over stops.

**Further divergences met, without a run.** Read off the source while modelling; each is a behaviour of the
models as well, and where a property has a condition or an exception, it is because of one of these.

*Loop, operators, host, injection.*
- `safety.py:30-32` lower-cases the cluster's name but not the forbidden words, which a plan may set (`contracts.py:65`): `docs/SAFETY.md:13` says that
  an experiment is refused if the name contains one of them, and one spelled with a capital is never found. `GatedInjection` claims the lower-case ones only.
- `chaos abort` loads a live record, the run ends and clears its flags, the command writes the flag
  (`main.py:317`), though `loop.py:510` says that a terminal record never keeps one; the next run of that id is aborted by it.
- A terminal save that meets a busy database raises into `run()`'s handler: a run that finished is rewritten as ABORTED, where
  the comment at `loop.py:140` expects a record that is not terminal.
- Nothing polls after a steady verify or the fixer: the flag is cleared and the run RECORDED, though `main.py:320` tells the operator that it will
  abort at the next state boundary. For the same reason an overspent run may be RECORDED (`SpendBounded` says by how much).
- Ctrl-C during the test scope's cleanups skips the environment's (`host.py:187`; `docs/PLUGINS.md:47` promises every exit path): the
  condition `~cut` of `Unwound`. A workload that raises in the wait in which the guard trips is recorded as failed and its error dropped
  (`host.py:252-259`); the loop goes on to `collect_diagnostics`: the exception in `AuditTrail`. A compensation deferred by the environment's teardown lands on the closed test stack.
- A guard that trips while a create is in its thread leaves the fault (`cluster.py:274`; `docs/PLUGINS.md:530`): `late` in `LeftoverExplained`.
- The pause endpoint of the UI says that it does nothing on a terminal experiment and sets the flag; `requires_approval` is read by no gate.
- An inject on the bench that times out leaves its fault to the device's time limit, though the agent's docstring promises a known state;
  the emission gate trusts the category that the plan declares, though `hardware_safety.py:162` says that every `rf.*` fault must stay within the licence, and reads a channel only: a WiFi fault
  declared otherwise, and the frequencies of BLE and LoRa faults (`faults/rf.py:91-110`), pass it. `OnlyLicensedEmissions` claims what is left;
  `hardware_agent.get_namespace_annotations` returns `{}`, which the gate refuses rather than skips.

*Agents.*
- `_llm.py:116` says "N consecutive identical tool calls"; the loop stops after N + 1 (`NoRunawayLoop` states what holds).
- The loop's `SecurityRequest` never names an image, so nothing but the checkout and the cluster could be scanned in it, and the factory enables neither scanner.
- `_safe_call` swallows only `ScannerError`: a program that is not installed, cosign without a key, or a package name with `.`, `+` or `/`,
  which makes no legal finding id (`image.py:68`, `sca.py:94`, `contracts.py:40`), ends the run.
- A failed syft counts as drift at verify and hides drift at baseline; any exit of cosign that does not name a missing file is a critical finding, a network error too;
  a kubescape that failed, or a gitleaks that printed nothing, looks clean.
- `prometheus.py:219` says that NaN is treated as missing; it stays a sample, and a series of nothing but NaN satisfies `result_not_empty` (`probes/_base.py:115`):
  the exception in `SteadyIsWitnessed`. Comparisons with NaN are false, so any other expectation fails. Baseline queries follow each other without delay, so their
  deviation is mostly 0 and the comparison skipped. Two probes of one metric share the last one's baseline. A probe file without probes is steady without evidence.
  An httpx error that outlives its retries leaves the tester as an exception.
- The hybrid fixer's static fallback is skipped after a failed model call, because the text of the failure is long enough to count as reasoning
  (`strategy.py:304` against the docstring at 270). `edits.json` is written before the denylist is consulted.
- `--expires` without a time zone makes every later diagnosis raise a `TypeError`. A static fingerprint contains the name of the resource, hence of the experiment: a mute
  does not carry over to the next one. The static diagnoser cuts its list before the merge.
- Both merges stop at the first duplicate, and "duplicate" is not transitive: `hypothesizer.py:333` says that the higher-confidence version of each
  duplicate group is kept, but a group may keep several, and one of them twice (see `ReportIsBest` in section 4).
- `SyncCallInAsyncDetector` says it looks inside the function's indent; it does not check the indent of plain lines, so code after an `async def` is flagged.

*Suite.*
- Verify runs after the fault was deleted (`agents/chaos/agent.py:109`), though `docs/REGRESSION.md:33` says "runs it again **under fault**"; there is no cool-down between scenarios.
- `docs/REGRESSION.md:207` and `drift.py:175` define a regressed journey as green in the golden and red at baseline now; the code reports every journey of the golden that it did not see
  pass, also one that was skipped, is quarantined or was not run any more. `DriftHonest` says "red or not measured".
- An oracle kind without a plugin loses the whole run; an abort after verify turns a regression into an error; the exit code is 0 for errors and broken
  baselines, and with `--fail-on-drift` for a journey red at its baseline, since its scenario is unassessed.
- A metric without points under fault passes; skipped journeys freeze an empty golden; a dry run saves goldens (`GoldenTrustworthy` exempts them); the command oracle ignores a dry run; a flaky journey counts as failed; `--grep` goes by title,
  whatever the file, and takes every test whose title contains it; two pinned ids may collide, and the last one's golden stays; a scenario with an empty selector is hidden from relevance by another one with targets, so a cell may be "na" that it
  covers in effect (the exception of `NaSound`); COVERED does not look at verdicts.

## 4. Proofs

Every theorem holds for all values of the constants that satisfy the assumptions named with it; TLC evaluates these
assumptions in every run of the module. The inductive invariants were model-checked before they were proved. Each
proof has one step per action, and lemmas for what the shared fragments of actions do.

**`ExperimentLoop_proofs`**: any number of runs and operators, any plans, any
cap and cost, with store faults, interrupts and kills. Assumptions: `ConstantsAssumption`, `LowerAssumption` and `PlansAssumption` (types of
the constants; a positive cap; lower-casing twice changes nothing more).

- `TypeCorrect`: `Spec => []TypeOK`.
- `GatesHold`, `FixerGated`, `BudgetOvershootBounded`. None of the three is inductive: they speak of
  where a run is, and a run reaches those places through the budget check, the poll and the
  pause, where `pc` only says that it is polling. `RunInv(r)` says for every place, seen through `then[r]`,
  which gates have been passed, what the verdict was, and how much
  has been spent since the last check: less than the cap after a check, at most one or two calls more before the
  next one. Nobody but r changes what it mentions (`OtherStep`, `OpStepFrame`), so it is proved for the run
  that takes the step (`OwnStep`) and framed for the others.
- `RowAlwaysClassified`. `RowClassified` is not inductive: a save persists a record. `RowInv` adds that every
  run's in-memory record is classified. `--force` writes back a record that it loaded, marked ABORTED.
- `SettledRows` (`SettledRowIsTerminal`, any number of runs on one row): `SettleInv` says that a row which is not terminal has a run
  that still owes its terminal save. Nobody can pay for another, and every save but the last leaves its own run in debt.
- `OutcomeReachesRow` (`OutcomePersisted`) under `OneWriter`: a single run and no `abort --force`. With a second writer the property is
  false, as the row is overwritten whole. `OutcomeInv` says what the row is once the terminal record is saved.
- `OutcomeIsFinal` (`TerminalIsFinal`) and `LoopImplementsLifecycle` (the refinement of `ExperimentLifecycle`, initial states and every
  step) under `OneWriter` and `StoreHealthy`: no store fault. A fault after the terminal save makes the handler abort a run that was recorded
  (see the divergences above), so without it both are false. `LifeInv` says for every place which phase the row shows, seen through a pause.
  `RunEffect` and `OperatorEffect` reduce the actions to what they do to place, record and row, so that the invariants and the refinement are argued on
  eleven kinds of effect instead of on every action.

**`PluginSession_proofs`**: any plugin, any number of registrations. `TypeCorrect`, `TeardownGuaranteed` (`Unwound`), `LastInFirstOut`
(`ReverseOrder`), `TeardownMatchesSetup` (`ScopesPaired`), `ResultsTellAll` (`AuditTrail`). The properties speak of a session that is
closed. `SessionInv` says the same of the two stacks while they are filled and emptied: registration numbers grow along a stack, what hooks registered for
the environment is older than all of the test scope, nothing that a hook registered is newer than a cleanup that has run, and each
registration is on a stack, under way or has run. Assumption: `PluginsAssumption`.

**`Injection_proofs`**: any plan, any list of kinds, any number of failing calls. `OneAtATime` (`OneFaultAtATime`), `SuccessIsClean`
(`SuccessLeavesNothing`), `LeftoversExplained` (`LeftoverExplained`). All three speak of the cluster; `InjectionInv` says what each await of the two
coroutines has settled already, also for the await at which a coroutine was cancelled while its call goes on in a thread: everything
live, listed or orphaned is the present fault, and there is nothing at all before it is applied and after it is deleted. Assumption:
`InjectionAssumption` (a plan has a fault, every name a kind).

**`HilBench_proofs`**: any plans, licence, number of slots, runs and stray lines. Assumption: `BenchAssumption`.

- `EmissionsLicensed`: a WiFi fault declared as rf stays within the licence. The device does not check a licence, and a command may wait on the line while its run is
  cancelled and others begin; `BenchInv` therefore covers the plan of a gated run,
  the commands under way and the live faults.
- `HandleIsOwn` (`HoldsOwnFault`) and `SuccessIsQuiet` (`SuccessLeavesBenchQuiet`). `HandleInv` describes both directions of the line at
  once: with nothing astray it carries exactly the command the host waits for, or its reply; after one line astray (`Behind`) the
  host reads each reply one command late, and no reply then passes for a handle; while the bench is off (`Off`) nothing is
  live on it. `NumberInv` keeps the handles of live faults within the device's counter.

**`LlmSession_proofs`**: any budget, costs, replies, number of turns, attempts and calls. Assumptions: `CostAssumption` (costs are
natural numbers), `ReplyAssumption` (a response carries a list of calls) and `LimitAssumption` (a positive `max_budget_usd`; the code passes 3.0 and 5.0).

- `SpendIsAttributed`, `CallBudgetHolds`. Three accounts are kept: the loop's own (on which it decides to go on), the invocation's (which the
  orchestrator will sum) and, as a ghost, what the provider reported. `SpendInv` says that they agree at every await, that the
  provider is only awaited below the budget, and that what is on the log was settled so.
- `ConversationIsComplete`, `LoopDetected` (`NoRunawayLoop`), `AuditIsComplete`. The conversation is a list of complete turns and, while tools run, the
  beginning of one more. `TalkInv` says where the complete turns end; up to there every tool call has its result, no streak of repeated calls is longer
  than the loop counted, and the invocation's audit trail is complete.

**`Detection_proofs`**: any probes, requests, answers and contents. `SteadyIsEarned` (`SteadyIsWitnessed`), `DriftIsExplained`
(`DriftExplained`), `FindingsAreNew` (`FindingIsNew`). The tester's half rests on one lemma about `RunReport`: a report without failed probes
is one in which every answer of every run of every probe was a vector with data, of numbers if the probe compares them; for that, every position of the answers has to be
a run of some probe. The security half ties the severe findings (`LookInv`) and the digests (`DigestInv`) of each mode to what the
locations held when they were looked at, which is not what they hold when the report is written. The proof attempt showed that the properties, as stated
before, were wrong for an image that a request lists twice: the digest is that of the last look, findings come from both. They are stated over
looks now.

`ShiftsAreCaught` (`ShiftCaught`) is a bound on what the 3-sigma comparison lets through: a verify that is called steady is, for the last probe of each
metric, within one and a half times the range of the baseline's runs. The code computes a mean and a deviation; the model keeps n, the sum S and the sum Q of
the squares. If all runs are between lo and hi, then (x - lo)(hi - x) >= 0 for each of them, whose sum is Q <= (lo + hi) S - n lo hi (`Bounds`, by
induction on the runs); hence n Q - S S, which is n squared times the variance, is at most (S - n lo)(n hi - S), a deviation is at most half the range
(`ThreeDeviations`), and it is not 0 when two runs differ (`Dev`, `SumsDiffer`), so that the comparison is made at all. `ReportInv` is what the steps of the
experiment add: verify is reached only with a steady baseline, whose samples are those of the answers that were given then. The bound was twice the range while only
TLC had checked it; the proof gives the sharper one, which TLC checks now.

Assumptions: `RunCountAssumption`, `SetupAssumption` (lists are lists), `AnswersAssumption` (a sample is a number or NaN, which is not one).

**`Triage_proofs`**: any rule files, plans, hypotheses and interleavings of `suppress add`. `MutesAreExact` (`MutesExact`): nothing is muted without
a rule in force of which every condition fits, and, unless adds overlapped, a rule reported to an operator mutes what it was made for. `FileInv` says where the reported
rules are: in the file, or, between truncation and write, in the list the one operator is about to write.

`ReportIsBest` (`ReportKeepsBest`) and `DetectorsAreHeard` (`DetectorHeard`) are about lists that are sorted, merged with duplicates removed, cut, and sorted
again, for any length and content. The lemmas say what each does: `Ranked` is a permutation in descending order (the number of candidates
that go before one is a bijection onto the positions), `Merged` has for every candidate one of the same class that is at least as confident and repeats no
position of the input, `Cut` drops only what as many as it keeps match or beat. They are composed through `HybridDiagnoser`'s two cuts; what is
invariant over the steps is that the report stands in that relation to the events and the answer which the run still holds (`BestInv`), and that the
last list of hypotheses was made for its scenario (`IdeasInv`).
The proof attempt showed that the property as stated before was false: it counted the distinct candidates that displace another, but the merge can leave
one hypothesis in the list twice (a first entry replaced by what already stands further down), and both take a place of the cut. It counts occurrences now,
and the model's answer in `triage` has such a pair; a report with room for two root causes may thus show one of them twice.

Assumptions: `FilesAssumption`, `PlanAssumption`, `EventsAssumption`, `AnswersAssumption` and `ScenariosAssumption` (lists are lists, a form or profile is
one of those the code knows, a confidence is a percentage), `MaxHypothesesAssumption` (at least one).

**Induction.** The library's induction theorems take an operator and cannot be used by the installed provers. What sums, folds, `FlattenSeq` and the
recursive functions of `Ranking` compute for all lists is proved in both modules by the least-number principle instead: the set of positions at which
a fact fails is a set of natural numbers, and if it is not empty it has a least element, which the step refutes.

**`RegressionSuite_proofs`**: any suites, targets, releases, options and number of invocations. `VerdictsJustified`, `GoldensTrustworthy`, `DriftIsHonest`, `GateIsHonest`, `NaIsSound`. Lemmas say what each oracle's result means for the
two observations it was made from; `RegressionInv` says that every verdict was made from two observations of its own scenario, every
golden is the baseline of such a verdict (of two with one id, the last: the place exists by the least-number principle, `LastPlace`), and a report and an exit code are about verdicts and goldens that are still there.
`DriftIsHonest` has a half for journeys and one for metrics; `MovesAreWorse` says that a threshold above 1 that is passed is a move in the worse direction. Assumptions:
`CostsAssumption`, `TargetAssumption` and `OptionsAssumption` (types), `SuiteAssumption` (scenarios are admitted by the contract's validators),
`FootprintAssumption` (a footprint names all that its journey depends on; `NaSound` is about the matrix, and a false footprint misleads any).

**Only model-checked.** Liveness, since fairness and ENABLED are out of the prover's reach: `AbortHonoured`, `OnlyPauseHolds`, `DriveEnds`,
`BenchQuietsDown`, `CallEnds`. Every safety property of a passing run is proved.

## 5. Not modelled

The wording and layout of reports, CRD bodies, prompts; pydantic's types (its validators appear where they refuse a record at
run time); plugin discovery; the regular expressions of the detectors and the lenient JSON parser (their results are inputs);
listings and printing commands, the scaffolding of a suite file; the UI's aggregates and the web front end (they read). The UI's
runner spawns a detached `chaos run` and keeps nothing: two clicks are the two runs of `loop_shared_row`. Of the hardware part, the in-memory
simulator and the clamping of the transmit power. The DAST wrapper is a stub that nothing calls.

## 6. Plan

Done: 1. `ExperimentLoop` with its lifecycle, gates and operators, and its first proofs. 2. `PluginSession`
and `Injection`. 3. `HilBench` with a proof. 4. `LlmSession` with proofs about its accounts. 5. `Triage` on `Hypothesizer`, `Ranking` and `FaultCatalogue`.
6. `Detection` on `Tester` and `SecurityScan`. 7. `RegressionSuite` on `Oracles` and `SuiteCoverage`. 8. Proofs of all safety properties
that the runs check, and of the refinement.

Left: type correctness of the modules whose invariants only carry the types that their arguments need; the liveness properties, if the
prover comes to support fairness.
