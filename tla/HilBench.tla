------------------------------- MODULE HilBench -------------------------------
(***************************************************************************)
(* The hardware-in-the-loop bench: HardwareChaosAgent and its safety gates *)
(* (agents/chaos/hardware_agent.py, hardware_safety.py), HilHardwareIO on  *)
(* its serial line (hardware_io.py, hil_transport.py) and the firmware of  *)
(* the attack device (firmware/chaos-attacker-esp32).                      *)
(*                                                                         *)
(* The line carries one JSON object per line and no request numbers: a     *)
(* reply answers whatever the host asked last.  A reply that comes after   *)
(* its recv_line timed out, or was cancelled, and the banner of a device   *)
(* that restarts, stay in the buffer and are read by the next command.     *)
(* late counts the lines that may have gone astray like that.              *)
(***************************************************************************)
EXTENDS Naturals, Sequences, FiniteSets

CONSTANTS
  Plans,           \* the plans execute() is called with, see PlanFields
  licensed_bands,  \* HardwareSafetyConfig.licensed_bands, pairs <<lo, hi>>
  MaxActiveFaults, \* kMaxActiveFaults
  MaxDuration,     \* the longest fault the firmware accepts (600 s)
  MaxRuns,         \* bound: calls of execute() on one transport
  MaxLate,         \* bound: lines that go astray
  MaxFlips         \* bound: how often the bench-mode pin changes

PlanFields == {"faults", "allow_multi_fault"}

\* What gates, renderers and firmware read of a fault.  The plan declares rf (its
\* category) and the parameter channel, 0 if it is a sweep or absent.  The name
\* decides the rest: rendered, it is in the catalogue and a hardware renderer
\* knows it; known, the firmware has a routine of that name; radio, what that
\* routine emits with.  Nothing makes the category agree with the name.
Fault == [rf : BOOLEAN, channel : Nat, duration : Nat \ {0},
          rendered : BOOLEAN, known : BOOLEAN, radio : {"wifi", "ble", "lora", "none"}]

ASSUME BenchAssumption ==
  /\ \A p \in Plans : /\ DOMAIN p = PlanFields
                      /\ p.faults \in Seq(Fault)
                      /\ p.allow_multi_fault \in BOOLEAN
  /\ licensed_bands \subseteq Nat \X Nat
  /\ MaxActiveFaults \in Nat \ {0}
  /\ {MaxDuration, MaxRuns, MaxLate, MaxFlips} \subseteq Nat

VARIABLES
  pc,        \* where the agent is
  plan,      \* the plan it executes
  i,         \* the fault of the plan it is at
  handle,    \* active_handles: the handle it holds, NoHandle if none
  outcome,   \* how the last execute() ended
  runs,      \* calls of execute() so far
  to_bench,  \* commands on the line
  to_host,   \* replies on the line
  active,    \* g_active: the faults in use
  next_id,   \* g_next_handle
  on,        \* the device has power
  pin,       \* what the bench-mode pin says
  flips, late

agent == <<pc, plan, i, handle, outcome, runs>>
vars == <<pc, plan, i, handle, outcome, runs, to_bench, to_host, active, next_id, on, pin, flips, late>>

NoHandle == 0

\* Commands, with the fault to inject (and whose it is) or the handle to clean.
\* Of a fault the line carries neither the category nor whose it is: they are
\* kept for the properties.
NoFault == [rf |-> FALSE, channel |-> 0, duration |-> 1,
            rendered |-> FALSE, known |-> FALSE, radio |-> "none"]
Command(c, f, h) == [cmd |-> c, fault |-> f, handle |-> h, run |-> runs]
\* Replies: "info" carries the mode, "handle" a handle; "already" and "error"
\* have ok = false; "banner" is no JSON at all.
Reply(k, m, h) == [kind |-> k, mode |-> m, handle |-> h]
Ok(reply) == reply.kind \in {"info", "handle", "plain"}

Init ==
  /\ pc = "idle" /\ plan \in Plans /\ i = 1 /\ handle = NoHandle
  /\ outcome = "none" /\ runs = 0
  /\ to_bench = <<>> /\ to_host = <<>>
  /\ active = {} /\ next_id = 0 /\ on = TRUE
  /\ pin \in {"BENCH", "PRODUCTION"}
  /\ flips = 0 /\ late = 0
------------------------------------------------------------------------------
(***************************************************************************)
(* The plan's own gates.                                                   *)
(***************************************************************************)
channel_in_bands(channel) == \E b \in licensed_bands : b[1] <= channel /\ channel <= b[2]

\* Mutant: a sweep is allowed wherever a single channel is.
check_emission_sweep(p) ==
  \A k \in DOMAIN p.faults : p.faults[k].rf =>
    p.faults[k].channel = 0 \/ channel_in_bands(p.faults[k].channel)

\* It trusts the declared category, and a channel is all it looks at: the
\* frequencies of a BLE or LoRa fault are not read.
check_emission_compliance(p) ==
  \A k \in DOMAIN p.faults : p.faults[k].rf =>
    IF p.faults[k].channel = 0 THEN \E b \in licensed_bands : b[1] <= 1 /\ b[2] >= 14
                               ELSE channel_in_bands(p.faults[k].channel)

\* The WiFi channels a fault is emitted on, as its renderer passes them on.
emitted_channels(f) ==
  IF f.radio # "wifi" THEN {} ELSE IF f.channel = 0 THEN 1 .. 14 ELSE {f.channel}

PreflightOk(p) ==
  /\ \A k \in DOMAIN p.faults : p.faults[k].rendered
  /\ Len(p.faults) > 1 => p.allow_multi_fault
  /\ check_emission_compliance(p)
------------------------------------------------------------------------------
(***************************************************************************)
(* HardwareChaosAgent.execute and cleanup, from one await to the next.     *)
(***************************************************************************)
Waiting == {"info", "injecting", "cleaning", "forcing", "resetting"}

Send(c, f, h) == to_bench' = Append(to_bench, Command(c, f, h))
SendNothing == UNCHANGED to_bench
bench_untouched == UNCHANGED <<active, next_id, on, pin, flips>>

Return(how) == pc' = "idle" /\ outcome' = how /\ handle' = NoHandle

Execute ==
  /\ pc = "idle" /\ runs < MaxRuns
  /\ runs' = runs + 1 /\ i' = 1
  /\ \E p \in Plans :
       /\ plan' = p
       /\ \/ ~PreflightOk(p) /\ Return("failed") /\ SendNothing
          \/ PreflightOk(p) /\ pc' = "info" /\ Send("info", NoFault, NoHandle)
             /\ UNCHANGED <<handle, outcome>>
  /\ UNCHANGED <<to_host, late>> /\ bench_untouched

\* The geofence, thermal and battery gates read the device under test over
\* HTTP: they pass, one of them refuses, or the read raises out of execute().
TelemetryGates ==
  /\ pc = "gates"
  /\ \/ pc' = "next" /\ UNCHANGED <<handle, outcome>>
     \/ \E how \in {"failed", "raised"} : Return(how)
  /\ UNCHANGED <<plan, i, runs, to_bench, to_host, late>> /\ bench_untouched

NextFault ==
  /\ pc = "next"
  /\ \/ /\ i > Len(plan.faults) /\ Return("success") /\ SendNothing
     \/ /\ i <= Len(plan.faults)
        /\ Send("inject", plan.faults[i], NoHandle)
        /\ pc' = "injecting" /\ UNCHANGED <<handle, outcome>>
  /\ UNCHANGED <<plan, i, runs, to_host, late>> /\ bench_untouched

DurationOver ==
  /\ pc = "sleeping"
  /\ Send("cleanup", NoFault, handle)
  /\ pc' = "cleaning"
  /\ UNCHANGED <<plan, i, handle, outcome, runs, to_host, late>> /\ bench_untouched

\* execute()'s handler: a handle that is still open is cleaned by force.
Fail ==
  /\ i' = i
  /\ \/ handle = NoHandle /\ Return("failed") /\ SendNothing
     \/ /\ handle # NoHandle /\ pc' = "forcing" /\ Send("cleanup", NoFault, handle)
        /\ UNCHANGED <<handle, outcome>>

\* device_info and the bench-mode gate: an exception leaves execute(), a reply
\* without a mode is not BENCH, and the serial may not be the expected one.
InfoReply(reply) ==
  /\ pc = "info" /\ i' = i /\ SendNothing
  /\ \/ ~Ok(reply) /\ Return("raised")
     \/ Ok(reply) /\ Return("failed")
     \/ /\ reply.kind = "info" /\ reply.mode = "BENCH"
        /\ pc' = "gates" /\ UNCHANGED <<handle, outcome>>

\* Mutant: a reply without a handle is taken for an empty one.
InjectReply_lenient(reply) ==
  /\ pc = "injecting"
  /\ \/ ~Ok(reply) /\ Fail
     \/ /\ Ok(reply) /\ handle' = reply.handle /\ pc' = "sleeping"
        /\ i' = i /\ outcome' = outcome /\ SendNothing

\* inject_fault: reply["handle"] raises KeyError when there is none.
InjectReply(reply) ==
  /\ pc = "injecting"
  /\ \/ reply.kind # "handle" /\ Fail
     \/ /\ reply.kind = "handle" /\ handle' = reply.handle /\ pc' = "sleeping"
        /\ i' = i /\ outcome' = outcome /\ SendNothing

\* cleanup: "already" gone is a success.
CleanupReply(reply) ==
  /\ pc = "cleaning"
  /\ \/ ~Ok(reply) /\ reply.kind # "already" /\ Fail
     \/ /\ Ok(reply) \/ reply.kind = "already"
        /\ handle' = NoHandle /\ i' = i + 1 /\ pc' = "next" /\ outcome' = outcome
        /\ SendNothing

\* The forced cleanup only logs a failure; so does the reset.
ForcedReply == pc = "forcing" /\ Return("failed") /\ i' = i /\ SendNothing
ResetReply == pc = "resetting" /\ Return("tripped") /\ i' = i /\ SendNothing

Receive ==
  /\ to_host # <<>> /\ to_host' = Tail(to_host)
  /\ LET reply == Head(to_host)
     IN  \/ InfoReply(reply) \/ InjectReply(reply) \/ CleanupReply(reply)
         \/ ForcedReply \/ ResetReply
  /\ UNCHANGED <<plan, runs, late>> /\ bench_untouched

\* What a TimeoutError of recv_line does, by the command that waited.
TimedOut ==
  \/ pc = "info" /\ Return("raised") /\ i' = i /\ SendNothing
  \/ pc \in {"injecting", "cleaning"} /\ Fail
  \/ ForcedReply
  \/ ResetReply

\* recv_line gives up: nothing will come, or it will come too late.
Timeout ==
  /\ to_host = <<>>
  /\ \/ (to_bench = <<>> \/ ~on) /\ late' = late
     \/ to_bench # <<>> /\ on /\ late < MaxLate /\ late' = late + 1
  /\ TimedOut
  /\ UNCHANGED <<plan, runs, to_host>> /\ bench_untouched

\* execute() is cancelled wherever it waits, in a quiet window ("next") too: a
\* reply that was under way stays on the line.
CancelExecute ==
  /\ pc \in (Waiting \ {"resetting"}) \cup {"gates", "next", "sleeping"}
  /\ \/ pc \in Waiting /\ late < MaxLate /\ late' = late + 1
     \/ pc \notin Waiting /\ late' = late
  /\ UNCHANGED <<plan, i, runs, to_host>> /\ bench_untouched

\* The guard trips, and the orchestrator's cleanup resets the bench.
Trip ==
  /\ CancelExecute
  /\ pc' = "resetting" /\ Send("reset", NoFault, NoHandle)
  /\ handle' = NoHandle /\ outcome' = outcome

\* The workload raises, or the operator interrupts: nobody resets the bench.
WorkloadFails == CancelExecute /\ Return("cancelled") /\ SendNothing
------------------------------------------------------------------------------
(***************************************************************************)
(* The firmware.                                                           *)
(***************************************************************************)
Answer(reply) == to_host' = Append(to_host, reply)

handle_info == Answer(Reply("info", pin, NoHandle)) /\ UNCHANGED <<active, next_id>>

handle_inject(c) ==
  IF pin = "BENCH" /\ c.fault.duration <= MaxDuration /\ Cardinality(active) < MaxActiveFaults
     /\ c.fault.known
  THEN /\ next_id' = next_id + 1
       /\ active' = active \cup {[handle |-> next_id', fault |-> c.fault, run |-> c.run]}
       /\ Answer(Reply("handle", "none", next_id'))
  ELSE Answer(Reply("error", "none", NoHandle)) /\ UNCHANGED <<active, next_id>>

handle_cleanup(c) ==
  LET found == {f \in active : f.handle = c.handle}
  IN  /\ active' = active \ found
      /\ Answer(Reply(IF found = {} THEN "already" ELSE "plain", "none", NoHandle))
      /\ next_id' = next_id

handle_reset == active' = {} /\ Answer(Reply("plain", "none", NoHandle)) /\ next_id' = next_id

process_line ==
  /\ on /\ to_bench # <<>> /\ to_bench' = Tail(to_bench)
  /\ LET c == Head(to_bench)
     IN  \/ c.cmd = "info" /\ handle_info
         \/ c.cmd = "inject" /\ handle_inject(c)
         \/ c.cmd = "cleanup" /\ handle_cleanup(c)
         \/ c.cmd = "reset" /\ handle_reset
  /\ UNCHANGED <<on, pin, flips, late>> /\ UNCHANGED agent

\* Mutant: only a device in bench mode looks at its clock.
poll_expirations_bench_only ==
  /\ pin = "BENCH"
  /\ \E f \in active : active' = active \ {f}
  /\ UNCHANGED <<to_bench, to_host, next_id, on, pin, flips, late>> /\ UNCHANGED agent

\* A fault's time is over.  The device's clock and the host's are independent.
poll_expirations ==
  /\ \E f \in active : active' = active \ {f}
  /\ UNCHANGED <<to_bench, to_host, next_id, on, pin, flips, late>> /\ UNCHANGED agent

\* The device loses power: its memory and what it has not read are gone.
PowerLoss ==
  /\ on /\ on' = FALSE
  /\ late < MaxLate /\ late' = late + 1
  /\ active' = {} /\ to_bench' = <<>>
  /\ UNCHANGED <<to_host, next_id, pin, flips>> /\ UNCHANGED agent

\* setup() when the power is back: what was sent meanwhile is lost, the handles
\* start again and the banner is printed.
Boot ==
  /\ ~on /\ on' = TRUE
  /\ next_id' = 0 /\ to_bench' = <<>>
  /\ Answer(Reply("banner", "none", NoHandle))
  /\ UNCHANGED <<active, pin, flips, late>> /\ UNCHANGED agent

FlipPin ==
  /\ flips < MaxFlips /\ flips' = flips + 1
  /\ pin' = IF pin = "BENCH" THEN "PRODUCTION" ELSE "BENCH"
  /\ UNCHANGED <<to_bench, to_host, active, next_id, on, late>> /\ UNCHANGED agent
------------------------------------------------------------------------------
HostStep == TelemetryGates \/ NextFault \/ DurationOver \/ Receive \/ Timeout

Next ==
  \/ Execute \/ HostStep \/ Trip \/ WorkloadFails
  \/ process_line \/ poll_expirations \/ PowerLoss \/ Boot \/ FlipPin

\* The event loop resumes a coroutine that can go on, and the device's loop()
\* reads its line and its clock for ever.  Nobody has to call execute(), and
\* cancellations, power and the pin owe nothing.
Fairness == WF_vars(HostStep) /\ WF_vars(process_line) /\ WF_vars(poll_expirations)

Spec == Init /\ [][Next]_vars /\ Fairness
------------------------------------------------------------------------------
(***************************************************************************)
(* Properties.                                                             *)
(***************************************************************************)
FaultOnBench == [handle : Nat \ {0}, fault : Fault, run : Nat]

\* Every variable has its type, and the device never has more faults in use
\* than it has slots.
TypeOK ==
  /\ pc \in Waiting \cup {"idle", "gates", "next", "sleeping"}
  /\ plan \in Plans /\ i \in Nat /\ handle \in Nat /\ runs \in 0 .. MaxRuns
  /\ outcome \in {"none", "success", "failed", "raised", "tripped", "cancelled"}
  /\ \A k \in DOMAIN to_bench : to_bench[k].cmd \in {"info", "inject", "cleanup", "reset"}
  /\ \A k \in DOMAIN to_host :
       to_host[k].kind \in {"info", "handle", "plain", "already", "error", "banner"}
  /\ active \subseteq FaultOnBench /\ Cardinality(active) <= MaxActiveFaults
  /\ next_id \in Nat /\ on \in BOOLEAN /\ pin \in {"BENCH", "PRODUCTION"}
  /\ flips \in 0 .. MaxFlips /\ late \in 0 .. MaxLate

\* As long as at most one line has gone astray since the transport was opened,
\* an agent that believes its fault is live holds the handle of that very
\* fault, and of no other.  (A second stray line can pair the handle of an
\* earlier run with the present one.)
HoldsOwnFault ==
  pc \in {"sleeping", "cleaning"} /\ late <= 1 =>
    \A f \in active : f.handle = handle <=> f.run = runs

\* Under the same condition an execute() that reports success has left none of
\* its faults on the bench: a stray reply makes it fail, never lie.
SuccessLeavesBenchQuiet ==
  pc = "idle" /\ outcome = "success" /\ late <= 1 => \A f \in active : f.run # runs

\* A WiFi fault that its plan declares as rf is only ever emitted on channels of
\* the operator's licence, whatever plans come one after the other and whatever
\* replies get lost in between.  That is all the gate can promise: a fault
\* declared in another category, and the frequencies of BLE and LoRa, pass it.
OnlyLicensedEmissions ==
  \A f \in active : f.fault.rf /\ f.fault.radio = "wifi" =>
    \E b \in licensed_bands : emitted_channels(f.fault) \subseteq b[1] .. b[2]

\* The device's own time limit is the last resort: a fault that nobody cleans
\* up, its reply lost or its run cancelled, does not stay for ever.
BenchQuietsDown == (active # {}) ~> (active = {})
==============================================================================
