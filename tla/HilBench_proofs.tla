---------------------------- MODULE HilBench_proofs ----------------------------
(***************************************************************************)
(* What a declared WiFi fault emits is licensed, for all plans and bounds. *)
(*                                                                         *)
(* OnlyLicensedEmissions speaks of the device alone, which checks nothing  *)
(* of the kind: a command may wait on the line while its run is cancelled  *)
(* and the next ones begin.  The inductive invariant therefore also covers *)
(* the commands under way and the plan of a run that has passed its gates. *)
(*                                                                         *)
(* HoldsOwnFault and SuccessLeavesBenchQuiet need the two lines in step:   *)
(* with nothing astray the lines carry exactly the command the host waits  *)
(* for, or its reply; after one astray line (Behind) the host reads every  *)
(* reply one command late and so never takes a handle for its own; while   *)
(* the bench is off (Off) nothing is live on it.                           *)
(***************************************************************************)
EXTENDS HilBench, TLAPS

CommandType == [cmd : {"info", "inject", "cleanup", "reset"}, fault : Fault,
                handle : Nat, run : Nat]
ReplyType == [kind : {"info", "handle", "plain", "already", "error", "banner"},
              mode : {"BENCH", "PRODUCTION", "none"}, handle : Nat]

\* OnlyLicensedEmissions, of one fault.
Licensed(f) ==
  f.rf /\ f.radio = "wifi" =>
    \E b \in licensed_bands : emitted_channels(f) \subseteq b[1] .. b[2]

\* Places where the plan at hand has passed the gate.
Gated == {"info", "gates", "next", "injecting", "sleeping", "cleaning"}

\* The types the argument needs.
LineInv ==
  /\ plan \in Plans
  /\ i \in Nat \ {0}
  /\ handle \in Nat
  /\ runs \in Nat
  /\ next_id \in Nat
  /\ pin \in {"BENCH", "PRODUCTION"}
  /\ to_host \in Seq(ReplyType)
  /\ to_bench \in Seq(CommandType)

\* The plan of a gated run, the commands on the line and the faults that are
\* live are all within the licence.
EmissionInv ==
  /\ pc \in Gated => check_emission_compliance(plan)
  /\ \A k \in DOMAIN to_bench : Licensed(to_bench[k].fault)
  /\ \A f \in active : Licensed(f.fault)

BenchInv == LineInv /\ EmissionInv
------------------------------------------------------------------------------
\* The gate's comparison of bounds says that the licence covers the channels.
LEMMA GateMeansLicensed ==
  ASSUME NEW p \in Plans, check_emission_compliance(p), NEW k \in DOMAIN p.faults
  PROVE  Licensed(p.faults[k])
<1>1. p.faults \in Seq(Fault) /\ licensed_bands \subseteq Nat \X Nat
  BY BenchAssumption
<1>2. p.faults[k] \in Fault
  BY <1>1
<1>3. p.faults[k].channel \in Nat
  BY <1>2 DEF Fault
<1>4. \A b \in licensed_bands : b[1] \in Nat /\ b[2] \in Nat
  BY <1>1
<1>5. SUFFICES ASSUME p.faults[k].rf, p.faults[k].radio = "wifi"
               PROVE  \E b \in licensed_bands : emitted_channels(p.faults[k]) \subseteq b[1] .. b[2]
  BY DEF Licensed
<1>6. CASE p.faults[k].channel = 0
  <2>1. PICK b \in licensed_bands : b[1] <= 1 /\ b[2] >= 14
    BY <1>5, <1>6 DEF check_emission_compliance
  <2>2. 1 .. 14 \subseteq b[1] .. b[2]
    BY <2>1, <1>4
  <2>3. emitted_channels(p.faults[k]) = 1 .. 14
    BY <1>5, <1>6 DEF emitted_channels
  <2>4. QED
    BY <2>2, <2>3
<1>7. CASE p.faults[k].channel # 0
  <2>1. channel_in_bands(p.faults[k].channel)
    BY <1>5, <1>7 DEF check_emission_compliance
  <2>2. PICK b \in licensed_bands : b[1] <= p.faults[k].channel /\ p.faults[k].channel <= b[2]
    BY <2>1 DEF channel_in_bands
  <2>3. p.faults[k].channel \in b[1] .. b[2]
    BY <2>2, <1>3, <1>4
  <2>4. emitted_channels(p.faults[k]) = {p.faults[k].channel}
    BY <1>5, <1>7 DEF emitted_channels
  <2>5. QED
    BY <2>3, <2>4
<1>8. QED
  BY <1>6, <1>7

\* The commands that inject nothing carry a licensed placeholder.
LEMMA NoFaultLicensed == NoFault \in Fault /\ Licensed(NoFault)
  BY DEF NoFault, Fault, Licensed

\* Sending a licensed command keeps the line licensed.
LEMMA SendKeeps ==
  ASSUME LineInv, EmissionInv,
         NEW c \in {"info", "inject", "cleanup", "reset"}, NEW f \in Fault, NEW h \in Nat,
         Licensed(f), Send(c, f, h)
  PROVE  /\ to_bench' \in Seq(CommandType)
         /\ \A k \in DOMAIN to_bench' : Licensed(to_bench'[k].fault)
<1> DEFINE m == Command(c, f, h)
<1>1. m \in CommandType /\ m.fault = f
  BY DEF Command, CommandType, LineInv
<1>2. to_bench' = Append(to_bench, m) /\ to_bench \in Seq(CommandType)
  BY DEF Send, LineInv
<1> HIDE DEF m
<1>3. to_bench' \in Seq(CommandType)
  BY <1>1, <1>2
<1>4. ASSUME NEW k \in DOMAIN to_bench'
      PROVE  Licensed(to_bench'[k].fault)
  <2>1. CASE k \in DOMAIN to_bench
    BY <2>1, <1>2 DEF EmissionInv
  <2>2. CASE k \notin DOMAIN to_bench
    BY <2>2, <1>1, <1>2
  <2>3. QED
    BY <2>1, <2>2
<1>5. QED
  BY <1>3, <1>4

\* Sending nothing too.
LEMMA SilenceKeeps ==
  ASSUME LineInv, EmissionInv, SendNothing
  PROVE  /\ to_bench' \in Seq(CommandType)
         /\ \A k \in DOMAIN to_bench' : Licensed(to_bench'[k].fault)
  BY DEF SendNothing, LineInv, EmissionInv
------------------------------------------------------------------------------
\* Nothing is under way when the transport is opened.
LEMMA InitBenchInv == Init => BenchInv
  BY DEF Init, BenchInv, LineInv, EmissionInv, Gated, NoHandle

\* What a step of the host leaves to show, once its command is accounted for.
LEMMA HostStepKeeps ==
  ASSUME BenchInv,
         to_bench' \in Seq(CommandType),
         \A k \in DOMAIN to_bench' : Licensed(to_bench'[k].fault),
         bench_untouched,
         plan' \in Plans, i' \in Nat \ {0}, handle' \in Nat, runs' \in Nat,
         to_host' \in Seq(ReplyType),
         pc' \in Gated => check_emission_compliance(plan')
  PROVE  BenchInv'
  BY DEF BenchInv, LineInv, EmissionInv, bench_untouched

\* Failing keeps what the line carries, and the plan of a run is the one that
\* passed its gates.
LEMMA FailKeeps ==
  ASSUME BenchInv, Fail
  PROVE  /\ to_bench' \in Seq(CommandType)
         /\ \A k \in DOMAIN to_bench' : Licensed(to_bench'[k].fault)
         /\ i' = i /\ handle' \in Nat /\ pc' \notin Gated
<1>1. CASE handle = NoHandle /\ Return("failed") /\ SendNothing /\ i' = i
  BY <1>1, SilenceKeeps DEF BenchInv, Return, NoHandle, Gated
<1>2. CASE handle # NoHandle /\ pc' = "forcing" /\ Send("cleanup", NoFault, handle)
           /\ handle' = handle /\ i' = i
  <2>1. handle \in Nat
    BY DEF BenchInv, LineInv
  <2>2. QED
    BY <1>2, <2>1, SendKeeps, NoFaultLicensed DEF BenchInv, Gated
<1>3. QED
  BY <1>1, <1>2 DEF Fail

\* So does giving up on a forced cleanup or on a reset.
LEMMA GiveUpKeeps ==
  ASSUME BenchInv, ForcedReply \/ ResetReply
  PROVE  /\ to_bench' \in Seq(CommandType)
         /\ \A k \in DOMAIN to_bench' : Licensed(to_bench'[k].fault)
         /\ i' = i /\ handle' \in Nat /\ pc' \notin Gated
  BY SilenceKeeps DEF BenchInv, ForcedReply, ResetReply, Return, NoHandle, Gated

\* Every step keeps it: the host sends only what its gate let through, and the
\* device starts only what it was sent.
LEMMA StepBenchInv == BenchInv /\ [Next]_vars => BenchInv'
<1> SUFFICES ASSUME BenchInv, [Next]_vars
             PROVE  BenchInv'
  OBVIOUS
<1>0. /\ plan \in Plans /\ i \in Nat \ {0} /\ handle \in Nat /\ runs \in Nat /\ next_id \in Nat
      /\ pin \in {"BENCH", "PRODUCTION"}
      /\ to_host \in Seq(ReplyType) /\ to_bench \in Seq(CommandType)
      /\ pc \in Gated => check_emission_compliance(plan)
      /\ LineInv /\ EmissionInv
  BY DEF BenchInv, LineInv, EmissionInv
<1>1. CASE Execute
  <2>1. PICK p \in Plans :
          /\ plan' = p
          /\ \/ ~PreflightOk(p) /\ Return("failed") /\ SendNothing
             \/ /\ PreflightOk(p) /\ pc' = "info" /\ Send("info", NoFault, NoHandle)
                /\ UNCHANGED <<handle, outcome>>
    BY <1>1 DEF Execute
  <2>2. /\ runs' \in Nat /\ i' \in Nat \ {0} /\ to_host' \in Seq(ReplyType) /\ bench_untouched
    BY <1>0, <1>1 DEF Execute
  <2>3. CASE ~PreflightOk(p) /\ Return("failed") /\ SendNothing
    BY <1>0, <2>1, <2>2, <2>3, SilenceKeeps, HostStepKeeps DEF Return, NoHandle, Gated
  <2>4. CASE /\ PreflightOk(p) /\ pc' = "info" /\ Send("info", NoFault, NoHandle)
             /\ UNCHANGED <<handle, outcome>>
    <3>1. NoHandle \in Nat /\ check_emission_compliance(plan')
      BY <2>1, <2>4 DEF NoHandle, PreflightOk
    <3>2. QED
      BY <1>0, <2>1, <2>2, <2>4, <3>1, SendKeeps, NoFaultLicensed, HostStepKeeps
  <2>5. QED
    BY <2>1, <2>3, <2>4
<1>2. CASE TelemetryGates
  <2>1. SendNothing
    BY <1>2 DEF TelemetryGates, SendNothing
  <2>2. QED
    BY <1>0, <1>2, <2>1, SilenceKeeps, HostStepKeeps
    DEF TelemetryGates, Return, NoHandle, Gated
<1>3. CASE NextFault
  <2>1. CASE i > Len(plan.faults) /\ Return("success") /\ SendNothing
    BY <1>0, <1>3, <2>1, SilenceKeeps, HostStepKeeps DEF NextFault, Return, NoHandle, Gated
  <2>2. CASE /\ i <= Len(plan.faults)
             /\ Send("inject", plan.faults[i], NoHandle)
             /\ pc' = "injecting" /\ UNCHANGED <<handle, outcome>>
    <3>1. check_emission_compliance(plan)
      BY <1>0, <1>3 DEF NextFault, Gated
    <3>2. plan.faults \in Seq(Fault)
      BY <1>0, BenchAssumption
    <3>3. i \in DOMAIN plan.faults /\ plan.faults[i] \in Fault
      BY <1>0, <2>2, <3>2
    <3>4. Licensed(plan.faults[i])
      BY <1>0, <3>1, <3>3, GateMeansLicensed
    <3>5. QED
      BY <1>0, <1>3, <2>2, <3>1, <3>3, <3>4, SendKeeps, HostStepKeeps DEF NextFault, NoHandle
  <2>3. QED
    BY <1>3, <2>1, <2>2 DEF NextFault
<1>4. CASE DurationOver
  BY <1>0, <1>4, SendKeeps, NoFaultLicensed, HostStepKeeps DEF DurationOver, Gated
<1>5. CASE Receive
  <2> DEFINE reply == Head(to_host)
  <2>1. /\ reply \in ReplyType /\ to_host' \in Seq(ReplyType)
        /\ plan' = plan /\ runs' = runs /\ bench_untouched
    <3>1. to_host # <<>> /\ to_host' = Tail(to_host) /\ plan' = plan /\ runs' = runs
      BY <1>5 DEF Receive
    <3>2. bench_untouched
      BY <1>5 DEF Receive
    <3>3. QED
      BY <1>0, <3>1, <3>2
  <2>2. reply.handle \in Nat
    BY <2>1 DEF ReplyType
  <2>3. \/ InfoReply(reply) \/ InjectReply(reply) \/ CleanupReply(reply)
        \/ ForcedReply \/ ResetReply
    BY <1>5 DEF Receive
  <2> HIDE DEF reply
  <2>4. CASE InfoReply(reply)
    BY <1>0, <2>1, <2>4, SilenceKeeps, HostStepKeeps DEF InfoReply, Return, NoHandle, Gated
  <2>5. CASE InjectReply(reply)
    <3>1. CASE Fail
      BY <1>0, <2>1, <3>1, FailKeeps, HostStepKeeps
    <3>2. CASE handle' = reply.handle /\ i' = i /\ SendNothing
      BY <1>0, <2>1, <2>2, <2>5, <3>2, SilenceKeeps, HostStepKeeps DEF InjectReply, Gated
    <3>3. QED
      BY <2>5, <3>1, <3>2 DEF InjectReply
  <2>6. CASE CleanupReply(reply)
    <3>1. CASE Fail
      BY <1>0, <2>1, <3>1, FailKeeps, HostStepKeeps
    <3>2. CASE handle' = NoHandle /\ i' = i + 1 /\ SendNothing
      BY <1>0, <2>1, <2>6, <3>2, SilenceKeeps, HostStepKeeps DEF CleanupReply, NoHandle, Gated
    <3>3. QED
      BY <2>6, <3>1, <3>2 DEF CleanupReply
  <2>7. CASE ForcedReply \/ ResetReply
    BY <1>0, <2>1, <2>7, GiveUpKeeps, HostStepKeeps
  <2>8. QED
    BY <2>3, <2>4, <2>5, <2>6, <2>7
<1>6. CASE Timeout
  <2>1. /\ plan' = plan /\ runs' = runs /\ to_host' = to_host /\ bench_untouched /\ TimedOut
    BY <1>6 DEF Timeout
  <2>2. CASE pc = "info" /\ Return("raised") /\ i' = i /\ SendNothing
    BY <1>0, <2>1, <2>2, SilenceKeeps, HostStepKeeps DEF Return, NoHandle, Gated
  <2>3. CASE Fail
    BY <1>0, <2>1, <2>3, FailKeeps, HostStepKeeps
  <2>4. CASE ForcedReply \/ ResetReply
    BY <1>0, <2>1, <2>4, GiveUpKeeps, HostStepKeeps
  <2>5. QED
    BY <2>1, <2>2, <2>3, <2>4 DEF TimedOut
<1>7. CASE Trip
  <2>1. NoHandle \in Nat
    BY DEF NoHandle
  <2>2. QED
    BY <1>0, <1>7, <2>1, SendKeeps, NoFaultLicensed, HostStepKeeps
    DEF Trip, CancelExecute, Gated
<1>8. CASE WorkloadFails
  BY <1>0, <1>8, SilenceKeeps, HostStepKeeps
  DEF WorkloadFails, CancelExecute, Return, NoHandle, Gated
<1>9. CASE process_line
  <2> DEFINE c == Head(to_bench)
  <2>1. /\ c \in CommandType /\ Licensed(c.fault) /\ to_bench' \in Seq(CommandType)
        /\ \A k \in DOMAIN to_bench' : Licensed(to_bench'[k].fault)
    BY <1>0, <1>9 DEF process_line, EmissionInv
  <2>2. \/ handle_info \/ handle_inject(c) \/ handle_cleanup(c) \/ handle_reset
    BY <1>9 DEF process_line
  <2> HIDE DEF c
  <2>3. next_id' \in Nat
    BY <1>0, <2>2 DEF handle_info, handle_inject, handle_cleanup, handle_reset
  <2>4. to_host' \in Seq(ReplyType)
    <3>1. \E r \in ReplyType : Answer(r)
      <4>1. CASE handle_info
        <5>1. Reply("info", pin, NoHandle) \in ReplyType
          BY <1>0 DEF Reply, ReplyType, NoHandle
        <5>2. QED
          BY <4>1, <5>1 DEF handle_info
      <4>2. CASE handle_inject(c)
        <5>1. /\ Reply("handle", "none", next_id') \in ReplyType
              /\ Reply("error", "none", NoHandle) \in ReplyType
          BY <2>3 DEF Reply, ReplyType, NoHandle
        <5>2. QED
          BY <4>2, <5>1 DEF handle_inject
      <4>3. CASE handle_cleanup(c) \/ handle_reset
        <5>1. \A k \in {"already", "plain"} : Reply(k, "none", NoHandle) \in ReplyType
          BY DEF Reply, ReplyType, NoHandle
        <5>2. QED
          BY <4>3, <5>1 DEF handle_cleanup, handle_reset
      <4>4. QED
        BY <2>2, <4>1, <4>2, <4>3
    <3>2. QED
      BY <1>0, <3>1 DEF Answer
  <2>5. \A f \in active' : Licensed(f.fault)
    <3>1. CASE active' \subseteq active
      BY <1>0, <3>1 DEF EmissionInv
    <3>2. CASE active' = active \cup {[handle |-> next_id', fault |-> c.fault, run |-> c.run]}
      BY <1>0, <2>1, <3>2 DEF EmissionInv
    <3>3. QED
      BY <2>2, <3>1, <3>2 DEF handle_info, handle_inject, handle_cleanup, handle_reset
  <2>6. QED
    BY <1>0, <1>9, <2>1, <2>3, <2>4, <2>5
    DEF process_line, agent, BenchInv, LineInv, EmissionInv
<1>10. CASE poll_expirations
  BY <1>0, <1>10 DEF poll_expirations, agent, BenchInv, LineInv, EmissionInv
<1>11. CASE PowerLoss
  BY <1>0, <1>11 DEF PowerLoss, agent, BenchInv, LineInv, EmissionInv
<1>12. CASE Boot
  <2>1. Reply("banner", "none", NoHandle) \in ReplyType
    BY DEF Reply, ReplyType, NoHandle
  <2>2. to_host' \in Seq(ReplyType)
    BY <1>0, <1>12, <2>1 DEF Boot, Answer
  <2>3. QED
    BY <1>0, <1>12, <2>2 DEF Boot, agent, BenchInv, LineInv, EmissionInv
<1>13. CASE FlipPin
  BY <1>0, <1>13 DEF FlipPin, agent, BenchInv, LineInv, EmissionInv
<1>14. CASE UNCHANGED vars
  BY <1>0, <1>14 DEF vars, BenchInv, LineInv, EmissionInv
<1>15. QED
  BY <1>1, <1>2, <1>3, <1>4, <1>5, <1>6, <1>7, <1>8, <1>9, <1>10, <1>11, <1>12, <1>13, <1>14
  DEF Next, HostStep

\* A WiFi fault that its plan declares as rf is only emitted on licensed channels:
\* for any plans, any licence and any number of runs, whatever goes astray on
\* the line.
THEOREM EmissionsLicensed == Spec => []OnlyLicensedEmissions
<1>1. BenchInv => OnlyLicensedEmissions
  BY DEF BenchInv, EmissionInv, OnlyLicensedEmissions, Licensed
<1>2. QED
  BY InitBenchInv, StepBenchInv, <1>1, PTL DEF Spec
------------------------------------------------------------------------------
(***************************************************************************)
(* Whose handle an agent holds.  As long as at most one line went astray   *)
(* the host is in step with the device, or one line behind it, or the      *)
(* device is without power and has no faults at all.  A host that is       *)
(* behind reads the answer to its last but one command, and the answer to  *)
(* what it asks before an inject is never a handle.                        *)
(***************************************************************************)
NoneOwn == \A f \in active : f.run # runs
Holds(h) == \A f \in active : f.handle = h <=> f.run = runs

\* Handles and runs only grow while the device has power.
NumberInv ==
  /\ \A f \in active : f.handle \in Nat /\ f.handle <= next_id /\ f.run \in Nat /\ f.run <= runs
  /\ \A k \in DOMAIN to_bench : to_bench[k].run \in Nat /\ to_bench[k].run <= runs
  /\ on \/ active = {}
  /\ late \in Nat

Quiet == pc \in {"info", "gates", "next"} \/ (pc = "idle" /\ outcome = "success")

\* What the agent believes of its own faults, and that no command of its own is
\* about to make it wrong.
OwnInv ==
  /\ Quiet => NoneOwn
  /\ pc \in {"sleeping", "cleaning"} => Holds(handle)
  /\ on /\ (Quiet \/ pc \in {"sleeping", "cleaning"}) =>
       \A k \in DOMAIN to_bench : to_bench[k].cmd = "inject" => to_bench[k].run # runs

Owed == IF pc \in Waiting THEN 1 ELSE 0

\* The only line under way is the command that the host waits for, or its reply.
InStep ==
  /\ on
  /\ Len(to_bench) + Len(to_host) = Owed
  /\ Len(to_bench) = 1 =>
       /\ pc = "info" => to_bench[1].cmd = "info"
       /\ pc = "injecting" => to_bench[1].cmd = "inject" /\ to_bench[1].run = runs /\ NoneOwn
       /\ pc = "cleaning" => to_bench[1].cmd = "cleanup" /\ to_bench[1].handle = handle
  /\ Len(to_host) = 1 =>
       /\ pc = "injecting" /\ to_host[1].kind = "handle" => Holds(to_host[1].handle)
       /\ pc = "cleaning" => NoneOwn

\* There is one line more, and it comes first.
Behind ==
  /\ on /\ late = 1
  /\ Len(to_bench) + Len(to_host) = Owed + 1
  /\ pc = "info" => IF Len(to_bench) > 0 THEN to_bench[Len(to_bench)].cmd = "info"
                                         ELSE to_host[2].kind \in {"info", "banner"}
  /\ pc \in {"gates", "next"} => IF Len(to_bench) > 0 THEN to_bench[1].cmd = "info"
                                                     ELSE to_host[1].kind # "handle"
  /\ pc = "injecting" =>
       \/ IF Len(to_bench) = 2 THEN to_bench[1].cmd = "info" ELSE to_host[1].kind # "handle"
       \/ active = {} /\ Len(to_host) = 2 /\ to_host[2].kind = "banner"
  /\ pc = "sleeping" => active = {} /\ Len(to_host) = 1 /\ to_host[1].kind = "banner"
  /\ pc = "cleaning" => /\ active = {} /\ Len(to_host) > 0
                        /\ "banner" \in {to_host[1].kind, to_host[Len(to_host)].kind}
                        /\ \A k \in DOMAIN to_bench : to_bench[k].cmd = "cleanup"

\* No power, no faults; at most the reply that the host waits for is unread.
Off ==
  /\ ~on /\ late = 1
  /\ active = {}
  /\ Len(to_host) <= Owed

HandleInv ==
  /\ NumberInv
  /\ late = 0 => InStep
  /\ late <= 1 => OwnInv /\ (InStep \/ Behind \/ Off)
------------------------------------------------------------------------------
\* The two lines, one entry more and one entry less.
LEMMA Appended ==
  ASSUME NEW S, NEW s \in Seq(S), NEW e \in S
  PROVE  /\ Append(s, e) \in Seq(S) /\ Len(s) \in Nat
         /\ Len(Append(s, e)) = Len(s) + 1
         /\ DOMAIN Append(s, e) = 1 .. Len(s) + 1 /\ DOMAIN s = 1 .. Len(s)
         /\ \A k \in 1 .. Len(s) : Append(s, e)[k] = s[k]
         /\ Append(s, e)[Len(s) + 1] = e
OBVIOUS

LEMMA Consumed ==
  ASSUME NEW S, NEW s \in Seq(S), s # <<>>
  PROVE  /\ Tail(s) \in Seq(S) /\ Head(s) = s[1] /\ Head(s) \in S
         /\ Len(s) \in Nat /\ Len(s) > 0 /\ Len(Tail(s)) = Len(s) - 1
         /\ DOMAIN Tail(s) = 1 .. Len(s) - 1 /\ DOMAIN s = 1 .. Len(s)
         /\ \A k \in 1 .. Len(s) - 1 : Tail(s)[k] = s[k + 1]
OBVIOUS

LEMMA InitHandleInv == Init => HandleInv
<1> SUFFICES ASSUME Init PROVE HandleInv
  OBVIOUS
<1>1. Len(to_bench) = 0 /\ Len(to_host) = 0 /\ DOMAIN to_bench = {}
  BY DEF Init
<1> QED
  BY <1>1 DEF Init, HandleInv, NumberInv, OwnInv, Quiet, NoneOwn, InStep, Owed, Waiting

\* What a step of the host has sent.
Sent(c, h) ==
  /\ Len(to_bench') = Len(to_bench) + 1
  /\ DOMAIN to_bench' = 1 .. Len(to_bench) + 1
  /\ \A k \in 1 .. Len(to_bench) : to_bench'[k] = to_bench[k]
  /\ to_bench'[Len(to_bench) + 1].cmd = c
  /\ to_bench'[Len(to_bench) + 1].run = runs
  /\ to_bench'[Len(to_bench) + 1].handle = h

LEMMA SendSent ==
  ASSUME LineInv, NEW c \in {"info", "inject", "cleanup", "reset"}, NEW f \in Fault,
         NEW h \in Nat, Send(c, f, h)
  PROVE  Sent(c, h)
<1> DEFINE m == Command(c, f, h)
<1>1. m \in CommandType /\ m.cmd = c /\ m.run = runs /\ m.handle = h
  BY DEF Command, CommandType, LineInv
<1>2. to_bench' = Append(to_bench, m) /\ to_bench \in Seq(CommandType)
  BY DEF Send, LineInv
<1> HIDE DEF m
<1> QED
  BY <1>1, <1>2, Appended DEF Sent

LEMMA Lines ==
  ASSUME LineInv
  PROVE  /\ DOMAIN to_bench = 1 .. Len(to_bench) /\ Len(to_bench) \in Nat
         /\ DOMAIN to_host = 1 .. Len(to_host) /\ Len(to_host) \in Nat
         /\ runs \in Nat /\ next_id \in Nat /\ handle \in Nat
BY DEF LineInv

LEMMA ExecuteHandle ==
  ASSUME BenchInv, HandleInv, Execute
  PROVE  HandleInv'
<1>0. LineInv
  BY DEF BenchInv
<1> USE <1>0, Lines
<1>1. pc = "idle" /\ runs' = runs + 1 /\ UNCHANGED <<to_host, late, active, next_id, on>>
  BY DEF Execute, bench_untouched
<1>2. CASE pc' = "idle" /\ outcome' = "failed" /\ to_bench' = to_bench
  BY <1>1, <1>2 DEF HandleInv, NumberInv, OwnInv, Quiet, InStep, Behind, Off, Owed, Waiting
<1>3. CASE pc' = "info" /\ Sent("info", NoHandle)
  <2>1. NumberInv'
    BY SMTT(60), <1>1, <1>3 DEF HandleInv, NumberInv, Sent
  <2>2. OwnInv'
    <3>1. NoneOwn'
      BY <1>1 DEF HandleInv, NumberInv, NoneOwn
    <3>2. \A k \in 1 .. Len(to_bench) : to_bench'[k].run # runs'
      BY <1>1, <1>3 DEF HandleInv, NumberInv, Sent
    <3>3. to_bench'[Len(to_bench) + 1].cmd = "info" /\ DOMAIN to_bench' = 1 .. Len(to_bench) + 1
      BY <1>3 DEF Sent
    <3>4. \A k \in DOMAIN to_bench' : to_bench'[k].cmd = "inject" => to_bench'[k].run # runs'
      BY <3>2, <3>3
    <3> QED
      BY <1>3, <3>1, <3>4 DEF OwnInv
  <2>3. InStep => InStep'
    BY <1>1, <1>3 DEF InStep, Owed, Waiting, Sent
  <2>4. Behind => Behind'
    BY <1>1, <1>3 DEF Behind, Owed, Waiting, Sent
  <2>5. Off => Off'
    BY <1>1, <1>3 DEF Off, Owed, Waiting
  <2> QED
    BY <1>1, <2>1, <2>2, <2>3, <2>4, <2>5 DEF HandleInv
<1> QED
  BY <1>2, <1>3, SendSent, NoFaultLicensed DEF Execute, Return, SendNothing, NoHandle

\* The agent gives up: it returns, or sends a last cleanup or a reset.
GivesUp ==
  \/ pc' = "idle" /\ outcome' # "success" /\ to_bench' = to_bench
  \/ pc' \in {"forcing", "resetting"} /\ \E c \in {"cleanup", "reset"}, h \in Nat : Sent(c, h)

LEMMA FailGivesUp == ASSUME BenchInv, Fail PROVE GivesUp
<1>1. LineInv /\ handle \in Nat
  BY DEF BenchInv, LineInv
<1> QED
  BY <1>1, SendSent, NoFaultLicensed DEF Fail, Return, SendNothing, GivesUp

\* What giving up does to the line.
LEMMA GiveUpLine ==
  ASSUME LineInv, NumberInv, GivesUp
  PROVE  /\ Len(to_bench') = Len(to_bench) + Owed'
         /\ pc' \in {"idle", "forcing", "resetting"}
         /\ pc' = "idle" => outcome' # "success"
         /\ \A k \in DOMAIN to_bench' : to_bench'[k].run \in Nat /\ to_bench'[k].run <= runs
<1> USE Lines
<1>1. CASE pc' = "idle" /\ outcome' # "success" /\ to_bench' = to_bench
  <2>1. Owed' = 0
    BY <1>1 DEF Owed, Waiting
  <2> QED
    BY <1>1, <2>1 DEF NumberInv
<1>2. ASSUME pc' \in {"forcing", "resetting"},
             NEW c \in {"cleanup", "reset"}, NEW h \in Nat, Sent(c, h)
      PROVE  /\ Len(to_bench') = Len(to_bench) + Owed'
             /\ pc' \in {"idle", "forcing", "resetting"}
             /\ pc' = "idle" => outcome' # "success"
             /\ \A k \in DOMAIN to_bench' : to_bench'[k].run \in Nat /\ to_bench'[k].run <= runs
  <2>1. Owed' = 1
    BY <1>2 DEF Owed, Waiting
  <2>2. \A k \in 1 .. Len(to_bench) : to_bench'[k].run \in Nat /\ to_bench'[k].run <= runs
    BY <1>2 DEF NumberInv, Sent
  <2>3. /\ to_bench'[Len(to_bench) + 1].run = runs /\ DOMAIN to_bench' = 1 .. Len(to_bench) + 1
        /\ Len(to_bench') = Len(to_bench) + 1
    BY <1>2 DEF Sent
  <2> QED
    BY <1>2, <2>1, <2>2, <2>3
<1> QED
  BY <1>1, <1>2 DEF GivesUp

\* It gives up having read what it waited for, or without waiting.
LEMMA GiveUpHandle ==
  ASSUME LineInv, HandleInv, GivesUp, UNCHANGED <<active, next_id, on, runs, late>>,
         Len(to_host') = Len(to_host) - Owed
  PROVE  HandleInv'
<1> USE Lines
<1>1. /\ Len(to_bench') = Len(to_bench) + Owed'
      /\ pc' \in {"idle", "forcing", "resetting"}
      /\ pc' = "idle" => outcome' # "success"
      /\ \A k \in DOMAIN to_bench' : to_bench'[k].run \in Nat /\ to_bench'[k].run <= runs
  BY GiveUpLine DEF HandleInv
<1>2. NumberInv'
  BY <1>1 DEF HandleInv, NumberInv
<1>3. OwnInv'
  BY SMTT(60), <1>1 DEF OwnInv, Quiet
<1>4. Owed \in {0, 1} /\ Owed' \in {0, 1}
  BY DEF Owed
<1>5. InStep => InStep'
  BY SMTT(60), <1>1, <1>4 DEF InStep
<1>6. Behind => Behind'
  BY SMTT(60), <1>1, <1>4 DEF Behind
<1>7. Off => Off'
  BY <1>1, <1>4 DEF Off
<1> QED
  BY <1>2, <1>3, <1>5, <1>6, <1>7 DEF HandleInv

\* It gives up, and the answer to its command is the line that goes astray.
LEMMA AstrayHandle ==
  ASSUME LineInv, HandleInv, GivesUp, UNCHANGED <<active, next_id, on, runs, to_host>>,
         pc \in Waiting, late' = late + 1
  PROVE  HandleInv'
<1> USE Lines
<1>1. /\ Len(to_bench') = Len(to_bench) + Owed'
      /\ pc' \in {"idle", "forcing", "resetting"}
      /\ pc' = "idle" => outcome' # "success"
      /\ \A k \in DOMAIN to_bench' : to_bench'[k].run \in Nat /\ to_bench'[k].run <= runs
  BY GiveUpLine DEF HandleInv
<1>2. NumberInv'
  BY <1>1 DEF HandleInv, NumberInv
<1>3. OwnInv'
  BY <1>1 DEF OwnInv, Quiet
<1>4. Owed = 1 /\ Owed' \in {0, 1}
  BY DEF Owed
<1>5. late = 0 /\ InStep => Behind'
  BY <1>1, <1>4 DEF InStep, Behind
<1> QED
  BY <1>2, <1>3, <1>5 DEF HandleInv, NumberInv

LEMMA GatesHandle ==
  ASSUME BenchInv, HandleInv, TelemetryGates
  PROVE  HandleInv'
<1>0. LineInv
  BY DEF BenchInv
<1> USE <1>0, Lines
<1>1. pc = "gates" /\ UNCHANGED <<to_bench, to_host, late, active, next_id, on, runs>>
  BY DEF TelemetryGates, bench_untouched
<1>2. CASE pc' = "next"
  BY <1>1, <1>2 DEF HandleInv, NumberInv, OwnInv, Quiet, NoneOwn, InStep, Behind, Off, Owed, Waiting
<1>3. CASE \E how \in {"failed", "raised"} : Return(how)
  <2>1. GivesUp
    BY <1>1, <1>3 DEF GivesUp, Return
  <2>2. Len(to_host') = Len(to_host) - Owed
    BY <1>1 DEF Owed, Waiting
  <2> QED
    BY <1>1, <2>1, <2>2, GiveUpHandle
<1> QED
  BY <1>2, <1>3 DEF TelemetryGates

LEMMA NextFaultHandle ==
  ASSUME BenchInv, HandleInv, NextFault
  PROVE  HandleInv'
<1>0. LineInv
  BY DEF BenchInv
<1> USE <1>0, Lines
<1>1. pc = "next" /\ UNCHANGED <<to_host, late, active, next_id, on, runs>>
  BY DEF NextFault, bench_untouched
<1>2. CASE pc' = "idle" /\ outcome' = "success" /\ to_bench' = to_bench
  BY <1>1, <1>2 DEF HandleInv, NumberInv, OwnInv, Quiet, NoneOwn, InStep, Behind, Off, Owed, Waiting
<1>3. CASE pc' = "injecting" /\ Sent("inject", NoHandle)
  <2>1. NumberInv'
    BY <1>1, <1>3 DEF HandleInv, NumberInv, Sent
  <2>2. OwnInv'
    BY <1>3 DEF OwnInv, Quiet
  <2>3. OwnInv /\ InStep => InStep'
    BY <1>1, <1>3 DEF OwnInv, Quiet, NoneOwn, InStep, Owed, Waiting, Sent
  <2>4. Behind => Behind'
    BY <1>1, <1>3 DEF Behind, Owed, Waiting, Sent
  <2>5. Off => Off'
    BY <1>1, <1>3 DEF Off, Owed, Waiting
  <2> QED
    BY <1>1, <2>1, <2>2, <2>3, <2>4, <2>5 DEF HandleInv
<1>4. CASE i <= Len(plan.faults) /\ Send("inject", plan.faults[i], NoHandle)
  <2>1. plan.faults \in Seq(Fault) /\ i \in Nat \ {0} /\ NoHandle \in Nat
    BY BenchAssumption DEF LineInv, NoHandle
  <2>2. plan.faults[i] \in Fault
    BY <1>4, <2>1
  <2> QED
    BY <1>3, <1>4, <2>1, <2>2, SendSent DEF NextFault
<1> QED
  BY <1>2, <1>4 DEF NextFault, Return, SendNothing

LEMMA DurationHandle ==
  ASSUME BenchInv, HandleInv, DurationOver
  PROVE  HandleInv'
<1>0. LineInv
  BY DEF BenchInv
<1> USE <1>0, Lines
<1>1. /\ pc = "sleeping" /\ pc' = "cleaning" /\ Sent("cleanup", handle)
      /\ UNCHANGED <<to_host, late, active, next_id, on, runs, handle>>
  BY SendSent, NoFaultLicensed DEF DurationOver, bench_untouched
<1>2. NumberInv'
  BY <1>1 DEF HandleInv, NumberInv, Sent
<1>3. OwnInv => OwnInv'
  BY <1>1 DEF OwnInv, Quiet, Holds, Sent
<1>4. OwnInv /\ InStep => InStep'
  BY <1>1 DEF OwnInv, InStep, Owed, Waiting, Sent
<1>5. Behind => Behind'
  <2>1. Owed = 0 /\ Owed' = 1
    BY <1>1 DEF Owed, Waiting
  <2>2. Behind => /\ Len(to_bench) = 0 /\ DOMAIN to_bench' = {1} /\ to_bench'[1].cmd = "cleanup"
                  /\ Len(to_bench') = 1
    BY SMTT(60), <1>1, <2>1 DEF Behind, Sent
  <2> QED
    BY <1>1, <2>1, <2>2 DEF Behind
<1>6. Off => Off'
  BY <1>1 DEF Off, Owed, Waiting
<1> QED
  BY <1>1, <1>2, <1>3, <1>4, <1>5, <1>6 DEF HandleInv

LEMMA ReceiveHandle ==
  ASSUME BenchInv, HandleInv, Receive
  PROVE  HandleInv'
<1>0. LineInv
  BY DEF BenchInv
<1> USE <1>0, Lines
<1> DEFINE reply == Head(to_host)
<1>1. /\ Len(to_host) > 0 /\ Len(to_host') = Len(to_host) - 1 /\ reply = to_host[1]
      /\ \A k \in 1 .. Len(to_host) - 1 : to_host'[k] = to_host[k + 1]
  <2>1. to_host \in Seq(ReplyType) /\ to_host # <<>> /\ to_host' = Tail(to_host)
    BY DEF Receive, LineInv
  <2> QED
    BY <2>1, Consumed
<1>2. UNCHANGED <<late, active, next_id, on, runs>>
  BY DEF Receive, bench_untouched
<1>3. InfoReply(reply) \/ InjectReply(reply) \/ CleanupReply(reply) \/ ForcedReply \/ ResetReply
  BY DEF Receive
<1> HIDE DEF reply
<1>4. CASE pc \in Waiting /\ GivesUp
  <2>1. Owed = 1
    BY <1>4 DEF Owed
  <2> QED
    BY <1>1, <1>2, <1>4, <2>1, GiveUpHandle
<1>5. CASE /\ pc = "info" /\ pc' = "gates" /\ reply.kind = "info" /\ to_bench' = to_bench
  <2>1. NumberInv'
    BY <1>2, <1>5 DEF HandleInv, NumberInv
  <2>2. OwnInv => OwnInv'
    BY <1>2, <1>5 DEF OwnInv, Quiet, NoneOwn
  <2>3. InStep => InStep'
    BY <1>1, <1>2, <1>5 DEF InStep, Owed, Waiting
  <2>4. Behind => Behind'
    BY <1>1, <1>2, <1>5 DEF Behind, Owed, Waiting
  <2>5. Off => Off'
    BY <1>1, <1>2, <1>5 DEF Off, Owed, Waiting
  <2> QED
    BY <1>2, <2>1, <2>2, <2>3, <2>4, <2>5 DEF HandleInv
<1>6. CASE /\ pc = "injecting" /\ pc' = "sleeping" /\ reply.kind = "handle"
           /\ handle' = reply.handle /\ to_bench' = to_bench
  <2>1. NumberInv'
    BY <1>2, <1>6 DEF HandleInv, NumberInv
  <2>2. InStep => InStep' /\ OwnInv'
    BY <1>1, <1>2, <1>6 DEF InStep, OwnInv, Quiet, Holds, Owed, Waiting
  <2>3. Behind => Behind' /\ OwnInv'
    BY <1>1, <1>2, <1>6 DEF Behind, OwnInv, Quiet, Holds, Owed, Waiting
  <2>4. Off => Off' /\ OwnInv'
    BY <1>1, <1>2, <1>6 DEF Off, Owed, OwnInv, Quiet, Holds, Waiting
  <2> QED
    BY <1>2, <2>1, <2>2, <2>3, <2>4 DEF HandleInv
<1>7. CASE /\ pc = "cleaning" /\ pc' = "next" /\ to_bench' = to_bench
           /\ Ok(reply) \/ reply.kind = "already"
  <2>0. /\ reply.kind \in {"info", "handle", "plain", "already"}
        /\ pc = "cleaning" /\ pc' = "next" /\ to_bench' = to_bench
    BY <1>7 DEF Ok
  <2>1. NumberInv'
    BY <1>2, <1>7 DEF HandleInv, NumberInv
  <2>2. InStep => InStep' /\ OwnInv'
    BY <1>1, <1>2, <2>0 DEF InStep, OwnInv, Quiet, NoneOwn, Owed, Waiting
  <2>3. Behind => Behind' /\ OwnInv'
    BY <1>1, <1>2, <2>0 DEF Behind, OwnInv, Quiet, NoneOwn, Owed, Waiting
  <2>4. Off => Off' /\ OwnInv'
    BY <1>1, <1>2, <2>0 DEF Off, Owed, OwnInv, Quiet, NoneOwn, Waiting
  <2> QED
    BY <1>2, <2>1, <2>2, <2>3, <2>4 DEF HandleInv
<1>8. CASE InfoReply(reply)
  BY <1>4, <1>5, <1>8 DEF InfoReply, Return, SendNothing, GivesUp, Waiting
<1>9. CASE InjectReply(reply)
  BY <1>4, <1>6, <1>9, FailGivesUp DEF InjectReply, SendNothing, Waiting
<1>10. CASE CleanupReply(reply)
  BY <1>4, <1>7, <1>10, FailGivesUp DEF CleanupReply, SendNothing, Waiting
<1>11. CASE ForcedReply \/ ResetReply
  BY <1>4, <1>11 DEF ForcedReply, ResetReply, Return, SendNothing, GivesUp, Waiting
<1> QED
  BY <1>3, <1>8, <1>9, <1>10, <1>11

LEMMA TimeoutHandle ==
  ASSUME BenchInv, HandleInv, Timeout
  PROVE  HandleInv'
<1>0. LineInv
  BY DEF BenchInv
<1> USE <1>0, Lines
<1>1. UNCHANGED <<active, next_id, on, runs, to_host>> /\ Len(to_host) = 0
  BY DEF Timeout, bench_untouched
<1>2. pc \in Waiting /\ GivesUp
  BY FailGivesUp
  DEF Timeout, TimedOut, ForcedReply, ResetReply, Return, SendNothing, GivesUp, Waiting
<1>3. CASE late' = late + 1
  BY <1>1, <1>2, <1>3, AstrayHandle
<1>4. CASE (Len(to_bench) = 0 \/ ~on) /\ late' = late
  <2>1. NumberInv'
    BY SMTT(60), <1>1, <1>2, <1>4 DEF HandleInv, NumberInv, GivesUp, Sent
  <2>2. OwnInv'
    BY <1>2 DEF OwnInv, Quiet, GivesUp
  <2>3. ~InStep /\ ~Behind
    BY <1>1, <1>2, <1>4 DEF InStep, Behind, Owed
  <2>4. Off => Off'
    BY <1>1, <1>2, <1>4 DEF Off, Owed, GivesUp
  <2> QED
    BY <1>4, <2>1, <2>2, <2>3, <2>4 DEF HandleInv
<1> QED
  BY <1>3, <1>4 DEF Timeout

LEMMA CancelHandle ==
  ASSUME BenchInv, HandleInv, Trip \/ WorkloadFails
  PROVE  HandleInv'
<1>0. LineInv
  BY DEF BenchInv
<1> USE <1>0, Lines
<1>1. UNCHANGED <<active, next_id, on, runs, to_host>>
  BY DEF Trip, WorkloadFails, CancelExecute, bench_untouched
<1>2. GivesUp
  <2>1. NoHandle \in Nat
    BY DEF NoHandle
  <2> QED
    BY <2>1, SendSent, NoFaultLicensed DEF Trip, WorkloadFails, Return, SendNothing, GivesUp
<1>3. CASE pc \in Waiting /\ late' = late + 1
  BY <1>1, <1>2, <1>3, AstrayHandle
<1>4. CASE pc \notin Waiting /\ late' = late
  <2>1. Owed = 0
    BY <1>4 DEF Owed
  <2> QED
    BY <1>1, <1>2, <1>4, <2>1, GiveUpHandle
<1> QED
  BY <1>3, <1>4 DEF Trip, WorkloadFails, CancelExecute

\* The firmware takes the first command off its line, and answers.
LineMoves ==
  /\ Len(to_bench) > 0 /\ Len(to_bench') = Len(to_bench) - 1
  /\ DOMAIN to_bench' = 1 .. Len(to_bench) - 1
  /\ \A k \in 1 .. Len(to_bench) - 1 : to_bench'[k] = to_bench[k + 1]
  /\ Len(to_host') = Len(to_host) + 1
  /\ \A k \in 1 .. Len(to_host) : to_host'[k] = to_host[k]
  /\ to_bench[1].run \in Nat

\* What it makes of the command, and what it answers.
Handled ==
  \/ /\ to_bench[1].cmd = "info" /\ UNCHANGED <<active, next_id>>
     /\ to_host'[Len(to_host) + 1].kind = "info"
  \/ /\ to_bench[1].cmd = "inject" /\ next_id' = next_id + 1
     /\ active' = active \cup {[handle |-> next_id', fault |-> to_bench[1].fault,
                                run |-> to_bench[1].run]}
     /\ to_host'[Len(to_host) + 1].kind = "handle"
     /\ to_host'[Len(to_host) + 1].handle = next_id'
  \/ /\ to_bench[1].cmd = "inject" /\ UNCHANGED <<active, next_id>>
     /\ to_host'[Len(to_host) + 1].kind = "error"
  \/ /\ to_bench[1].cmd = "cleanup" /\ next_id' = next_id
     /\ active' = {f \in active : f.handle # to_bench[1].handle}
     /\ to_host'[Len(to_host) + 1].kind \in {"already", "plain"}
  \/ /\ to_bench[1].cmd = "reset" /\ next_id' = next_id /\ active' = {}
     /\ to_host'[Len(to_host) + 1].kind = "plain"

LEMMA Processed ==
  ASSUME LineInv, process_line
  PROVE  LineMoves /\ Handled
<1> USE DEF LineMoves, Handled
<1> DEFINE c == Head(to_bench)
<1>1. to_bench \in Seq(CommandType) /\ to_host \in Seq(ReplyType) /\ next_id \in Nat /\ pin \in {"BENCH", "PRODUCTION"}
  BY DEF LineInv
<1>2. to_bench # <<>> /\ to_bench' = Tail(to_bench)
  BY DEF process_line
<1>3. /\ c = to_bench[1] /\ c \in CommandType
      /\ Len(to_bench) > 0 /\ Len(to_bench') = Len(to_bench) - 1
      /\ DOMAIN to_bench' = 1 .. Len(to_bench) - 1
      /\ \A k \in 1 .. Len(to_bench) - 1 : to_bench'[k] = to_bench[k + 1]
  BY <1>1, <1>2, Consumed
<1>4. \A k \in {"info", "handle", "plain", "already", "error"},
         m \in {"BENCH", "PRODUCTION", "none"}, h \in Nat :
        Answer(Reply(k, m, h)) =>
          /\ Len(to_host') = Len(to_host) + 1
          /\ \A j \in 1 .. Len(to_host) : to_host'[j] = to_host[j]
          /\ to_host'[Len(to_host) + 1].kind = k
          /\ to_host'[Len(to_host) + 1].handle = h
  <2> SUFFICES ASSUME NEW k \in {"info", "handle", "plain", "already", "error"},
                      NEW m \in {"BENCH", "PRODUCTION", "none"}, NEW h \in Nat,
                      Answer(Reply(k, m, h))
               PROVE  /\ Len(to_host') = Len(to_host) + 1
                      /\ \A j \in 1 .. Len(to_host) : to_host'[j] = to_host[j]
                      /\ to_host'[Len(to_host) + 1].kind = k
                      /\ to_host'[Len(to_host) + 1].handle = h
    OBVIOUS
  <2> DEFINE r == Reply(k, m, h)
  <2>1. r \in ReplyType /\ r.kind = k /\ r.handle = h /\ to_host' = Append(to_host, r)
    BY DEF Answer, Reply, ReplyType
  <2> HIDE DEF r
  <2> QED
    BY <1>1, <2>1, Appended
<1>5. to_bench[1].run \in Nat
  BY <1>3 DEF CommandType
<1>6. \/ c.cmd = "info" /\ handle_info
      \/ c.cmd = "inject" /\ handle_inject(c)
      \/ c.cmd = "cleanup" /\ handle_cleanup(c)
      \/ c.cmd = "reset" /\ handle_reset
  BY DEF process_line
<1> HIDE DEF c
<1>7. CASE c.cmd = "info" /\ handle_info
  BY <1>1, <1>3, <1>4, <1>5, <1>7 DEF handle_info, NoHandle
<1>8. CASE c.cmd = "inject" /\ handle_inject(c)
  <2>1. CASE Answer(Reply("error", "none", NoHandle)) /\ UNCHANGED <<active, next_id>>
    BY <1>3, <1>4, <1>5, <1>8, <2>1 DEF NoHandle
  <2>2. CASE /\ next_id' = next_id + 1
             /\ active' = active \cup {[handle |-> next_id', fault |-> c.fault, run |-> c.run]}
             /\ Answer(Reply("handle", "none", next_id'))
    <3>1. next_id' \in Nat
      BY <1>1, <2>2
    <3> QED
      BY <1>3, <1>4, <1>5, <1>8, <2>2, <3>1
  <2> QED
    BY <1>8, <2>1, <2>2 DEF handle_inject
<1>9. CASE c.cmd = "cleanup" /\ handle_cleanup(c)
  <2>1. active' = {f \in active : f.handle # c.handle} /\ next_id' = next_id
    BY <1>9 DEF handle_cleanup
  <2>2. \E k \in {"already", "plain"} : Answer(Reply(k, "none", NoHandle))
    BY <1>9 DEF handle_cleanup
  <2> QED
    BY <1>3, <1>4, <1>5, <1>9, <2>1, <2>2 DEF NoHandle
<1>10. CASE c.cmd = "reset" /\ handle_reset
  BY <1>3, <1>4, <1>5, <1>10 DEF handle_reset, NoHandle
<1> QED
  BY <1>6, <1>7, <1>8, <1>9, <1>10

LEMMA ProcessHandle ==
  ASSUME BenchInv, HandleInv, process_line
  PROVE  HandleInv'
<1>0. LineInv
  BY DEF BenchInv
<1> USE <1>0, Lines
<1>1. LineMoves /\ Handled
  BY Processed
<1>m. \A k \in DOMAIN to_bench' : \E j \in DOMAIN to_bench : to_bench'[k] = to_bench[j]
  <2> SUFFICES ASSUME NEW k \in DOMAIN to_bench'
               PROVE  \E j \in DOMAIN to_bench : to_bench'[k] = to_bench[j]
    OBVIOUS
  <2>1. k \in 1 .. Len(to_bench) - 1
    BY <1>1 DEF LineMoves
  <2>2. k + 1 \in DOMAIN to_bench /\ to_bench'[k] = to_bench[k + 1]
    BY <1>1, <2>1 DEF LineMoves
  <2> QED
    BY <2>2
<1>2. on /\ UNCHANGED <<on, late, pc, outcome, handle, runs>>
  BY DEF process_line, agent
<1>3. Owed' = Owed
  BY <1>2 DEF Owed
<1>4. NumberInv'
  <2>1. \A k \in DOMAIN to_bench' : to_bench'[k].run \in Nat /\ to_bench'[k].run <= runs
    BY <1>m DEF HandleInv, NumberInv
  <2>2. to_bench[1].run <= runs /\ to_bench[1].run \in Nat
    BY <1>1 DEF LineMoves, HandleInv, NumberInv
  <2>3. \A f \in active' : f.handle \in Nat /\ f.handle <= next_id' /\ f.run \in Nat /\ f.run <= runs
    BY <1>1, <2>2 DEF Handled, HandleInv, NumberInv
  <2> QED
    BY <1>2, <2>1, <2>3 DEF HandleInv, NumberInv
<1>5. \A f \in active : f.handle # next_id + 1
  BY DEF HandleInv, NumberInv
\* A command that is not an inject of this run leaves none where there was none.
<1>6. NoneOwn /\ (to_bench[1].cmd # "inject" \/ to_bench[1].run # runs) => NoneOwn'
  BY <1>1, <1>2 DEF Handled, NoneOwn
<1>7. to_bench[1].cmd # "inject" => active' \subseteq active
  BY <1>1 DEF Handled
<1>8. \A h : Holds(h) /\ to_bench[1].cmd # "inject" => Holds(h)'
  BY <1>1, <1>2 DEF Handled, Holds
<1>9. OwnInv /\ InStep => OwnInv' /\ InStep'
  <2> SUFFICES ASSUME OwnInv, InStep PROVE OwnInv' /\ InStep'
    OBVIOUS
  <2>1. /\ Len(to_bench) = 1 /\ Len(to_host) = 0 /\ Owed = 1 /\ pc \in Waiting
        /\ Len(to_bench') = 0 /\ Len(to_host') = 1
    BY <1>1 DEF LineMoves, InStep, Owed
  <2>2. CASE pc = "info"
    BY <1>1, <1>2, <1>3, <1>6, <2>1, <2>2 DEF LineMoves, OwnInv, Quiet, InStep
  <2>3. CASE pc = "injecting"
    <3>1. OwnInv'
      BY <1>2, <2>3 DEF OwnInv, Quiet
    <3>2. to_host'[1].kind = "handle" =>
            \A f \in active' : f.handle = to_host'[1].handle <=> f.run = runs
      BY <1>1, <1>5, <2>1, <2>3 DEF Handled, InStep, NoneOwn
    <3> QED
      BY <1>2, <1>3, <2>1, <2>3, <3>1, <3>2 DEF InStep, Holds
  <2>4. CASE pc = "cleaning"
    <3>1. NoneOwn'
      BY <1>1, <1>2, <2>1, <2>4 DEF Handled, InStep, OwnInv, Holds, NoneOwn
    <3>2. Holds(handle)'
      BY <1>1, <1>2, <2>1, <2>4 DEF Handled, InStep, OwnInv, Holds
    <3>3. OwnInv'
      BY <1>1, <1>2, <2>1, <2>4, <3>2 DEF LineMoves, OwnInv, Quiet
    <3> QED
      BY <1>2, <1>3, <2>1, <2>4, <3>1, <3>3 DEF InStep
  <2>5. CASE pc \in {"forcing", "resetting"}
    BY <1>2, <1>3, <2>1, <2>5 DEF OwnInv, Quiet, InStep
  <2> QED
    BY <2>1, <2>2, <2>3, <2>4, <2>5 DEF Waiting
<1>10. OwnInv /\ Behind => OwnInv' /\ Behind'
  <2> SUFFICES ASSUME OwnInv, Behind PROVE OwnInv' /\ Behind'
    OBVIOUS
  <2>1. Len(to_bench') + Len(to_host') = Owed' + 1 /\ on' /\ late' = 1
    BY <1>1, <1>2, <1>3 DEF LineMoves, Behind
  <2>2. Owed \in {0, 1} /\ (pc \in Waiting => Owed = 1) /\ (pc \notin Waiting => Owed = 0)
    BY DEF Owed
  <2>3. CASE Quiet
    <3>1. to_bench[1].cmd # "inject" \/ to_bench[1].run # runs
      BY <1>1, <1>2, <2>3 DEF LineMoves, OwnInv
    <3>2. OwnInv'
      <4>1. \A k \in DOMAIN to_bench' : to_bench'[k].cmd = "inject" => to_bench'[k].run # runs
        BY <1>m, <1>2, <2>3 DEF OwnInv
      <4> QED
        BY <1>2, <1>6, <2>3, <3>1, <4>1 DEF OwnInv, Quiet
    <3>3. pc = "info" => IF Len(to_bench') > 0 THEN to_bench'[Len(to_bench')].cmd = "info"
                         ELSE to_host'[2].kind \in {"info", "banner"}
      BY <1>1, <2>2 DEF LineMoves, Handled, Behind, Waiting
    <3>4. pc \in {"gates", "next"} => IF Len(to_bench') > 0 THEN to_bench'[1].cmd = "info"
                                      ELSE to_host'[1].kind # "handle"
      BY <1>1, <2>2 DEF LineMoves, Handled, Behind, Waiting
    <3> QED
      BY <1>2, <2>1, <2>3, <3>2, <3>3, <3>4 DEF Behind, Quiet
  <2>4. CASE pc = "injecting"
    <3>1. OwnInv'
      BY <1>2, <2>4 DEF OwnInv, Quiet
    <3>2. IF Len(to_bench') = 2 THEN to_bench'[1].cmd = "info" ELSE to_host'[1].kind # "handle"
      BY SMTT(60), <1>1, <2>2, <2>4 DEF LineMoves, Handled, Behind, Waiting
    <3> QED
      BY <1>2, <2>1, <2>4, <3>1, <3>2 DEF Behind
  <2>5. CASE pc = "sleeping"
    <3>1. Owed = 0
      BY <2>2, <2>5 DEF Waiting
    <3>2. Len(to_host) > 0 /\ Len(to_bench) + Len(to_host) = 1
      BY SMTT(60), <2>5, <3>1 DEF Behind
    <3>3. Len(to_bench) > 0
      BY <1>1 DEF LineMoves
    <3> QED
      BY <3>2, <3>3
  <2>6. CASE pc = "cleaning"
    <3>1. /\ Len(to_bench) = 1 /\ Len(to_host) = 1 /\ to_host[1].kind = "banner"
          /\ to_bench[1].cmd = "cleanup"
      BY <1>1, <2>2, <2>6 DEF LineMoves, Behind, Waiting
    <3>2. active' = {} /\ Len(to_host') = 2 /\ to_host'[1].kind = "banner" /\ DOMAIN to_bench' = {}
      BY <1>1, <1>7, <2>6, <3>1 DEF LineMoves, Behind
    <3>3. OwnInv'
      BY <1>2, <2>6, <3>2 DEF OwnInv, Quiet, Holds
    <3> QED
      BY <1>2, <2>1, <2>6, <3>2, <3>3 DEF Behind
  <2>7. CASE ~Quiet /\ pc \notin {"info", "gates", "next", "injecting", "sleeping", "cleaning"}
    BY <1>2, <2>1, <2>7 DEF Behind, OwnInv, Quiet
  <2> QED
    BY <2>3, <2>4, <2>5, <2>6, <2>7 DEF Quiet
<1>11. ~Off
  BY <1>2 DEF Off
<1> QED
  BY <1>2, <1>4, <1>9, <1>10, <1>11 DEF HandleInv

LEMMA PowerLossHandle ==
  ASSUME BenchInv, HandleInv, PowerLoss
  PROVE  HandleInv'
<1>0. LineInv
  BY DEF BenchInv
<1> USE <1>0, Lines
<1>1. /\ on' = FALSE /\ late' = late + 1 /\ active' = {} /\ DOMAIN to_bench' = {}
      /\ UNCHANGED <<to_host, next_id, pc, outcome, handle, runs>>
  BY DEF PowerLoss, agent
<1>2. NumberInv'
  BY <1>1 DEF HandleInv, NumberInv
<1>3. OwnInv'
  BY <1>1 DEF OwnInv, NoneOwn, Holds
<1>4. Owed' = Owed
  BY <1>1 DEF Owed
<1>5. late = 0 => Off'
  BY <1>1, <1>4 DEF HandleInv, InStep, Off
<1> QED
  BY <1>1, <1>2, <1>3, <1>5 DEF HandleInv, NumberInv

LEMMA BootHandle ==
  ASSUME BenchInv, HandleInv, Boot
  PROVE  HandleInv'
<1>0. LineInv
  BY DEF BenchInv
<1> USE <1>0, Lines
<1>1. /\ ~on /\ on' /\ next_id' = 0 /\ Len(to_bench') = 0 /\ DOMAIN to_bench' = {}
      /\ UNCHANGED <<active, late, pc, outcome, handle, runs>>
  BY DEF Boot, agent
<1>2. /\ Len(to_host') = Len(to_host) + 1 /\ to_host'[Len(to_host) + 1].kind = "banner"
      /\ \A k \in 1 .. Len(to_host) : to_host'[k] = to_host[k]
  <2> DEFINE r == Reply("banner", "none", NoHandle)
  <2>1. r \in ReplyType /\ r.kind = "banner"
    BY DEF Reply, ReplyType, NoHandle
  <2>2. to_host' = Append(to_host, r) /\ to_host \in Seq(ReplyType)
    BY DEF Boot, Answer, LineInv
  <2> HIDE DEF r
  <2> QED
    BY <2>1, <2>2, Appended
<1>3. late \in Nat /\ (late <= 1 => Off)
  BY <1>1 DEF HandleInv, NumberInv, InStep, Behind
<1>4. Owed' = Owed /\ Owed \in {0, 1} /\ (pc \in Waiting <=> Owed = 1)
  BY <1>1 DEF Owed
<1>5. NumberInv'
  BY <1>1, <1>3 DEF HandleInv, NumberInv
<1>6. CASE late <= 1
  <2>1. active' = {} /\ late' = 1
    BY <1>1, <1>3, <1>6 DEF Off
  <2>2. OwnInv' /\ NumberInv'
    BY <1>1, <1>5, <2>1 DEF OwnInv, NoneOwn, Holds
  <2>3. CASE Len(to_host) = Owed
    <3>1. Behind'
      BY <1>1, <1>2, <1>4, <2>1, <2>3 DEF Behind, Waiting
    <3> QED
      BY <2>1, <2>2, <3>1 DEF HandleInv
  <2>4. CASE Len(to_host) # Owed
    <3>0. Len(to_host) <= Owed
      BY <1>3, <1>6 DEF Off
    <3>1. Len(to_host) \in Nat
      BY <1>1
    <3> DEFINE answers == Len(to_host)
    <3>2. answers + 1 = Owed
      <4>1. answers \in Nat /\ answers <= Owed /\ answers # Owed
        BY <2>4, <3>0, <3>1
      <4> HIDE DEF answers
      <4> QED
        BY <1>4, <4>1
    <3>3. InStep'
      BY <1>1, <1>2, <1>4, <2>1, <3>2 DEF InStep, NoneOwn
    <3> QED
      BY <2>1, <2>2, <3>3 DEF HandleInv
  <2> QED
    BY <2>3, <2>4
<1>7. CASE ~(late <= 1)
  BY <1>1, <1>3, <1>5, <1>7 DEF HandleInv
<1> QED
  BY <1>6, <1>7

LEMMA StepHandleInv == BenchInv /\ HandleInv /\ [Next]_vars => HandleInv'
<1> SUFFICES ASSUME BenchInv, HandleInv, [Next]_vars PROVE HandleInv'
  OBVIOUS
<1>1. CASE Execute \/ HostStep
  BY <1>1, ExecuteHandle, GatesHandle, NextFaultHandle, DurationHandle, ReceiveHandle,
     TimeoutHandle DEF HostStep
<1>2. CASE Trip \/ WorkloadFails
  BY <1>2, CancelHandle
<1>3. CASE process_line \/ PowerLoss \/ Boot
  BY <1>3, ProcessHandle, PowerLossHandle, BootHandle
<1>4. CASE poll_expirations
  <2>1. active' \subseteq active /\ UNCHANGED <<to_bench, to_host, next_id, on, late, pc, outcome, handle, runs>>
    BY <1>4 DEF poll_expirations, agent
  <2>2. NumberInv'
    BY <2>1 DEF HandleInv, NumberInv
  <2>3. OwnInv => OwnInv'
    BY <2>1 DEF OwnInv, Quiet, NoneOwn, Holds
  <2>4. InStep => InStep'
    BY <2>1 DEF InStep, Owed, NoneOwn, Holds
  <2>5. Behind => Behind'
    BY <2>1 DEF Behind, Owed
  <2>6. Off => Off'
    BY <2>1 DEF Off, Owed
  <2> QED
    BY <2>1, <2>2, <2>3, <2>4, <2>5, <2>6 DEF HandleInv
<1>5. CASE FlipPin \/ UNCHANGED vars
  <2>1. UNCHANGED <<active, to_bench, to_host, next_id, on, late, pc, outcome, handle, runs>>
    BY <1>5 DEF FlipPin, agent, vars
  <2> QED
    BY <2>1 DEF HandleInv, NumberInv, OwnInv, Quiet, NoneOwn, Holds, InStep, Behind, Off, Owed
<1> QED
  BY <1>1, <1>2, <1>3, <1>4, <1>5 DEF Next

\* The handle invariant holds with the licence invariant for every number of
\* runs and every plan: while at most one line has gone astray the host and the
\* bench are in step, one reply apart, or the bench is off.
THEOREM HandlesFollow == Spec => [](BenchInv /\ HandleInv)
BY InitBenchInv, StepBenchInv, InitHandleInv, StepHandleInv, PTL DEF Spec

\* An agent that believes its fault is live holds the handle of that very fault,
\* for any plans and any number of runs, as long as at most one line has gone
\* astray (HilHardwareIO reads replies without request numbers).
THEOREM HandleIsOwn == Spec => []HoldsOwnFault
<1>1. BenchInv /\ HandleInv => HoldsOwnFault
  BY DEF HandleInv, OwnInv, Holds, HoldsOwnFault
<1> QED
  BY <1>1, HandlesFollow, PTL

\* Under the same condition an execute() that reports success has left none of
\* its faults on the bench.
THEOREM SuccessIsQuiet == Spec => []SuccessLeavesBenchQuiet
<1>1. BenchInv /\ HandleInv => SuccessLeavesBenchQuiet
  BY DEF HandleInv, OwnInv, Quiet, NoneOwn, SuccessLeavesBenchQuiet
<1> QED
  BY <1>1, HandlesFollow, PTL
================================================================================
