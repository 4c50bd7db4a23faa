-------------------------- MODULE LlmSession_proofs --------------------------
(***************************************************************************)
(* The accounts, the conversation and the audit trail of an agent call,    *)
(* for all limits, costs and replies.                                      *)
(*                                                                         *)
(* What the orchestrator sums is written at the end of an invocation from  *)
(* a record that was charged turn by turn, while the decision to go on is  *)
(* taken on another account.  The invariant ties the three together at     *)
(* every await, and says that the provider is only asked below the budget. *)
(*                                                                         *)
(* The conversation is a list of complete turns and, while the tools of a  *)
(* response run, the beginning of one more.  Where the complete turns end  *)
(* is what the second invariant is about: up to there every tool call has  *)
(* its result, no streak of repeated calls is longer than the loop counted *)
(* and the audit trail of the invocation is complete.                      *)
(***************************************************************************)
EXTENDS LlmSession, TLAPS

\* A sum that overshoots the budget by less than one response.
WithinOvershoot(x) == x <= MaxBudget \/ \E c \in Costs : x < MaxBudget + c

\* The current invocation: three accounts that agree, and the budget.
AccountInv ==
    /\ spend_usd \in Nat \union {None}
    /\ inv.spend_usd \in Nat \union {None}
    /\ reported \in Nat
    /\ OrZero(inv.spend_usd) = reported
    /\ OrZero(spend_usd) = reported
    /\ pc = "call" => spend_usd = None \/ spend_usd < MaxBudget
    /\ WithinOvershoot(reported)
    /\ inv = [spend_usd |-> inv.spend_usd, tool_calls |-> inv.tool_calls,
              ok |-> inv.ok, error |-> inv.error]

Settled(i) == OrZero(i.spend_usd) = i.reported /\ WithinOvershoot(i.reported)

\* The invocations on the log.
LogInv ==
    /\ \E S : invocations \in Seq(S)
    /\ \A k \in 1..Len(invocations) : Settled(invocations[k])

SpendInv == AccountInv /\ LogInv
-----------------------------------------------------------------------------
\* A sequence of whatever, with one entry more.
LEMMA AppendEntry ==
  ASSUME NEW S, NEW s \in Seq(S), NEW e
  PROVE  /\ Append(s, e) \in Seq(S \union {e})
         /\ Len(Append(s, e)) = Len(s) + 1
         /\ \A k \in 1..Len(s) : Append(s, e)[k] = s[k]
         /\ Append(s, e)[Len(s) + 1] = e
         /\ Len(s) \in Nat
<1>1. s \in Seq(S \union {e})
  OBVIOUS
<1> QED
  BY <1>1

\* A response charges both accounts of the call by what the provider reported.
LEMMA RespondCharges ==
  ASSUME SpendInv, NEW c \in Costs \union {None}, NEW cs \in Replies, Respond(c, cs)
  PROVE  AccountInv'
<1> USE CostAssumption, LimitAssumption
<1>1. CASE c = None
  BY <1>1 DEF SpendInv, AccountInv, Respond, OrZero, WithinOvershoot
<1>2. CASE c \in Costs
  <2>1. /\ c \in Nat
        /\ pc = "call"
        /\ spend_usd' = OrZero(spend_usd) + c
        /\ reported' = reported + c
        /\ inv' = WithSpend(inv, c)
        /\ pc' \in {"stop", "tool"}
    BY <1>2 DEF Respond
  <2>2. spend_usd' \in Nat /\ reported' \in Nat /\ spend_usd' = reported' /\ OrZero(spend_usd') = reported'
    BY <2>1 DEF SpendInv, AccountInv, OrZero
  <2>3. WithinOvershoot(reported')
    <3>1. reported < MaxBudget
      BY <2>1 DEF SpendInv, AccountInv, OrZero
    <3> QED
      BY <1>2, <2>1, <3>1 DEF WithinOvershoot, SpendInv, AccountInv
  <2>4. /\ inv'.spend_usd \in Nat \union {None}
        /\ OrZero(inv'.spend_usd) = reported'
        /\ inv' = [spend_usd |-> inv'.spend_usd, tool_calls |-> inv'.tool_calls,
                   ok |-> inv'.ok, error |-> inv'.error]
    <3>1. CASE c > 0
      <4>1. inv'.spend_usd = OrZero(inv.spend_usd) + c
        BY <2>1, <3>1 DEF WithSpend, SpendInv, AccountInv
      <4>2. inv' = [spend_usd |-> inv'.spend_usd, tool_calls |-> inv.tool_calls,
                    ok |-> inv.ok, error |-> inv.error]
        BY <2>1, <3>1 DEF WithSpend, SpendInv, AccountInv
      <4> QED
        BY <2>1, <4>1, <4>2 DEF SpendInv, AccountInv, OrZero
    <3>2. CASE ~(c > 0)
      BY <2>1, <3>2 DEF WithSpend, SpendInv, AccountInv, OrZero
    <3> QED
      BY <3>1, <3>2
  <2> QED
    BY <2>1, <2>2, <2>3, <2>4 DEF AccountInv, WithinOvershoot
<1> QED
  BY <1>1, <1>2

\* The finally clause of the harness logs the invocation as it stands.
LEMMA RecordSettles ==
  ASSUME SpendInv, NEW ok, NEW error, Record(inv, ok, error), reported' = reported
  PROVE  LogInv'
<1> DEFINE e == [spend_usd |-> inv.spend_usd, tool_calls |-> inv.tool_calls,
                 ok |-> ok, error |-> error, reported |-> reported',
                 trace |-> trace']
<1>1. PICK S : invocations \in Seq(S)
  BY DEF SpendInv, LogInv
<1>2. invocations' = Append(invocations, e)
  BY DEF Record
<1>3. Settled(e)
  BY DEF Settled, SpendInv, AccountInv
<1> HIDE DEF e
<1>4. /\ invocations' \in Seq(S \union {e})
      /\ Len(invocations') = Len(invocations) + 1
      /\ \A k \in 1..Len(invocations) : invocations'[k] = invocations[k]
      /\ invocations'[Len(invocations) + 1] = e
      /\ Len(invocations) \in Nat
  BY <1>1, <1>2, AppendEntry
<1>5. \A k \in 1..Len(invocations') : Settled(invocations'[k])
  <2>1. SUFFICES ASSUME NEW k \in 1..Len(invocations')
                 PROVE  Settled(invocations'[k])
    OBVIOUS
  <2>2. CASE k \in 1..Len(invocations)
    BY <1>4, <2>2 DEF SpendInv, LogInv
  <2>3. CASE k = Len(invocations) + 1
    BY <1>3, <1>4, <2>3
  <2> QED
    BY <1>4, <2>1, <2>2, <2>3
<1>6. \E T : invocations' \in Seq(T)
  BY <1>4
<1> QED
  BY <1>5, <1>6 DEF LogInv, Settled, WithinOvershoot, OrZero

\* A step that leaves the accounts alone and asks the provider nothing.
LEMMA AccountsKept ==
  ASSUME SpendInv, UNCHANGED <<spend_usd, inv, reported>>, pc' # "call"
  PROVE  AccountInv'
BY DEF SpendInv, AccountInv, OrZero, WithinOvershoot

\* A step that does not end an agent call keeps the log.
LEMMA LogKept ==
  ASSUME SpendInv, UNCHANGED invocations
  PROVE  LogInv'
BY DEF SpendInv, LogInv, Settled, OrZero, WithinOvershoot

\* After a turn's tools: the records join the invocation, and the provider is
\* asked again only below the budget.
LEMMA EndTurnWithinBudget ==
  ASSUME SpendInv, EndTurn
  PROVE  AccountInv'
<1> USE CostAssumption, LimitAssumption
<1>1. UNCHANGED <<spend_usd, reported>> /\ inv' = WithToolCalls(inv, turn_records)
  BY DEF EndTurn
<1>2. pc' = "call" => ~OverBudget
  BY DEF EndTurn
<1>3. pc' = "call" => spend_usd = None \/ spend_usd < MaxBudget
  BY <1>2 DEF OverBudget, SpendInv, AccountInv
<1>4. inv' = [spend_usd |-> inv.spend_usd, tool_calls |-> inv.tool_calls \o turn_records,
              ok |-> inv.ok, error |-> inv.error]
  BY <1>1 DEF WithToolCalls, SpendInv, AccountInv
<1> QED
  BY <1>1, <1>3, <1>4 DEF SpendInv, AccountInv, OrZero, WithinOvershoot

LEMMA SpendInit == Init => SpendInv
<1> USE CostAssumption, LimitAssumption
<1>1. ASSUME Init PROVE AccountInv
  BY <1>1 DEF Init, AccountInv, NewInvocation, OrZero, WithinOvershoot
<1>2. ASSUME Init PROVE LogInv
  <2>1. invocations = <<>> /\ invocations \in Seq(Nat)
    BY <1>2 DEF Init
  <2>2. Len(invocations) = 0
    BY <2>1
  <2> QED
    BY <2>1, <2>2 DEF LogInv
<1> QED
  BY <1>1, <1>2 DEF SpendInv

\* Every step of the loop, of the harness and of the tools keeps the accounts
\* in agreement.
LEMMA SpendStep == SpendInv /\ [Next]_vars => SpendInv'
<1> SUFFICES ASSUME SpendInv, [Next]_vars PROVE AccountInv' /\ LogInv'
  BY DEF SpendInv
<1>1. CASE Invoke
  <2>1. AccountInv'
    BY <1>1, CostAssumption, LimitAssumption
       DEF Invoke, AccountInv, NewInvocation, OrZero, WithinOvershoot
  <2> QED
    BY <1>1, <2>1, LogKept DEF Invoke
<1>2. ASSUME NEW c \in Costs \union {None}, NEW cs \in Replies, Respond(c, cs)
      PROVE  AccountInv' /\ LogInv'
  <2>1. AccountInv'
    BY <1>2, RespondCharges
  <2> QED
    BY <1>2, <2>1, LogKept DEF Respond
<1>3. CASE ProviderRaises
  BY <1>3, AccountsKept, RecordSettles DEF ProviderRaises, Record
<1>4. CASE RefuseTool
  BY <1>4, AccountsKept, LogKept DEF RefuseTool, Answer
<1>5. ASSUME NEW err \in BOOLEAN, LocalTool(err)
      PROVE  AccountInv' /\ LogInv'
  BY <1>5, AccountsKept, LogKept DEF LocalTool, Answer
<1>6. CASE SendRequest
  BY <1>6, AccountsKept, LogKept DEF SendRequest
<1>7. ASSUME NEW o, Attempt(o)
      PROVE  AccountInv' /\ LogInv'
  BY <1>7, AccountsKept, LogKept DEF Attempt, Answer
<1>8. CASE EndTurn
  BY <1>8, EndTurnWithinBudget, LogKept DEF EndTurn
<1>9. CASE Return
  BY <1>9, AccountsKept, RecordSettles DEF Return, Record
<1>10. CASE Interrupt
  BY <1>10, AccountsKept, RecordSettles DEF Interrupt, Record
<1>11. CASE UNCHANGED vars
  <2>1. AccountInv'
    BY <1>11 DEF vars, SpendInv, AccountInv, OrZero, WithinOvershoot
  <2> QED
    BY <1>11, <2>1, LogKept DEF vars
<1> QED
  BY <1>1, <1>2, <1>3, <1>4, <1>5, <1>6, <1>7, <1>8, <1>9, <1>10, <1>11
     DEF Next, Provider, Handler, Loop

\* The accounts agree at every await, for all budgets, costs and replies.
THEOREM AccountsAgree == Spec => []SpendInv
BY SpendInit, SpendStep, PTL DEF Spec

\* What the orchestrator sums over the harness's log is what the provider
\* reported, also for a call that raised or was cancelled in mid-turn
\* (record_llm_spend and the finally clause of _wrap_coroutine).
THEOREM SpendIsAttributed == Spec => []SpendAttributed
<1>1. SpendInv => SpendAttributed
  BY DEF SpendInv, AccountInv, LogInv, Settled, SpendAttributed
<1> QED
  BY <1>1, AccountsAgree, PTL

\* complete_with_tools never asks the provider at or above max_budget_usd, so
\* no logged call overshoots it by a whole response.
THEOREM CallBudgetHolds == Spec => []CallBudget
<1>1. SpendInv => CallBudget
  BY CostAssumption, LimitAssumption
     DEF SpendInv, AccountInv, LogInv, Settled, WithinOvershoot, OrZero, CallBudget
<1> QED
  BY <1>1, AccountsAgree, PTL
-----------------------------------------------------------------------------
(* The conversation. *)

\* The tools of a response are being executed.
InTurn == pc \in {"tool", "request", "end_turn"}

\* The message with which the last complete turn ended.
TurnsEnd == IF InTurn THEN Len(messages) - Len(turn_records) - 1 ELSE Len(messages)

\* Answered, of the first n messages.
AnsweredTo(ms, n) ==
    \A k \in 1..n : ms[k].role = "assistant" =>
        /\ k + Len(ms[k].calls) <= n
        /\ \A j \in 1..Len(ms[k].calls) :
                /\ ms[k + j].role = "tool"
                /\ ms[k + j].call = ms[k].calls[j]
        /\ k + Len(ms[k].calls) < n => ms[k + Len(ms[k].calls) + 1].role = "assistant"

\* The message at b + 1 asked for cs, and n of them are answered after it.
TurnAt(ms, b, cs, n) ==
    /\ ms[b + 1] = Assistant(cs)
    /\ \A j \in 1..n : /\ ms[b + 1 + j].role = "tool"
                       /\ ms[b + 1 + j].call = cs[j]

\* No streak that ends at message p is longer than the r repetitions of the
\* call last that the loop has counted.
Counted(ms, p, last, r) ==
    \A c \in Call, n \in Nat : Streak(ms, p, c, n) => c = last /\ n <= r

\* What an entry of the log says of the tools that ran.
Audited(i) ==
    /\ i.ok \/ i.error => i.tool_calls = i.trace
    /\ i.tool_calls = SubSeq(i.trace, 1, Len(i.tool_calls))
    /\ \/ i.trace = i.tool_calls
       \/ \E cs \in Replies : Len(i.trace) < Len(i.tool_calls) + Len(cs)

ShapeInv ==
    /\ pc \in {"idle", "call", "tool", "request", "end_turn", "stop"}
    /\ messages \in Seq(Message)
    /\ calls \in Seq(Call)
    /\ turn_records \in Records
    /\ trace \in Records
    /\ inv.tool_calls \in Records
    /\ inv = [spend_usd |-> inv.spend_usd, tool_calls |-> inv.tool_calls,
              ok |-> inv.ok, error |-> inv.error]
    /\ repeated \in Nat

TurnInv ==
    InTurn => /\ calls \in Replies
              /\ pc # "end_turn" => Len(turn_records) < Len(calls)
              /\ pc = "end_turn" => Len(turn_records) = Len(calls) /\ Len(calls) > 0
              /\ TurnsEnd \in Nat
              /\ TurnAt(messages, TurnsEnd, calls, Len(turn_records))

AnswerInv == pc # "idle" => AnsweredTo(messages, TurnsEnd)

StreakInv ==
    pc # "idle" /\ RepeatLimit > 0 =>
        /\ Counted(messages, TurnsEnd, last_call, repeated)
        /\ pc # "stop" => repeated < RepeatLimit

TrailInv ==
    /\ InTurn => trace = inv.tool_calls \o turn_records
    /\ pc \in {"call", "stop"} => trace = inv.tool_calls

AuditInv == \A k \in 1..Len(invocations) : Audited(invocations[k])

TalkInv == ShapeInv /\ TurnInv /\ AnswerInv /\ StreakInv /\ TrailInv /\ AuditInv
-----------------------------------------------------------------------------
LEMMA MessageTypes ==
  /\ \A cs \in Seq(Call) : Assistant(cs) \in Message
  /\ \A c \in Call, e \in BOOLEAN : ToolResult(c, e) \in Message
  /\ \A m \in Message : m.role = "assistant" => m.calls \in Seq(Call)
BY DEF Message, Assistant, ToolResult

\* What was answered stays answered when the conversation grows.
LEMMA AnsweredKept ==
  ASSUME NEW ms \in Seq(Message), NEW m \in Message, NEW n \in 0..Len(ms), AnsweredTo(ms, n)
  PROVE  AnsweredTo(Append(ms, m), n)
<1>1. \A k \in 1..n : Append(ms, m)[k] = ms[k]
  OBVIOUS
<1>2. SUFFICES ASSUME NEW k \in 1..n, Append(ms, m)[k].role = "assistant"
               PROVE  /\ k + Len(Append(ms, m)[k].calls) <= n
                      /\ \A j \in 1..Len(Append(ms, m)[k].calls) :
                            /\ Append(ms, m)[k + j].role = "tool"
                            /\ Append(ms, m)[k + j].call = Append(ms, m)[k].calls[j]
                      /\ k + Len(Append(ms, m)[k].calls) < n =>
                            Append(ms, m)[k + Len(Append(ms, m)[k].calls) + 1].role = "assistant"
  BY DEF AnsweredTo
<1>3. Append(ms, m)[k] = ms[k] /\ ms[k].role = "assistant" /\ Len(ms[k].calls) \in Nat
  BY <1>1, <1>2, MessageTypes
<1>4. /\ k + Len(ms[k].calls) <= n
      /\ \A j \in 1..Len(ms[k].calls) :
            /\ ms[k + j].role = "tool"
            /\ ms[k + j].call = ms[k].calls[j]
      /\ k + Len(ms[k].calls) < n => ms[k + Len(ms[k].calls) + 1].role = "assistant"
  BY <1>3 DEF AnsweredTo
<1>5. \A j \in 1..Len(ms[k].calls) : k + j \in 1..n
  BY <1>3, <1>4
<1>6. k + Len(ms[k].calls) < n => k + Len(ms[k].calls) + 1 \in 1..n
  BY <1>3
<1> QED
  BY <1>1, <1>3, <1>4, <1>5, <1>6

\* A turn whose calls all have their results is answered.
LEMMA TurnAnswered ==
  ASSUME NEW ms \in Seq(Message), NEW b \in Nat, NEW cs \in Seq(Call),
         Len(ms) = b + 1 + Len(cs),
         TurnAt(ms, b, cs, Len(cs)), AnsweredTo(ms, b)
  PROVE  AnsweredTo(ms, Len(ms))
<1>0. Len(cs) \in Nat
  OBVIOUS
<1>1. SUFFICES ASSUME NEW k \in 1..Len(ms), ms[k].role = "assistant"
               PROVE  /\ k + Len(ms[k].calls) <= Len(ms)
                      /\ \A j \in 1..Len(ms[k].calls) :
                            /\ ms[k + j].role = "tool"
                            /\ ms[k + j].call = ms[k].calls[j]
                      /\ k + Len(ms[k].calls) < Len(ms) =>
                            ms[k + Len(ms[k].calls) + 1].role = "assistant"
  BY DEF AnsweredTo
<1>2. Len(ms[k].calls) \in Nat
  BY <1>1, MessageTypes
<1>3. CASE k \in 1..b
  <2>1. /\ k + Len(ms[k].calls) <= b
        /\ \A j \in 1..Len(ms[k].calls) :
              /\ ms[k + j].role = "tool"
              /\ ms[k + j].call = ms[k].calls[j]
        /\ k + Len(ms[k].calls) < b => ms[k + Len(ms[k].calls) + 1].role = "assistant"
    BY <1>1, <1>3 DEF AnsweredTo
  <2>2. ms[b + 1].role = "assistant"
    BY DEF TurnAt, Assistant
  <2>3. k + Len(ms[k].calls) = b \/ k + Len(ms[k].calls) < b
    BY <1>2, <2>1
  <2> QED
    BY SMTT(60), <1>0, <1>2, <2>1, <2>2, <2>3
<1>4. CASE k = b + 1
  <2>1. ms[k].calls = cs
    BY <1>4 DEF TurnAt, Assistant
  <2> QED
    BY SMTT(60), <1>0, <1>4, <2>1 DEF TurnAt
<1>5. CASE k > b + 1
  <2>1. k - b - 1 \in 1..Len(cs) /\ k = b + 1 + (k - b - 1)
    BY <1>0, <1>5
  <2>2. ms[k].role = "tool"
    BY <2>1 DEF TurnAt
  <2> QED
    BY <1>1, <2>2
<1> QED
  BY <1>3, <1>4, <1>5

\* A streak that ended before is not made longer by a message more.
LEMMA CountedKept ==
  ASSUME NEW ms \in Seq(Message), NEW m \in Message, NEW p \in 0..Len(ms),
         NEW last, NEW r \in Nat, Counted(ms, p, last, r)
  PROVE  Counted(Append(ms, m), p, last, r)
<1>1. SUFFICES ASSUME NEW c \in Call, NEW n \in Nat, Streak(Append(ms, m), p, c, n)
               PROVE  Streak(ms, p, c, n)
  BY DEF Counted
<1>2. p >= 2 * (n + 1)
  BY <1>1 DEF Streak
<1>3. ASSUME NEW j \in 0..n PROVE ms[p - 2 * j - 1] = Assistant(<<c>>)
  <2>1. p - 2 * j - 1 \in 1..Len(ms)
    BY <1>2, <1>3
  <2>2. Append(ms, m)[p - 2 * j - 1] = Assistant(<<c>>)
    BY <1>1 DEF Streak
  <2>3. Append(ms, m)[p - 2 * j - 1] = ms[p - 2 * j - 1]
    BY <2>1
  <2> QED
    BY <2>2, <2>3
<1> QED
  BY <1>2, <1>3 DEF Streak

\* At the end of a turn the loop has counted its call: one more when it is the
\* single call of the turn before, from the start when it is another one, and
\* a turn of several calls is no part of a streak.
LEMMA TurnCounted ==
  ASSUME NEW ms \in Seq(Message), NEW b \in Nat, NEW cs \in Seq(Call), Len(cs) > 0,
         Len(ms) = b + 1 + Len(cs),
         TurnAt(ms, b, cs, Len(cs)),
         NEW last, NEW r \in Nat, Counted(ms, b, last, r),
         NEW last2, NEW r2 \in Nat,
         Len(cs) = 1 => /\ last2 = cs[1]
                        /\ r2 = IF cs[1] = last THEN r + 1 ELSE 0
  PROVE  Counted(ms, Len(ms), last2, r2)
<1>0. Len(cs) \in Nat
  OBVIOUS
<1>1. SUFFICES ASSUME NEW c \in Call, NEW n \in Nat, Streak(ms, Len(ms), c, n)
               PROVE  c = last2 /\ n <= r2
  BY DEF Counted
<1>2. Len(ms) >= 2 * (n + 1) /\ \A j \in 0..n : ms[Len(ms) - 2 * j - 1] = Assistant(<<c>>)
  BY <1>1 DEF Streak
<1>3. ms[Len(ms) - 1] = Assistant(<<c>>)
  <2>1. 0 \in 0..n /\ Len(ms) - 2 * 0 - 1 = Len(ms) - 1
    OBVIOUS
  <2> QED
    BY <1>2, <2>1
<1>4. Len(cs) = 1
  <2>0. \A i \in Nat : i > 0 /\ ~(i > 1) => i = 1
    OBVIOUS
  <2>1. SUFFICES ASSUME Len(cs) > 1 PROVE FALSE
    BY <1>0, <2>0
  <2>2. Len(cs) - 1 \in 1..Len(cs) /\ Len(ms) - 1 = b + 1 + (Len(cs) - 1)
    BY <1>0, <2>1
  <2>3. ms[Len(ms) - 1].role = "tool"
    BY <2>2 DEF TurnAt
  <2> QED
    BY <1>3, <2>3 DEF Assistant
<1>5. c = cs[1]
  <2>1. Len(ms) - 1 = b + 1
    BY <1>4
  <2>2. Assistant(cs) = Assistant(<<c>>)
    BY <1>3, <2>1 DEF TurnAt
  <2>3. cs = <<c>>
    BY <2>2 DEF Assistant
  <2> QED
    BY <2>3
<1>6. n > 0 => Streak(ms, b, c, n - 1)
  <2>1. SUFFICES ASSUME n > 0 PROVE Streak(ms, b, c, n - 1)
    OBVIOUS
  <2>2. b >= 2 * ((n - 1) + 1)
    BY <1>2, <1>4, <2>1
  <2>3. ASSUME NEW j \in 0..(n - 1) PROVE ms[b - 2 * j - 1] = Assistant(<<c>>)
    <3>1. j + 1 \in 0..n /\ Len(ms) - 2 * (j + 1) - 1 = b - 2 * j - 1
      BY <1>4, <2>1, <2>3
    <3> QED
      BY <1>2, <3>1
  <2> QED
    BY <2>2, <2>3 DEF Streak
<1>7. n > 0 => c = last /\ n - 1 <= r
  BY <1>6 DEF Counted
<1> QED
  BY <1>4, <1>5, <1>7

\* One tool call of the turn is answered.
LEMMA AnswerTalks ==
  ASSUME ShapeInv, TurnInv, AnswerInv, StreakInv, TrailInv,
         pc \in {"tool", "request"}, NEW err \in BOOLEAN, Answer(Current, err),
         UNCHANGED <<loopVars, inv>>
  PROVE  ShapeInv' /\ TurnInv' /\ AnswerInv' /\ StreakInv' /\ TrailInv'
<1> DEFINE R == [call : Call, is_error : BOOLEAN]
<1>1. /\ messages \in Seq(Message) /\ calls \in Seq(Call) /\ turn_records \in Seq(R)
      /\ trace \in Seq(R) /\ inv.tool_calls \in Seq(R) /\ repeated \in Nat
  BY DEF ShapeInv, Records
<1>2. PICK b \in Nat : b = TurnsEnd
  BY DEF TurnInv, InTurn
<1>3. /\ Len(messages) = b + 1 + Len(turn_records)
      /\ Len(turn_records) < Len(calls) /\ calls \in Replies
      /\ TurnAt(messages, b, calls, Len(turn_records))
  BY <1>1, <1>2 DEF TurnInv, InTurn, TurnsEnd
<1>4. Len(turn_records) \in Nat /\ Len(messages) \in Nat /\ Len(calls) \in Nat
  BY <1>1
<1>5. Current \in Call /\ Current = calls[Len(turn_records) + 1]
  BY <1>1, <1>3, <1>4 DEF Current
<1>6. PICK m \in Message : m = ToolResult(Current, err)
  BY <1>5, MessageTypes
<1>7. PICK e \in R : e = ToolRecord(Current, err)
  BY <1>5 DEF ToolRecord
<1> HIDE DEF R
<1>8. /\ messages' = Append(messages, m) /\ trace' = Append(trace, e)
      /\ turn_records' = Append(turn_records, e)
      /\ pc' = IF Len(turn_records) + 1 = Len(calls) THEN "end_turn" ELSE "tool"
      /\ calls' = calls /\ repeated' = repeated /\ last_call' = last_call /\ inv' = inv
  BY <1>6, <1>7 DEF Answer, loopVars
<1>9. /\ messages' \in Seq(Message) /\ turn_records' \in Seq(R) /\ trace' \in Seq(R)
      /\ Len(messages') = Len(messages) + 1 /\ Len(turn_records') = Len(turn_records) + 1
      /\ \A k \in 1..Len(messages) : messages'[k] = messages[k]
      /\ messages'[Len(messages) + 1] = m
  BY <1>1, <1>4, <1>8
<1>10. ShapeInv'
  BY <1>1, <1>8, <1>9 DEF ShapeInv, Records, R
<1>11. InTurn' /\ TurnsEnd' = b
  <2>1. InTurn'
    BY <1>8 DEF InTurn
  <2>2. Len(messages') - Len(turn_records') - 1 = b
    BY <1>3, <1>4, <1>9
  <2> QED
    BY <2>1, <2>2 DEF TurnsEnd
<1>12. TurnAt(messages', b, calls, Len(turn_records'))
  <2>1. messages'[b + 1] = Assistant(calls)
    BY <1>3, <1>4, <1>9 DEF TurnAt
  <2>2. ASSUME NEW j \in 1..Len(turn_records')
        PROVE  messages'[b + 1 + j].role = "tool" /\ messages'[b + 1 + j].call = calls[j]
    <3>1. CASE j \in 1..Len(turn_records)
      <4>1. b + 1 + j \in 1..Len(messages)
        BY <1>3, <1>4, <3>1
      <4>2. messages'[b + 1 + j] = messages[b + 1 + j]
        BY <1>9, <4>1
      <4> QED
        BY <1>3, <3>1, <4>2 DEF TurnAt
    <3>2. CASE j = Len(turn_records) + 1
      <4>1. messages'[b + 1 + j] = m
        BY <1>3, <1>4, <1>9, <3>2
      <4> QED
        BY <1>5, <1>6, <3>2, <4>1 DEF ToolResult
    <3> QED
      BY <1>4, <1>9, <2>2, <3>1, <3>2
  <2> QED
    BY <2>1, <2>2 DEF TurnAt
<1>13. TurnInv'
  <2>1. /\ pc' # "end_turn" => Len(turn_records') < Len(calls)
        /\ pc' = "end_turn" => Len(turn_records') = Len(calls) /\ Len(calls) > 0
    BY <1>3, <1>4, <1>8, <1>9
  <2> QED
    BY <1>3, <1>8, <1>11, <1>12, <2>1 DEF TurnInv
<1>14. AnswerInv'
  <2>1. AnsweredTo(messages, b)
    BY <1>2 DEF AnswerInv
  <2>2. AnsweredTo(messages', b)
    BY <1>1, <1>3, <1>4, <1>8, <2>1, AnsweredKept
  <2> QED
    BY <1>11, <2>2 DEF AnswerInv
<1>15. StreakInv'
  <2>1. SUFFICES ASSUME RepeatLimit > 0
                 PROVE  Counted(messages', b, last_call, repeated) /\ repeated < RepeatLimit
    BY <1>8, <1>11 DEF StreakInv, Counted
  <2>2. Counted(messages, b, last_call, repeated) /\ repeated < RepeatLimit
    BY <1>2, <2>1 DEF StreakInv
  <2>3. b \in 0..Len(messages)
    BY <1>3, <1>4
  <2>4. Counted(Append(messages, m), b, last_call, repeated)
    BY <1>1, <2>2, <2>3, CountedKept
  <2> QED
    BY <1>8, <2>2, <2>4
<1>16. TrailInv'
  <2>1. trace = inv.tool_calls \o turn_records
    BY DEF TrailInv, InTurn
  <2>2. Append(inv.tool_calls \o turn_records, e) = inv.tool_calls \o Append(turn_records, e)
    <3>1. \A s, t \in Seq(R), x \in R : Append(s \o t, x) = s \o Append(t, x)
      OBVIOUS
    <3> QED
      BY <1>1, <1>7, <3>1
  <2> QED
    BY <1>8, <2>1, <2>2 DEF TrailInv
<1> QED
  BY <1>10, <1>13, <1>14, <1>15, <1>16

\* A response opens a turn, or ends the loop.
LEMMA RespondTalks ==
  ASSUME ShapeInv, TurnInv, AnswerInv, StreakInv, TrailInv,
         NEW c \in Costs \union {None}, NEW cs \in Replies, Respond(c, cs)
  PROVE  ShapeInv' /\ TurnInv' /\ AnswerInv' /\ StreakInv' /\ TrailInv'
<1>1. /\ messages \in Seq(Message) /\ calls \in Seq(Call) /\ turn_records \in Records
      /\ trace \in Records /\ inv.tool_calls \in Records /\ repeated \in Nat
      /\ cs \in Seq(Call) /\ Len(messages) \in Nat
  BY ReplyAssumption DEF ShapeInv
<1>2. pc = "call" /\ trace' = trace /\ repeated' = repeated /\ last_call' = last_call
  BY DEF Respond
<1>3. /\ inv'.tool_calls = inv.tool_calls
      /\ inv' = [spend_usd |-> inv'.spend_usd, tool_calls |-> inv'.tool_calls,
                 ok |-> inv'.ok, error |-> inv'.error]
  <2>1. inv' = inv \/ inv' = [inv EXCEPT !.spend_usd = OrZero(inv.spend_usd) + c]
    BY DEF Respond, WithSpend
  <2>2. inv = [spend_usd |-> inv.spend_usd, tool_calls |-> inv.tool_calls,
               ok |-> inv.ok, error |-> inv.error]
    BY DEF ShapeInv
  <2> QED
    BY <2>1, <2>2
<1>4. /\ TurnsEnd = Len(messages) /\ AnsweredTo(messages, Len(messages))
      /\ RepeatLimit > 0 => /\ Counted(messages, Len(messages), last_call, repeated)
                            /\ repeated < RepeatLimit
      /\ trace = inv.tool_calls
  BY <1>2 DEF TurnsEnd, InTurn, AnswerInv, StreakInv, TrailInv
<1>5. CASE cs = <<>>
  <2>1. pc' = "stop" /\ messages' = messages /\ calls' = calls /\ turn_records' = turn_records
    BY <1>5 DEF Respond
  <2>2. ~InTurn' /\ TurnsEnd' = Len(messages)
    BY <2>1 DEF InTurn, TurnsEnd
  <2>3. ShapeInv' /\ TurnInv' /\ TrailInv'
    BY <1>1, <1>2, <1>3, <1>4, <2>1, <2>2 DEF ShapeInv, TurnInv, TrailInv
  <2>4. AnswerInv'
    BY <1>4, <2>1, <2>2 DEF AnswerInv
  <2>5. StreakInv'
    BY <1>2, <1>4, <2>1, <2>2 DEF StreakInv, Counted, Streak
  <2> QED
    BY <2>3, <2>4, <2>5
<1>6. CASE cs # <<>>
  <2>1. PICK m \in Message : m = Assistant(cs)
    BY <1>1, MessageTypes
  <2>2. /\ pc' = "tool" /\ messages' = Append(messages, m) /\ calls' = cs /\ turn_records' = <<>>
    BY <1>6, <2>1 DEF Respond
  <2>3. Len(cs) > 0 /\ Len(turn_records') <= 0 /\ turn_records' \in Records /\ Len(turn_records') \in Nat
    BY <1>1, <1>6, <2>2 DEF Records
  <2>4. messages' \in Seq(Message) /\ Len(messages') = Len(messages) + 1 /\ messages'[Len(messages) + 1] = m
    BY <1>1, <2>2
  <2>5. InTurn' /\ TurnsEnd' = Len(messages)
    <3>1. InTurn'
      BY <2>2 DEF InTurn
    <3>2. Len(messages') - Len(turn_records') - 1 = Len(messages)
      BY <1>1, <2>3, <2>4
    <3> QED
      BY <3>1, <3>2 DEF TurnsEnd
  <2>6. ShapeInv'
    BY <1>1, <1>2, <1>3, <2>2, <2>3, <2>4 DEF ShapeInv
  <2>7. TurnAt(messages', Len(messages), cs, Len(turn_records'))
    <3>1. \A j \in 1..Len(turn_records') : FALSE
      BY <2>3
    <3> QED
      BY <2>1, <2>4, <3>1 DEF TurnAt
  <2>8. TurnInv'
    BY <1>1, <2>2, <2>3, <2>5, <2>7 DEF TurnInv
  <2>9. AnsweredTo(messages', Len(messages))
    BY <1>1, <1>4, <2>2, AnsweredKept
  <2>10. AnswerInv'
    BY <2>5, <2>9 DEF AnswerInv
  <2>11. RepeatLimit > 0 => Counted(messages', Len(messages), last_call, repeated)
    BY <1>1, <1>4, <2>2, CountedKept
  <2>12. StreakInv'
    BY <1>2, <1>4, <2>5, <2>11 DEF StreakInv, Counted
  <2>13. TrailInv'
    <3>1. inv.tool_calls \o <<>> = inv.tool_calls
      BY <1>1 DEF Records
    <3> QED
      BY <1>2, <1>3, <1>4, <2>2, <3>1 DEF TrailInv
  <2> QED
    BY <2>6, <2>8, <2>10, <2>12, <2>13
<1> QED
  BY <1>5, <1>6

\* After the last tool of a turn the turn is complete, counted and recorded.
LEMMA EndTurnTalks ==
  ASSUME ShapeInv, TurnInv, AnswerInv, StreakInv, TrailInv, EndTurn
  PROVE  ShapeInv' /\ TurnInv' /\ AnswerInv' /\ StreakInv' /\ TrailInv'
<1>1. /\ messages \in Seq(Message) /\ calls \in Seq(Call) /\ turn_records \in Records
      /\ trace \in Records /\ inv.tool_calls \in Records /\ repeated \in Nat
      /\ inv = [spend_usd |-> inv.spend_usd, tool_calls |-> inv.tool_calls,
                ok |-> inv.ok, error |-> inv.error]
      /\ Len(messages) \in Nat /\ Len(calls) \in Nat /\ RepeatLimit \in Nat
  BY LimitAssumption DEF ShapeInv
<1>2. /\ pc = "end_turn" /\ inv' = WithToolCalls(inv, turn_records)
      /\ repeated' = Repeats(calls)
      /\ last_call' = IF RepeatLimit > 0 /\ Len(calls) = 1 THEN calls[1] ELSE None
      /\ pc' \in {"stop", "call"}
      /\ pc' = "call" => ~(Repeats(calls) > 0 /\ Repeats(calls) >= RepeatLimit)
      /\ messages' = messages /\ calls' = calls /\ turn_records' = turn_records /\ trace' = trace
  BY DEF EndTurn, logs
<1>3. PICK b \in Nat : b = TurnsEnd
  BY <1>2 DEF TurnInv, InTurn
<1>4. /\ Len(messages) = b + 1 + Len(calls) /\ Len(calls) > 0
      /\ TurnAt(messages, b, calls, Len(calls))
  BY <1>1, <1>2, <1>3 DEF TurnInv, InTurn, TurnsEnd
<1>5. ~InTurn' /\ TurnsEnd' = Len(messages) /\ pc' # "idle"
  BY <1>2 DEF InTurn, TurnsEnd
<1>6. inv' = [spend_usd |-> inv.spend_usd, tool_calls |-> inv.tool_calls \o turn_records,
              ok |-> inv.ok, error |-> inv.error]
  BY <1>1, <1>2 DEF WithToolCalls
<1>7. /\ inv'.tool_calls = inv.tool_calls \o turn_records
      /\ inv'.tool_calls \in Records
      /\ inv' = [spend_usd |-> inv'.spend_usd, tool_calls |-> inv'.tool_calls,
                 ok |-> inv'.ok, error |-> inv'.error]
  <2>1. inv.tool_calls \o turn_records \in Records
    BY <1>1 DEF Records
  <2> QED
    BY <1>6, <2>1
<1>8. repeated' \in Nat
  BY <1>1, <1>2 DEF Repeats
<1>9. ShapeInv'
  BY <1>1, <1>2, <1>7, <1>8 DEF ShapeInv
<1>10. TurnInv'
  BY <1>5 DEF TurnInv
<1>11. AnswerInv'
  <2>1. AnsweredTo(messages, b)
    BY <1>2, <1>3 DEF AnswerInv
  <2>2. AnsweredTo(messages, Len(messages))
    BY <1>1, <1>4, <2>1, TurnAnswered
  <2> QED
    BY <1>2, <1>5, <2>2 DEF AnswerInv
<1>12. StreakInv'
  <2>1. SUFFICES ASSUME RepeatLimit > 0
                 PROVE  /\ Counted(messages, Len(messages), last_call', repeated')
                        /\ pc' # "stop" => repeated' < RepeatLimit
    BY <1>2, <1>5 DEF StreakInv
  <2>2. Counted(messages, b, last_call, repeated)
    BY <1>2, <1>3, <2>1 DEF StreakInv
  <2>3. Len(calls) = 1 => /\ last_call' = calls[1]
                          /\ repeated' = IF calls[1] = last_call THEN repeated + 1 ELSE 0
    BY <1>2, <2>1 DEF Repeats
  <2>4. Counted(messages, Len(messages), last_call', repeated')
    BY <1>1, <1>4, <1>8, <2>2, <2>3, TurnCounted
  <2>5. pc' # "stop" => repeated' < RepeatLimit
    BY <1>1, <1>2, <1>8, <2>1
  <2> QED
    BY <2>4, <2>5
<1>13. TrailInv'
  <2>1. trace = inv.tool_calls \o turn_records
    BY <1>2 DEF TrailInv, InTurn
  <2> QED
    BY <1>2, <1>5, <1>7, <2>1 DEF TrailInv, InTurn
<1> QED
  BY <1>9, <1>10, <1>11, <1>12, <1>13

\* A step that leaves the conversation alone, and the end of an agent call.
LEMMA TalkKept ==
  ASSUME ShapeInv, TurnInv, AnswerInv, StreakInv, TrailInv,
         UNCHANGED <<messages, turn_records, trace, calls, repeated, last_call, inv>>,
         \/ pc' = pc
         \/ pc = "tool" /\ pc' = "request"
         \/ pc' = "idle"
  PROVE  ShapeInv' /\ TurnInv' /\ AnswerInv' /\ StreakInv' /\ TrailInv'
<1>1. CASE pc' = "idle"
  <2>1. ~InTurn'
    BY <1>1 DEF InTurn
  <2> QED
    BY <1>1, <2>1 DEF ShapeInv, TurnInv, AnswerInv, StreakInv, TrailInv
<1>2. CASE pc' # "idle"
  <2>1. pc \in {"idle", "call", "tool", "request", "end_turn", "stop"}
    BY DEF ShapeInv
  <2>2. /\ InTurn' <=> InTurn
        /\ pc' = pc \/ (pc = "tool" /\ pc' = "request")
    BY <1>2 DEF InTurn
  <2>3. TurnsEnd' = TurnsEnd
    BY <2>2 DEF TurnsEnd
  <2>4. ShapeInv' /\ TrailInv'
    BY <2>1, <2>2 DEF ShapeInv, TrailInv
  <2>5. TurnInv'
    BY <2>2, <2>3 DEF TurnInv
  <2>6. AnswerInv'
    BY <2>2, <2>3 DEF AnswerInv
  <2>7. StreakInv'
    BY <2>2, <2>3 DEF StreakInv
  <2> QED
    BY <2>4, <2>5, <2>6, <2>7
<1> QED
  BY <1>1, <1>2

\* The start of an agent call: an empty conversation.
LEMMA FreshTalk ==
  ASSUME messages' = <<>>, calls' = <<>>, turn_records' = <<>>, trace' = <<>>,
         repeated' = 0, inv' = NewInvocation, pc' \in {"stop", "call"}
  PROVE  ShapeInv' /\ TurnInv' /\ AnswerInv' /\ StreakInv' /\ TrailInv'
<1>1. ~InTurn' /\ TurnsEnd' = Len(messages')
  BY DEF InTurn, TurnsEnd
<1>2. Len(messages') <= 0 /\ Len(messages') \in Nat
  OBVIOUS
<1>3. ShapeInv'
  BY DEF ShapeInv, NewInvocation, Records
<1>4. TurnInv' /\ TrailInv'
  BY <1>1 DEF TurnInv, TrailInv, NewInvocation
<1>5. AnswerInv'
  BY <1>1, <1>2 DEF AnswerInv, AnsweredTo
<1>6. StreakInv'
  <2>1. \A c \in Call, n \in Nat : ~Streak(messages', Len(messages'), c, n)
    BY <1>2 DEF Streak
  <2> QED
    BY <1>1, <2>1, LimitAssumption DEF StreakInv, Counted
<1> QED
  BY <1>3, <1>4, <1>5, <1>6

\* The harness logs the invocation at a point where its trail is complete, or
\* lacks the tools of the turn that was cut short.
LEMMA RecordAudits ==
  ASSUME ShapeInv, TurnInv, TrailInv, AuditInv, LogInv,
         NEW ok \in BOOLEAN, NEW error \in BOOLEAN, Record(inv, ok, error), trace' = trace,
         pc \in {"call", "tool", "request", "stop"},
         ok \/ error => pc \in {"call", "stop"}
  PROVE  AuditInv'
<1> DEFINE e == [spend_usd |-> inv.spend_usd, tool_calls |-> inv.tool_calls,
                 ok |-> ok, error |-> error, reported |-> reported', trace |-> trace']
<1>1. PICK S : invocations \in Seq(S)
  BY DEF LogInv
<1>2. invocations' = Append(invocations, e)
  BY DEF Record
<1>3. Audited(e)
  <2> DEFINE R == [call : Call, is_error : BOOLEAN]
  <2>1. inv.tool_calls \in Seq(R) /\ turn_records \in Seq(R) /\ trace \in Seq(R)
    BY DEF ShapeInv, Records
  <2> HIDE DEF R
  <2>2. CASE pc \in {"call", "stop"}
    <3>1. trace = inv.tool_calls
      BY <2>2 DEF TrailInv
    <3>2. trace = SubSeq(trace, 1, Len(trace))
      BY <2>1
    <3> QED
      BY <3>1, <3>2 DEF Audited
  <2>3. CASE pc \in {"tool", "request"}
    <3>1. /\ trace = inv.tool_calls \o turn_records
          /\ calls \in Replies /\ Len(turn_records) < Len(calls)
      BY <2>3 DEF TrailInv, TurnInv, InTurn
    <3>2. inv.tool_calls = SubSeq(trace, 1, Len(inv.tool_calls))
      BY <2>1, <3>1
    <3>3. Len(trace) < Len(inv.tool_calls) + Len(calls)
      <4>1. Len(trace) = Len(inv.tool_calls) + Len(turn_records)
        BY <2>1, <3>1
      <4>2. /\ Len(inv.tool_calls) \in Nat /\ Len(turn_records) \in Nat /\ Len(calls) \in Nat
        BY <2>1 DEF ShapeInv
      <4> QED
        BY <3>1, <4>1, <4>2
    <3>4. ~(ok \/ error)
      BY <2>3
    <3> QED
      BY <3>1, <3>2, <3>3, <3>4 DEF Audited
  <2> QED
    BY <2>2, <2>3
<1> HIDE DEF e
<1>4. /\ Len(invocations') = Len(invocations) + 1
      /\ \A k \in 1..Len(invocations) : invocations'[k] = invocations[k]
      /\ invocations'[Len(invocations) + 1] = e
      /\ Len(invocations) \in Nat
  BY <1>1, <1>2, AppendEntry
<1>5. SUFFICES ASSUME NEW k \in 1..Len(invocations') PROVE Audited(invocations'[k])
  BY DEF AuditInv
<1>6. CASE k \in 1..Len(invocations)
  BY <1>4, <1>6 DEF AuditInv
<1>7. CASE k = Len(invocations) + 1
  BY <1>3, <1>4, <1>7
<1> QED
  BY <1>4, <1>5, <1>6, <1>7

LEMMA TalkInit == Init => TalkInv
<1> SUFFICES ASSUME Init PROVE TalkInv
  OBVIOUS
<1>1. pc = "idle" /\ ~InTurn
  BY DEF Init, InTurn
<1>2. ShapeInv
  BY DEF Init, ShapeInv, NewInvocation, Records
<1>3. TurnInv /\ AnswerInv /\ StreakInv /\ TrailInv
  BY <1>1 DEF TurnInv, AnswerInv, StreakInv, TrailInv
<1>4. AuditInv
  <2>1. invocations = <<>> /\ Len(invocations) = 0
    BY DEF Init
  <2> QED
    BY <2>1 DEF AuditInv
<1> QED
  BY <1>2, <1>3, <1>4 DEF TalkInv

\* Every step of the loop, of the harness and of the tools keeps the
\* conversation, the count of repetitions and the audit trail in order.
LEMMA TalkStep == SpendInv /\ TalkInv /\ [Next]_vars => TalkInv'
<1> SUFFICES ASSUME SpendInv, ShapeInv, TurnInv, AnswerInv, StreakInv, TrailInv, AuditInv,
                    [Next]_vars
             PROVE  ShapeInv' /\ TurnInv' /\ AnswerInv' /\ StreakInv' /\ TrailInv' /\ AuditInv'
  BY DEF TalkInv
<1> DEFINE Goal == ShapeInv' /\ TurnInv' /\ AnswerInv' /\ StreakInv' /\ TrailInv' /\ AuditInv'
<1>0. UNCHANGED invocations => AuditInv'
  BY DEF AuditInv, Audited
<1>1. CASE Invoke
  BY <1>0, <1>1, FreshTalk DEF Invoke
<1>2. ASSUME NEW c \in Costs \union {None}, NEW cs \in Replies, Respond(c, cs)
      PROVE  Goal
  <2>1. UNCHANGED invocations
    BY <1>2 DEF Respond
  <2> QED
    BY <1>0, <1>2, <2>1, RespondTalks
<1>3. CASE ProviderRaises
  <2>1. /\ pc = "call" /\ Record(inv, FALSE, TRUE) /\ pc' = "idle"
        /\ UNCHANGED <<messages, turn_records, trace, calls, repeated, last_call, inv>>
    BY <1>3 DEF ProviderRaises, Record, logs
  <2>2. AuditInv'
    BY <2>1, RecordAudits DEF SpendInv
  <2> QED
    BY <2>1, <2>2, TalkKept
<1>4. CASE RefuseTool
  <2>1. /\ pc = "tool" /\ Answer(Current, TRUE) /\ UNCHANGED <<loopVars, inv, invocations>>
    BY <1>4 DEF RefuseTool
  <2> QED
    BY <1>0, <2>1, AnswerTalks
<1>5. ASSUME NEW err \in BOOLEAN, LocalTool(err)
      PROVE  Goal
  <2>1. /\ pc = "tool" /\ Answer(Current, err) /\ UNCHANGED <<loopVars, inv, invocations>>
    BY <1>5 DEF LocalTool
  <2> QED
    BY <1>0, <1>5, <2>1, AnswerTalks
<1>6. CASE SendRequest
  <2>1. /\ pc = "tool" /\ pc' = "request"
        /\ UNCHANGED <<messages, turn_records, trace, calls, repeated, last_call, inv, invocations>>
    BY <1>6 DEF SendRequest, loopVars, logs
  <2> QED
    BY <1>0, <2>1, TalkKept
<1>7. ASSUME NEW o, Attempt(o)
      PROVE  Goal
  <2>1. pc = "request" /\ UNCHANGED <<loopVars, inv, invocations>>
    BY <1>7 DEF Attempt
  <2>2. CASE Answer(Current, Raises(o))
    <3>1. Raises(o) \in BOOLEAN
      BY DEF Raises
    <3> QED
      BY <1>0, <2>1, <2>2, <3>1, AnswerTalks
  <2>3. CASE UNCHANGED <<pc, logs>>
    <3>1. UNCHANGED <<messages, turn_records, trace, calls, repeated, last_call, inv>> /\ pc' = pc
      BY <2>1, <2>3 DEF loopVars, logs
    <3> QED
      BY <1>0, <2>1, <3>1, TalkKept
  <2> QED
    BY <1>7, <2>2, <2>3 DEF Attempt
<1>8. CASE EndTurn
  <2>1. UNCHANGED invocations
    BY <1>8 DEF EndTurn
  <2> QED
    BY <1>0, <1>8, <2>1, EndTurnTalks
<1>9. CASE Return
  <2>1. /\ pc = "stop" /\ Record(inv, TRUE, FALSE) /\ pc' = "idle"
        /\ UNCHANGED <<messages, turn_records, trace, calls, repeated, last_call, inv>>
    BY <1>9 DEF Return, Record, logs
  <2>2. AuditInv'
    BY <2>1, RecordAudits DEF SpendInv
  <2> QED
    BY <2>1, <2>2, TalkKept
<1>10. CASE Interrupt
  <2>1. /\ pc \in {"call", "tool", "request"} /\ Record(inv, FALSE, FALSE) /\ pc' = "idle"
        /\ UNCHANGED <<messages, turn_records, trace, calls, repeated, last_call, inv>>
    BY <1>10 DEF Interrupt, Record, logs
  <2>2. AuditInv'
    BY <2>1, RecordAudits DEF SpendInv
  <2> QED
    BY <2>1, <2>2, TalkKept
<1>11. CASE UNCHANGED vars
  <2>1. /\ UNCHANGED <<messages, turn_records, trace, calls, repeated, last_call, inv, invocations>>
        /\ pc' = pc
    BY <1>11 DEF vars, logs
  <2> QED
    BY <1>0, <2>1, TalkKept
<1> QED
  BY <1>1, <1>2, <1>3, <1>4, <1>5, <1>6, <1>7, <1>8, <1>9, <1>10, <1>11
     DEF Next, Provider, Handler, Loop

\* Up to where the complete turns end, the conversation, the count of repeated
\* calls and the audit trail agree, for all replies, limits and failures.
THEOREM TalkInvariant == Spec => []TalkInv
BY TalkInit, TalkStep, AccountsAgree, PTL DEF Spec

\* Whenever the provider is asked, and when the loop is left, every tool call
\* of every assistant message has its one result right after it and in order,
\* whether the tool was refused, failed or answered (_execute_one_tool "never
\* raises").
THEOREM ConversationIsComplete == Spec => []ConversationComplete
<1>1. TalkInv => ConversationComplete
  <2>1. SUFFICES ASSUME TalkInv, pc \in {"call", "stop"} PROVE Answered(messages)
    BY DEF ConversationComplete
  <2>2. AnsweredTo(messages, Len(messages))
    BY <2>1 DEF TalkInv, AnswerInv, TurnsEnd, InTurn
  <2> QED
    BY <2>2 DEF Answered, AnsweredTo
<1> QED
  BY <1>1, TalkInvariant, PTL

\* The loop detection of complete_with_tools holds for every limit: the model
\* is not asked again once it made the same single call RepeatLimit + 1 times
\* in a row, however the streak began.
THEOREM LoopDetected == Spec => []NoRunawayLoop
<1>1. TalkInv => NoRunawayLoop
  <2>1. SUFFICES ASSUME TalkInv, pc = "call", RepeatLimit > 0, NEW c \in Call,
                        Streak(messages, Len(messages), c, RepeatLimit)
                 PROVE  FALSE
    BY DEF NoRunawayLoop
  <2>2. /\ Counted(messages, Len(messages), last_call, repeated)
        /\ repeated < RepeatLimit /\ repeated \in Nat /\ RepeatLimit \in Nat
    BY <2>1, LimitAssumption DEF TalkInv, StreakInv, ShapeInv, TurnsEnd, InTurn
  <2>3. RepeatLimit <= repeated
    BY <2>1, <2>2 DEF Counted
  <2> QED
    BY <2>2, <2>3
<1> QED
  BY <1>1, TalkInvariant, PTL

\* The invocation the harness logs tells what its tools did: everything when
\* the call returned or the provider raised, and without less than one turn
\* when it was cancelled (record_llm_tool_calls runs once per turn).
THEOREM AuditIsComplete == Spec => []AuditComplete
<1>1. TalkInv => AuditComplete
  BY DEF TalkInv, AuditInv, Audited, AuditComplete
<1> QED
  BY <1>1, TalkInvariant, PTL
=============================================================================
