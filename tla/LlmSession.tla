----------------------------- MODULE LlmSession -----------------------------
(***************************************************************************)
(* One agent call through the harness that runs an LLM tool loop           *)
(* (agents/_harness.py, agents/_llm.py), the tools the diagnostician gives *)
(* the model (agents/diagnostician/diagnoser.py) and the retry of their    *)
(* HTTP back ends (agents/_retry.py, tools/loki.py, tools/prometheus.py).  *)
(*                                                                         *)
(* complete_with_tools keeps its own running spend and its own message     *)
(* list; the harness keeps the invocation that the orchestrator later sums *)
(* for the experiment's budget.  The two are updated at different moments  *)
(* of a turn, and the provider may raise, a tool may fail and the process  *)
(* may be interrupted at every await between them.                         *)
(***************************************************************************)
EXTENDS Naturals, Sequences, FiniteSets

CONSTANTS
    Replies,          \* the lists of tool calls a response may carry
    Costs,            \* what one response may cost (cents, say)
    None,             \* Python's None: a cost the provider does not report
    MaxTurns,         \* max_turns of complete_with_tools
    MaxBudget,        \* max_budget_usd of complete_with_tools
    RepeatLimit,      \* stop_on_repeated_tool_call
    MaxAttempts,      \* max_attempts of async_retry
    BackendUp,        \* the back ends configured on the agent (loki, prom, code)
    MaxInvocations    \* bound: agent calls explored

\* The tools of ClaudeDiagnoser: three read the checkout, two ask an HTTP
\* back end; any other name is one the model made up.
LocalTools == {"read_file", "list_files", "grep"}
BackendTools == {"query_loki", "query_prometheus"}
Tools == LocalTools \union BackendTools
Names == Tools \union {"other"}

\* What json.loads makes of a call's arguments.
Args == {"object", "other_object", "not_json", "not_object"}
Call == [name : Names, args : Args]

ASSUME ReplyAssumption == Replies \subseteq Seq(Call)
ASSUME CostAssumption == Costs \subseteq Nat /\ None \notin Nat
ASSUME LimitAssumption == /\ MaxTurns \in Nat
                          /\ MaxBudget \in Nat \ {0}
                          /\ RepeatLimit \in Nat
                          /\ MaxAttempts \in Nat \ {0}
                          /\ MaxInvocations \in Nat
                          /\ BackendUp \subseteq Tools

VARIABLES
    pc,           \* "idle", "call" (awaiting the provider), "tool" (awaiting a
                  \* handler), "request" (awaiting an HTTP back end), "end_turn"
                  \* (after the turn's last tool), "stop" (the loop was left)
    turn,         \* responses received
    messages,     \* the conversation after the system and the user message
    calls,        \* the tool calls of the current turn's response
    turn_records, \* the records of those executed so far
    trace,        \* every tool call executed in this call, in order
    spend_usd,    \* complete_with_tools' own running spend, or None
    repeated,     \* repeated_call_count
    last_call,    \* last_call_signature, or None
    requests,     \* outcomes of the HTTP attempts of the current tool call
    inv,          \* the invocation _current_invocation points at
    reported,     \* ghost: sum of the costs the provider reported to this call
    invocations   \* Harness.invocations, in order

logs == <<messages, turn_records, trace>>
vars == <<pc, turn, logs, calls, spend_usd, repeated, last_call, requests,
          inv, reported, invocations>>
loopVars == <<turn, calls, repeated, last_call>>

-----------------------------------------------------------------------------
(* The records. *)

Assistant(cs) == [role |-> "assistant", calls |-> cs]
ToolResult(c, err) == [role |-> "tool", call |-> c, is_error |-> err]

\* A ToolCallTrace and the ToolCallRecord made from it differ in how much of
\* the result's text they keep, and the text is left out.
ToolRecord(c, err) == [call |-> c, is_error |-> err]

\* AgentInvocation as the harness creates it.
NewInvocation == [spend_usd |-> None, tool_calls |-> <<>>, ok |-> FALSE,
                  error |-> FALSE]

OrZero(x) == IF x = None THEN 0 ELSE x

Init ==
    /\ pc = "idle"
    /\ turn = 0
    /\ messages = <<>>
    /\ calls = <<>> /\ turn_records = <<>> /\ trace = <<>>
    /\ spend_usd = None
    /\ repeated = 0
    /\ last_call = None
    /\ requests = <<>>
    /\ inv = NewInvocation
    /\ reported = 0
    /\ invocations = <<>>

-----------------------------------------------------------------------------
(* The harness: _wrap_coroutine around the agent's method. *)

\* Start of the wrapped coroutine and of complete_with_tools up to its first
\* await.  (The loop body is not entered at all when max_turns is 0.)
Invoke ==
    /\ pc = "idle"
    /\ Len(invocations) < MaxInvocations
    /\ inv' = NewInvocation
    /\ pc' = IF MaxTurns = 0 THEN "stop" ELSE "call"
    /\ turn' = 0 /\ messages' = <<>>
    /\ calls' = <<>> /\ turn_records' = <<>> /\ trace' = <<>>
    /\ spend_usd' = None /\ repeated' = 0 /\ last_call' = None
    /\ requests' = <<>> /\ reported' = 0
    /\ UNCHANGED invocations

\* The finally clause: the invocation goes on the harness's log whatever
\* happened; "error" is set by except Exception, so not by a cancellation.
Record(i, ok, error) ==
    /\ invocations' = Append(invocations,
            [spend_usd  |-> i.spend_usd,
             tool_calls |-> i.tool_calls,
             ok         |-> ok,
             error      |-> error,
             reported   |-> reported',
             trace      |-> trace'])
    /\ pc' = "idle"

\* record_llm_spend: nothing is attributed for a cost that is not positive.
WithSpend_late(i, c) == i
WithSpend(i, c) ==
    IF c > 0 THEN [i EXCEPT !.spend_usd = OrZero(i.spend_usd) + c] ELSE i

\* record_llm_tool_calls: one turn's records at once.
WithToolCalls_last(i, recs) == [i EXCEPT !.tool_calls = recs]
WithToolCalls(i, recs) == [i EXCEPT !.tool_calls = i.tool_calls \o recs]

-----------------------------------------------------------------------------
(* complete_with_tools. *)

\* The provider answers: the cost, if it is reported, is added to both
\* accounts; a response without tool calls ends the loop.
Respond(c, cs) ==
    /\ pc = "call"
    /\ turn' = turn + 1
    /\ IF c = None
       THEN UNCHANGED <<spend_usd, reported, inv>>
       ELSE /\ spend_usd' = OrZero(spend_usd) + c
            /\ reported' = reported + c
            /\ inv' = WithSpend(inv, c)
    /\ IF cs = <<>>
       THEN /\ pc' = "stop"
            /\ UNCHANGED <<messages, calls, turn_records>>
       ELSE /\ pc' = "tool"
            /\ messages' = Append(messages, Assistant(cs))
            /\ calls' = cs
            /\ turn_records' = <<>>
    /\ UNCHANGED <<trace, repeated, last_call, requests, invocations>>

\* The provider raises.  Nothing catches it inside complete_with_tools.
ProviderRaises ==
    /\ pc = "call"
    /\ UNCHANGED <<turn, logs, calls, spend_usd, repeated, last_call, requests,
                   inv, reported>>
    /\ Record(inv, FALSE, TRUE)

\* The call whose turn it is.
Current == calls[Len(turn_records) + 1]

\* _execute_one_tool returned: its trace is kept, its record joins the turn's
\* and its result goes back to the model.
Answer_onlyGood(c, err) ==
    /\ messages' = IF err THEN messages ELSE Append(messages, ToolResult(c, err))
    /\ trace' = Append(trace, ToolRecord(c, err))
    /\ turn_records' = Append(turn_records, ToolRecord(c, err))
    /\ requests' = <<>>
    /\ pc' = IF Len(turn_records) + 1 = Len(calls) THEN "end_turn" ELSE "tool"
Answer(c, err) ==
    /\ messages' = Append(messages, ToolResult(c, err))
    /\ trace' = Append(trace, ToolRecord(c, err))
    /\ turn_records' = Append(turn_records, ToolRecord(c, err))
    /\ requests' = <<>>
    /\ pc' = IF Len(turn_records) + 1 = Len(calls) THEN "end_turn" ELSE "tool"

\* The checks of _execute_one_tool that refuse a call before its handler runs.
Refused(c) == c.name \notin Tools \/ c.args \in {"not_json", "not_object"}

RefuseTool ==
    /\ pc = "tool"
    /\ Refused(Current)
    /\ Answer(Current, TRUE)
    /\ UNCHANGED <<loopVars, spend_usd, inv, reported, invocations>>

\* A handler that sends no request.  One of the code reader, or one whose back
\* end is missing, reports trouble as text, so the result is not marked as an
\* error; what any of them raises before that (a missing key of args) is caught
\* by _execute_one_tool.
LocalTool(err) ==
    /\ pc = "tool"
    /\ ~Refused(Current)
    /\ Current.name \notin BackendUp => ~err
    /\ Current.name \in BackendTools \intersect BackendUp => err
    /\ Answer(Current, err)
    /\ UNCHANGED <<loopVars, spend_usd, inv, reported, invocations>>

\* The first HTTP request of a back-end tool.
SendRequest ==
    /\ pc = "tool"
    /\ ~Refused(Current)
    /\ Current.name \in BackendTools \intersect BackendUp
    /\ pc' = "request"
    /\ UNCHANGED <<loopVars, logs, spend_usd, requests, inv, reported,
                   invocations>>

\* async_retry's decision after an attempt: a transport error or a timeout is
\* retried while attempts are left.
Retries(o, n) == o = "transport" /\ n < MaxAttempts

\* The outcomes that the handler does not catch.
Raises(o) == o \in {"garbled", "transport"}

\* One attempt ends.  An answer of the server (good, or an error status, which
\* _get turns into LokiQueryError / PromQueryError and the handler into text)
\* ends the call; so do a body that does not decode and the last transport
\* error, which no handler names and _execute_one_tool reports as an error.
Attempt_swallow(o) ==
    /\ pc = "request"
    /\ Len(requests) < MaxAttempts
    /\ IF o = "transport"
       THEN /\ requests' = Append(requests, o)
            /\ UNCHANGED <<pc, logs>>
       ELSE Answer(Current, FALSE)
    /\ UNCHANGED <<loopVars, spend_usd, inv, reported, invocations>>
Attempt(o) ==
    /\ pc = "request"
    /\ Len(requests) < MaxAttempts
    /\ LET rs == Append(requests, o) IN
       IF Retries(o, Len(rs))
       THEN /\ requests' = rs
            /\ UNCHANGED <<pc, logs>>
       ELSE Answer(Current, Raises(o))
    /\ UNCHANGED <<loopVars, spend_usd, inv, reported, invocations>>

\* Loop detection: how often the same single call has been repeated.
Repeats_strict(cs) ==
    IF RepeatLimit > 0 /\ Len(cs) = 1 /\ cs[1] = last_call THEN repeated ELSE 0
Repeats(cs) ==
    IF RepeatLimit > 0 /\ Len(cs) = 1 /\ cs[1] = last_call THEN repeated + 1 ELSE 0

\* max_budget_usd, compared with the spend known to this call.
OverBudget_strict == spend_usd # None /\ spend_usd > MaxBudget + 1
OverBudget == spend_usd # None /\ spend_usd >= MaxBudget

\* After the last tool of a turn: the records go to the invocation, then the
\* repeated-call check, the budget check and the loop's own bound.
EndTurn ==
    /\ pc = "end_turn"
    /\ inv' = WithToolCalls(inv, turn_records)
    /\ repeated' = Repeats(calls)
    /\ last_call' = IF RepeatLimit > 0 /\ Len(calls) = 1 THEN calls[1] ELSE None
    /\ pc' = IF \/ Repeats(calls) > 0 /\ Repeats(calls) >= RepeatLimit
                \/ OverBudget
                \/ turn = MaxTurns
             THEN "stop"
             ELSE "call"
    /\ UNCHANGED <<turn, logs, calls, spend_usd, requests, reported, invocations>>

\* complete_with_tools returns to the agent and the agent to the harness.
Return ==
    /\ pc = "stop"
    /\ UNCHANGED <<turn, logs, calls, spend_usd, repeated, last_call, requests,
                   inv, reported>>
    /\ Record(inv, TRUE, FALSE)

\* Ctrl-C: asyncio.run cancels the task at its await.  CancelledError is not
\* an Exception, so neither _execute_one_tool nor the harness's except sees it.
Interrupt ==
    /\ pc \in {"call", "tool", "request"}
    /\ UNCHANGED <<turn, logs, calls, spend_usd, repeated, last_call, requests,
                   inv, reported>>
    /\ Record(inv, FALSE, FALSE)

-----------------------------------------------------------------------------
Provider ==
    \/ \E c \in Costs \union {None}, cs \in Replies : Respond(c, cs)
    \/ ProviderRaises
Handler ==
    \/ RefuseTool
    \/ \E err \in BOOLEAN : LocalTool(err)
    \/ SendRequest
    \/ \E o \in {"ok", "status", "garbled", "transport"} : Attempt(o)
Loop == EndTurn \/ Return

Next == Invoke \/ Provider \/ Handler \/ Loop \/ Interrupt

\* Every await of the loop ends: acompletion and the HTTP client return or
\* raise within their timeouts, the handlers are finite.  Nobody owes a new
\* agent call or an interrupt.
Fairness == WF_vars(Provider) /\ WF_vars(Handler) /\ WF_vars(Loop)

Spec == Init /\ [][Next]_vars /\ Fairness

-----------------------------------------------------------------------------
(* Properties. *)

Outcome == {"ok", "status", "garbled", "transport"}
Message == [role : {"assistant"}, calls : Seq(Call)]
           \union [role : {"tool"}, call : Call, is_error : BOOLEAN]
Records == Seq([call : Call, is_error : BOOLEAN])

\* Every variable has the shape the code gives it.
TypeOK ==
    /\ pc \in {"idle", "call", "tool", "request", "end_turn", "stop"}
    /\ turn \in 0..MaxTurns
    /\ messages \in Seq(Message)
    /\ calls \in Seq(Call) /\ turn_records \in Records /\ trace \in Records
    /\ spend_usd \in Nat \union {None}
    /\ repeated \in Nat
    /\ last_call \in Call \union {None}
    /\ requests \in Seq(Outcome)
    /\ reported \in Nat
    /\ inv.spend_usd \in Nat \union {None}
    /\ Len(invocations) <= MaxInvocations

\* The harness's log holds what the provider reported: for every invocation on
\* it, also one that raised or was interrupted half way through its turns, the
\* spend the orchestrator will sum is the sum of the costs reported to it.
SpendAttributed ==
    /\ \A k \in 1..Len(invocations) :
            OrZero(invocations[k].spend_usd) = invocations[k].reported
    /\ pc # "idle" => /\ OrZero(inv.spend_usd) = reported
                      /\ OrZero(spend_usd) = reported

\* complete_with_tools asks the provider again only while its known spend is
\* below max_budget_usd, so one call overshoots by less than one response.
CallBudget ==
    /\ pc = "call" /\ turn > 0 => OrZero(spend_usd) < MaxBudget \/ spend_usd = None
    /\ \A k \in 1..Len(invocations) :
            \/ invocations[k].reported <= MaxBudget
            \/ \E c \in Costs : invocations[k].reported < MaxBudget + c

\* Whenever the provider is asked, every tool call of every earlier assistant
\* message has exactly one result, right after it and in order, errors
\* included: the conversation the chat API accepts.
Answered(ms) ==
    \A k \in 1..Len(ms) : ms[k].role = "assistant" =>
        /\ k + Len(ms[k].calls) <= Len(ms)
        /\ \A j \in 1..Len(ms[k].calls) :
                /\ ms[k + j].role = "tool"
                /\ ms[k + j].call = ms[k].calls[j]
        /\ k + Len(ms[k].calls) < Len(ms) =>
                ms[k + Len(ms[k].calls) + 1].role = "assistant"
ConversationComplete == pc \in {"call", "stop"} => Answered(messages)

\* The model is never asked again after RepeatLimit + 1 turns in a row that
\* made the same single call (the safety net for a model stuck in a loop).  A
\* turn with one call is two messages, so the turns of a streak that ends at
\* message p begin at every second message before it.
Streak(ms, p, c, n) ==
    /\ p >= 2 * (n + 1)
    /\ \A j \in 0..n : ms[p - 2 * j - 1] = Assistant(<<c>>)
NoRunawayLoop ==
    pc = "call" /\ RepeatLimit > 0 =>
        ~\E c \in Call : Streak(messages, Len(messages), c, RepeatLimit)

\* The audit trail of an invocation is what its tools did: complete when the
\* call returned or the provider raised, and otherwise (interrupt) a prefix
\* that lacks the tools of the interrupted turn only.
AuditComplete ==
    \A k \in 1..Len(invocations) :
        LET i == invocations[k] IN
        /\ i.ok \/ i.error => i.tool_calls = i.trace
        /\ i.tool_calls = SubSeq(i.trace, 1, Len(i.tool_calls))
        /\ \/ i.trace = i.tool_calls
           \/ \E cs \in Replies : Len(i.trace) < Len(i.tool_calls) + Len(cs)

\* An agent call always ends: turns, tool calls and retries are all bounded.
CallEnds == pc # "idle" ~> pc = "idle"
=============================================================================
