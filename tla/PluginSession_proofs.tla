------------------------- MODULE PluginSession_proofs -------------------------
(***************************************************************************)
(* What a PluginSession guarantees of its teardown, for every plugin and   *)
(* any number of registrations.                                            *)
(*                                                                         *)
(* The four properties speak of a session that is closed, or of cleanups   *)
(* that have run.  The invariant says the same of the two stacks while     *)
(* they are filled and emptied: registration numbers grow along a stack,   *)
(* what hooks registered for the environment is older than all of the test *)
(* scope, and nothing that a hook registered is newer than a cleanup that  *)
(* has run.                                                                *)
(***************************************************************************)
EXTENDS PluginSession, SequenceTheorems, TLAPS

\* A cleanup that was registered.
Item == [id : Nat \ {0}, name : TeardownHooks \cup {"defer"}, during : Hooks \cup Scopes]
StageResult == [hook : Hooks \cup {"defer"}, status : {"ok", "failed", "skipped"}]

\* The session has not begun to unwind.
Up == at \notin {"unwinding", "closed"}

\* The positions of a stack.
Places(s) == 1 .. Len(stack[s])

ShapeInv ==
  /\ overridden \subseteq Hooks /\ called \subseteq Hooks
  /\ at \in Hooks \cup {"new", "body", "unwinding", "closed"}
  /\ current \in Scopes
  /\ stack \in [Scopes -> Seq(Item)]
  /\ closing \in Scopes \cup {"none"}
  /\ cleanup \in Item \cup {NoCleanup}
  /\ cut \in BOOLEAN
  /\ next_id \in Nat \ {0}
  /\ ran \in Seq(Item)
  /\ records \in Seq(StageResult)

\* Where the session is.
PhaseInv ==
  /\ Up => closing = "none" /\ cleanup = NoCleanup /\ Len(ran) <= 0 /\ cut = FALSE
  /\ ~Up => closing \in Scopes
  /\ at = "closed" => /\ cleanup = NoCleanup
                      /\ closing = "test" => cut /\ Len(stack["test"]) <= 0
                      /\ closing = "env" => Len(stack["env"]) <= 0
  /\ at = "new" => called = {}
  /\ at \in {"new", "validate"} => current = "env"
  /\ current = "env" => Len(stack["test"]) <= 0
  /\ closing = "env" => \A k \in Places("test") : stack["test"][k].during = "env"

\* Registration numbers: below the next one, growing along a stack, and used once.
Issued ==
  /\ \A s \in Scopes : \A k \in Places(s) : stack[s][k].id < next_id
  /\ \A i \in 1 .. Len(ran) : ran[i].id < next_id
Growing == \A s \in Scopes : \A k, l \in Places(s) : k < l => stack[s][k].id < stack[s][l].id
Apart == \A k \in Places("env"), l \in Places("test") : stack["env"][k].id # stack["test"][l].id
Unspent == \A s \in Scopes : \A k \in Places(s), i \in 1 .. Len(ran) : stack[s][k].id # ran[i].id
Once == \A i, j \in 1 .. Len(ran) : ran[i].id = ran[j].id => i = j

NumberInv == Issued /\ Growing /\ Apart /\ Unspent /\ Once

\* What hooks registered comes in the order of its numbers, over both stacks and
\* before all that has run.
EnvOlder ==
  \A k \in Places("env"), l \in Places("test") :
    stack["env"][k].during \notin Scopes => stack["env"][k].id < stack["test"][l].id
RanNewer ==
  \A s \in Scopes : \A k \in Places(s), i \in 1 .. Len(ran) :
    stack[s][k].during \notin Scopes => stack[s][k].id < ran[i].id
Reversed ==
  \A i, j \in 1 .. Len(ran) : i < j => ran[j].id < ran[i].id \/ ran[j].during \in Scopes

OrderInv == EnvOlder /\ RanNewer /\ Reversed

\* The teardown hook of scope s is registered, or has been started.
Due(s, name) ==
  \/ \E k \in Places(s) : stack[s][k].name = name
  \/ \E i \in 1 .. Len(ran) : ran[i].name = name

\* A teardown hook belongs to its scope, and is there as soon as the scope is open.
PairInv ==
  /\ \A k \in Places("test") : stack["test"][k].name # "teardown_env"
  /\ \A k \in Places("env") : stack["env"][k].name # "teardown_test"
  /\ \A s \in Scopes : \A k \in Places(s) :
       stack[s][k].during \in Scopes => stack[s][k].name = "defer"
  /\ Due("env", "teardown_env") <=> "teardown_env" \in overridden /\ "provision_env" \in called
  /\ Due("test", "teardown_test") <=> "teardown_test" \in overridden /\ "setup_test" \in called

\* The cleanups that have ended, and the results from before the unwinding.
Ended == IF cleanup = NoCleanup THEN Len(ran) ELSE Len(ran) - 1
Before == Len(records) - Ended

AuditInv ==
  /\ cleanup # NoCleanup => Len(ran) > 0 /\ ran[Len(ran)] = cleanup
  /\ Before \in Nat
  /\ \A i \in 1 .. Ended : records[Before + i].hook = ran[i].name
  /\ \A i \in 1 .. Before : records[i].hook \notin TeardownHooks

\* A hook that failed was the last one, or it was a workload that failed as the
\* guard tripped: its diagnostics are being collected, or have been.
Excused(i) ==
  \/ ~Up /\ i = Before
  \/ /\ Up /\ i = Before /\ records[i].hook = "run_test"
     /\ at = "collect_diagnostics" /\ "collect_diagnostics" \in called
  \/ /\ i = Before - 1 /\ records[i].hook = "run_test"
     /\ records[Before].hook = "collect_diagnostics"
     /\ Up => at = "body" /\ "collect_diagnostics" \in called

FailInv == \A i \in 1 .. Before : records[i].status = "failed" => Excused(i)

SessionInv == ShapeInv /\ PhaseInv /\ NumberInv /\ OrderInv /\ PairInv /\ AuditInv
-------------------------------------------------------------------------------
(***************************************************************************)
(* Sequences that grow or shrink by one.                                   *)
(***************************************************************************)
\* One entry more.
LEMMA Appended ==
  ASSUME NEW S, NEW q \in Seq(S), NEW e \in S
  PROVE  /\ Append(q, e) \in Seq(S) /\ Len(q) \in Nat
         /\ Len(Append(q, e)) = Len(q) + 1
         /\ Append(q, e)[Len(q) + 1] = e
         /\ \A k \in 1 .. Len(q) : Append(q, e)[k] = q[k]
OBVIOUS

\* The last entry off.
LEMMA LastCut ==
  ASSUME NEW S, NEW q \in Seq(S), q # <<>>
  PROVE  /\ Len(q) \in Nat /\ Len(q) > 0 /\ q[Len(q)] \in S
         /\ SubSeq(q, 1, Len(q) - 1) \in Seq(S)
         /\ Len(SubSeq(q, 1, Len(q) - 1)) = Len(q) - 1
         /\ \A k \in 1 .. Len(q) - 1 : SubSeq(q, 1, Len(q) - 1)[k] = q[k]
<1>1. Len(q) \in Nat /\ Len(q) > 0 /\ \A k \in 1 .. Len(q) : q[k] \in S
  OBVIOUS
<1> DEFINE n == Len(q) - 1
<1>2. n \in Int /\ 1 \in Int /\ \A k \in 1 .. n : q[k] \in S
  BY <1>1
<1>3. /\ SubSeq(q, 1, n) \in Seq(S)
      /\ Len(SubSeq(q, 1, n)) = IF 1 <= n THEN n - 1 + 1 ELSE 0
      /\ \A k \in 1 .. n - 1 + 1 : SubSeq(q, 1, n)[k] = q[1 + k - 1]
  <2> HIDE DEF n
  <2> QED
    BY <1>2, SubSeqProperties
<1>4. \A k \in 1 .. n : k \in 1 .. n - 1 + 1 /\ 1 + k - 1 = k
  BY <1>2
<1>5. Len(SubSeq(q, 1, n)) = n
  <2> HIDE DEF n
  <2>1. n >= 0 => (IF 1 <= n THEN n - 1 + 1 ELSE 0) = n
    BY <1>2
  <2>2. n >= 0
    BY <1>1 DEF n
  <2> QED
    BY <1>3, <2>1, <2>2
<1>6. \A k \in 1 .. n : SubSeq(q, 1, n)[k] = q[k]
  <2> HIDE DEF n
  <2> QED
    BY <1>3, <1>4
<1>7. q[Len(q)] \in S
  BY <1>1
<1> QED
  BY <1>1, <1>3, <1>5, <1>6, <1>7

\* What push_async_callback does to the stacks.
Pushed(s, e) ==
  /\ Len(stack'[s]) = Len(stack[s]) + 1
  /\ stack'[s][Len(stack[s]) + 1] = e
  /\ \A k \in Places(s) : stack'[s][k] = stack[s][k]
  /\ \A t \in Scopes \ {s} : stack'[t] = stack[t]
  /\ e.id = next_id /\ next_id' = next_id + 1

\* Push is the registration of one item, whoever registers it.
LEMMA PushPushes ==
  ASSUME ShapeInv, NEW s \in Scopes, NEW name \in TeardownHooks \cup {"defer"}, Push(s, name),
         (IF at = "unwinding" THEN closing ELSE at) \in Hooks \cup Scopes
  PROVE  /\ stack' \in [Scopes -> Seq(Item)] /\ next_id' \in Nat \ {0}
         /\ \E e \in Item : /\ Pushed(s, e) /\ e.name = name
                            /\ e.during = IF at = "unwinding" THEN closing ELSE at
<1> DEFINE e == [id |-> next_id, name |-> name,
                 during |-> IF at = "unwinding" THEN closing ELSE at]
<1>1. /\ e \in Item /\ e.name = name /\ e.id = next_id
      /\ e.during = IF at = "unwinding" THEN closing ELSE at
  BY DEF Item, ShapeInv
<1>2. /\ stack' = [stack EXCEPT ![s] = Append(stack[s], e)] /\ next_id' = next_id + 1
  BY DEF Push
<1> HIDE DEF e
<1>3. stack \in [Scopes -> Seq(Item)] /\ stack[s] \in Seq(Item)
  BY DEF ShapeInv
<1>4. /\ Append(stack[s], e) \in Seq(Item) /\ stack'[s] = Append(stack[s], e)
      /\ \A t \in Scopes \ {s} : stack'[t] = stack[t]
      /\ stack' \in [Scopes -> Seq(Item)]
  BY <1>1, <1>2, <1>3
<1>5. Pushed(s, e)
  BY <1>1, <1>2, <1>3, <1>4, Appended DEF Pushed, Places
<1>6. next_id' \in Nat \ {0}
  BY <1>2 DEF ShapeInv
<1> QED
  BY <1>1, <1>4, <1>5, <1>6

\* A registration has the highest number; the environment's stack only grows while
\* the test scope has none.
LEMMA PushOrder ==
  ASSUME ShapeInv, NumberInv, OrderInv, NEW s \in Scopes, NEW e \in Item, Pushed(s, e),
         ran' = ran, stack' \in [Scopes -> Seq(Item)],
         s = "env" => Len(stack["test"]) <= 0,
         Len(ran) <= 0 \/ e.during \in Scopes
  PROVE  NumberInv' /\ OrderInv'
<1>1. /\ \A t \in Scopes : Len(stack[t]) \in Nat /\ Len(stack'[t]) \in Nat
      /\ Len(ran) \in Nat /\ next_id \in Nat
      /\ \A t \in Scopes : \A k \in Places(t) : stack[t][k].id \in Nat
      /\ \A i \in 1 .. Len(ran) : ran[i].id \in Nat
  <2>1. /\ \A t \in Scopes : Len(stack[t]) \in Nat /\ Len(stack'[t]) \in Nat
        /\ Len(ran) \in Nat /\ next_id \in Nat
    BY DEF ShapeInv
  <2>2. /\ \A t \in Scopes : \A k \in Places(t) : stack[t][k] \in Item
        /\ \A i \in 1 .. Len(ran) : ran[i] \in Item
    BY SMTT(60) DEF ShapeInv, Places
  <2>3. \A x \in Item : x.id \in Nat
    BY DEF Item
  <2> QED
    BY <2>1, <2>2, <2>3
<1>2. \A t \in Scopes : \A k \in Places(t)' :
        \/ k \in Places(t) /\ stack'[t][k] = stack[t][k]
        \/ t = s /\ k = Len(stack[s]) + 1 /\ stack'[t][k] = e
  BY <1>1 DEF Pushed, Places
<1>3. \A t \in Scopes : \A k \in Places(t) : k <= Len(stack[t])
  BY <1>1 DEF Places
<1>4. s = "env" => Places("test")' = {}
  BY <1>1 DEF Pushed, Places, Scopes
<1>5. e.id = next_id /\ next_id' = next_id + 1
  BY DEF Pushed
<1>6. Issued /\ Growing /\ Apart /\ Unspent /\ Once /\ EnvOlder /\ RanNewer /\ Reversed
  BY DEF NumberInv, OrderInv
<1>7. Issued'
  BY SMTT(60), <1>1, <1>2, <1>5, <1>6 DEF Issued
<1>8. Growing'
  <2> SUFFICES ASSUME NEW t \in Scopes, NEW k \in Places(t)', NEW l \in Places(t)', k < l
               PROVE  stack'[t][k].id < stack'[t][l].id
    BY DEF Growing
  <2>1. k \in Places(t) /\ stack'[t][k] = stack[t][k]
    <3>1. k \in Int /\ l \in Int /\ l <= Len(stack'[t]) /\ 1 <= k
      BY <1>1 DEF Places
    <3>2. k < Len(stack'[t])
      BY <1>1, <3>1
    <3> QED
      BY <1>1, <1>2, <3>1, <3>2 DEF Pushed
  <2>2. CASE stack'[t][l] = e
    BY <1>5, <1>6, <2>1, <2>2 DEF Issued
  <2>3. CASE l \in Places(t) /\ stack'[t][l] = stack[t][l]
    BY <1>6, <2>1, <2>3 DEF Growing
  <2> QED
    BY <1>2, <2>2, <2>3
<1>9. Apart' /\ EnvOlder'
  <2>1. CASE s = "env"
    BY <1>4, <2>1 DEF Apart, EnvOlder
  <2>2. CASE s = "test"
    <3>1. stack'["env"] = stack["env"] /\ Places("env")' = Places("env")
      BY <2>2 DEF Pushed, Scopes, Places
    <3>2. \A l \in Places("test")' : stack'["test"][l] = e \/ (l \in Places("test") /\ stack'["test"][l] = stack["test"][l])
      BY <1>2 DEF Scopes
    <3>3. \A k \in Places("env") : stack["env"][k].id < next_id /\ stack["env"][k].id \in Nat
      BY <1>1, <1>6 DEF Issued, Scopes
    <3>4. Apart'
      BY SMTT(60), <1>1, <1>5, <1>6, <3>1, <3>2, <3>3 DEF Apart
    <3>5. EnvOlder'
      BY <1>1, <1>5, <1>6, <3>1, <3>2, <3>3 DEF EnvOlder
    <3> QED
      BY <3>4, <3>5
  <2> QED
    BY <2>1, <2>2 DEF Scopes
<1>10. Unspent'
  <2>1. \A i \in 1 .. Len(ran) : ran[i].id < next_id /\ ran[i].id # next_id
    BY <1>1, <1>6 DEF Issued
  <2> QED
    BY SMTT(60), <1>2, <1>5, <1>6, <2>1 DEF Unspent
<1>11. RanNewer'
  <2>1. CASE Len(ran) <= 0
    BY <1>1, <2>1 DEF RanNewer
  <2>2. CASE e.during \in Scopes
    BY <1>2, <1>6, <2>2 DEF RanNewer
  <2> QED
    BY <2>1, <2>2
<1>12. Once' /\ Reversed'
  BY <1>6 DEF Once, Reversed
<1> QED
  BY <1>7, <1>8, <1>9, <1>10, <1>11, <1>12 DEF NumberInv, OrderInv

\* Only a registration of a teardown hook makes it due.
LEMMA PushPair ==
  ASSUME ShapeInv, PairInv, NEW s \in Scopes, NEW e \in Item, Pushed(s, e),
         ran' = ran, stack' \in [Scopes -> Seq(Item)],
         e.during \in Scopes => e.name = "defer",
         e.name = "teardown_env" => s = "env",
         e.name = "teardown_test" => s = "test"
  PROVE  /\ \A k \in Places("test")' : stack'["test"][k].name # "teardown_env"
         /\ \A k \in Places("env")' : stack'["env"][k].name # "teardown_test"
         /\ \A t \in Scopes : \A k \in Places(t)' :
              stack'[t][k].during \in Scopes => stack'[t][k].name = "defer"
         /\ Due("env", "teardown_env")' <=> Due("env", "teardown_env") \/ e.name = "teardown_env"
         /\ Due("test", "teardown_test")' <=> Due("test", "teardown_test") \/ e.name = "teardown_test"
<1>1. \A t \in Scopes : Len(stack[t]) \in Nat /\ Len(stack'[t]) \in Nat
  BY DEF ShapeInv
<1>2. \A t \in Scopes : \A k \in Places(t)' :
        \/ k \in Places(t) /\ stack'[t][k] = stack[t][k]
        \/ t = s /\ k = Len(stack[s]) + 1 /\ stack'[t][k] = e
  BY <1>1 DEF Pushed, Places
<1>3. /\ \A t \in Scopes : \A k \in Places(t) : k \in Places(t)' /\ stack'[t][k] = stack[t][k]
      /\ Len(stack[s]) + 1 \in Places(s)' /\ stack'[s][Len(stack[s]) + 1] = e
  BY SMTT(60), <1>1 DEF Pushed, Places
<1>4. /\ \A k \in Places("test")' : stack'["test"][k].name # "teardown_env"
      /\ \A k \in Places("env")' : stack'["env"][k].name # "teardown_test"
  BY <1>2 DEF PairInv, Scopes
<1>5. \A t \in Scopes : \A k \in Places(t)' :
              stack'[t][k].during \in Scopes => stack'[t][k].name = "defer"
  BY <1>2 DEF PairInv
<1>6. \A t \in Scopes, n \in TeardownHooks : (e.name = n => t = s) =>
        (Due(t, n)' <=> Due(t, n) \/ e.name = n)
  BY SMTT(60), <1>2, <1>3 DEF Due
<1> QED
  BY <1>4, <1>5, <1>6 DEF TeardownHooks, Scopes

\* Results recorded before the unwinding.
LEMMA RecordUp ==
  ASSUME ShapeInv, AuditInv, PhaseInv, Up, ran' = ran, cleanup' = cleanup,
         records' \in Seq(StageResult), Len(records') >= Len(records),
         \A k \in 1 .. Len(records) : records'[k] = records[k],
         \A k \in Len(records) + 1 .. Len(records') : records'[k].hook \notin TeardownHooks
  PROVE  AuditInv'
<1>1. /\ Len(ran) = 0 /\ cleanup = NoCleanup /\ Len(records) \in Nat /\ Len(records') \in Nat
  BY DEF ShapeInv, PhaseInv
<1>2. Ended = 0 /\ Before = Len(records) /\ Ended' = 0 /\ Before' = Len(records')
  BY <1>1 DEF Ended, Before
<1>3. \A k \in 1 .. Len(records') : records'[k].hook \notin TeardownHooks
  BY <1>1, <1>2 DEF AuditInv
<1> QED
  BY <1>1, <1>2, <1>3 DEF AuditInv

\* One result.
LEMMA RecordOne ==
  ASSUME ShapeInv, AuditInv, PhaseInv, Up, ran' = ran, cleanup' = cleanup,
         NEW r \in StageResult, records' = Append(records, r),
         r.hook \notin TeardownHooks
  PROVE  AuditInv' /\ records' \in Seq(StageResult)
<1>1. /\ records' \in Seq(StageResult) /\ Len(records) \in Nat
      /\ Len(records') = Len(records) + 1 /\ records'[Len(records) + 1] = r
      /\ \A k \in 1 .. Len(records) : records'[k] = records[k]
  BY Appended DEF ShapeInv
<1>2. \A k \in Len(records) + 1 .. Len(records') : records'[k].hook \notin TeardownHooks
  <2>1. \A k \in Len(records) + 1 .. Len(records') : k = Len(records')
    BY <1>1
  <2> QED
    BY <1>1, <2>1
<1>3. Len(records') >= Len(records)
  BY <1>1
<1> QED
  BY <1>1, <1>2, <1>3, RecordUp
-------------------------------------------------------------------------------
(***************************************************************************)
(* The names of the hooks and of the other places.                         *)
(***************************************************************************)
\* The names do not overlap.
LEMMA HookNames ==
  /\ SetupHooks = {"validate", "provision_env", "await_ready", "seed", "setup_test"}
  /\ BodyHooks = {"capture_baseline", "run_test", "verify", "collect_diagnostics"}
  /\ Hooks \cap {"new", "body", "unwinding", "closed", "env", "test", "none", "defer"} = {}
  /\ \A h \in SetupHooks \cup BodyHooks : h \notin TeardownHooks
  /\ SetupHooks \cup BodyHooks \subseteq Hooks
  /\ "provision_env" \notin BodyHooks /\ "setup_test" \notin BodyHooks
<1>1. SetupHooks = {"validate", "provision_env", "await_ready", "seed", "setup_test"}
  BY DEF SetupHooks, AfterSetup
<1>2. BodyHooks = {"capture_baseline", "run_test", "verify", "collect_diagnostics"}
  BY DEF BodyHooks, CalledAfter
<1> QED
  BY <1>1, <1>2 DEF Hooks, TeardownHooks

\* Where __aenter__ goes.
LEMMA SetupOrder ==
  ASSUME NEW h \in SetupHooks
  PROVE  /\ AfterSetup[h] \in (SetupHooks \ {"validate"}) \cup {"body"}
         /\ AfterSetup[h] = "setup_test" => h = "seed"
         /\ h = "setup_test" => AfterSetup[h] = "body"
         /\ h = "validate" => AfterSetup[h] = "provision_env"
BY HookNames DEF AfterSetup

\* Steps that register and start nothing.
LEMMA FrameOrder ==
  ASSUME NumberInv, OrderInv, UNCHANGED <<stack, next_id, ran>>
  PROVE  NumberInv' /\ OrderInv'
BY DEF NumberInv, OrderInv, Issued, Growing, Apart, Unspent, Once, EnvOlder, RanNewer,
       Reversed, Places

\* The same of the teardown hooks.
LEMMA FramePair ==
  ASSUME PairInv, UNCHANGED <<stack, ran, overridden>>,
         "provision_env" \in called' <=> "provision_env" \in called,
         "setup_test" \in called' <=> "setup_test" \in called
  PROVE  PairInv'
BY DEF PairInv, Due, Places

\* Steps before the unwinding that register nothing.
LEMMA UpStep ==
  ASSUME SessionInv, Up, at' \in Hooks \cup {"body"}, at' = "validate" => at = "new",
         called' \subseteq Hooks,
         UNCHANGED <<overridden, current, stack, closing, cleanup, cut, next_id, ran>>,
         "provision_env" \in called' <=> "provision_env" \in called,
         "setup_test" \in called' <=> "setup_test" \in called,
         records' \in Seq(StageResult), AuditInv'
  PROVE  SessionInv'
<1>1. ShapeInv'
  BY DEF SessionInv, ShapeInv
<1>2. PhaseInv'
  BY HookNames DEF SessionInv, PhaseInv, Up, Places
<1> QED
  BY <1>1, <1>2, FrameOrder, FramePair DEF SessionInv

\* A new session has registered nothing.
LEMMA InitSession == Init => SessionInv
<1> SUFFICES ASSUME Init PROVE SessionInv
  OBVIOUS
<1>1. ShapeInv
  <2>1. overridden \subseteq Hooks
    BY PluginsAssumption DEF Init
  <2>2. stack \in [Scopes -> Seq(Item)] /\ ran \in Seq(Item) /\ records \in Seq(StageResult)
    BY DEF Init
  <2>3. /\ called \subseteq Hooks /\ current \in Scopes /\ cut \in BOOLEAN
        /\ closing \in Scopes \cup {"none"} /\ next_id \in Nat \ {0}
    <3>1. called = {} /\ current = "env" /\ cut = FALSE /\ closing = "none" /\ next_id = 1
      BY DEF Init
    <3>2. cut \in BOOLEAN
      BY <3>1, Zenon
    <3>3. next_id \in Nat \ {0}
      BY <3>1
    <3> QED
      BY <3>1, <3>2, <3>3, Zenon DEF Scopes
  <2>4. cleanup \in Item \cup {NoCleanup} /\ at \in Hooks \cup {"new", "body", "unwinding", "closed"}
    BY DEF Init
  <2> QED
    BY <2>1, <2>2, <2>3, <2>4 DEF ShapeInv
<1>2. /\ stack["env"] = <<>> /\ stack["test"] = <<>> /\ Len(ran) = 0 /\ Len(records) = 0
      /\ \A s \in Scopes : Places(s) = {}
  BY DEF Init, Places, Scopes
<1>3. PhaseInv
  BY <1>2 DEF Init, PhaseInv, Up
<1>4. NumberInv /\ OrderInv
  BY <1>2 DEF NumberInv, OrderInv, Issued, Growing, Apart, Unspent, Once, EnvOlder, RanNewer,
       Reversed, Scopes
<1>5. PairInv
  BY <1>2 DEF Init, PairInv, Due, Scopes
<1>6. AuditInv
  BY <1>2 DEF Init, AuditInv, Ended, Before
<1> QED
  BY <1>1, <1>3, <1>4, <1>5, <1>6 DEF SessionInv

\* __aenter__ begins.
LEMMA EnterStep == SessionInv /\ Enter => SessionInv'
<1> SUFFICES ASSUME SessionInv, Enter PROVE SessionInv'
  OBVIOUS
<1>1. /\ Up /\ Up' /\ at = "new" /\ at' = "validate" /\ called = {} /\ called' = {"validate"} /\ at' \in Hooks
      /\ records' = records /\ ran' = ran /\ cleanup' = cleanup
      /\ UNCHANGED <<overridden, current, stack, closing, cut, next_id>>
  BY HookNames DEF Enter, SessionInv, PhaseInv, Up
<1>2. AuditInv'
  BY <1>1 DEF SessionInv, AuditInv, Ended, Before
<1>3. records' \in Seq(StageResult)
  BY <1>1 DEF SessionInv, ShapeInv
<1> QED
  BY <1>1, <1>2, <1>3, UpStep

\* The hooks of the body.
LEMMA BodyStep ==
  ASSUME SessionInv, NEW h \in BodyHooks, CallBodyHook(h) \/ BodyHookOk \/ GuardTrips
  PROVE  SessionInv'
<1>1. /\ Up /\ at' \in Hooks \cup {"body"} /\ Up' /\ at' # "validate"
      /\ called' \in {called, called \cup {h}, called \cup {"collect_diagnostics"}}
      /\ UNCHANGED <<overridden, current, stack, closing, cleanup, cut, next_id, ran>>
  BY HookNames DEF CallBodyHook, BodyHookOk, GuardTrips, Up
<1>2. /\ called' \subseteq Hooks
      /\ "provision_env" \in called' <=> "provision_env" \in called
      /\ "setup_test" \in called' <=> "setup_test" \in called
  BY <1>1, HookNames DEF SessionInv, ShapeInv
<1>3. \A b \in BodyHooks, st \in {"ok", "failed", "skipped"} :
        Result(b, st) \in StageResult /\ Result(b, st).hook \notin TeardownHooks
  BY HookNames DEF Result, StageResult
<1>4. CASE records' = records
  BY <1>1, <1>2, <1>4, UpStep DEF SessionInv, ShapeInv, AuditInv, Ended, Before
<1>5. CASE \E b \in BodyHooks, st \in {"ok", "failed", "skipped"} : records' = Append(records, Result(b, st))
  <2>1. AuditInv' /\ records' \in Seq(StageResult)
    BY <1>1, <1>3, <1>5, RecordOne DEF SessionInv
  <2> QED
    BY <1>1, <1>2, <2>1, UpStep
<1>6. ASSUME NEW st \in {"ok", "failed"},
             records' = records \o <<Result("run_test", st), Result("collect_diagnostics", "skipped")>>
      PROVE  SessionInv'
  <2> DEFINE a == Result("run_test", st)
             b == Result("collect_diagnostics", "skipped")
  <2>1. a \in StageResult /\ b \in StageResult /\ a.hook \notin TeardownHooks
        /\ b.hook \notin TeardownHooks
    BY <1>3, HookNames
  <2> HIDE DEF a, b
  <2>2. /\ records' \in Seq(StageResult) /\ Len(records) \in Nat
        /\ Len(records') = Len(records) + 2
        /\ records'[Len(records) + 1] = a /\ records'[Len(records) + 2] = b
        /\ \A k \in 1 .. Len(records) : records'[k] = records[k]
    BY <1>6, <2>1 DEF SessionInv, ShapeInv, a, b
  <2>3. \A k \in Len(records) + 1 .. Len(records') : records'[k].hook \notin TeardownHooks
    <3>1. \A k \in Len(records) + 1 .. Len(records') : k = Len(records) + 1 \/ k = Len(records) + 2
      BY <2>2
    <3> QED
      BY <2>1, <2>2, <3>1
  <2>4. AuditInv'
    BY <1>1, <2>2, <2>3, RecordUp DEF SessionInv
  <2> QED
    BY <1>1, <1>2, <2>2, <2>4, UpStep
<1>7. \/ records' = records
      \/ \E b \in BodyHooks, st \in {"ok", "failed", "skipped"} : records' = Append(records, Result(b, st))
      \/ \E st \in {"ok", "failed"} :
           records' = records \o <<Result("run_test", st), Result("collect_diagnostics", "skipped")>>
  BY HookNames DEF CallBodyHook, BodyHookOk, GuardTrips
<1> QED
  BY <1>4, <1>5, <1>6, <1>7

\* The session begins to unwind.
LEMMA BeginStep ==
  ASSUME SessionInv, SetupHookFails \/ BodyHookFails \/ Exit
  PROVE  SessionInv'
<1>1. /\ Up /\ at' = "unwinding" /\ closing' = "test" /\ Up' = FALSE
      /\ UNCHANGED <<overridden, called, current, stack, cleanup, cut, next_id, ran>>
  BY HookNames DEF SetupHookFails, BodyHookFails, Exit, BeginTeardown, Up
<1>2. PhaseInv'
  BY <1>1 DEF SessionInv, PhaseInv, Up, Scopes
<1>3. NumberInv' /\ OrderInv' /\ PairInv'
  BY <1>1, FrameOrder, FramePair DEF SessionInv
<1>4. AuditInv' /\ records' \in Seq(StageResult)
  <2>1. CASE records' = records
    <3>1. ShapeInv /\ AuditInv /\ PhaseInv /\ Len(records) \in Nat /\ records \in Seq(StageResult)
      BY DEF SessionInv, ShapeInv
    <3>2. Len(records') >= Len(records) /\ \A k \in Len(records) + 1 .. Len(records') : FALSE
      BY <2>1, <3>1
    <3>3. \A k \in 1 .. Len(records) : records'[k] = records[k]
      BY <2>1
    <3> QED
      BY <1>1, <2>1, <3>1, <3>2, <3>3, RecordUp, Zenon
  <2>2. CASE \E st \in {"failed", "ok"} : at \in SetupHooks \cup BodyHooks /\ records' = Append(records, Result(at, st))
    <3>1. PICK st \in {"failed", "ok"} : records' = Append(records, Result(at, st))
      BY <2>2
    <3>2. Result(at, st) \in StageResult /\ Result(at, st).hook \notin TeardownHooks
      BY <2>2, HookNames DEF Result, StageResult
    <3> QED
      BY <1>1, <3>1, <3>2, RecordOne DEF SessionInv
  <2> QED
    BY <2>1, <2>2 DEF SetupHookFails, BodyHookFails, Exit
<1>5. ShapeInv'
  BY <1>1, <1>4 DEF SessionInv, ShapeInv, Scopes
<1> QED
  BY <1>2, <1>3, <1>4, <1>5 DEF SessionInv

\* ctx.defer: a hook registers for the scope that is open; what a cleanup
\* registers is marked as such.
LEMMA DeferStep == SessionInv /\ Defer => SessionInv'
<1> SUFFICES ASSUME SessionInv, Defer PROVE SessionInv'
  OBVIOUS
<1> USE DEF SessionInv
<1>1. /\ Push(current, "defer") /\ current \in Scopes
      /\ UNCHANGED <<overridden, at, called, current, closing, cleanup, cut, ran, records>>
  BY DEF Defer, ShapeInv
<1>2. \/ at \in Hooks /\ Up /\ Len(ran) <= 0 /\ closing = "none"
      \/ at = "unwinding" /\ closing \in Scopes
  BY HookNames DEF Defer, ShapeInv, PhaseInv, Up
<1>3. (IF at = "unwinding" THEN closing ELSE at) \in Hooks \cup Scopes
  BY <1>2, HookNames
<1>4. /\ stack' \in [Scopes -> Seq(Item)] /\ next_id' \in Nat \ {0}
      /\ \E e \in Item : /\ Pushed(current, e) /\ e.name = "defer"
                         /\ e.during = IF at = "unwinding" THEN closing ELSE at
  BY <1>1, <1>3, PushPushes
<1>5. PICK e \in Item : /\ Pushed(current, e) /\ e.name = "defer"
                      /\ e.during = IF at = "unwinding" THEN closing ELSE at
  BY <1>4
<1>6. current = "env" => Len(stack["test"]) <= 0
  BY DEF PhaseInv
<1>7. NumberInv' /\ OrderInv'
  <2>1. Len(ran) <= 0 \/ e.during \in Scopes
    BY <1>2, <1>5
  <2> QED
    BY <1>1, <1>4, <1>5, <1>6, <2>1, PushOrder
<1>8. PairInv'
  <2>1. /\ \A k \in Places("test")' : stack'["test"][k].name # "teardown_env"
        /\ \A k \in Places("env")' : stack'["env"][k].name # "teardown_test"
        /\ \A t \in Scopes : \A k \in Places(t)' :
             stack'[t][k].during \in Scopes => stack'[t][k].name = "defer"
        /\ Due("env", "teardown_env")' <=> Due("env", "teardown_env") \/ e.name = "teardown_env"
        /\ Due("test", "teardown_test")' <=> Due("test", "teardown_test") \/ e.name = "teardown_test"
    BY <1>1, <1>4, <1>5, PushPair
  <2> QED
    BY <1>1, <1>5, <2>1 DEF PairInv
<1>9. PhaseInv'
  <2>1. current' = "env" => Len(stack'["test"]) <= 0
    BY <1>1, <1>5, <1>6 DEF Pushed, Scopes
  <2>2. ASSUME closing' = "env", NEW k \in Places("test")'
        PROVE  stack'["test"][k].during = "env"
    <3>1. e.during = "env"
      BY <1>1, <1>2, <1>5, <2>2
    <3>2. Len(stack["test"]) \in Nat
      BY DEF ShapeInv, Scopes
    <3>3. CASE current = "test"
      <4>1. k \in Places("test") \/ k = Len(stack["test"]) + 1
        BY <1>5, <3>2, <3>3 DEF Pushed, Places
      <4> QED
        BY <1>1, <1>5, <2>2, <3>1, <3>3, <4>1 DEF Pushed, PhaseInv
    <3>4. CASE current = "env"
      BY <1>1, <2>1, <2>2, <3>4, <1>4 DEF Places, Scopes
    <3> QED
      BY <1>1, <3>3, <3>4 DEF Scopes
  <2>3. at # "closed" /\ UNCHANGED <<closing, cleanup, ran, cut, at, called, current>>
    BY <1>1, <1>2, HookNames
  <2>4. Up' <=> Up
    BY <2>3 DEF Up
  <2> QED
    BY <2>1, <2>2, <2>3, <2>4 DEF PhaseInv
<1>10. ShapeInv'
  BY <1>1, <1>4 DEF ShapeInv
<1>11. AuditInv'
  BY <1>1 DEF AuditInv, Ended, Before, Up
<1> QED
  BY <1>7, <1>8, <1>9, <1>10, <1>11

\* __aenter__ goes on: the scope that a hook opens is registered before the hook.
LEMMA SetupStep == SessionInv /\ SetupHookOk => SessionInv'
<1> SUFFICES ASSUME SessionInv, SetupHookOk PROVE SessionInv'
  OBVIOUS
<1> USE DEF SessionInv
<1>1. /\ at \in SetupHooks /\ at \in Hooks /\ Up /\ OpenScope(at') /\ at' = AfterSetup[at]
      /\ called' = called \cup (IF at' = "body" THEN {} ELSE {at'})
      /\ UNCHANGED <<overridden, closing, cleanup, cut, ran>>
  BY HookNames DEF SetupHookOk, Up
<1>2. /\ at' \in (SetupHooks \ {"validate"}) \cup {"body"} /\ Up' /\ at' \in Hooks \cup {"body"}
      /\ at' = "provision_env" => current = "env"
  <2>1. at' = "provision_env" => at = "validate"
    BY <1>1, HookNames DEF AfterSetup
  <2> QED
    BY <1>1, <2>1, SetupOrder, HookNames DEF Up, PhaseInv
<1>3. AuditInv' /\ records' \in Seq(StageResult)
  <2>1. PICK st \in {"ok", "skipped"} : records' = Append(records, Result(at, st))
    BY DEF SetupHookOk
  <2>2. Result(at, st) \in StageResult /\ Result(at, st).hook \notin TeardownHooks
    BY <1>1, HookNames DEF Result, StageResult
  <2> QED
    BY <1>1, <2>1, <2>2, RecordOne
<1>4. /\ called' \subseteq Hooks
      /\ "provision_env" \in called' <=> at' = "provision_env" \/ "provision_env" \in called
      /\ "setup_test" \in called' <=> at' = "setup_test" \/ "setup_test" \in called
  BY <1>1, <1>2 DEF ShapeInv
<1>5. /\ current' = IF at' = "setup_test" THEN "test" ELSE current
      /\ Len(ran) <= 0 /\ closing = "none" /\ cleanup = NoCleanup /\ cut = FALSE
  BY <1>1 DEF OpenScope, PhaseInv
<1>6. ASSUME UNCHANGED <<stack, next_id>>,
             at' = "provision_env" => "teardown_env" \notin overridden,
             at' = "setup_test" => "teardown_test" \notin overridden
      PROVE  SessionInv'
  <2>1. NumberInv' /\ OrderInv'
    BY <1>1, <1>6, FrameOrder
  <2>2. ShapeInv'
    BY <1>1, <1>2, <1>3, <1>4, <1>5, <1>6 DEF ShapeInv, Scopes
  <2>3. PhaseInv'
    BY <1>1, <1>2, <1>5, <1>6, HookNames DEF PhaseInv, Up
  <2>4. PairInv'
    <3>1. /\ Due("env", "teardown_env")' <=> Due("env", "teardown_env")
          /\ Due("test", "teardown_test")' <=> Due("test", "teardown_test")
      BY <1>1, <1>6 DEF Due, Places
    <3>2. /\ Due("env", "teardown_env")' <=> "teardown_env" \in overridden' /\ "provision_env" \in called'
          /\ Due("test", "teardown_test")' <=> "teardown_test" \in overridden' /\ "setup_test" \in called'
      BY <1>1, <1>4, <1>6, <3>1 DEF PairInv
    <3> QED
      BY <1>6, <3>2 DEF PairInv, Places
  <2> QED
    BY <1>3, <2>1, <2>2, <2>3, <2>4
<1>7. ASSUME NEW s \in Scopes, NEW n \in TeardownHooks, Push(s, n), n \in overridden,
             \/ s = "env" /\ n = "teardown_env" /\ at' = "provision_env"
             \/ s = "test" /\ n = "teardown_test" /\ at' = "setup_test",
             s = "test" \/ at' # "setup_test"
      PROVE  SessionInv'
  <2>1. /\ stack' \in [Scopes -> Seq(Item)] /\ next_id' \in Nat \ {0}
        /\ \E e \in Item : /\ Pushed(s, e) /\ e.name = n
                           /\ e.during = IF at = "unwinding" THEN closing ELSE at
    <3>1. (IF at = "unwinding" THEN closing ELSE at) \in Hooks \cup Scopes
      BY <1>1, HookNames
    <3> QED
      BY <1>7, <3>1, PushPushes
  <2>2. PICK e \in Item : Pushed(s, e) /\ e.name = n /\ e.during = at
    BY <1>1, <2>1, HookNames
  <2>3. s = "env" => Len(stack["test"]) <= 0
    BY <1>2, <1>7 DEF PhaseInv
  <2>4. NumberInv' /\ OrderInv'
    BY <1>1, <1>5, <2>1, <2>2, <2>3, PushOrder
  <2>5. ShapeInv'
    BY <1>1, <1>2, <1>3, <1>4, <1>5, <2>1 DEF ShapeInv, Scopes
  <2>6. PhaseInv'
    <3>1. current' = "env" => Len(stack'["test"]) <= 0
      BY <1>5, <1>7, <2>2, <2>3 DEF Pushed, Scopes
    <3>2. Len(ran') <= 0 /\ closing' = "none" /\ cleanup' = NoCleanup /\ cut' = FALSE
      BY <1>1, <1>5
    <3>3. at' \notin {"new", "validate", "closed", "unwinding"}
      BY <1>7
    <3> QED
      BY <1>2, <3>1, <3>2, <3>3 DEF PhaseInv
  <2>7. PairInv'
    <3>0. /\ e.name = "teardown_env" => s = "env"
          /\ e.name = "teardown_test" => s = "test"
          /\ e.during \notin Scopes
      BY <1>1, <1>7, <2>2, HookNames DEF Scopes
    <3>1. /\ \A k \in Places("test")' : stack'["test"][k].name # "teardown_env"
          /\ \A k \in Places("env")' : stack'["env"][k].name # "teardown_test"
          /\ \A t \in Scopes : \A k \in Places(t)' :
               stack'[t][k].during \in Scopes => stack'[t][k].name = "defer"
          /\ Due("env", "teardown_env")' <=> Due("env", "teardown_env") \/ e.name = "teardown_env"
          /\ Due("test", "teardown_test")' <=> Due("test", "teardown_test") \/ e.name = "teardown_test"
      BY <1>1, <2>1, <2>2, <3>0, PushPair
    <3>2. /\ Due("env", "teardown_env")' <=> "teardown_env" \in overridden' /\ "provision_env" \in called'
          /\ Due("test", "teardown_test")' <=> "teardown_test" \in overridden' /\ "setup_test" \in called'
      BY <1>1, <1>4, <1>7, <2>2, <3>1 DEF PairInv
    <3> QED
      BY <3>1, <3>2 DEF PairInv
  <2> QED
    BY <1>3, <2>4, <2>5, <2>6, <2>7
<1> QED
  <2>1. CASE at' = "provision_env" /\ "teardown_env" \in overridden
    BY <1>1, <1>7, <2>1 DEF OpenScope, Scopes, TeardownHooks
  <2>2. CASE at' = "setup_test" /\ "teardown_test" \in overridden
    BY <1>1, <1>7, <2>2 DEF OpenScope, Scopes, TeardownHooks
  <2>3. CASE /\ at' = "provision_env" => "teardown_env" \notin overridden
             /\ at' = "setup_test" => "teardown_test" \notin overridden
    <3>1. UNCHANGED <<stack, next_id>>
      BY <1>1, <2>3 DEF OpenScope
    <3> QED
      BY <1>6, <2>3, <3>1
  <2> QED
    BY <2>1, <2>2, <2>3

\* aclose pops the newest cleanup and awaits it.
LEMMA StartStep == SessionInv /\ StartCleanup => SessionInv'
<1> SUFFICES ASSUME SessionInv, StartCleanup PROVE SessionInv'
  OBVIOUS
<1> USE DEF SessionInv
<1>0. PICK c \in Scopes : c = closing
  BY DEF StartCleanup, PhaseInv, Up
<1> DEFINE n == Len(stack[c])
           e == stack[c][n]
           m == Len(ran) + 1
<1>1. /\ at = "unwinding" /\ cleanup = NoCleanup /\ cleanup' = e
      /\ stack \in [Scopes -> Seq(Item)] /\ stack[c] \in Seq(Item) /\ stack[c] # <<>>
      /\ stack' = [stack EXCEPT ![c] = SubSeq(stack[c], 1, n - 1)] /\ ran' = Append(ran, e)
      /\ UNCHANGED <<overridden, at, called, current, closing, cut, next_id, records>>
  BY <1>0 DEF StartCleanup, ShapeInv
<1>2. /\ n \in Nat /\ n > 0 /\ e \in Item
      /\ SubSeq(stack[c], 1, n - 1) \in Seq(Item)
      /\ Len(SubSeq(stack[c], 1, n - 1)) = n - 1
      /\ \A k \in 1 .. n - 1 : SubSeq(stack[c], 1, n - 1)[k] = stack[c][k]
  BY <1>1, LastCut
<1>3. /\ stack' \in [Scopes -> Seq(Item)] /\ Len(stack'[c]) = n - 1
      /\ \A k \in 1 .. n - 1 : stack'[c][k] = stack[c][k]
      /\ \A t \in Scopes \ {c} : stack'[t] = stack[t]
  BY <1>1, <1>2
<1>4. /\ ran' \in Seq(Item) /\ Len(ran) \in Nat /\ Len(ran') = m /\ ran'[m] = e
      /\ \A i \in 1 .. Len(ran) : ran'[i] = ran[i]
  BY <1>1, <1>2, Appended DEF ShapeInv
<1>5. /\ \A t \in Scopes : \A k \in Places(t)' : k \in Places(t) /\ stack'[t][k] = stack[t][k]
      /\ \A k \in Places(c)' : k < n
      /\ n \in Places(c)
      /\ \A k \in Places(c) : k = n \/ (k \in Places(c)' /\ stack'[c][k] = stack[c][k])
      /\ \A t \in Scopes \ {c} : \A k \in Places(t) : k \in Places(t)' /\ stack'[t][k] = stack[t][k]
  <2>1. Places(c) = 1 .. n /\ Places(c)' = 1 .. n - 1
    BY <1>3 DEF Places
  <2>2. \A t \in Scopes \ {c} : Places(t)' = Places(t)
    BY <1>3 DEF Places
  <2> HIDE DEF n, e
  <2>3. \A k \in 1 .. n - 1 : k \in 1 .. n /\ k < n
    BY <1>2
  <2>4. n \in 1 .. n /\ \A k \in 1 .. n : k = n \/ k \in 1 .. n - 1
    BY <1>2
  <2> QED
    BY <1>3, <2>1, <2>2, <2>3, <2>4
<1>6. /\ \A i \in 1 .. Len(ran') : (i \in 1 .. Len(ran) /\ ran'[i] = ran[i]) \/ (i = m /\ ran'[i] = e)
      /\ \A i \in 1 .. Len(ran) : i \in 1 .. Len(ran') /\ i < m
      /\ m \in 1 .. Len(ran')
  BY <1>4
<1> HIDE DEF n, e, m
<1>7. \A t \in Scopes : \A k \in Places(t)' :
        /\ stack'[t][k].id # e.id
        /\ stack'[t][k].during \notin Scopes => stack'[t][k].id < e.id
  <2> SUFFICES ASSUME NEW t \in Scopes, NEW k \in Places(t)'
               PROVE  /\ stack[t][k].id # e.id
                      /\ stack[t][k].during \notin Scopes => stack[t][k].id < e.id
    BY <1>5
  <2>0. k \in Places(t) /\ e = stack[c][n]
    BY <1>5 DEF e
  <2>1. CASE t = c
    <3>1. stack[t][k].id < e.id
      <4>1. n \in Places(t) /\ k < n
        BY <1>5, <2>1
      <4>2. Growing
        BY DEF NumberInv
      <4> QED
        BY <2>0, <2>1, <4>1, <4>2 DEF Growing
    <3>2. stack[t][k].id \in Nat /\ e.id \in Nat
      <4>1. stack[t][k] \in Item
        BY <1>1, <2>0 DEF Places
      <4> QED
        BY <1>2, <4>1 DEF Item
    <3> QED
      BY <3>1, <3>2
  <2>2. CASE t = "env" /\ c = "test"
    BY <1>5, <2>0, <2>2 DEF NumberInv, Apart, OrderInv, EnvOlder
  <2>3. CASE t = "test" /\ c = "env"
    <3>1. stack[t][k].during \in Scopes
      BY <1>0, <2>0, <2>3 DEF PhaseInv, Scopes
    <3>2. stack[t][k].id # e.id
      BY <1>5, <2>0, <2>3 DEF NumberInv, Apart
    <3> QED
      BY <3>1, <3>2
  <2> QED
    BY <1>1, <2>1, <2>2, <2>3 DEF Scopes
<1>8. NumberInv'
  <2>1. Issued'
    BY ZenonT(60), <1>1, <1>5, <1>6 DEF NumberInv, Issued, e
  <2>2. Growing'
    BY <1>5 DEF NumberInv, Growing
  <2>3. Apart'
    BY <1>5 DEF NumberInv, Apart, Scopes
  <2>4. Unspent'
    BY <1>5, <1>6, <1>7 DEF NumberInv, Unspent
  <2>5. \A i \in 1 .. Len(ran) : ran[i].id # e.id
    BY <1>1, <1>5 DEF NumberInv, Unspent, e
  <2>6. Once'
    BY <1>6, <2>5 DEF NumberInv, Once
  <2> QED
    BY <2>1, <2>2, <2>3, <2>4, <2>6 DEF NumberInv
<1>9. OrderInv'
  <2>1. EnvOlder'
    BY <1>5 DEF OrderInv, EnvOlder, Scopes
  <2>2. RanNewer'
    BY <1>5, <1>6, <1>7 DEF OrderInv, RanNewer
  <2>3. \A i \in 1 .. Len(ran) : e.id < ran[i].id \/ e.during \in Scopes
    BY <1>1, <1>5 DEF OrderInv, RanNewer, e
  <2>4. Reversed'
    <3> SUFFICES ASSUME NEW i \in 1 .. Len(ran'), NEW j \in 1 .. Len(ran'), i < j
                 PROVE  ran'[j].id < ran'[i].id \/ ran'[j].during \in Scopes
      BY DEF Reversed
    <3>1. i \in 1 .. Len(ran) /\ ran'[i] = ran[i]
      BY <1>4, <1>6 DEF m
    <3> QED
      BY <1>6, <2>3, <3>1 DEF OrderInv, Reversed
  <2> QED
    BY <2>1, <2>2, <2>4 DEF OrderInv
<1>10. PairInv'
  <2>1. /\ \A k \in Places("test")' : stack'["test"][k].name # "teardown_env"
        /\ \A k \in Places("env")' : stack'["env"][k].name # "teardown_test"
    BY <1>5 DEF PairInv, Scopes
  <2>2. \A t \in Scopes : \A k \in Places(t)' :
          stack'[t][k].during \in Scopes => stack'[t][k].name = "defer"
    BY <1>5 DEF PairInv
  <2>3. ASSUME NEW t \in Scopes, NEW name \in TeardownHooks, e.name = name => t = c
        PROVE  Due(t, name)' <=> Due(t, name)
    <3>1. ASSUME NEW k \in Places(t), stack[t][k].name = name PROVE Due(t, name)'
      <4>1. CASE t = c /\ k = n
        BY <1>6, <3>1, <4>1 DEF Due, e
      <4>2. CASE ~(t = c /\ k = n)
        <5>1. k \in Places(t)' /\ stack'[t][k] = stack[t][k]
          BY <1>5, <4>2
        <5> QED
          BY <3>1, <5>1 DEF Due
      <4> QED
        BY <4>1, <4>2
    <3>2. ASSUME NEW i \in 1 .. Len(ran), ran[i].name = name PROVE Due(t, name)'
      BY <1>4, <1>6, <3>2 DEF Due
    <3>3. ASSUME NEW k \in Places(t)', stack'[t][k].name = name PROVE Due(t, name)
      BY <1>5, <3>3 DEF Due
    <3>4. ASSUME NEW i \in 1 .. Len(ran'), ran'[i].name = name PROVE Due(t, name)
      <4>1. CASE i \in 1 .. Len(ran) /\ ran'[i] = ran[i]
        BY <3>4, <4>1 DEF Due
      <4>2. CASE ran'[i] = e
        BY <1>5, <2>3, <3>4, <4>2 DEF Due, e
      <4> QED
        BY <1>6, <4>1, <4>2
    <3> QED
      BY <3>1, <3>2, <3>3, <3>4 DEF Due
  <2>4. /\ e.name = "teardown_env" => c = "env"
        /\ e.name = "teardown_test" => c = "test"
    BY <1>1, <1>5 DEF PairInv, e, Scopes
  <2>5. /\ Due("env", "teardown_env")' <=> Due("env", "teardown_env")
        /\ Due("test", "teardown_test")' <=> Due("test", "teardown_test")
    BY <2>3, <2>4 DEF Scopes, TeardownHooks
  <2> QED
    BY <1>1, <2>1, <2>2, <2>5 DEF PairInv
<1>11. ShapeInv'
  BY <1>1, <1>2, <1>3, <1>4 DEF ShapeInv
<1>12. PhaseInv'
  <2>1. current' = "env" => Len(stack'["test"]) <= 0
    <3>1. CASE c = "test"
      BY <1>1, <1>2, <1>3, <3>1 DEF PhaseInv, n
    <3>2. CASE c # "test"
      BY <1>1, <1>3, <3>2 DEF PhaseInv, Scopes
    <3> QED
      BY <3>1, <3>2
  <2>2. closing' = "env" => \A k \in Places("test")' : stack'["test"][k].during = "env"
    <3>1. closing' = "env" => \A k \in Places("test") : stack["test"][k].during = "env"
      BY <1>1 DEF PhaseInv
    <3>2. \A k \in Places("test")' : k \in Places("test") /\ stack'["test"][k] = stack["test"][k]
      BY <1>5 DEF Scopes
    <3> QED
      BY <3>1, <3>2
  <2> QED
    BY <1>1, <2>1, <2>2 DEF PhaseInv, Up
<1>13. AuditInv'
  <2>1. cleanup' # NoCleanup
    BY <1>1, <1>2 DEF Item, NoCleanup
  <2>2. Ended = Len(ran) /\ Ended' = Len(ran) /\ Before' = Before
    BY <1>1, <1>4, <2>1 DEF Ended, Before, m
  <2>3. Len(ran') > 0 /\ ran'[Len(ran')] = cleanup'
    BY <1>1, <1>4 DEF m
  <2>4. Up' <=> Up
    BY <1>1 DEF Up
  <2> QED
    BY <1>1, <1>4, <2>2, <2>3, <2>4 DEF AuditInv
<1> QED
  BY <1>8, <1>9, <1>10, <1>11, <1>12, <1>13

\* A cleanup ends, well, badly or cancelled, with its result.
LEMMA EndStep == SessionInv /\ (EndCleanup \/ CancelCleanup) => SessionInv'
<1> SUFFICES ASSUME SessionInv, EndCleanup \/ CancelCleanup PROVE SessionInv'
  OBVIOUS
<1> USE DEF SessionInv
<1>1. /\ cleanup # NoCleanup /\ cleanup \in Item /\ at = "unwinding" /\ cleanup' = NoCleanup
      /\ UNCHANGED <<overridden, at, called, current, stack, closing, next_id, ran>>
  BY HookNames DEF EndCleanup, CancelCleanup, ShapeInv, PhaseInv, Up
<1>2. cut' \in BOOLEAN /\ (cut => cut')
  BY Zenon DEF EndCleanup, CancelCleanup, ShapeInv
<1>3. PICK st \in {"ok", "failed"} : records' = Append(records, Result(cleanup.name, st))
  BY DEF EndCleanup, CancelCleanup
<1>4. /\ Result(cleanup.name, st) \in StageResult /\ Result(cleanup.name, st).hook = cleanup.name
  BY <1>1 DEF Item, Result, StageResult, Hooks
<1>5. /\ records' \in Seq(StageResult) /\ Len(records) \in Nat /\ Len(records') = Len(records) + 1
      /\ records'[Len(records) + 1].hook = cleanup.name
      /\ \A k \in 1 .. Len(records) : records'[k] = records[k]
  BY <1>3, <1>4, Appended DEF ShapeInv
<1>6. ShapeInv'
  BY <1>1, <1>2, <1>5 DEF ShapeInv
<1>7. PhaseInv'
  BY <1>1 DEF PhaseInv, Up, Places
<1>8. NumberInv' /\ OrderInv' /\ PairInv'
  BY <1>1, FrameOrder, FramePair
<1>9. AuditInv'
  <2>1. /\ Len(ran) \in Nat /\ Len(ran) > 0 /\ ran[Len(ran)] = cleanup /\ ~Up /\ ~Up'
        /\ Ended = Len(ran) - 1 /\ Ended' = Len(ran) /\ Before \in Nat
    BY <1>1 DEF ShapeInv, AuditInv, Ended, Up
  <2>2. Before' = Before /\ Len(records) = Before + Ended /\ Before + Len(ran) = Len(records) + 1
    BY <1>5, <2>1 DEF Before
  <2>3. \A i \in 1 .. Ended' : records'[Before' + i].hook = ran'[i].name
    <3> SUFFICES ASSUME NEW i \in 1 .. Len(ran) PROVE records'[Before + i].hook = ran[i].name
      BY <1>1, <2>1, <2>2
    <3>1. CASE i = Len(ran)
      BY <1>5, <2>1, <2>2, <3>1
    <3>2. CASE i # Len(ran)
      <4>1. i \in 1 .. Ended /\ Before + i \in 1 .. Len(records)
        BY <1>5, <2>1, <2>2, <3>2
      <4> QED
        BY <1>5, <4>1 DEF AuditInv
    <3> QED
      BY <3>1, <3>2
  <2>4. \A i \in 1 .. Before : i \in 1 .. Len(records)
    BY <1>5, <2>1, <2>2
  <2>5. \A i \in 1 .. Before' : records'[i].hook \notin TeardownHooks
    BY <1>5, <2>1, <2>2, <2>4 DEF AuditInv
  <2> QED
    BY <1>1, <2>1, <2>2, <2>3, <2>5 DEF AuditInv
<1> QED
  BY <1>6, <1>7, <1>8, <1>9

\* A stack is empty: the next one, or the end.
LEMMA ClosedStep == SessionInv /\ StackClosed => SessionInv'
<1> SUFFICES ASSUME SessionInv, StackClosed PROVE SessionInv'
  OBVIOUS
<1> USE DEF SessionInv
<1>1. /\ at = "unwinding" /\ cleanup = NoCleanup /\ closing \in Scopes /\ stack[closing] = <<>>
      /\ \/ closing = "test" /\ closing' = "env" /\ at' = at
         \/ closing = "env" /\ at' = "closed" /\ closing' = closing
         \/ cut /\ at' = "closed" /\ closing' = closing
      /\ UNCHANGED <<overridden, called, current, stack, cleanup, cut, next_id, ran, records>>
  BY DEF StackClosed, PhaseInv, Up
<1>2. Len(stack[closing]) <= 0
  BY <1>1
<1>3. ShapeInv'
  BY <1>1 DEF ShapeInv, Scopes
<1>4. PhaseInv'
  <2>1. closing' = "env" => \A k \in Places("test") : stack["test"][k].during = "env"
    BY <1>1, <1>2 DEF PhaseInv, Places, ShapeInv
  <2> QED
    BY <1>1, <1>2, <2>1 DEF PhaseInv, Up, Places, Scopes
<1>5. NumberInv' /\ OrderInv' /\ PairInv'
  BY <1>1, FrameOrder, FramePair
<1>6. AuditInv'
  BY <1>1 DEF AuditInv, Ended, Before, Up
<1> QED
  BY <1>3, <1>4, <1>5, <1>6

\* Every step preserves the invariant.
LEMMA StepSession == SessionInv /\ [Next]_vars => SessionInv'
<1> SUFFICES ASSUME SessionInv, [Next]_vars PROVE SessionInv'
  OBVIOUS
<1>1. CASE UNCHANGED vars
  <2>1. ShapeInv' /\ PhaseInv'
    BY <1>1 DEF vars, SessionInv, ShapeInv, PhaseInv, Up, Places
  <2>2. NumberInv' /\ OrderInv' /\ PairInv'
    BY <1>1, FrameOrder, FramePair DEF vars, SessionInv
  <2>3. AuditInv'
    BY <1>1 DEF vars, SessionInv, AuditInv, Ended, Before, Up
  <2> QED
    BY <2>1, <2>2, <2>3 DEF SessionInv
<1>2. CASE Enter \/ SetupHookOk \/ Defer
  BY <1>2, EnterStep, SetupStep, DeferStep
<1>3. CASE SetupHookFails \/ BodyHookFails \/ Exit
  BY <1>3, BeginStep
<1>4. CASE (\E h \in BodyHooks : CallBodyHook(h)) \/ BodyHookOk \/ GuardTrips
  BY <1>4, BodyStep, HookNames
<1>5. CASE StartCleanup \/ EndCleanup \/ CancelCleanup \/ StackClosed
  BY <1>5, StartStep, EndStep, ClosedStep
<1> QED
  BY <1>1, <1>2, <1>3, <1>4, <1>5 DEF Next, HostStep
-------------------------------------------------------------------------------
\* The session invariant holds in every state, for every plugin and any number
\* of registrations.
THEOREM SessionInvariant == Spec => []SessionInv
BY InitSession, StepSession, PTL DEF Spec

\* Nothing changed in what Excused looks at.
LEMMA FailSame ==
  ASSUME FailInv, Before \in Nat, Before' = Before,
         \A k \in 1 .. Before : records'[k] = records[k],
         (~Up /\ ~Up') \/ (at' = at /\ called' = called)
  PROVE  FailInv'
<1> SUFFICES ASSUME NEW i \in 1 .. Before, records[i].status = "failed"
             PROVE  Excused(i)'
  BY DEF FailInv
<1>1. Excused(i)
  BY DEF FailInv
<1>2. i = Before - 1 => Before \in 1 .. Before
  OBVIOUS
<1> QED
  BY <1>1, <1>2 DEF Excused, Up

\* The host awaits a cleanup or ends one, and ctx.defer: no hook has a result.
LEMMA FailQuiet ==
  ASSUME SessionInv, SessionInv', FailInv,
         \/ Defer \/ StartCleanup \/ EndCleanup \/ CancelCleanup \/ StackClosed
         \/ UNCHANGED vars
  PROVE  FailInv'
<1> USE DEF SessionInv
<1>1. /\ Before \in Nat /\ Len(records) \in Nat /\ Len(ran) \in Nat /\ Ended \in Int
      /\ Len(records) = Before + Ended
  BY DEF AuditInv, ShapeInv, Ended, Before
<1>2. CASE Defer \/ StackClosed \/ UNCHANGED vars
  <2>1. Before' = Before /\ records' = records
    BY <1>2 DEF Defer, StackClosed, vars, Ended, Before
  <2>2. (~Up /\ ~Up') \/ (at' = at /\ called' = called)
    BY <1>2 DEF Defer, StackClosed, vars, Up
  <2> QED
    BY <1>1, <2>1, <2>2, FailSame
<1>3. CASE StartCleanup
  <2>1. /\ cleanup = NoCleanup /\ cleanup' = stack[closing][Len(stack[closing])]
        /\ ran' = Append(ran, cleanup') /\ UNCHANGED <<at, called, records>>
    BY <1>3 DEF StartCleanup
  <2>2. cleanup' # NoCleanup /\ Len(ran') = Len(ran) + 1
    <3>1. at = "unwinding" /\ closing \in Scopes /\ Len(stack[closing]) > 0
      BY <1>3 DEF StartCleanup, ShapeInv, PhaseInv, Up
    <3>2. cleanup' \in Item
      BY <2>1, <3>1 DEF ShapeInv
    <3> QED
      BY <2>1, <3>2 DEF Item, NoCleanup, ShapeInv
  <2>3. Before' = Before
    BY <1>1, <2>1, <2>2 DEF Ended, Before
  <2> QED
    BY <1>1, <2>1, <2>3, FailSame
<1>4. CASE EndCleanup \/ CancelCleanup
  <2>1. /\ cleanup # NoCleanup /\ cleanup' = NoCleanup /\ UNCHANGED <<at, called, ran>>
        /\ \E e : records' = Append(records, e)
    BY <1>4 DEF EndCleanup, CancelCleanup
  <2>2. Len(records') = Len(records) + 1 /\ \A k \in 1 .. Len(records) : records'[k] = records[k]
    BY <2>1 DEF ShapeInv
  <2>3. Ended = Len(ran) - 1 /\ Before' = Before /\ Len(ran) > 0
    BY <1>1, <2>1, <2>2 DEF Ended, Before, AuditInv
  <2>4. \A k \in 1 .. Before : k \in 1 .. Len(records)
    BY <1>1, <2>3
  <2> QED
    BY <1>1, <2>1, <2>2, <2>3, <2>4, FailSame
<1> QED
  BY <1>2, <1>3, <1>4

\* A hook is called or ends: before diagnostics are collected nothing has
\* failed, and after that the session can only unwind.
LEMMA FailHook ==
  ASSUME SessionInv, SessionInv', FailInv,
         \/ Enter \/ SetupHookOk \/ SetupHookFails \/ BodyHookOk \/ BodyHookFails
         \/ GuardTrips \/ Exit \/ \E h \in BodyHooks : CallBodyHook(h)
  PROVE  FailInv'
<1> USE DEF SessionInv
<1> DEFINE n == Len(records)
<1>1. /\ Up /\ n \in Nat /\ Before = n /\ ran' = ran /\ cleanup' = cleanup
      /\ Before' = Len(records') /\ Len(records') \in Nat
  <2>1. Up /\ ran' = ran /\ cleanup' = cleanup
    BY HookNames DEF Enter, SetupHookOk, SetupHookFails, BodyHookOk, BodyHookFails, GuardTrips,
       Exit, CallBodyHook, Up
  <2>2. cleanup = NoCleanup /\ Len(ran) = 0
    BY <2>1 DEF PhaseInv, ShapeInv
  <2> QED
    BY <2>1, <2>2 DEF Ended, Before, ShapeInv
<1>2. ASSUME NEW i \in 1 .. n, records[i].status = "failed"
      PROVE  /\ records[i].hook = "run_test" /\ "collect_diagnostics" \in called
             /\ \/ i = n /\ at = "collect_diagnostics"
                \/ i = n - 1 /\ at = "body" /\ records[n].hook = "collect_diagnostics"
  BY <1>1, <1>2 DEF FailInv, Excused
<1>3. ASSUME NEW e, records' = Append(records, e)
      PROVE  /\ Len(records') = n + 1 /\ records'[n + 1] = e
             /\ \A k \in 1 .. n : records'[k] = records[k]
  BY <1>3 DEF ShapeInv
<1>4. CASE Enter
  BY <1>1, <1>2, <1>4 DEF Enter, FailInv
<1>5. CASE SetupHookOk
  <2>1. PICK st \in {"ok", "skipped"} : records' = Append(records, Result(at, st))
    BY <1>5 DEF SetupHookOk
  <2>2. \A i \in 1 .. n : records[i].status # "failed"
    BY <1>2, <1>5, HookNames DEF SetupHookOk
  <2>3. Result(at, st).status # "failed"
    BY DEF Result
  <2> QED
    BY <1>1, <1>3, <2>1, <2>2, <2>3 DEF FailInv
<1>6. CASE SetupHookFails \/ BodyHookFails
  <2>1. PICK st \in {"failed", "ok"} : records' = Append(records, Result(at, st))
    BY <1>6 DEF SetupHookFails, BodyHookFails
  <2>2. ~Up' /\ at # "body" /\ Result(at, st).hook = at
    BY <1>6, HookNames DEF SetupHookFails, BodyHookFails, BeginTeardown, Up, Result
  <2>3. Len(records') = n + 1 /\ records'[n + 1] = Result(at, st)
        /\ \A k \in 1 .. n : records'[k] = records[k]
    BY <1>3, <2>1
  <2> SUFFICES ASSUME NEW i \in 1 .. n + 1, records'[i].status = "failed" PROVE Excused(i)'
    BY <1>1, <2>3 DEF FailInv
  <2>4. CASE i = n + 1
    BY <1>1, <2>2, <2>3, <2>4 DEF Excused
  <2>5. CASE i \in 1 .. n
    BY <1>1, <1>2, <2>2, <2>3, <2>5 DEF Excused
  <2> QED
    BY <1>1, <2>4, <2>5
<1>7. CASE BodyHookOk
  <2>1. records' = Append(records, Result(at, "ok")) /\ at' = "body" /\ called' = called
        /\ at # "body" /\ Result(at, "ok").hook = at /\ Result(at, "ok").status # "failed"
    BY <1>7, HookNames DEF BodyHookOk, Result
  <2>2. Len(records') = n + 1 /\ records'[n + 1] = Result(at, "ok")
        /\ \A k \in 1 .. n : records'[k] = records[k]
    BY <1>3, <2>1
  <2> SUFFICES ASSUME NEW i \in 1 .. n, records'[i].status = "failed" PROVE Excused(i)'
    BY <1>1, <2>1, <2>2 DEF FailInv
  <2>3. i = n /\ records[i].hook = "run_test" /\ at = "collect_diagnostics"
        /\ "collect_diagnostics" \in called
    BY <1>2, <2>1, <2>2
  <2> QED
    BY <1>1, <2>1, <2>2, <2>3 DEF Excused
<1>8. CASE Exit
  <2>1. records' = records /\ at = "body" /\ ~Up'
    BY <1>8 DEF Exit, BeginTeardown, Up
  <2> SUFFICES ASSUME NEW i \in 1 .. n, records[i].status = "failed" PROVE Excused(i)'
    BY <1>1, <2>1 DEF FailInv
  <2> QED
    BY <1>1, <1>2, <2>1 DEF Excused
<1>9. CASE \E h \in BodyHooks : CallBodyHook(h)
  <2>1. /\ at = "body" /\ "collect_diagnostics" \notin called
        /\ \/ records' = records
           \/ \E h \in BodyHooks : records' = Append(records, Result(h, "skipped"))
    BY <1>9 DEF CallBodyHook
  <2>2. \A i \in 1 .. n : records[i].status # "failed"
    BY <1>2, <2>1
  <2>3. CASE records' = records
    BY <1>1, <2>2, <2>3 DEF FailInv
  <2>4. CASE \E h \in BodyHooks : records' = Append(records, Result(h, "skipped"))
    <3>1. PICK h \in BodyHooks : records' = Append(records, Result(h, "skipped"))
      BY <2>4
    <3>2. Result(h, "skipped").status # "failed"
      BY DEF Result
    <3> QED
      BY <1>1, <1>3, <2>2, <3>1, <3>2 DEF FailInv
  <2> QED
    BY <2>1, <2>3, <2>4
<1>10. CASE GuardTrips
  <2>1. at = "run_test" /\ "collect_diagnostics" \in called'
    BY <1>10 DEF GuardTrips
  <2>2. \A i \in 1 .. n : records[i].status # "failed"
    BY <1>2, <2>1
  <2>3. PICK st \in {"ok", "failed"} :
          \/ at' = "collect_diagnostics" /\ records' = Append(records, Result(at, st))
          \/ /\ at' = "body"
             /\ records' = records \o <<Result(at, st), Result("collect_diagnostics", "skipped")>>
    BY <1>10 DEF GuardTrips
  <2>4. Result(at, st).hook = "run_test" /\ Result("collect_diagnostics", "skipped").status # "failed"
        /\ Result("collect_diagnostics", "skipped").hook = "collect_diagnostics"
    BY <2>1 DEF Result
  <2>5. CASE at' = "collect_diagnostics" /\ records' = Append(records, Result(at, st))
    <3>1. Len(records') = n + 1 /\ records'[n + 1] = Result(at, st)
          /\ \A k \in 1 .. n : records'[k] = records[k]
      BY <1>3, <2>5
    <3> QED
      BY <1>1, <2>1, <2>2, <2>4, <2>5, <3>1 DEF FailInv, Excused, Up
  <2>6. CASE /\ at' = "body"
             /\ records' = records \o <<Result(at, st), Result("collect_diagnostics", "skipped")>>
    <3>1. /\ Len(records') = n + 2 /\ records'[n + 1] = Result(at, st)
          /\ records'[n + 2] = Result("collect_diagnostics", "skipped")
          /\ \A k \in 1 .. n : records'[k] = records[k]
      BY <2>6 DEF ShapeInv
    <3>2. \A i \in 1 .. n + 2 : i \in 1 .. n \/ i = n + 1 \/ i = n + 2
      BY <1>1
    <3> QED
      BY <1>1, <2>1, <2>2, <2>4, <2>6, <3>1, <3>2 DEF FailInv, Excused, Up
  <2> QED
    BY <2>3, <2>5, <2>6
<1> QED
  BY <1>4, <1>5, <1>6, <1>7, <1>8, <1>9, <1>10

\* A failure ends the session's body, but for the guard's diagnostics.
LEMMA FailAlways == Spec => []FailInv
<1>1. Init => FailInv
  BY DEF Init, FailInv, Before, Ended
<1>2. SessionInv /\ SessionInv' /\ FailInv /\ [Next]_vars => FailInv'
  BY FailQuiet, FailHook DEF Next, HostStep
<1> QED
  BY <1>1, <1>2, SessionInvariant, PTL DEF Spec

\* Every variable of the session keeps its type.
THEOREM TypeCorrect == Spec => []TypeOK
<1>1. SessionInv => TypeOK
  <2> SUFFICES ASSUME SessionInv PROVE TypeOK
    OBVIOUS
  <2>1. \A x \in Item \cup {NoCleanup} : x \in Cleanup
    BY DEF Item, NoCleanup, Cleanup
  <2>2. \A q \in Seq(Item) : q \in Seq(Cleanup)
    BY <2>1
  <2>3. stack \in [Scopes -> Seq(Cleanup)] /\ ran \in Seq(Cleanup) /\ cleanup \in Cleanup
    BY <2>1, <2>2 DEF SessionInv, ShapeInv
  <2>4. next_id \in Nat
    BY DEF SessionInv, ShapeInv
  <2> QED
    BY <2>3, <2>4 DEF SessionInv, ShapeInv, StageResult, TypeOK
<1> QED
  BY <1>1, SessionInvariant, PTL

\* DOMAIN and Len, for the sequences of the properties.
LEMMA Positions ==
  ASSUME SessionInv
  PROVE  /\ DOMAIN ran = 1 .. Len(ran) /\ Len(ran) \in Nat
         /\ \A s \in Scopes : DOMAIN stack[s] = Places(s) /\ Len(stack[s]) \in Nat
         /\ \A s \in Scopes : Len(stack[s]) <= 0 => stack[s] = <<>> /\ Places(s) = {}
BY DEF SessionInv, ShapeInv, Places

\* Teardown is guaranteed, whatever the hooks do (_teardown and the two exit
\* stacks of PluginSession): a session that is closed has run every cleanup that
\* hooks registered, and without a cancelled cleanup those of both scopes.
THEOREM TeardownGuaranteed == Spec => []Unwound
<1>1. SessionInv => Unwound
  <2> SUFFICES ASSUME SessionInv, at = "closed"
               PROVE  /\ \A i \in DOMAIN stack["test"] : stack["test"][i].during = "env"
                      /\ ~cut => stack["env"] = <<>>
    BY DEF Unwound
  <2>1. closing \in Scopes /\ PhaseInv
    BY DEF SessionInv, PhaseInv, Up
  <2>2. CASE closing = "test"
    BY <2>1, <2>2, Positions DEF PhaseInv, Scopes
  <2>3. CASE closing = "env"
    BY <2>1, <2>3, Positions DEF PhaseInv, Scopes
  <2> QED
    BY <2>1, <2>2, <2>3 DEF Scopes
<1> QED
  BY <1>1, SessionInvariant, PTL

\* Cleanups run in the reverse of the order in which hooks registered them, over
\* the teardown hooks, ctx.defer and both scopes.
THEOREM LastInFirstOut == Spec => []ReverseOrder
<1>1. SessionInv => ReverseOrder
  <2> SUFFICES ASSUME SessionInv PROVE ReverseOrder
    OBVIOUS
  <2>1. Reversed
    BY DEF SessionInv, OrderInv
  <2> QED
    BY <2>1, Positions DEF Reversed, ReverseOrder
<1> QED
  BY <1>1, SessionInvariant, PTL

\* A teardown hook runs exactly if its scope was opened, and no cleanup runs
\* twice (the hooks are registered before provision_env and setup_test).
THEOREM TeardownMatchesSetup == Spec => []ScopesPaired
<1>1. SessionInv => ScopesPaired
  <2> SUFFICES ASSUME SessionInv, at = "closed", ~cut
               PROVE  /\ Started("teardown_env") <=>
                           "teardown_env" \in overridden /\ "provision_env" \in called
                      /\ Started("teardown_test") <=>
                           "teardown_test" \in overridden /\ "setup_test" \in called
                      /\ \A i, j \in DOMAIN ran : ran[i].id = ran[j].id => i = j
    BY DEF ScopesPaired
  <2>1. closing = "env" /\ Places("env") = {}
    BY Positions DEF SessionInv, PhaseInv, Up, Scopes
  <2>2. \A k \in Places("test") : stack["test"][k].name = "defer"
    BY <2>1 DEF SessionInv, PhaseInv, PairInv, Scopes
  <2>3. /\ Due("env", "teardown_env") <=> Started("teardown_env")
        /\ Due("test", "teardown_test") <=> Started("teardown_test")
    BY <2>1, <2>2, Positions DEF Due, Started
  <2>4. Once
    BY DEF SessionInv, NumberInv
  <2>5. \A i, j \in DOMAIN ran : ran[i].id = ran[j].id => i = j
    BY <2>4, Positions DEF Once
  <2> QED
    BY <2>3, <2>5 DEF SessionInv, PairInv
<1> QED
  BY <1>1, SessionInvariant, PTL

\* The StageResults of a closed session: those of the hooks, a failure last but
\* for the diagnostics after a guard that tripped, then one for each cleanup that
\* ran, in order.
THEOREM ResultsTellAll == Spec => []AuditTrail
<1>1. SessionInv /\ FailInv => AuditTrail
  <2> SUFFICES ASSUME SessionInv, FailInv, at = "closed" PROVE AuditTrail
    BY DEF AuditTrail
  <2>1. cleanup = NoCleanup /\ AuditInv
    BY DEF SessionInv, PhaseInv
  <2>2. Ended = Len(ran) /\ Before = Len(records) - Len(ran)
    BY <2>1 DEF Ended, Before
  <2> QED
    BY <2>1, <2>2, Positions DEF AuditInv, FailInv, Excused, AuditTrail
<1> QED
  BY <1>1, SessionInvariant, FailAlways, PTL
===============================================================================
