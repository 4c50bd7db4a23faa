--------------------------- MODULE Injection_proofs ---------------------------
(***************************************************************************)
(* One injection, for any plan, any list of kinds and any plugin: the      *)
(* cluster never holds two resources, a reported success has left none,    *)
(* and what a sweep leaves behind it could not list or delete.             *)
(*                                                                         *)
(* All three speak of the cluster.  What makes them hold is where the two  *)
(* coroutines are: the invariant says what each await has already settled, *)
(* also for the await at which a coroutine was cancelled while its call    *)
(* goes on in a thread.                                                    *)
(***************************************************************************)
EXTENDS Injection, FiniteSetTheorems, TLAPS

\* The fault that execute is at.
Fault == PlanFaults[index]

\* Where the tasks are: an injection runs only while drive_run waits for it,
\* and the loop's own sweep begins when drive_run has raised.
PlaceInv ==
  /\ task["inject"] \in {"running", "ok", "cancelled"}
  /\ task["inject"] = "running" => driver = "waiting"
  /\ driver = "waiting" => at["loop"] = "idle" /\ outcome = "none"
  /\ driver = "cleaning" => at["loop"] \in {"list", "sweep", "swept"} /\ outcome = "tripped"
  /\ outcome = "returned" => task["inject"] = "ok"
  /\ at["loop"] \in {"idle", "list", "sweep", "swept"}
  /\ \A s \in Sweepers : at[s] \in {"list", "sweep"} => sweep[s].kind \in DOMAIN Kinds
  /\ \A s \in Sweepers : at[s] # "sweep" => sweep[s].todo = {}

\* Everything that is live, listed or still in a thread is the present fault,
\* and there is nothing at all before it is applied and after it is deleted.
PresentInv ==
  /\ live \subseteq {Fault}
  /\ \A s \in Sweepers : sweep[s].todo \subseteq {Fault}
  /\ \A c \in orphans : c.name = Fault
  /\ task["inject"] = "running" => orphans = {}
  /\ task["inject"] = "running" /\ at["inject"] \in {"preflight", "quiet", "apply", "post"}
       => live = {}

\* A timeline that says success.
SuccessInv ==
  success => task["inject"] = "ok" /\ live = {} /\ orphans = {} /\ sweep["loop"].todo = {}

Explained == missed \cup late

\* The sweep of s has not yet got to n: it is listed, or its kind will be.
Ahead(s, n) ==
  \/ n \in sweep[s].todo
  \/ \E j \in DOMAIN Kinds :
       Kinds[j] = KindOf[n] /\ (j > sweep[s].kind \/ (j = sweep[s].kind /\ at[s] = "list"))

SweepInv(s) ==
  /\ at[s] \in {"list", "sweep"} => \A n \in live : n \in Explained \/ Ahead(s, n)
  /\ at[s] = "swept" => live \subseteq Explained

\* What is left of an injection that ended by itself, or that was swept.
LeftoverInv ==
  /\ task["inject"] = "running" => SweepInv("inject")
  /\ driver = "cleaning" => SweepInv("loop")
  /\ task["inject"] = "ok" => live \subseteq Explained
  /\ driver = "over" /\ outcome = "tripped" => live \subseteq Explained

InjectionInv == TypeOK /\ PlaceInv /\ PresentInv /\ SuccessInv /\ LeftoverInv
------------------------------------------------------------------------------
\* The shape of the constants, as the proofs use it.
LEMMA Shape ==
  /\ DOMAIN Kinds = 1 .. Len(Kinds) /\ Len(Kinds) \in Nat \ {0}
  /\ DOMAIN PlanFaults = 1 .. Len(PlanFaults) /\ Len(PlanFaults) \in Nat \ {0}
  /\ \A i \in DOMAIN PlanFaults : PlanFaults[i] \in Names
  /\ \A n \in Names : \E j \in DOMAIN Kinds : Kinds[j] = KindOf[n]
<1>1. PlanFaults \in Seq(Names) /\ Len(PlanFaults) > 0 /\ Kinds \in Seq(KindSet) /\ Len(Kinds) > 0
  BY InjectionAssumption
<1>2. \A n \in Names : KindOf[n] \in KindSet
  BY InjectionAssumption
<1>3. \A n \in Names : \E j \in DOMAIN Kinds : Kinds[j] = KindOf[n]
  BY <1>2 DEF KindSet
<1> QED
  BY <1>1, <1>3

\* A cluster call, answered or not, has its effect or none.
LEMMA CallEffect ==
  ASSUME TypeOK, NEW e \in SUBSET Names, Answered(e) \/ Failed(e)
  PROVE  live' \in {live, e} /\ live' \subseteq Names /\ errors' \in 0 .. MaxApiErrors
BY InjectionAssumption DEF TypeOK, Answered, Failed

\* Nothing has been applied when drive_run creates its tasks.
LEMMA InitHolds == Init => InjectionInv
<1> SUFFICES ASSUME Init PROVE InjectionInv
  OBVIOUS
<1>1. TypeOK
  <2>1. at \in [Sweepers -> {"preflight", "idle", "quiet", "apply", "active", "delete", "post",
                             "list", "sweep", "swept", "end"}]
    <3>1. /\ at = [s \in {"inject", "loop"} |-> at[s]]
          /\ at["inject"] = "preflight" /\ at["loop"] = "idle"
      BY DEF Init
    <3> QED
      BY <3>1 DEF Sweepers
  <2>2. sweep \in [Sweepers -> [kind : 0 .. Len(Kinds), todo : SUBSET Names]]
    BY Shape DEF Init, NoSweep
  <2>3. task \in [Tasks -> {"absent", "running", "ok", "raised", "tripped", "cancelled"}]
    BY DEF Init
  <2>4. /\ driver = "waiting" /\ outcome = "none" /\ index = 1 /\ missed = {} /\ success = FALSE
        /\ live = {} /\ orphans = {} /\ late = {} /\ errors = 0
    BY DEF Init
  <2>5. 0 \in 0 .. MaxApiErrors /\ 1 \in DOMAIN PlanFaults
    BY Shape, InjectionAssumption
  <2> QED
    BY <2>1, <2>2, <2>3, <2>4, <2>5 DEF TypeOK
<1>2. PlaceInv
  BY DEF Init, PlaceInv, Tasks, Sweepers, NoSweep
<1>3. PresentInv
  BY DEF Init, PresentInv, Tasks, Sweepers, NoSweep
<1>4. SuccessInv /\ LeftoverInv
  BY DEF Init, SuccessInv, LeftoverInv, SweepInv, Tasks, Sweepers
<1> QED
  BY <1>1, <1>2, <1>3, <1>4 DEF InjectionInv

\* The steps of execute that make no cluster call.
LEMMA PreflightStep ==
  ASSUME InjectionInv, task["inject"] = "running", Preflight
  PROVE  InjectionInv'
<1> USE DEF InjectionInv
<1>1. TypeOK'
  BY ZenonT(60) DEF TypeOK, Preflight, Return, Tasks, Sweepers
<1>2. PlaceInv'
  BY DEF TypeOK, PlaceInv, Preflight, Return, Tasks, Sweepers
<1>3. PresentInv'
  BY DEF TypeOK, PresentInv, Preflight, Return, Tasks, Sweepers, Fault
<1>4. SuccessInv'
  BY DEF TypeOK, PresentInv, PlaceInv, SuccessInv, Preflight, Return, Tasks, Sweepers
<1>5. LeftoverInv'
  BY DEF TypeOK, PresentInv, PlaceInv, LeftoverInv, SweepInv, Preflight, Return, Tasks, Sweepers
<1> QED
  BY <1>1, <1>2, <1>3, <1>4, <1>5

\* execute goes on to the next fault only when nothing is left of the last one.
LEMMA NextFaultStep ==
  ASSUME InjectionInv, task["inject"] = "running", NextFault
  PROVE  InjectionInv'
<1> USE Shape DEF InjectionInv
<1>1. TypeOK'
  BY SMTT(60) DEF TypeOK, NextFault, StartSweep, Tasks, Sweepers
<1>2. PlaceInv'
  BY SMTT(60) DEF TypeOK, PlaceInv, NextFault, StartSweep, Tasks, Sweepers
<1>3. PresentInv'
  BY DEF TypeOK, PlaceInv, PresentInv, NextFault, StartSweep, Tasks, Sweepers, Fault
<1>4. SuccessInv'
  BY DEF TypeOK, PresentInv, PlaceInv, SuccessInv, NextFault, StartSweep, Tasks, Sweepers
<1>5. LeftoverInv'
  BY DEF TypeOK, PresentInv, PlaceInv, LeftoverInv, SweepInv, Explained, Ahead, NextFault, StartSweep, Tasks, Sweepers
<1> QED
  BY <1>1, <1>2, <1>3, <1>4, <1>5

\* A fault that was applied is waited for, then deleted.
LEMMA ActiveStep ==
  ASSUME InjectionInv, task["inject"] = "running", DurationOver
  PROVE  InjectionInv'
<1> USE Shape DEF InjectionInv
<1>1. TypeOK'
  BY DEF TypeOK, DurationOver, Tasks, Sweepers
<1>2. PlaceInv'
  BY DEF TypeOK, PlaceInv, DurationOver, Tasks, Sweepers
<1>3. PresentInv'
  BY DEF TypeOK, PlaceInv, PresentInv, DurationOver, Tasks, Sweepers, Fault
<1>4. SuccessInv'
  BY DEF TypeOK, PresentInv, PlaceInv, SuccessInv, DurationOver, Tasks, Sweepers
<1>5. LeftoverInv'
  BY DEF TypeOK, PresentInv, PlaceInv, LeftoverInv, SweepInv, Explained, Ahead, DurationOver, Tasks, Sweepers
<1> QED
  BY <1>1, <1>2, <1>3, <1>4, <1>5

\* execute returns its success after the last deletion.
LEMMA ReturnStep ==
  ASSUME InjectionInv, task["inject"] = "running", ExecuteReturns
  PROVE  InjectionInv'
<1> USE Shape DEF InjectionInv
<1>1. TypeOK'
  BY DEF TypeOK, ExecuteReturns, Return, Tasks, Sweepers
<1>2. PlaceInv'
  BY DEF TypeOK, PlaceInv, ExecuteReturns, Return, Tasks, Sweepers
<1>3. PresentInv'
  BY DEF TypeOK, PlaceInv, PresentInv, ExecuteReturns, Return, Tasks, Sweepers, Fault
<1>4. SuccessInv'
  BY DEF TypeOK, PresentInv, PlaceInv, SuccessInv, ExecuteReturns, Return, Tasks, Sweepers
<1>5. LeftoverInv'
  BY DEF TypeOK, PresentInv, PlaceInv, LeftoverInv, SweepInv, Explained, Ahead, ExecuteReturns, Return, Tasks, Sweepers
<1> QED
  BY <1>1, <1>2, <1>3, <1>4, <1>5

\* The call that applies the present fault, answered or not.
LEMMA ApplyStep ==
  ASSUME InjectionInv, task["inject"] = "running", Apply
  PROVE  InjectionInv'
<1> USE Shape DEF InjectionInv, tasks_untouched
<1>0. live' \subseteq Names /\ errors' \in 0 .. MaxApiErrors
  BY CallEffect DEF TypeOK, Apply, StartSweep, apply, Fault
<1>1. TypeOK'
  BY SMTT(60), <1>0 DEF TypeOK, Apply, StartSweep, apply, Tasks, Sweepers
<1>2. PlaceInv'
  BY DEF TypeOK, PlaceInv, Apply, StartSweep, apply, Tasks, Sweepers
<1>3. PresentInv'
  BY SMTT(60) DEF TypeOK, PlaceInv, PresentInv, Apply, StartSweep, apply, Answered, Failed, Tasks, Sweepers, Fault
<1>4. SuccessInv'
  BY DEF TypeOK, PresentInv, PlaceInv, SuccessInv, Apply, StartSweep, apply, Tasks, Sweepers
<1>5. LeftoverInv'
  BY <1>0 DEF TypeOK, PresentInv, PlaceInv, LeftoverInv, SweepInv, Explained, Ahead, Apply, StartSweep, apply, Tasks, Sweepers
<1> QED
  BY <1>1, <1>2, <1>3, <1>4, <1>5

\* The call that deletes it, answered or not.
LEMMA DeleteStep ==
  ASSUME InjectionInv, task["inject"] = "running", Delete
  PROVE  InjectionInv'
<1> USE Shape DEF InjectionInv, tasks_untouched
<1>0. live' \subseteq Names /\ errors' \in 0 .. MaxApiErrors
  BY CallEffect DEF TypeOK, Delete, StartSweep, delete, Fault
<1>1. TypeOK'
  BY SMTT(60), <1>0 DEF TypeOK, Delete, StartSweep, delete, Tasks, Sweepers
<1>2. PlaceInv'
  BY DEF TypeOK, PlaceInv, Delete, StartSweep, delete, Tasks, Sweepers
<1>3. PresentInv'
  BY SMTT(60) DEF TypeOK, PlaceInv, PresentInv, Delete, StartSweep, delete, Answered, Failed, Tasks, Sweepers, Fault
<1>4. SuccessInv'
  BY DEF TypeOK, PresentInv, PlaceInv, SuccessInv, Delete, StartSweep, delete, Tasks, Sweepers
<1>5. LeftoverInv'
  BY <1>0 DEF TypeOK, PresentInv, PlaceInv, LeftoverInv, SweepInv, Explained, Ahead, Delete, StartSweep, delete, Tasks, Sweepers
<1> QED
  BY <1>1, <1>2, <1>3, <1>4, <1>5
------------------------------------------------------------------------------
\* Where a sweep goes next.
LEMMA SweepGoesOn ==
  ASSUME TypeOK, NEW s \in Sweepers, sweep[s].kind \in DOMAIN Kinds,
         NEW todo \in SUBSET Names, GoOn(s, todo)
  PROVE  /\ sweep' \in [Sweepers -> [kind : 0 .. Len(Kinds), todo : SUBSET Names]]
         /\ at' \in [Sweepers -> {"preflight", "idle", "quiet", "apply", "active", "delete",
                                  "post", "list", "sweep", "swept", "end"}]
         /\ \A o \in Sweepers \ {s} : sweep'[o] = sweep[o] /\ at'[o] = at[o]
         /\ todo # {} => /\ at'[s] = "sweep"
                         /\ sweep'[s] = [kind |-> sweep[s].kind, todo |-> todo]
         /\ todo = {} /\ sweep[s].kind < Len(Kinds) =>
               /\ at'[s] = "list"
               /\ sweep'[s] = [kind |-> sweep[s].kind + 1, todo |-> {}]
         /\ todo = {} /\ sweep[s].kind = Len(Kinds) =>
               /\ at'[s] = "swept"
               /\ sweep'[s] = [kind |-> 0, todo |-> {}]
<1>1. /\ sweep \in [Sweepers -> [kind : 0 .. Len(Kinds), todo : SUBSET Names]]
      /\ sweep[s].kind \in Nat /\ sweep[s].kind <= Len(Kinds) /\ Len(Kinds) \in Nat
  BY Shape DEF TypeOK
<1>2. CASE todo # {}
  BY <1>1, <1>2, Shape DEF TypeOK, GoOn
<1>3. CASE todo = {} /\ sweep[s].kind < Len(Kinds)
  BY <1>1, <1>3, Shape DEF TypeOK, GoOn
<1>4. CASE todo = {} /\ sweep[s].kind = Len(Kinds)
  BY <1>1, <1>4, Shape DEF TypeOK, GoOn, NoSweep
<1> QED
  BY <1>1, <1>2, <1>3, <1>4

\* Who sweeps: execute while it runs, the loop while it cleans up.
Sweeping(s) ==
  \/ s = "inject" /\ task["inject"] = "running"
  \/ s = "loop" /\ driver = "cleaning"

\* A sweep's step, if it spares nothing that it neither failed on nor will get
\* to: all that is left to show of a listing and of a deletion.
LEMMA SweepStep ==
  ASSUME InjectionInv, NEW s \in Sweepers, Sweeping(s), at[s] \in {"list", "sweep"},
         NEW todo \in SUBSET live, GoOn(s, todo), tasks_untouched,
         UNCHANGED <<index, success, orphans, late>>,
         live' \subseteq live, errors' \in 0 .. MaxApiErrors,
         missed \subseteq missed', missed' \subseteq Names,
         \A n \in live' : \/ n \in missed' \cup late
                          \/ n \in todo
                          \/ \E j \in DOMAIN Kinds : Kinds[j] = KindOf[n] /\ j > sweep[s].kind
  PROVE  InjectionInv'
<1> USE Shape DEF InjectionInv, tasks_untouched
<1>0. sweep[s].kind \in DOMAIN Kinds /\ todo \in SUBSET Names /\ sweep[s].kind \in Nat
  BY DEF PlaceInv, TypeOK
<1>g. /\ sweep' \in [Sweepers -> [kind : 0 .. Len(Kinds), todo : SUBSET Names]]
      /\ at' \in [Sweepers -> {"preflight", "idle", "quiet", "apply", "active", "delete",
                               "post", "list", "sweep", "swept", "end"}]
      /\ \A o \in Sweepers \ {s} : sweep'[o] = sweep[o] /\ at'[o] = at[o]
      /\ todo # {} => /\ at'[s] = "sweep"
                      /\ sweep'[s] = [kind |-> sweep[s].kind, todo |-> todo]
      /\ todo = {} /\ sweep[s].kind < Len(Kinds) =>
            /\ at'[s] = "list"
            /\ sweep'[s] = [kind |-> sweep[s].kind + 1, todo |-> {}]
      /\ todo = {} /\ sweep[s].kind = Len(Kinds) =>
            /\ at'[s] = "swept"
            /\ sweep'[s] = [kind |-> 0, todo |-> {}]
  BY <1>0, SweepGoesOn
<1>p. /\ at'[s] \in {"list", "sweep", "swept"}
      /\ at'[s] \in {"list", "sweep"} => sweep'[s].kind \in DOMAIN Kinds
      /\ sweep'[s].todo = todo
      /\ at'[s] # "sweep" => todo = {}
  <2>1. CASE todo # {}
    BY <2>1, <1>0, <1>g
  <2>2. CASE todo = {} /\ sweep[s].kind < Len(Kinds)
    BY <2>2, <1>0, <1>g
  <2>3. CASE todo = {} /\ sweep[s].kind = Len(Kinds)
    BY <2>3, <1>0, <1>g
  <2> QED
    BY <1>0, <2>1, <2>2, <2>3
<1>1. TypeOK'
  BY <1>g DEF TypeOK
<1>2. PlaceInv'
  BY <1>g, <1>p DEF PlaceInv, Sweeping, Sweepers
<1>3. PresentInv'
  BY <1>g, <1>p DEF PlaceInv, PresentInv, Sweeping, Sweepers, Fault
<1>4. SuccessInv'
  BY <1>g, <1>p DEF SuccessInv, Sweeping, Sweepers
<1>5. SweepInv(s)'
  <2>1. CASE todo # {}
    BY <2>1, <1>g DEF SweepInv, Explained, Ahead
  <2>2. CASE todo = {} /\ sweep[s].kind < Len(Kinds)
    BY <2>2, <1>0, <1>g DEF SweepInv, Explained, Ahead
  <2>3. CASE todo = {} /\ sweep[s].kind = Len(Kinds)
    BY <2>3, <1>0, <1>g DEF SweepInv, Explained, Ahead
  <2> QED
    BY <1>0, <2>1, <2>2, <2>3
<1>6. LeftoverInv'
  BY <1>5, <1>g DEF PlaceInv, LeftoverInv, Sweeping, Explained
<1> QED
  BY <1>1, <1>2, <1>3, <1>4, <1>6

\* A listing that fails is remembered; one that succeeds is complete.
LEMMA SweepListStep ==
  ASSUME InjectionInv, NEW s \in Sweepers, Sweeping(s), SweepList(s)
  PROVE  InjectionInv'
<1> DEFINE k == Kinds[sweep[s].kind]
<1> USE Shape DEF InjectionInv
<1>1. /\ at[s] = "list" /\ sweep[s].todo = {} /\ sweep[s].kind \in DOMAIN Kinds
      /\ live \subseteq Names /\ missed \subseteq Names
      /\ list_by_labels(k) \subseteq live
  BY DEF SweepList, PlaceInv, TypeOK, list_by_labels
<1>2. \A n \in live : \/ n \in missed \cup late \/ n \in list_by_labels(k)
                      \/ \E j \in DOMAIN Kinds : Kinds[j] = KindOf[n] /\ j > sweep[s].kind
  BY <1>1 DEF LeftoverInv, SweepInv, Ahead, Explained, Sweeping, list_by_labels
<1>3. live' = live /\ errors' \in 0 .. MaxApiErrors
  BY <1>1, CallEffect DEF SweepList, Answered, Failed
<1>4. tasks_untouched /\ UNCHANGED <<index, success, orphans, late>>
  BY DEF SweepList
<1>5. CASE GoOn(s, list_by_labels(k)) /\ missed' = missed
  BY <1>1, <1>2, <1>3, <1>4, <1>5, SweepStep
<1>6. CASE GoOn(s, {}) /\ missed' = missed \cup list_by_labels(k)
  BY <1>1, <1>2, <1>3, <1>4, <1>6, SweepStep
<1> QED
  BY <1>5, <1>6 DEF SweepList

\* A deletion that fails is remembered; one that succeeds removes the resource.
LEMMA SweepDeleteStep ==
  ASSUME InjectionInv, NEW s \in Sweepers, Sweeping(s), SweepDelete(s)
  PROVE  InjectionInv'
<1> USE Shape DEF InjectionInv
<1>1. PICK n \in sweep[s].todo :
        /\ GoOn(s, sweep[s].todo \ {n})
        /\ \/ Answered(delete(n)) /\ missed' = missed
           \/ Failed(delete(n)) /\ missed' = missed \cup {n}
  BY DEF SweepDelete
<1>2. /\ at[s] = "sweep" /\ sweep[s].kind \in DOMAIN Kinds /\ n \in Names
      /\ sweep[s].todo \subseteq Names /\ live \subseteq Names /\ missed \subseteq Names
  BY <1>1 DEF SweepDelete, PlaceInv, TypeOK
<1>3. \A m \in live : \/ m \in missed \cup late \/ m \in sweep[s].todo
                      \/ \E j \in DOMAIN Kinds : Kinds[j] = KindOf[m] /\ j > sweep[s].kind
  BY <1>2 DEF LeftoverInv, SweepInv, Ahead, Explained, Sweeping
<1>4. live' \in {live, live \ {n}} /\ errors' \in 0 .. MaxApiErrors
  BY <1>1, <1>2, CallEffect DEF delete
<1>5. /\ tasks_untouched /\ UNCHANGED <<index, success, orphans, late>>
      /\ missed \subseteq missed' /\ missed' \subseteq Names
      /\ n \in live' => n \in missed'
  BY <1>1, <1>2 DEF SweepDelete, Answered, delete
<1>6. sweep[s].todo \ {n} = {}
  BY <1>1 DEF PresentInv
<1> QED
  BY <1>1, <1>2, <1>3, <1>4, <1>5, <1>6, SweepStep
------------------------------------------------------------------------------

\* The other tasks touch nothing of this.
LEMMA WorkloadStep ==
  ASSUME InjectionInv, WorkloadEnds
  PROVE  InjectionInv'
<1> USE Shape DEF InjectionInv
<1>1. TypeOK'
  BY DEF TypeOK, WorkloadEnds, Tasks, Sweepers
<1>2. PlaceInv'
  BY DEF TypeOK, PlaceInv, WorkloadEnds, Tasks, Work, Sweepers
<1>3. PresentInv'
  BY DEF TypeOK, PlaceInv, PresentInv, WorkloadEnds, Tasks, Sweepers, Fault
<1>4. SuccessInv'
  BY DEF TypeOK, PresentInv, PlaceInv, SuccessInv, WorkloadEnds, Tasks, Sweepers
<1>5. LeftoverInv'
  BY DEF TypeOK, PresentInv, PlaceInv, LeftoverInv, SweepInv, Explained, Ahead, WorkloadEnds, Tasks, Work, Sweepers
<1> QED
  BY <1>1, <1>2, <1>3, <1>4, <1>5

\* The guard's loop reads the world and touches none of this.
LEMMA GuardStep ==
  ASSUME InjectionInv, GuardStops
  PROVE  InjectionInv'
<1> USE Shape DEF InjectionInv
<1>1. TypeOK'
  BY DEF TypeOK, GuardStops, Tasks, Sweepers
<1>2. PlaceInv'
  BY DEF TypeOK, PlaceInv, GuardStops, Tasks, Work, Sweepers
<1>3. PresentInv'
  BY DEF TypeOK, PlaceInv, PresentInv, GuardStops, Tasks, Sweepers, Fault
<1>4. SuccessInv'
  BY DEF TypeOK, PresentInv, PlaceInv, SuccessInv, GuardStops, Tasks, Sweepers
<1>5. LeftoverInv'
  BY DEF TypeOK, PresentInv, PlaceInv, LeftoverInv, SweepInv, Explained, Ahead, GuardStops, Tasks, Work, Sweepers
<1> QED
  BY <1>1, <1>2, <1>3, <1>4, <1>5

\* A cancelled injection leaves at most the call it awaited, about the present
\* fault; none if it had ended.
LEMMA CancelLeaves ==
  ASSUME InjectionInv, CancelPending
  PROVE  /\ task' \in [Tasks -> {"absent", "running", "ok", "raised", "tripped", "cancelled"}]
         /\ task'["inject"] = IF task["inject"] = "running" THEN "cancelled" ELSE task["inject"]
         /\ orphans' \subseteq [op : {"apply", "delete"}, name : Names]
         /\ \A c \in orphans' : c.name = Fault
         /\ task["inject"] # "running" => orphans' = orphans
<1> USE Shape DEF InjectionInv
<1>1. /\ task' \in [Tasks -> {"absent", "running", "ok", "raised", "tripped", "cancelled"}]
      /\ task'["inject"] = IF task["inject"] = "running" THEN "cancelled" ELSE task["inject"]
      /\ task["inject"] # "running" => orphans' = orphans
  BY DEF CancelPending, TypeOK, Tasks
<1>2. \A c \in CallOf("inject") : c \in [op : {"apply", "delete"}, name : Names] /\ c.name = Fault
  BY DEF CallOf, TypeOK, PresentInv, Fault, Sweepers
<1>3. /\ orphans' \subseteq [op : {"apply", "delete"}, name : Names]
      /\ \A c \in orphans' : c.name = Fault
  BY <1>2 DEF CancelPending, Orphan, TypeOK, PresentInv
<1> QED
  BY <1>1, <1>3

\* drive_run returns: the injection is over or is cancelled at its await.
LEMMA DriveReturnsStep ==
  ASSUME InjectionInv, DriveReturns
  PROVE  InjectionInv'
<1> USE Shape DEF InjectionInv
<1>0. /\ task' \in [Tasks -> {"absent", "running", "ok", "raised", "tripped", "cancelled"}]
      /\ task'["inject"] = IF task["inject"] = "running" THEN "cancelled" ELSE task["inject"]
      /\ orphans' \subseteq [op : {"apply", "delete"}, name : Names]
      /\ \A c \in orphans' : c.name = Fault
      /\ task["inject"] # "running" => orphans' = orphans
  BY CancelLeaves DEF DriveReturns
<1>1. TypeOK'
  BY <1>0 DEF TypeOK, DriveReturns, Sweepers
<1>2. PlaceInv'
  BY <1>0 DEF TypeOK, PlaceInv, DriveReturns, Tasks, Work, Sweepers
<1>3. PresentInv'
  BY <1>0 DEF TypeOK, PlaceInv, PresentInv, DriveReturns, Sweepers, Fault
<1>4. SuccessInv'
  BY <1>0 DEF TypeOK, PresentInv, PlaceInv, SuccessInv, DriveReturns, Sweepers
<1>5. LeftoverInv'
  BY <1>0 DEF TypeOK, PresentInv, PlaceInv, LeftoverInv, SweepInv, Explained, Ahead, DriveReturns, Work, Sweepers
<1> QED
  BY <1>1, <1>2, <1>3, <1>4, <1>5

\* drive_run raises: the injection is cancelled and the loop's sweep begins.
LEMMA DriveRaisesStep ==
  ASSUME InjectionInv, DriveRaises
  PROVE  InjectionInv'
<1> USE Shape DEF InjectionInv
<1>0. /\ task' \in [Tasks -> {"absent", "running", "ok", "raised", "tripped", "cancelled"}]
      /\ task'["inject"] = IF task["inject"] = "running" THEN "cancelled" ELSE task["inject"]
      /\ orphans' \subseteq [op : {"apply", "delete"}, name : Names]
      /\ \A c \in orphans' : c.name = Fault
      /\ task["inject"] # "running" => orphans' = orphans
  BY CancelLeaves DEF DriveRaises
<1>1. TypeOK'
  BY SMTT(60), <1>0 DEF TypeOK, DriveRaises, StartSweep, Sweepers
<1>2. PlaceInv'
  BY <1>0 DEF TypeOK, PlaceInv, DriveRaises, StartSweep, Tasks, Work, Sweepers
<1>3. PresentInv'
  BY <1>0 DEF TypeOK, PlaceInv, PresentInv, DriveRaises, StartSweep, Sweepers, Fault
<1>4. SuccessInv'
  BY <1>0 DEF TypeOK, PresentInv, PlaceInv, SuccessInv, DriveRaises, StartSweep, Sweepers
<1>5. LeftoverInv'
  BY SMTT(60), <1>0 DEF TypeOK, PresentInv, PlaceInv, LeftoverInv, SweepInv, Explained, Ahead, DriveRaises, StartSweep, Work, Sweepers
<1> QED
  BY <1>1, <1>2, <1>3, <1>4, <1>5

\* The loop's own sweep ends.
LEMMA CleanupReturnsStep ==
  ASSUME InjectionInv, CleanupReturns
  PROVE  InjectionInv'
<1> USE Shape DEF InjectionInv
<1>1. TypeOK'
  BY DEF TypeOK, CleanupReturns, Tasks, Sweepers
<1>2. PlaceInv'
  BY DEF TypeOK, PlaceInv, CleanupReturns, Tasks, Work, Sweepers
<1>3. PresentInv'
  BY DEF TypeOK, PlaceInv, PresentInv, CleanupReturns, Tasks, Sweepers, Fault
<1>4. SuccessInv'
  BY DEF TypeOK, PresentInv, PlaceInv, SuccessInv, CleanupReturns, Tasks, Sweepers
<1>5. LeftoverInv'
  BY DEF TypeOK, PresentInv, PlaceInv, LeftoverInv, SweepInv, Explained, Ahead, CleanupReturns, Tasks, Work, Sweepers
<1> QED
  BY <1>1, <1>2, <1>3, <1>4, <1>5

\* The whole loop is cancelled: both coroutines stop at their awaits.
LEMMA InterruptStep ==
  ASSUME InjectionInv, Interrupt
  PROVE  InjectionInv'
<1> USE Shape DEF InjectionInv
<1>0. /\ task' \in [Tasks -> {"absent", "running", "ok", "raised", "tripped", "cancelled"}]
      /\ task'["inject"] = IF task["inject"] = "running" THEN "cancelled" ELSE task["inject"]
      /\ orphans' \subseteq [op : {"apply", "delete"}, name : Names]
      /\ \A c \in orphans' : c.name = Fault
      /\ success => orphans' = orphans
  <2>1. CASE driver = "waiting" /\ CancelPending
    BY <2>1, CancelLeaves DEF SuccessInv
  <2>2. CASE driver = "cleaning" /\ Orphan("loop") /\ task' = task
    <3>1. \A c \in CallOf("loop") : /\ c \in [op : {"apply", "delete"}, name : Names]
                                    /\ c.name = Fault
                                    /\ sweep["loop"].todo # {}
      BY DEF CallOf, TypeOK, PlaceInv, PresentInv, Fault, Sweepers
    <3> QED
      BY SMTT(60), <2>2, <3>1 DEF Orphan, TypeOK, PlaceInv, PresentInv, SuccessInv
  <2> QED
    BY <2>1, <2>2 DEF Interrupt
<1>1. TypeOK'
  BY <1>0 DEF TypeOK, Interrupt
<1>2. PlaceInv'
  BY <1>0 DEF PlaceInv, Interrupt
<1>3. PresentInv'
  BY <1>0 DEF PresentInv, Interrupt, Fault
<1>4. SuccessInv'
  BY <1>0 DEF SuccessInv, Interrupt
<1>5. LeftoverInv'
  BY <1>0 DEF LeftoverInv, Explained, Interrupt
<1> QED
  BY <1>1, <1>2, <1>3, <1>4, <1>5

\* A call that lands late is about the present fault; what it creates is on
\* the list of what came late, and a success has left no such call.
LEMMA OrphanStep ==
  ASSUME InjectionInv, OrphanLands
  PROVE  InjectionInv'
<1> USE Shape DEF InjectionInv
<1>1. PICK c \in orphans :
        /\ orphans' = orphans \ {c}
        /\ \/ Answered(IF c.op = "apply" THEN apply(c.name) ELSE delete(c.name))
           \/ Failed(IF c.op = "apply" THEN apply(c.name) ELSE delete(c.name))
        /\ late' = IF c.op = "apply" THEN late \cup {c.name} ELSE late
  BY DEF OrphanLands
<1>2. c.name \in Names /\ c.name = Fault /\ task["inject"] # "running" /\ ~success
  BY DEF TypeOK, PresentInv, SuccessInv
<1>3. /\ live' \subseteq live \cup {c.name} /\ live' \subseteq live \cup late'
      /\ live' \subseteq Names /\ errors' \in 0 .. MaxApiErrors
      /\ late \subseteq late' /\ late' \subseteq Names
  <2> DEFINE e == IF c.op = "apply" THEN apply(c.name) ELSE delete(c.name)
  <2>1. e \in SUBSET Names /\ e \subseteq live \cup {c.name}
    BY <1>2 DEF apply, delete, TypeOK
  <2>2. e \subseteq live \cup late'
    BY <1>1 DEF apply, delete
  <2>3. Answered(e) \/ Failed(e)
    BY <1>1
  <2>4. late \subseteq late' /\ late' \subseteq Names
    BY <1>1, <1>2 DEF TypeOK
  <2> HIDE DEF e
  <2>5. live' \in {live, e} /\ live' \subseteq Names /\ errors' \in 0 .. MaxApiErrors
    BY <2>1, <2>3, CallEffect
  <2> QED
    BY <2>1, <2>2, <2>4, <2>5
<1>4. UNCHANGED <<task, driver, outcome, at, index, sweep, missed, success>>
  BY DEF OrphanLands
<1>5. TypeOK'
  BY <1>1, <1>3, <1>4 DEF TypeOK
<1>6. PlaceInv'
  BY <1>4 DEF PlaceInv
<1>7. PresentInv' /\ SuccessInv'
  BY <1>1, <1>2, <1>3, <1>4 DEF PresentInv, SuccessInv, Fault
<1>8. LeftoverInv'
  BY <1>2, <1>3, <1>4 DEF LeftoverInv, SweepInv, Ahead, Explained
<1> QED
  BY <1>5, <1>6, <1>7, <1>8

\* Every step preserves the invariant.
LEMMA StepHolds == InjectionInv /\ [Next]_vars => InjectionInv'
<1> SUFFICES ASSUME InjectionInv, [Next]_vars PROVE InjectionInv'
  OBVIOUS
<1>1. CASE Execute
  BY <1>1, PreflightStep, NextFaultStep, ApplyStep, ActiveStep, DeleteStep, ReturnStep,
     SweepListStep, SweepDeleteStep DEF Execute, Sweeping, Sweepers
<1>2. CASE WorkloadEnds \/ GuardStops \/ Interrupt \/ OrphanLands
  BY <1>2, WorkloadStep, GuardStep, InterruptStep, OrphanStep
<1>3. CASE Drive
  BY <1>3, DriveReturnsStep, DriveRaisesStep, CleanupReturnsStep, SweepListStep,
     SweepDeleteStep DEF Drive, Sweeping, Sweepers
<1>4. CASE UNCHANGED vars
  BY <1>4 DEF vars, InjectionInv, TypeOK, PlaceInv, PresentInv, SuccessInv, LeftoverInv,
     SweepInv, Ahead, Explained, Fault
<1> QED
  BY <1>1, <1>2, <1>3, <1>4 DEF Next

\* The inductive invariant holds in every state, for every plan and plugin.
THEOREM InjectionInvariant == Spec => []InjectionInv
BY InitHolds, StepHolds, PTL DEF Spec

\* The cluster never holds two resources of the experiment, for any plan, whatever
\* fails, is cancelled or arrives late (execute, cleanup and the threads of
\* KubernetesClusterIO).
THEOREM OneAtATime == Spec => []OneFaultAtATime
<1>1. InjectionInv => OneFaultAtATime
  <2> SUFFICES ASSUME InjectionInv PROVE Cardinality(live) <= 1
    BY DEF OneFaultAtATime
  <2>1. live = {} \/ live = {Fault}
    BY DEF InjectionInv, PresentInv
  <2>2. Cardinality({}) = 0
    BY FS_EmptySet
  <2>3. Cardinality({Fault}) = 1
    BY FS_Singleton
  <2> QED
    BY <2>1, <2>2, <2>3
<1> QED
  BY <1>1, InjectionInvariant, PTL

\* A timeline that reports success has left no resource and no call under way.
THEOREM SuccessIsClean == Spec => []SuccessLeavesNothing
<1>1. InjectionInv => SuccessLeavesNothing
  BY DEF InjectionInv, SuccessInv, SuccessLeavesNothing
<1> QED
  BY <1>1, InjectionInvariant, PTL

\* What is left behind by an injection that failed on its own, or whose guard
\* tripped, is what its sweep could not list or delete, or what was created late.
THEOREM LeftoversExplained == Spec => []LeftoverExplained
<1>1. InjectionInv => LeftoverExplained
  BY DEF InjectionInv, PlaceInv, LeftoverInv, Explained, LeftoverExplained
<1> QED
  BY <1>1, InjectionInvariant, PTL
==============================================================================
