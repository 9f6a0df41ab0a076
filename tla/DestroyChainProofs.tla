------------------------- MODULE DestroyChainProofs -------------------------
(***************************************************************************)
(* DestroyInv is an invariant of the teardown, for every set of modules,   *)
(* every dependency relation and all bounds. With it: no module is written *)
(* off while its resources exist, a teardown goes down the graph, and the  *)
(* chain as a whole implements the abstract Teardown.                      *)
(***************************************************************************)
EXTENDS DestroyChain, FiniteSetTheorems, WellFoundedInduction, TLAPS

(* The modules whose resources somebody still has to account for. No step adds
   one: a destroy that succeeds and a cancellation take one away. *)
Owed == {m \in Modules \ Excused : infra[m]}

(* What a row may not say of them, and the stack neither. *)
Lost == NO_INFRA_STATUSES \cup {"gone"}
Seen ==
  \A m \in Owed :
    status[m] \notin Lost /\ stack \notin {"destroyed", "gone"} /\ m \in scope

(* ScopeInv and InfraAccounted are about the modules of Owed. *)
LEMMA SeenIs == Seen <=> ScopeInv /\ InfraAccounted
  BY DEF Seen, Owed, Lost, ScopeInv, InfraAccounted

(* So is the turn of a module. *)
LEMMA ClearIs ==
  ASSUME NEW d
  PROVE  Clear(d) <=> \A m \in Owed : d \notin Deps[m]
  BY DEF Clear, Owed

(* The modules owed depend on the resources and the exceptions only. *)
LEMMA OwedSame ==
  ASSUME UNCHANGED <<infra, interrupted>>
  PROVE  Owed' = Owed
  BY DEF Owed, Excused

(* The sentinel of "no module" is not a module. *)
LEMMA NoModuleIsNone == NoModule \notin Modules
  BY ModulesAssumption DEF NoModule

(* The types of a task and of an actor. *)
LEMMA TaskTypes ==
  ASSUME TypeOK, NEW i \in TaskIds
  PROVE  /\ task[i] \in TaskRows /\ task[i].module \in Modules \cup {NoModule}
         /\ task[i].scope \in Scopes /\ task[i].st \in TaskStatuses
         /\ worker[i] \in PCs
  BY DEF TypeOK, TaskRows

(* A task with a row has a module. *)
LEMMA HasModule ==
  ASSUME TypeOK, RowInv, NEW i \in TaskIds, task[i].st # "none"
  PROVE  ModuleOf(i) \in Modules
<1>1. task[i].module # NoModule
  BY DEF RowInv
<1>2. QED
  BY <1>1, TaskTypes DEF ModuleOf

(* The turn of d has come once the step is done. *)
Cleared(d) == \A m \in Owed' : d \notin Deps[m]

-----------------------------------------------------------------------------
(* What every step does to the rows of the tasks: an old row keeps its module
   and tells the truth about it, a new one is queued when its turn has come. *)
Goes(i) ==
  /\ task'[i].module = task[i].module
  /\ task'[i].st = "none" <=> task[i].st = "none"
  /\ task'[i].scope = task[i].scope \/ Cleared(task[i].module)
  /\ task'[i].scope = "module" => task[i].scope = "module"
  /\ task'[i].st = "completed" =>
       task[i].st = "completed" \/ task[i].module \notin Owed'
  /\ task'[i].st = "cancelled" =>
       task[i].st = "cancelled" \/ task[i].module \in interrupted'
  /\ worker'[i] # "none" => task[i].st # "none"

Fresh(i) ==
  /\ i >= nextId /\ i < nextId'
  /\ task'[i].st = "queued" /\ task'[i].module \in Modules
  /\ task'[i].scope # "module" => Cleared(task'[i].module)
  /\ task'[i].scope = "module" => "module" \in Requests

RowsGo ==
  /\ nextId <= nextId'
  /\ \A i \in TaskIds : Goes(i) \/ Fresh(i)

PicksGo ==
  \A a \in Actors : pick'[a] \in {pick[a], NoModule} \/ Cleared(pick'[a])

(* What the janitor looks at has a row already. *)
PassGoes ==
  /\ \A i \in janitor'.stale : task[i].st # "none"
  /\ \A m \in janitor'.redrive : TasksOf(m) # {}
  /\ janitor'.pc = "trigger" =>
       janitor'.mod \in Modules /\ TasksOf(janitor'.mod) # {}

Shrinks == Owed' \subseteq Owed /\ interrupted \subseteq interrupted'

(* A module whose turn has come stays clear. *)
LEMMA ClearStays ==
  ASSUME Shrinks, NEW d, Clear(d)
  PROVE  Cleared(d)
<1>1. \A m \in Owed : d \notin Deps[m]
  BY ClearIs
<1>2. QED
  BY <1>1 DEF Shrinks, Cleared

(* Rows are never taken back. *)
LEMMA RowsStay ==
  ASSUME RowInv, RowsGo, NEW i \in TaskIds, task[i].st # "none", TypeOK
  PROVE  Goes(i) /\ task'[i].st # "none" /\ task'[i].module = task[i].module
<1>1. i \in Nat /\ nextId \in Nat /\ ~(i >= nextId)
  BY BoundsAssumption DEF RowInv, TypeOK, TaskIds
<1>2. QED
  BY <1>1 DEF RowsGo, Fresh, Goes

(* The numbering of the rows. *)
LEMMA RowKept ==
  ASSUME TypeOK, TypeOK', RowInv, RowsGo
  PROVE  RowInv'
<1>1. nextId \in Nat /\ nextId' \in Nat /\ nextId <= nextId'
  BY BoundsAssumption DEF TypeOK, RowsGo
<1>2. ASSUME NEW i \in TaskIds
      PROVE  /\ i >= nextId' => task'[i].st = "none"
             /\ task'[i].st = "none" <=> task'[i].module = NoModule
             /\ worker'[i] # "none" => task'[i].st # "none"
             /\ task'[i].st # "none" /\ task'[i].scope = "module" =>
                  "module" \in Requests
  <2>1. i \in Nat
    BY <1>2, BoundsAssumption DEF TaskIds
  <2>2. CASE Goes(i)
    <3>1. i >= nextId' => task[i].st = "none"
      BY <1>1, <2>1 DEF RowInv
    <3>2. QED
      BY <2>2, <3>1 DEF Goes, RowInv
  <2>3. CASE Fresh(i)
    <3>1. ~(i >= nextId')
      BY <1>1, <2>1, <2>3 DEF Fresh
    <3>2. QED
      BY <2>3, <3>1, NoModuleIsNone DEF Fresh
  <2>4. QED
    BY <2>2, <2>3 DEF RowsGo
<1>3. QED
  BY <1>2 DEF RowInv

(* OutcomeInv in terms of the modules owed. *)
LEMMA OutcomeIs ==
  ASSUME TypeOK, RowInv
  PROVE  OutcomeInv <=>
           \A i \in TaskIds :
             /\ task[i].st = "completed" => task[i].module \notin Owed
             /\ task[i].st = "cancelled" => task[i].module \in interrupted
<1>1. \A i \in TaskIds : task[i].st = "completed" => task[i].module \in Modules
  BY HasModule DEF ModuleOf
<1>2. QED
  BY <1>1 DEF OutcomeInv, Owed

LEMMA OutcomeKept ==
  ASSUME TypeOK, TypeOK', RowInv, RowInv', OutcomeInv, RowsGo, Shrinks
  PROVE  OutcomeInv'
<1>1. ASSUME NEW i \in TaskIds
      PROVE  /\ task'[i].st = "completed" => task'[i].module \notin Owed'
             /\ task'[i].st = "cancelled" => task'[i].module \in interrupted'
  <2>1. /\ task[i].st = "completed" => task[i].module \notin Owed
        /\ task[i].st = "cancelled" => task[i].module \in interrupted
    BY OutcomeIs
  <2>2. CASE Goes(i)
    BY <2>1, <2>2 DEF Goes, Shrinks
  <2>3. CASE Fresh(i)
    BY <2>3 DEF Fresh
  <2>4. QED
    BY <2>2, <2>3 DEF RowsGo
<1>2. \A i \in TaskIds : task'[i].st = "completed" => task'[i].module \in Modules
  <2>1. ASSUME NEW i \in TaskIds, task'[i].st = "completed"
        PROVE  task'[i].module \in Modules
    <3>1. task'[i].module # NoModule
      BY <2>1 DEF RowInv
    <3>2. task'[i].module \in Modules \cup {NoModule}
      BY DEF TypeOK, TaskRows
    <3>3. QED
      BY <3>1, <3>2
  <2>2. QED
    BY <2>1
<1>3. QED
  BY <1>1, <1>2 DEF OutcomeInv, Owed

LEMMA TurnKept ==
  ASSUME TypeOK, RowInv, TurnInv, RowsGo, PicksGo, Shrinks
  PROVE  TurnInv'
<1>1. ASSUME NEW i \in TaskIds, task'[i].st # "none", task'[i].scope # "module"
      PROVE  Cleared(task'[i].module)
  <2>1. CASE Goes(i)
    <3>1. CASE task'[i].scope = task[i].scope
      <4>1. Clear(task[i].module)
        BY <1>1, <2>1, <3>1 DEF Goes, TurnInv
      <4>2. Cleared(task[i].module)
        BY <4>1, ClearStays
      <4>3. QED
        BY <2>1, <4>2 DEF Goes
    <3>2. CASE Cleared(task[i].module)
      BY <2>1, <3>2 DEF Goes
    <3>3. QED
      BY <2>1, <3>1, <3>2 DEF Goes
  <2>2. CASE Fresh(i)
    BY <1>1, <2>2 DEF Fresh
  <2>3. QED
    BY <2>1, <2>2 DEF RowsGo
<1>2. ASSUME NEW a \in Actors, pick'[a] # NoModule
      PROVE  Cleared(pick'[a])
  <2>1. CASE pick'[a] = pick[a]
    <3>1. Clear(pick[a])
      BY <1>2, <2>1 DEF TurnInv
    <3>2. QED
      BY <2>1, <3>1, ClearStays
  <2>2. QED
    BY <1>2, <2>1 DEF PicksGo
<1>3. QED
  BY <1>1, <1>2 DEF TurnInv, Clear, Cleared, Owed

LEMMA JanitorKept ==
  ASSUME TypeOK, TypeOK', RowInv, RowsGo, PassGoes
  PROVE  JanitorInv'
<1>1. ASSUME NEW m \in Modules, TasksOf(m) # {}
      PROVE  TasksOf(m)' # {}
  <2>1. PICK i \in TaskIds : task[i].module = m
    BY <1>1 DEF TasksOf
  <2>2. task[i].st # "none"
    BY <2>1, NoModuleIsNone DEF RowInv
  <2>3. task'[i].module = m
    BY <2>1, <2>2, RowsStay
  <2>4. QED
    BY <2>3 DEF TasksOf
<1>2. /\ janitor'.stale \subseteq TaskIds /\ janitor'.redrive \subseteq Modules
  BY DEF TypeOK, Passes
<1>3. \A i \in janitor'.stale : task'[i].st # "none"
  BY <1>2, RowsStay DEF PassGoes
<1>4. QED
  BY <1>1, <1>2, <1>3 DEF PassGoes, JanitorInv

(* A janitor that a step leaves alone. *)
LEMMA SamePass ==
  ASSUME JanitorInv, UNCHANGED janitor
  PROVE  PassGoes
  BY DEF JanitorInv, PassGoes

(* What a step has to show. *)
LEMMA Kept ==
  ASSUME DestroyInv, TypeOK', RowsGo, PicksGo, PassGoes, Shrinks, Seen'
  PROVE  DestroyInv'
<1> USE DEF DestroyInv
<1>1. RowInv'
  BY RowKept
<1>2. OutcomeInv' /\ TurnInv' /\ JanitorInv'
  BY <1>1, OutcomeKept, TurnKept, JanitorKept
<1>3. ScopeInv' /\ InfraAccounted'
  BY DEF Seen, Owed, Lost, ScopeInv, InfraAccounted
<1>4. QED
  BY <1>1, <1>2, <1>3

-----------------------------------------------------------------------------
(* The newest task of a module that has one: a finite set of numbers has a
   greatest element. *)
LEMMA LastTaskIn ==
  ASSUME NEW m, TasksOf(m) # {}
  PROVE  LastTask(m) \in TaskIds /\ task[LastTask(m)].module = m
<1> DEFINE rest == {MaxTasks - i : i \in TasksOf(m)}
<1>1. TasksOf(m) \subseteq TaskIds /\ MaxTasks \in Nat
  BY BoundsAssumption DEF TasksOf
<1>2. \A i \in TaskIds : i \in Nat /\ MaxTasks - i \in Nat
  BY <1>1 DEF TaskIds
<1>3. rest \subseteq Nat /\ rest # {}
  BY <1>1, <1>2
<1>4. PICK n \in rest : \A k \in rest : <<k, n>> \notin OpToRel(<, Nat)
  <2> HIDE DEF rest
  <2>1. QED
    BY <1>3, NatLessThanWellFounded, WFMin
<1>5. PICK i \in TasksOf(m) : n = MaxTasks - i
  BY <1>4
<1>6. \A k \in rest : ~(k < n)
  BY <1>3, <1>4 DEF OpToRel
<1>7. ASSUME NEW j \in TasksOf(m)
      PROVE  j <= i
  <2>1. MaxTasks - j \in rest
    OBVIOUS
  <2>2. ~(MaxTasks - j < MaxTasks - i)
    BY <1>5, <1>6, <2>1
  <2>3. QED
    BY <1>1, <1>2, <2>2
<1>8. LastTask(m) \in TasksOf(m)
  BY <1>5, <1>7 DEF LastTask
<1>9. QED
  BY <1>8 DEF TasksOf

(* The last task of a module that is owed has failed, if it is over. *)
LEMMA LastFailed ==
  ASSUME DestroyInv, NEW m \in Owed, TasksOf(m) # {}, ~Active(m)
  PROVE  task[LastTask(m)].st = "failed"
<1> USE DEF DestroyInv
<1>1. PICK i \in TaskIds : i = LastTask(m) /\ task[i].module = m
  BY LastTaskIn
<1>2. m \in Modules /\ m \notin interrupted
  BY DEF Owed, Excused
<1>3. task[i].st # "none"
  BY <1>1, <1>2, NoModuleIsNone DEF RowInv
<1>4. task[i].st # "completed" /\ task[i].st # "cancelled"
  BY <1>1, <1>2, OutcomeIs
<1>5. task[i].st \notin NonTerminal
  BY <1>1 DEF Active, TasksOf
<1>6. task[i].st \in TaskStatuses
  BY TaskTypes
<1>7. QED
  BY <1>1, <1>3, <1>4, <1>5, <1>6 DEF TaskStatuses, NonTerminal

(* BUG-009 and BUG-008: what the recoveries make of a module that is owed. *)
LEMMA RecoversTrue ==
  ASSUME DestroyInv, NEW m \in Owed
  PROVE  /\ Recovered(m) \in {status[m], "destroy_failed"}
         /\ RecoveredForDestroy(m) \in {status[m], "destroy_failed"}
<1>1. CASE status[m] = "destroying" /\ ~Active(m) /\ TasksOf(m) # {}
  BY <1>1, LastFailed DEF Recovered, RecoveredForDestroy
<1>2. CASE ~(status[m] = "destroying" /\ ~Active(m) /\ TasksOf(m) # {})
  BY <1>2 DEF Recovered, RecoveredForDestroy
<1>3. QED
  BY <1>1, <1>2

(* They write only statuses of modules. *)
LEMMA RecoversTypes ==
  ASSUME TypeOK, NEW m \in Modules
  PROVE  Recovered(m) \in Statuses /\ RecoveredForDestroy(m) \in Statuses
<1>1. status[m] \in Statuses
  BY DEF TypeOK
<1>2. QED
  BY <1>1 DEF Recovered, RecoveredForDestroy, Statuses

(* What a module that is owed has. *)
LEMMA OwedHas ==
  ASSUME DestroyInv, NEW m \in Owed
  PROVE  /\ m \in Modules /\ m \notin InCluster /\ m \in scope /\ m \in Rows
         /\ status[m] \notin NO_INFRA_STATUSES /\ status[m] # "gone"
         /\ status[m] # "destroyed" /\ stack \notin {"destroyed", "gone"}
<1>1. m \in Modules /\ m \notin InCluster
  BY DEF Owed, Excused
<1>2. Seen
  BY SeenIs DEF DestroyInv
<1>3. QED
  BY <1>1, <1>2 DEF Seen, Lost, Rows, NO_INFRA_STATUSES

(* update_stack_progress keeps every module that is owed in sight. *)
LEMMA ProgressSeen ==
  ASSUME DestroyInv, UpdateStackProgress, UNCHANGED <<infra, interrupted>>
  PROVE  /\ Seen' /\ status' \in [Modules -> Statuses]
         /\ stack' \in StackStatuses /\ scope' \in SUBSET Modules
<1> USE DEF DestroyInv
<1>1. Owed' = Owed
  BY OwedSame
<1>2. CASE stack = "gone"
  <2>1. UNCHANGED <<status, stack, scope>>
    BY <1>2 DEF UpdateStackProgress, rowVars
  <2>2. Seen'
    BY <1>1, <2>1, SeenIs DEF Seen
  <2>3. QED
    BY <2>1, <2>2 DEF TypeOK
<1>3. CASE stack # "gone"
  <2> DEFINE st == [m \in Modules |-> Recovered(m)]
  <2>1. /\ status' = st /\ stack' = Progress(st)
        /\ scope' = IF \/ Rows = {} /\ stack = "destroying"
                       \/ /\ Rows # {}
                          /\ stack # "destroying"
                          /\ \A m \in Rows : st[m] = "destroyed"
                      THEN {} ELSE scope
    BY <1>3 DEF UpdateStackProgress
  <2>2. st \in [Modules -> Statuses]
    BY RecoversTypes
  <2>3. \A m \in Owed : st[m] \in {status[m], "destroy_failed"}
    BY RecoversTrue, OwedHas
  <2> HIDE DEF st
  <2>4. stack \in StackStatuses /\ scope \in SUBSET Modules
    BY DEF TypeOK
  <2>5. Progress(st) \in StackStatuses
    <3>1. CASE Rows = {}
      BY <2>4, <3>1 DEF Progress, StackStatuses
    <3>2. CASE Rows # {} /\ stack = "destroying"
      BY <3>2 DEF Progress, StackStatuses
    <3>3. CASE Rows # {} /\ stack # "destroying"
      BY <2>4, <3>3 DEF Progress, StackStatuses
    <3>4. QED
      BY <3>1, <3>2, <3>3
  <2>6. ASSUME NEW m \in Owed
        PROVE  /\ st[m] \notin Lost /\ Progress(st) \notin {"destroyed", "gone"}
               /\ m \in scope'
    <3>1. /\ m \in Rows /\ m \in scope /\ status[m] \notin NO_INFRA_STATUSES
          /\ status[m] # "gone" /\ stack \notin {"destroyed", "gone"}
      BY OwedHas
    <3>2. st[m] \notin Lost /\ st[m] # "destroyed"
      BY <2>3, <3>1 DEF Lost, NO_INFRA_STATUSES
    <3>3. Rows # {} /\ ~\A x \in Rows : st[x] = "destroyed"
      BY <3>1, <3>2
    <3>4. Progress(st) \notin {"destroyed", "gone"}
      <4>1. CASE stack = "destroying"
        BY <3>3, <4>1 DEF Progress
      <4>2. CASE stack # "destroying"
        BY <3>1, <3>3, <4>2 DEF Progress
      <4>3. QED
        BY <4>1, <4>2
    <3>5. QED
      BY <2>1, <3>1, <3>2, <3>3, <3>4
  <2>7. Seen'
    BY <1>1, <2>1, <2>6 DEF Seen
  <2>8. QED
    BY <2>1, <2>2, <2>4, <2>5, <2>7
<1>4. QED
  BY <1>2, <1>3

-----------------------------------------------------------------------------
(* The usual way to stay in sight: a row says that its destroy goes on, failed
   or was taken back. *)
LEMMA SeenKept ==
  ASSUME DestroyInv, Shrinks, stack' \in {stack, "failed", "destroying"}, scope' = scope,
         \A m \in Owed' :
           status'[m] \in {status[m], "destroying", "destroy_failed", "applied"}
  PROVE  Seen'
<1>1. Seen
  BY SeenIs DEF DestroyInv
<1>2. ASSUME NEW m \in Owed'
      PROVE  status'[m] \notin Lost /\ stack' \notin {"destroyed", "gone"} /\ m \in scope'
  <2>1. m \in Owed
    BY DEF Shrinks
  <2>2. status[m] \notin Lost /\ stack \notin {"destroyed", "gone"} /\ m \in scope
    BY <1>1, <2>1 DEF Seen
  <2>3. {"destroying", "destroy_failed", "applied"} \cap Lost = {}
    BY DEF Lost, NO_INFRA_STATUSES
  <2>4. QED
    BY <2>2, <2>3
<1>3. QED
  BY <1>2 DEF Seen

(* Steps that leave resources and exceptions alone. *)
LEMMA SameOwed ==
  ASSUME UNCHANGED <<infra, interrupted>>
  PROVE  Shrinks
  BY OwedSame DEF Shrinks

LEMMA SamePicks ==
  ASSUME UNCHANGED pick
  PROVE  PicksGo
  BY DEF PicksGo

LEMMA SameRows ==
  ASSUME DestroyInv, UNCHANGED <<task, nextId>>,
         \A i \in TaskIds : worker'[i] # "none" => worker[i] # "none"
  PROVE  RowsGo
<1> USE DEF DestroyInv
<1>1. nextId <= nextId'
  BY BoundsAssumption DEF TypeOK
<1>2. \A i \in TaskIds : Goes(i)
  BY DEF Goes, RowInv
<1>3. QED
  BY <1>1, <1>2 DEF RowsGo

(* The effect of the small writes. *)
LEMMA StatusFields ==
  ASSUME TypeOK, NEW m \in Modules, NEW s \in Statuses, SetStatus(m, s)
  PROVE  /\ status' \in [Modules -> Statuses] /\ status'[m] = s
         /\ \A k \in Modules : k # m => status'[k] = status[k]
  BY DEF SetStatus, TypeOK

LEMMA TaskFields ==
  ASSUME TypeOK, NEW i \in TaskIds, NEW s \in TaskStatuses, SetTask(i, s)
  PROVE  /\ task' \in [TaskIds -> TaskRows] /\ task'[i].st = s
         /\ task'[i].module = task[i].module /\ task'[i].scope = task[i].scope
         /\ \A k \in TaskIds : k # i => task'[k] = task[k]
  BY ZenonT(60) DEF SetTask, TypeOK, TaskRows

LEMMA WorkerFields ==
  ASSUME TypeOK, NEW i \in TaskIds, NEW pc \in PCs, GoTo(i, pc)
  PROVE  /\ worker' \in [TaskIds -> PCs] /\ worker'[i] = pc
         /\ \A k \in TaskIds : k # i => worker'[k] = worker[k]
  BY DEF GoTo, TypeOK

LEMMA UnlockType ==
  ASSUME TypeOK, NEW i, Unlock(i)
  PROVE  lock' \in [Modules -> -MaxTasks .. MaxTasks]
<1>1. 0 \in -MaxTasks .. MaxTasks
  BY BoundsAssumption
<1>2. QED
  BY <1>1 DEF Unlock, TypeOK

LEMMA FaultType ==
  ASSUME TypeOK, Fault
  PROVE  faults' \in 0 .. MaxFaults
  BY BoundsAssumption DEF Fault, TypeOK

-----------------------------------------------------------------------------
(* A step of the worker of task i. *)
LEMMA WorkerInv ==
  ASSUME DestroyInv, NEW i \in TaskIds, worker[i] # "none",
         NEW s \in TaskStatuses \ {"none", "cancelled"},
         SetTask(i, s) \/ UNCHANGED task,
         SetTask(i, s) /\ s = "completed" => ModuleOf(i) \notin Owed',
         NEW pc \in PCs, GoTo(i, pc),
         status' \in [Modules -> Statuses], stack' \in StackStatuses,
         scope' \in SUBSET Modules, infra' \in [Modules -> BOOLEAN],
         lock' \in [Modules -> -MaxTasks .. MaxTasks],
         todo' \in [Actors -> SUBSET Modules],
         pick' \in [Actors -> Modules \cup {NoModule}], PicksGo,
         ghosts' \in SUBSET TaskIds, faults' \in 0 .. MaxFaults,
         UNCHANGED <<nextId, request, audit, requests, janitor, sweeps, cancels,
                     interrupted>>,
         Shrinks, Seen'
  PROVE  DestroyInv'
<1> USE DEF DestroyInv
<1>1. /\ worker' \in [TaskIds -> PCs] /\ worker'[i] = pc
      /\ \A k \in TaskIds : k # i => worker'[k] = worker[k]
  BY WorkerFields
<1>2. task[i].st # "none"
  BY DEF RowInv
<1>3. CASE UNCHANGED task
  <2>1. TypeOK'
    BY <1>1, <1>3 DEF TypeOK
  <2>2. RowsGo
    BY <1>1, <1>3, SameRows
  <2>3. QED
    BY <2>1, <2>2, SamePass, Kept
<1>4. CASE SetTask(i, s)
  <2>1. /\ task' \in [TaskIds -> TaskRows] /\ task'[i].st = s
        /\ task'[i].module = task[i].module /\ task'[i].scope = task[i].scope
        /\ \A k \in TaskIds : k # i => task'[k] = task[k]
    BY <1>4, TaskFields
  <2>2. TypeOK'
    BY <1>1, <2>1 DEF TypeOK
  <2>3. Goes(i)
    BY <1>2, <1>4, <2>1 DEF Goes, ModuleOf
  <2>4. \A k \in TaskIds : k # i => Goes(k)
    BY <1>1, <2>1 DEF Goes, RowInv
  <2>5. RowsGo
    <3>1. nextId <= nextId'
      BY BoundsAssumption DEF TypeOK
    <3>2. QED
      BY <2>3, <2>4, <3>1 DEF RowsGo
  <2>6. QED
    BY <2>2, <2>5, SamePass, Kept
<1>5. QED
  BY <1>3, <1>4


(* A worker is on a task that has a row and a module. *)
LEMMA WorkerHas ==
  ASSUME DestroyInv, NEW i \in TaskIds, worker[i] # "none"
  PROVE  task[i].st # "none" /\ ModuleOf(i) \in Modules
<1> USE DEF DestroyInv
<1>1. task[i].st # "none"
  BY DEF RowInv
<1>2. QED
  BY <1>1, HasModule

(* The types of what a step leaves alone. *)
LEMMA Types ==
  ASSUME DestroyInv
  PROVE  /\ status \in [Modules -> Statuses] /\ stack \in StackStatuses
         /\ scope \in SUBSET Modules /\ infra \in [Modules -> BOOLEAN]
         /\ lock \in [Modules -> -MaxTasks .. MaxTasks]
         /\ todo \in [Actors -> SUBSET Modules]
         /\ pick \in [Actors -> Modules \cup {NoModule}]
         /\ ghosts \in SUBSET TaskIds /\ faults \in 0 .. MaxFaults
  BY DEF DestroyInv, TypeOK

(* The pcs and outcomes of the actions. *)
LEMMA Constants ==
  /\ {"none", "sent", "early", "waiting", "body", "settled", "trigger"} \subseteq PCs
  /\ {"queued", "in_progress", "completed", "failed"} \subseteq TaskStatuses \ {"none", "cancelled"}
  /\ {"applied", "apply_failed", "destroying", "destroyed", "destroy_failed",
      "initialized", "gone"} \subseteq Statuses
  BY DEF PCs, AtWork, TaskStatuses, Statuses

LEMMA StartInv ==
  ASSUME DestroyInv, NEW i \in TaskIds, Start(i)
  PROVE  DestroyInv'
<1> DEFINE m == ModuleOf(i)
<1>1. /\ worker[i] # "none"
      /\ UNCHANGED <<infra, stack, scope, nextId, lock, todo, pick, request, audit,
                     requests, janitor, sweeps, ghosts, faults, cancels, interrupted>>
  BY DEF Start, chainVars, userVars, sweepVars, lossVars
<1>2. m \in Modules
  BY <1>1, WorkerHas
<1>3. Shrinks /\ PicksGo /\ Owed' = Owed
  BY <1>1, SameOwed, SamePicks, OwedSame
<1>4. CASE m \notin Rows /\ SetTask(i, "failed") /\ GoTo(i, "none") /\ UNCHANGED status
  <2>1. Seen'
    BY <1>1, <1>3, <1>4, SeenKept
  <2>2. QED
    BY <1>1, <1>3, <1>4, <2>1, Types, Constants, WorkerInv
<1>5. CASE /\ m \in Rows /\ status[m] = "initialized" /\ SetTask(i, "completed")
           /\ GoTo(i, "settled") /\ SetStatus(m, "destroyed")
  <2>1. m \notin Owed
    BY <1>5, OwedHas DEF NO_INFRA_STATUSES
  <2>2. /\ status' \in [Modules -> Statuses]
        /\ \A k \in Modules : k # m => status'[k] = status[k]
    BY <1>2, <1>5, Constants, StatusFields DEF DestroyInv
  <2>3. Seen'
    <3>1. \A k \in Owed' : status'[k] = status[k]
      BY <1>3, <2>1, <2>2, OwedHas
    <3>2. QED
      BY <1>1, <1>3, <3>1, SeenKept
  <2>4. QED
    BY <1>1, <1>3, <1>5, <2>1, <2>2, <2>3, Types, Constants, WorkerInv
<1>6. CASE /\ SetTask(i, "in_progress") /\ GoTo(i, "waiting") /\ UNCHANGED status
  <2>1. Seen'
    BY <1>1, <1>3, <1>6, SeenKept
  <2>2. QED
    BY <1>1, <1>3, <1>6, <2>1, Types, Constants, WorkerInv
<1>7. QED
  BY <1>4, <1>5, <1>6 DEF Start

LEMMA StartEarlyInv ==
  ASSUME DestroyInv, NEW i \in TaskIds, StartEarly(i)
  PROVE  DestroyInv'
<1>1. /\ worker[i] # "none" /\ GoTo(i, "none")
      /\ SetTask(i, "failed") \/ UNCHANGED task
      /\ UNCHANGED <<status, infra, stack, scope, nextId, lock, todo, pick, request, audit,
                     requests, janitor, sweeps, ghosts, faults, cancels, interrupted>>
  BY DEF StartEarly, rowVars, chainVars, userVars, sweepVars, lossVars
<1>2. Shrinks /\ PicksGo
  BY <1>1, SameOwed, SamePicks
<1>3. Seen'
  BY <1>1, <1>2, SeenKept
<1>4. QED
  BY <1>1, <1>2, <1>3, Types, Constants, WorkerInv

LEMMA AcquireInv ==
  ASSUME DestroyInv, NEW i \in TaskIds, Acquire(i)
  PROVE  DestroyInv'
<1>1. /\ worker[i] # "none" /\ GoTo(i, "body") /\ UNCHANGED task
      /\ lock' = [lock EXCEPT ![ModuleOf(i)] = i]
      /\ UNCHANGED <<status, infra, stack, scope, nextId, todo, pick, request, audit,
                     requests, janitor, sweeps, ghosts, faults, cancels, interrupted>>
  BY DEF Acquire, rowVars, chainVars, userVars, sweepVars, lossVars
<1>2. Shrinks /\ PicksGo
  BY <1>1, SameOwed, SamePicks
<1>3. Seen'
  BY <1>1, <1>2, SeenKept
<1>4. lock' \in [Modules -> -MaxTasks .. MaxTasks]
  <2>1. i \in -MaxTasks .. MaxTasks
    BY BoundsAssumption DEF TaskIds
  <2>2. QED
    BY <1>1, <2>1, Types
<1>5. QED
  BY <1>1, <1>2, <1>3, <1>4, Types, Constants, WorkerInv

(* What the trigger hook has to look at are modules. *)
LEMMA TriggerType ==
  ASSUME DestroyInv, NEW i \in TaskIds, ModuleOf(i) \in Modules, Trigger(i)
  PROVE  todo' \in [Actors -> SUBSET Modules]
<1>1. Deps[ModuleOf(i)] \in SUBSET Modules /\ i \in Actors
  BY ModulesAssumption DEF Actors
<1>2. QED
  BY <1>1, Types DEF Trigger

LEMMA HandlerInv ==
  ASSUME DestroyInv, NEW i \in TaskIds, worker[i] # "none", Handler(i), UNCHANGED infra
  PROVE  DestroyInv'
<1> DEFINE m == ModuleOf(i)
<1>1. /\ Unlock(i) /\ SetTask(i, "failed")
      /\ UNCHANGED <<stack, scope, nextId, pick, request, audit, requests, janitor,
                     sweeps, ghosts, faults, cancels, interrupted>>
  BY DEF Handler, userVars, sweepVars, lossVars
<1>2. m \in Modules
  BY WorkerHas
<1>3. Shrinks /\ PicksGo /\ lock' \in [Modules -> -MaxTasks .. MaxTasks]
  BY <1>1, SameOwed, SamePicks, UnlockType DEF DestroyInv
<1>4. CASE m \in Rows
  <2>1. SetStatus(m, "destroy_failed") /\ Trigger(i)
    BY <1>4 DEF Handler
  <2>2. /\ status' \in [Modules -> Statuses] /\ status'[m] = "destroy_failed"
        /\ \A k \in Modules : k # m => status'[k] = status[k]
    BY <1>2, <2>1, Constants, StatusFields DEF DestroyInv
  <2>3. Seen'
    <3>1. \A k \in Owed' : k \in Modules
      BY DEF Owed
    <3>2. QED
      BY <1>1, <1>3, <2>2, <3>1, SeenKept
  <2>4. todo' \in [Actors -> SUBSET Modules] /\ GoTo(i, "trigger")
    BY <1>2, <2>1, TriggerType DEF Trigger
  <2>5. QED
    BY <1>1, <1>3, <2>2, <2>3, <2>4, Types, Constants, WorkerInv
<1>5. CASE m \notin Rows
  <2>1. GoTo(i, "none") /\ UNCHANGED <<status, todo>>
    BY <1>5 DEF Handler
  <2>2. Seen'
    BY <1>1, <1>3, <2>1, SeenKept
  <2>3. QED
    BY <1>1, <1>3, <2>1, <2>2, Types, Constants, WorkerInv
<1>6. QED
  BY <1>4, <1>5

(* tofu destroy did its work. *)
LEMMA DestroyOkInv ==
  ASSUME DestroyInv, NEW i \in TaskIds, DestroyOk(i)
  PROVE  DestroyInv'
<1> DEFINE m == ModuleOf(i)
<1>1. /\ worker[i] # "none" /\ SetTask(i, "completed") /\ SetStatus(m, "destroyed")
      /\ GoTo(i, "settled") /\ infra' = [infra EXCEPT ![m] = FALSE]
      /\ UNCHANGED <<stack, scope, nextId, lock, todo, pick, request, audit, requests,
                     janitor, sweeps, ghosts, faults, cancels, interrupted>>
  BY DEF DestroyOk, HoldsModule, chainVars, userVars, sweepVars, lossVars
<1>2. m \in Modules
  BY <1>1, WorkerHas
<1>3. /\ infra' \in [Modules -> BOOLEAN] /\ ~infra'[m]
      /\ \A k \in Modules : k # m => infra'[k] = infra[k]
  BY <1>1, <1>2, Types
<1>4. Owed' \subseteq Owed /\ m \notin Owed'
  BY <1>1, <1>2, <1>3 DEF Owed, Excused
<1>5. Shrinks /\ PicksGo
  BY <1>1, <1>4, SamePicks DEF Shrinks
<1>6. /\ status' \in [Modules -> Statuses]
      /\ \A k \in Modules : k # m => status'[k] = status[k]
  BY <1>1, <1>2, Constants, StatusFields DEF DestroyInv
<1>7. Seen'
  <2>1. \A k \in Owed' : k \in Modules
    BY DEF Owed
  <2>2. QED
    BY <1>1, <1>4, <1>5, <1>6, <2>1, SeenKept
<1>8. QED
  BY <1>1, <1>3, <1>4, <1>5, <1>6, <1>7, Types, Constants, WorkerInv

(* The ways in which a destroy fails under the worker's eyes. *)
LEMMA FailInv ==
  ASSUME DestroyInv, NEW i \in TaskIds, DestroyFail(i) \/ InitFail(i) \/ Exception(i)
  PROVE  DestroyInv'
<1> DEFINE m == ModuleOf(i)
<1>1. /\ worker[i] # "none" /\ SetTask(i, "failed") /\ SetStatus(m, "destroy_failed")
      /\ UNCHANGED <<infra, stack, scope, nextId, todo, pick, request, audit, requests,
                     janitor, sweeps, ghosts, faults, cancels, interrupted>>
  BY DEF DestroyFail, InitFail, Exception, HoldsModule, chainVars, userVars, sweepVars,
         lossVars
<1>2. PICK pc \in PCs : GoTo(i, pc)
  BY Constants DEF DestroyFail, InitFail, Exception
<1>3. lock' \in [Modules -> -MaxTasks .. MaxTasks]
  BY Types, UnlockType DEF DestroyFail, InitFail, Exception, DestroyInv
<1>4. m \in Modules
  BY <1>1, WorkerHas
<1>5. Shrinks /\ PicksGo
  BY <1>1, SameOwed, SamePicks
<1>6. /\ status' \in [Modules -> Statuses] /\ status'[m] = "destroy_failed"
      /\ \A k \in Modules : k # m => status'[k] = status[k]
  BY <1>1, <1>4, Constants, StatusFields DEF DestroyInv
<1>7. Seen'
  <2>1. \A k \in Owed' : k \in Modules
    BY DEF Owed
  <2>2. QED
    BY <1>1, <1>5, <1>6, <2>1, SeenKept
<1>8. QED
  BY <1>1, <1>2, <1>3, <1>5, <1>6, <1>7, Types, Constants, WorkerInv

LEMMA UpdateStackInv ==
  ASSUME DestroyInv, NEW i \in TaskIds, UpdateStack(i)
  PROVE  DestroyInv'
<1>1. /\ worker[i] # "none" /\ UpdateStackProgress /\ Trigger(i) /\ GoTo(i, "trigger")
      /\ UNCHANGED <<infra, task, nextId, lock, pick, request, audit, requests,
                     janitor, sweeps, ghosts, faults, cancels, interrupted>>
  BY DEF UpdateStack, Trigger, userVars, sweepVars, lossVars
<1>2. ModuleOf(i) \in Modules
  BY <1>1, WorkerHas
<1>3. Shrinks /\ PicksGo
  BY <1>1, SameOwed, SamePicks
<1>4. /\ Seen' /\ status' \in [Modules -> Statuses]
      /\ stack' \in StackStatuses /\ scope' \in SUBSET Modules
  BY <1>1, ProgressSeen
<1>5. todo' \in [Actors -> SUBSET Modules]
  BY <1>1, <1>2, TriggerType
<1>6. QED
  BY <1>1, <1>3, <1>4, <1>5, Types, Constants, WorkerInv

(* A worker that stops in the hook forgets what it was to look at. *)
LEMMA HookFields ==
  ASSUME DestroyInv, NEW a \in Actors, todo' = [todo EXCEPT ![a] = {}],
         pick' = [pick EXCEPT ![a] = NoModule]
  PROVE  /\ todo' \in [Actors -> SUBSET Modules]
         /\ pick' \in [Actors -> Modules \cup {NoModule}] /\ PicksGo
  BY Types DEF PicksGo

LEMMA VanishInv ==
  ASSUME DestroyInv, NEW i \in TaskIds, RowVanished(i)
  PROVE  DestroyInv'
<1>1. /\ worker[i] # "none" /\ GoTo(i, "none") /\ Unlock(i)
      /\ todo' = [todo EXCEPT ![i] = {}] /\ pick' = [pick EXCEPT ![i] = NoModule]
      /\ UNCHANGED <<status, stack, scope, infra, task, nextId, request, audit, requests,
                     janitor, sweeps, ghosts, faults, cancels, interrupted>>
  BY DEF RowVanished, Leave, rowVars, userVars, sweepVars, lossVars
<1>2. /\ todo' \in [Actors -> SUBSET Modules]
      /\ pick' \in [Actors -> Modules \cup {NoModule}] /\ PicksGo
  BY <1>1, HookFields DEF Actors
<1>3. Shrinks /\ lock' \in [Modules -> -MaxTasks .. MaxTasks]
  BY <1>1, SameOwed, UnlockType DEF DestroyInv
<1>4. Seen'
  BY <1>1, <1>3, SeenKept
<1>5. QED
  BY <1>1, <1>2, <1>3, <1>4, Types, Constants, WorkerInv

(* The worker process is lost. *)
LEMMA CrashInv ==
  ASSUME DestroyInv, NEW i \in TaskIds, Crash(i)
  PROVE  DestroyInv'
<1>1. /\ worker[i] # "none" /\ GoTo(i, "sent") /\ Unlock(i) /\ Fault
      /\ todo' = [todo EXCEPT ![i] = {}] /\ pick' = [pick EXCEPT ![i] = NoModule]
      /\ ghosts' = ghosts \cup {i}
      /\ UNCHANGED <<status, stack, scope, infra, task, nextId, request, audit, requests,
                     janitor, sweeps, cancels, interrupted>>
  BY DEF Crash, GoTo, AtWork, rowVars, userVars, sweepVars
<1>2. /\ todo' \in [Actors -> SUBSET Modules]
      /\ pick' \in [Actors -> Modules \cup {NoModule}] /\ PicksGo
  BY <1>1, HookFields DEF Actors
<1>3. /\ Shrinks /\ lock' \in [Modules -> -MaxTasks .. MaxTasks]
      /\ faults' \in 0 .. MaxFaults /\ ghosts' \in SUBSET TaskIds
  BY <1>1, SameOwed, UnlockType, FaultType, Types DEF DestroyInv
<1>4. Seen'
  BY <1>1, <1>3, SeenKept
<1>5. QED
  BY <1>1, <1>2, <1>3, <1>4, Types, Constants, WorkerInv


-----------------------------------------------------------------------------
(* Queueing destroy tasks: the rows below the counter are those of the table,
   the new ones are numbered from the counter on, one for each module. *)
Queues(table, ms, sc) ==
  /\ nextId <= nextId' /\ nextId' \in 1 .. MaxTasks + 1 /\ faults' \in 0 .. MaxFaults
  /\ task' \in [TaskIds -> TaskRows] /\ worker' \in [TaskIds -> PCs]
  /\ \A i \in TaskIds :
       \/ task'[i] = table[i] /\ worker'[i] = worker[i]
       \/ /\ i >= nextId /\ i < nextId' /\ task'[i].st = "queued"
          /\ task'[i].module \in ms /\ task'[i].scope = sc

LEMMA QueueFields ==
  ASSUME TypeOK, NEW table \in [TaskIds -> TaskRows], NEW ms \in SUBSET Modules,
         NEW sc \in Scopes, NEW early \in SUBSET ms, NEW unsent \in SUBSET ms,
         Queue(table, ms, sc, early, unsent)
  PROVE  Queues(table, ms, sc)
<1> DEFINE Of(i) == {m \in ms : TaskFor(m, ms) = i}
           row(i) == [module |-> CHOOSE m \in Of(i) : TRUE, scope |-> sc, st |-> "queued"]
<1>1. /\ nextId + Cardinality(ms) <= MaxTasks + 1
      /\ faults + Cardinality(early \cup unsent) <= MaxFaults
      /\ faults' = faults + Cardinality(early \cup unsent)
      /\ nextId' = nextId + Cardinality(ms)
      /\ task' = [i \in TaskIds |-> IF Of(i) = {} THEN table[i] ELSE row(i)]
      /\ worker' = [i \in TaskIds |->
                      CASE Of(i) = {}              -> worker[i]
                        [] Of(i) \cap early # {}   -> "early"
                        [] Of(i) \cap unsent # {}  -> "none"
                        [] OTHER                   -> "sent"]
  BY DEF Queue
<1>2. IsFiniteSet(ms) /\ IsFiniteSet(early \cup unsent)
  BY ModulesAssumption, FS_Subset
<1>3. Cardinality(ms) \in Nat /\ Cardinality(early \cup unsent) \in Nat
  BY <1>2, FS_CardinalityType
<1>4. /\ nextId \in Nat /\ nextId >= 1 /\ MaxTasks \in Nat /\ faults \in Nat
      /\ MaxFaults \in Nat
  BY BoundsAssumption DEF TypeOK
<1>5. /\ nextId <= nextId' /\ nextId' \in 1 .. MaxTasks + 1 /\ faults' \in 0 .. MaxFaults
  BY <1>1, <1>3, <1>4
<1>6. ASSUME NEW i \in TaskIds, Of(i) # {}
      PROVE  /\ i >= nextId /\ i < nextId' /\ row(i) \in TaskRows
             /\ row(i).st = "queued" /\ row(i).module \in ms /\ row(i).scope = sc
  <2>1. PICK m \in ms : TaskFor(m, ms) = i
    BY <1>6
  <2>2. {k \in ms : k < m} \subseteq ms \ {m}
    BY ModulesAssumption
  <2>3. /\ IsFiniteSet(ms \ {m}) /\ Cardinality(ms \ {m}) = Cardinality(ms) - 1
    BY <1>2, FS_RemoveElement
  <2>4. /\ IsFiniteSet({k \in ms : k < m})
        /\ Cardinality({k \in ms : k < m}) <= Cardinality(ms \ {m})
    BY <2>2, <2>3, FS_Subset
  <2>5. Cardinality({k \in ms : k < m}) \in Nat
    BY <2>4, FS_CardinalityType
  <2>6. i = nextId + Cardinality({k \in ms : k < m})
    BY <2>1 DEF TaskFor
  <2>7. i >= nextId /\ i < nextId'
    BY <1>1, <1>3, <1>4, <2>3, <2>4, <2>5, <2>6
  <2>8. PICK x \in ms : x = CHOOSE k \in Of(i) : TRUE
    BY <1>6
  <2>9. row(i) = [module |-> x, scope |-> sc, st |-> "queued"]
    BY <2>8
  <2>10. QED
    BY <2>7, <2>9 DEF TaskRows, TaskStatuses
<1>7. task' \in [TaskIds -> TaskRows]
  <2> HIDE DEF Of, row
  <2>1. QED
    BY <1>1, <1>6
<1>8. worker' \in [TaskIds -> PCs]
  <2> HIDE DEF Of, row
  <2>1. \A i \in TaskIds : worker[i] \in PCs
    BY TaskTypes
  <2>2. QED
    BY <1>1, <2>1, Constants
<1>9. ASSUME NEW i \in TaskIds
      PROVE  \/ task'[i] = table[i] /\ worker'[i] = worker[i]
             \/ /\ i >= nextId /\ i < nextId' /\ task'[i].st = "queued"
                /\ task'[i].module \in ms /\ task'[i].scope = sc
  <2> HIDE DEF Of, row
  <2>1. CASE Of(i) = {}
    BY <1>1, <2>1
  <2>2. CASE Of(i) # {}
    <3>1. task'[i] = row(i)
      BY <1>1, <2>2
    <3>2. QED
      BY <1>6, <2>2, <3>1
  <2>3. QED
    BY <2>1, <2>2
<1>10. QED
  BY <1>5, <1>7, <1>8, <1>9 DEF Queues

(* Queueing keeps the invariant when the turn of the modules has come, unless
   each of them is to be destroyed alone. A project run also adopts tasks. *)
LEMMA QueueInv ==
  ASSUME DestroyInv, NEW table \in [TaskIds -> TaskRows], NEW ms \in SUBSET Modules,
         NEW sc \in Scopes, Queues(table, ms, sc),
         \A i \in TaskIds :
           /\ table[i].module = task[i].module /\ table[i].st = task[i].st
           /\ table[i].scope = task[i].scope \/ Clear(task[i].module)
           /\ table[i].scope = "module" => task[i].scope = "module",
         sc # "module" => \A m \in ms : Clear(m),
         sc = "module" => "module" \in Requests,
         status' \in [Modules -> Statuses], stack' \in {stack, "failed", "destroying"},
         \A m \in Owed :
           status'[m] \in {status[m], "destroying", "destroy_failed", "applied"},
         todo' \in [Actors -> SUBSET Modules],
         pick' \in [Actors -> Modules \cup {NoModule}], PicksGo,
         request' \in {"none", "stack", "project"}, audit' \in SUBSET Modules,
         requests' \in 0 .. MaxRequests,
         UNCHANGED <<scope, infra, lock, janitor, sweeps, ghosts, cancels, interrupted>>
  PROVE  DestroyInv'
<1> USE DEF DestroyInv
<1>1. Shrinks /\ Owed' = Owed
  BY SameOwed, OwedSame
<1>2. stack' \in StackStatuses
  BY Types DEF StackStatuses
<1>3. TypeOK'
  BY <1>2 DEF TypeOK, Queues
<1>4. Seen'
  BY <1>1, SeenKept
<1>5. ASSUME NEW i \in TaskIds
      PROVE  Goes(i) \/ Fresh(i)
  <2>1. CASE task'[i] = table[i] /\ worker'[i] = worker[i]
    <3>1. /\ task'[i].module = task[i].module /\ task'[i].st = task[i].st
          /\ task'[i].scope = task[i].scope \/ Clear(task[i].module)
          /\ task'[i].scope = "module" => task[i].scope = "module"
      BY <2>1
    <3>2. Clear(task[i].module) => Cleared(task[i].module)
      BY <1>1, ClearStays
    <3>3. worker'[i] # "none" => task[i].st # "none"
      BY <2>1 DEF RowInv
    <3>4. Goes(i)
      BY <3>1, <3>2, <3>3 DEF Goes
    <3>5. QED
      BY <3>4
  <2>2. CASE /\ i >= nextId /\ i < nextId' /\ task'[i].st = "queued"
             /\ task'[i].module \in ms /\ task'[i].scope = sc
    <3>1. PICK m \in ms : m = task'[i].module
      BY <2>2
    <3>2. sc # "module" => Cleared(m)
      BY <1>1, ClearStays
    <3>3. sc # "module" => Cleared(task'[i].module)
      BY <3>1, <3>2
    <3>4. Fresh(i)
      BY <2>2, <3>3 DEF Fresh
    <3>5. QED
      BY <3>4
  <2>3. QED
    BY <2>1, <2>2 DEF Queues
<1>6. RowsGo
  BY <1>5 DEF RowsGo, Queues
<1>7. QED
  BY <1>1, <1>3, <1>4, <1>6, SamePass, Kept

(* The status that the dispatchers write. *)
LEMMA DestroyingFields ==
  ASSUME TypeOK, NEW ms
  PROVE  /\ Destroying(ms) \in [Modules -> Statuses]
         /\ \A m \in Modules : Destroying(ms)[m] \in {status[m], "destroying"}
<1>1. \A m \in Modules : status[m] \in Statuses
  BY DEF TypeOK
<1>2. QED
  BY <1>1, Constants DEF Destroying

-----------------------------------------------------------------------------
(* The scope of an actor of the trigger hook is that of a task. *)
LEMMA ScopeType ==
  ASSUME DestroyInv, NEW a \in Actors, Triggering(a)
  PROVE  ScopeOf(a) \in Scopes /\ NextScope(a) \in Scopes
<1> USE DEF DestroyInv
<1>1. CASE a = Janitor
  <2>1. TasksOf(janitor.mod) # {}
    BY <1>1 DEF Triggering, JanitorInv
  <2>2. LastTask(janitor.mod) \in TaskIds
    BY <2>1, LastTaskIn
  <2>3. task[LastTask(janitor.mod)].scope \in Scopes
    BY <2>2, TaskTypes
  <2>4. QED
    BY <1>1, <2>3 DEF ScopeOf, NextScope, Scopes
<1>2. CASE a # Janitor
  <2>1. a \in TaskIds
    BY <1>2 DEF Actors
  <2>2. task[a].scope \in Scopes
    BY <2>1, TaskTypes
  <2>3. QED
    BY <1>2, <2>2 DEF ScopeOf, NextScope, Scopes
<1>3. QED
  BY <1>1, <1>2

(* A single-module task comes from a single-module request, at every remove. *)
LEMMA Single ==
  ASSUME DestroyInv, NEW a \in Actors, Triggering(a), NextScope(a) = "module"
  PROVE  "module" \in Requests
<1> USE DEF DestroyInv
<1>1. ASSUME NEW i \in TaskIds, task[i].scope = "module", task[i].st # "none"
      PROVE  "module" \in Requests
  BY <1>1 DEF RowInv
<1>2. /\ ActorModule(a) \in Modules /\ TasksOf(ActorModule(a)) # {}
      /\ a # Janitor => a \in TaskIds /\ task[a].st # "none"
  <2>1. CASE a = Janitor
    BY <2>1 DEF Triggering, JanitorInv, ActorModule
  <2>2. CASE a # Janitor
    <3>1. a \in TaskIds /\ worker[a] = "trigger"
      BY <2>2 DEF Triggering, Actors
    <3>2. task[a].st # "none" /\ ModuleOf(a) \in Modules
      BY <3>1, WorkerHas
    <3>3. a \in TasksOf(ModuleOf(a))
      BY <3>1 DEF TasksOf, ModuleOf
    <3>4. QED
      BY <2>2, <3>1, <3>2, <3>3 DEF ActorModule
  <2>3. QED
    BY <2>1, <2>2
<1>3. PICK i \in TaskIds : i = LastTask(ActorModule(a)) /\ task[i].module = ActorModule(a)
  BY <1>2, LastTaskIn
<1>4. task[i].st # "none"
  BY <1>2, <1>3, NoModuleIsNone DEF RowInv
<1>5. CASE InRun(a)
  <2>1. ScopeOf(a) = "module"
    BY <1>5 DEF NextScope
  <2>2. a # Janitor
    BY <1>5, <2>1 DEF ScopeOf, InRun, ActorModule
  <2>3. QED
    BY <1>1, <1>2, <2>1, <2>2 DEF ScopeOf
<1>6. CASE ~InRun(a)
  BY <1>1, <1>3, <1>4, <1>6 DEF InRun
<1>7. QED
  BY <1>5, <1>6

(* The barrier: a dependency is picked when its turn has come. *)
LEMMA TriggerReadInv ==
  ASSUME DestroyInv, NEW a \in Actors, NEW d \in Modules, TriggerRead(a, d)
  PROVE  DestroyInv'
<1> USE DEF DestroyInv
<1>1. UNCHANGED <<status, stack, scope, infra, task, nextId, worker, lock, request, audit,
                  requests, janitor, sweeps, ghosts, faults, cancels, interrupted>>
  BY DEF TriggerRead, rowVars, taskVars, userVars, sweepVars, lossVars
<1>2. Shrinks
  BY <1>1, SameOwed
<1>3. todo' \in [Actors -> SUBSET Modules]
  BY Types DEF TriggerRead
<1>4. PICK p \in {d, NoModule} :
        /\ pick' = [pick EXCEPT ![a] = p]
        /\ p = d => \A x \in Dependents(d) : ~Blocks(a, x)
  <2>1. CASE \A x \in Dependents(d) : ~Blocks(a, x)
    BY <2>1 DEF TriggerRead
  <2>2. CASE ~\A x \in Dependents(d) : ~Blocks(a, x)
    <3>1. pick' = [pick EXCEPT ![a] = NoModule]
      BY <2>2 DEF TriggerRead
    <3>2. NoModule # d
      BY NoModuleIsNone
    <3>3. QED
      BY <3>1, <3>2
  <2>3. QED
    BY <2>1, <2>2
<1>5. p = d => Clear(d)
  <2>1. ASSUME p = d, NEW x \in Owed, d \in Deps[x]
        PROVE  FALSE
    <3>1. /\ x \in Rows /\ x \in scope /\ status[x] \notin NO_INFRA_STATUSES
          /\ x \notin InCluster
      BY OwedHas
    <3>2. x \in Dependents(d)
      BY <2>1, <3>1 DEF Dependents
    <3>3. Blocks(a, x)
      BY <3>1 DEF Blocks
    <3>4. QED
      BY <1>4, <2>1, <3>2, <3>3
  <2>2. QED
    BY <2>1, ClearIs
<1>6. pick' \in [Actors -> Modules \cup {NoModule}]
  BY <1>4, Types
<1>7. PicksGo
  <2>1. p = d => Cleared(d)
    BY <1>2, <1>5, ClearStays
  <2>2. \A b \in Actors : pick'[b] = IF b = a THEN p ELSE pick[b]
    BY <1>4, Types
  <2>3. pick'[a] = NoModule \/ Cleared(pick'[a])
    <3>1. CASE p = NoModule
      BY <2>2, <3>1
    <3>2. CASE p = d
      <4>1. pick'[a] = d
        BY <2>2, <3>2
      <4>2. QED
        BY <2>1, <3>2, <4>1
    <3>3. QED
      BY <3>1, <3>2
  <2>4. QED
    BY <2>2, <2>3 DEF PicksGo
<1>8. TypeOK'
  BY <1>1, <1>3, <1>6 DEF TypeOK
<1>9. RowsGo /\ PassGoes
  BY <1>1, SameRows, SamePass
<1>10. Seen'
  BY <1>1, <1>2, SeenKept
<1>11. QED
  BY <1>2, <1>7, <1>8, <1>9, <1>10, Kept

(* The rest of the hook's write, with the message sent or not. *)
LEMMA TriggerQueueInv ==
  ASSUME DestroyInv, NEW a \in Actors, Triggering(a), pick[a] \in Rows,
         NEW early \in SUBSET {pick[a]}, NEW unsent \in SUBSET {pick[a]},
         Queue(task, {pick[a]}, NextScope(a), early, unsent),
         status' = Destroying({pick[a]}), pick' = [pick EXCEPT ![a] = NoModule],
         todo' \in [Actors -> SUBSET Modules],
         UNCHANGED <<infra, stack, scope, lock, request, audit, requests, janitor, sweeps,
                     ghosts, cancels, interrupted>>
  PROVE  DestroyInv'
<1> USE DEF DestroyInv
<1>1. PICK d \in Modules : d = pick[a]
  BY DEF Rows
<1>2. Clear(d)
  BY <1>1, NoModuleIsNone DEF TurnInv
<1>3. PICK sc \in Scopes : sc = NextScope(a)
  BY ScopeType
<1>4. Queues(task, {d}, sc)
  <2>1. task \in [TaskIds -> TaskRows] /\ {d} \in SUBSET Modules
    BY DEF TypeOK
  <2>2. Queue(task, {d}, sc, early, unsent)
    BY <1>1, <1>3
  <2>3. early \in SUBSET {d} /\ unsent \in SUBSET {d}
    BY <1>1
  <2>4. QED
    BY <2>1, <2>2, <2>3, QueueFields
<1>5. /\ status' \in [Modules -> Statuses]
      /\ \A m \in Owed : status'[m] \in {status[m], "destroying"}
  BY DestroyingFields, OwedHas
<1>6. pick' \in [Actors -> Modules \cup {NoModule}] /\ PicksGo
  BY Types DEF PicksGo
<1>7. /\ request' \in {"none", "stack", "project"} /\ audit' \in SUBSET Modules
      /\ requests' \in 0 .. MaxRequests /\ task \in [TaskIds -> TaskRows]
  BY DEF TypeOK
<1>8. {d} \in SUBSET Modules /\ \A m \in {d} : Clear(m)
  BY <1>2
<1>9. sc = "module" => "module" \in Requests
  BY <1>3, Single
<1>10. QED
  BY <1>4, <1>5, <1>6, <1>7, <1>8, <1>9, QueueInv

LEMMA TriggerCommitInv ==
  ASSUME DestroyInv, NEW a \in Actors, TriggerCommit(a)
  PROVE  DestroyInv'
<1>1. /\ Triggering(a) /\ pick[a] \in Rows /\ status' = Destroying({pick[a]})
      /\ pick' = [pick EXCEPT ![a] = NoModule]
      /\ UNCHANGED <<infra, stack, scope, lock, todo, request, audit, requests, janitor,
                     sweeps, ghosts, cancels, interrupted>>
  BY DEF TriggerCommit, userVars, sweepVars
<1>2. PICK early \in SUBSET {pick[a]} : Queue(task, {pick[a]}, NextScope(a), early, {})
  BY DEF TriggerCommit
<1>3. {} \in SUBSET {pick[a]} /\ todo' \in [Actors -> SUBSET Modules]
  BY <1>1, Types
<1>4. QED
  BY <1>1, <1>2, <1>3, TriggerQueueInv

LEMMA TriggerErrorInv ==
  ASSUME DestroyInv, NEW a \in Actors, TriggerError(a)
  PROVE  DestroyInv'
<1> USE DEF DestroyInv
<1>1. /\ Triggering(a) /\ todo' = [todo EXCEPT ![a] = {}]
      /\ pick' = [pick EXCEPT ![a] = NoModule]
      /\ UNCHANGED <<infra, stack, scope, lock, request, audit, requests, janitor,
                     sweeps, ghosts, cancels, interrupted>>
  BY DEF TriggerError, userVars, sweepVars
<1>2. /\ todo' \in [Actors -> SUBSET Modules]
      /\ pick' \in [Actors -> Modules \cup {NoModule}] /\ PicksGo
  BY <1>1, HookFields
<1>3. CASE /\ pick[a] \in Rows
           /\ Queue(task, {pick[a]}, NextScope(a), {}, {pick[a]})
           /\ status' = Destroying({pick[a]})
  <2>1. {} \in SUBSET {pick[a]} /\ {pick[a]} \in SUBSET {pick[a]}
    OBVIOUS
  <2>2. QED
    BY <1>1, <1>2, <1>3, <2>1, TriggerQueueInv
<1>4. CASE /\ IF pick[a] \in Rows THEN Fault ELSE UNCHANGED faults
           /\ UNCHANGED <<taskVars, status>>
  <2>1. faults' \in 0 .. MaxFaults
    BY <1>4, Types, FaultType
  <2>2. UNCHANGED <<task, nextId, worker, status>>
    BY <1>4 DEF taskVars
  <2>3. TypeOK'
    BY <1>1, <1>2, <2>1, <2>2 DEF TypeOK
  <2>4. RowsGo /\ PassGoes /\ Shrinks
    BY <1>1, <2>2, SameRows, SamePass, SameOwed
  <2>5. Seen'
    BY <1>1, <2>2, <2>4, SeenKept
  <2>6. QED
    BY <1>2, <2>3, <2>4, <2>5, Kept
<1>5. QED
  BY <1>3, <1>4 DEF TriggerError

(* Terminal detection: a stack is finalized only when nothing is owed, and
   only in-cluster failures of a project are written off. *)
LEMMA DetectSeen ==
  ASSUME DestroyInv, UNCHANGED <<infra, interrupted>>,
         DetectStack \/ DetectProject \/ UNCHANGED rowVars
  PROVE  /\ Seen' /\ status' \in [Modules -> Statuses]
         /\ stack' \in StackStatuses /\ scope' \in SUBSET Modules
<1> USE DEF DestroyInv
<1>1. Shrinks /\ Owed' = Owed
  BY SameOwed, OwedSame
<1>2. CASE UNCHANGED rowVars
  <2>1. UNCHANGED <<status, stack, scope>>
    BY <1>2 DEF rowVars
  <2>2. Seen'
    BY <1>1, <2>1, SeenKept
  <2>3. QED
    BY <2>1, <2>2, Types
<1>3. CASE MarkEntityFailed
  <2>1. Seen'
    BY <1>1, <1>3, SeenKept DEF MarkEntityFailed
  <2>2. QED
    BY <1>3, <2>1, Types DEF MarkEntityFailed, StackStatuses
<1>4. CASE /\ \A m \in scope \cap Rows : status[m] \in TERMINAL_DESTROY_STATUSES
           /\ ~\E m \in scope : status[m] = "destroy_failed"
           /\ FinalizeDestroy
  <2>1. Owed = {}
    <3>1. ASSUME NEW m \in Owed
          PROVE  FALSE
      <4>1. m \in scope \cap Rows /\ status[m] \notin NO_INFRA_STATUSES
        BY OwedHas
      <4>2. status[m] = "destroy_failed"
        BY <1>4, <4>1 DEF TERMINAL_DESTROY_STATUSES
      <4>3. QED
        BY <1>4, <4>1, <4>2
    <3>2. QED
      BY <3>1
  <2>2. Seen'
    BY <1>1, <2>1 DEF Seen
  <2>3. status' \in [Modules -> Statuses] /\ stack' = "destroyed" /\ scope' = {}
    BY <1>4, Types, Constants DEF FinalizeDestroy
  <2>4. QED
    BY <2>2, <2>3 DEF StackStatuses
<1>5. CASE DetectProject
  <2> DEFINE toDestroy == {m \in Rows : status[m] \notin NO_INFRA_STATUSES}
  <2>1. /\ UNCHANGED <<stack, scope>>
        /\ status' = IF /\ toDestroy \subseteq InCluster
                        /\ \A m \in toDestroy : status[m] = "destroy_failed"
                       THEN [m \in Modules |-> IF m \in toDestroy
                                                  THEN "destroyed" ELSE status[m]]
                       ELSE status
    BY <1>5 DEF DetectProject
  <2>2. ASSUME NEW m \in Owed
        PROVE  status'[m] = status[m]
    <3>1. m \notin InCluster /\ m \in Modules
      BY OwedHas
    <3> HIDE DEF toDestroy
    <3>2. QED
      BY <2>1, <3>1
  <2>3. status' \in [Modules -> Statuses]
    <3> HIDE DEF toDestroy
    <3>1. QED
      BY <2>1, Types, Constants
  <2>4. Seen'
    BY <1>1, <2>1, <2>2, SeenKept
  <2>5. QED
    BY <2>1, <2>3, <2>4, Types
<1>6. DetectStack =>
        \/ MarkEntityFailed \/ UNCHANGED rowVars
        \/ /\ \A m \in scope \cap Rows : status[m] \in TERMINAL_DESTROY_STATUSES
           /\ ~\E m \in scope : status[m] = "destroy_failed"
           /\ FinalizeDestroy
  BY DEF DetectStack
<1>7. QED
  BY <1>2, <1>3, <1>4, <1>5, <1>6

LEMMA DetectInv ==
  ASSUME DestroyInv, NEW a \in Actors, Detect(a)
  PROVE  DestroyInv'
<1> USE DEF DestroyInv
<1>1. /\ Triggering(a)
      /\ UNCHANGED <<infra, task, nextId, todo, pick, request, audit, requests, sweeps,
                     ghosts, faults, cancels, interrupted>>
  BY DEF Detect, chainVars, userVars, lossVars
<1>2. DetectStack \/ DetectProject \/ UNCHANGED rowVars
  <2>1. ScopeOf(a) \in {"stack", "project", "module"}
    BY <1>1, ScopeType DEF Scopes
  <2>2. CASE ScopeOf(a) = "stack"
    BY <2>2 DEF Detect
  <2>3. CASE ScopeOf(a) = "module"
    BY <2>3 DEF Detect
  <2>4. CASE ScopeOf(a) = "project" /\ InRun(a)
    BY <2>4 DEF Detect
  <2>5. CASE ScopeOf(a) = "project" /\ ~InRun(a)
    BY <2>5 DEF Detect
  <2>6. QED
    BY <2>1, <2>2, <2>3, <2>4, <2>5
<1>3. /\ Seen' /\ status' \in [Modules -> Statuses]
      /\ stack' \in StackStatuses /\ scope' \in SUBSET Modules
  BY <1>1, <1>2, DetectSeen
<1>4. Shrinks /\ PicksGo
  BY <1>1, SameOwed, SamePicks
<1>5. /\ worker' \in [TaskIds -> PCs] /\ lock' \in [Modules -> -MaxTasks .. MaxTasks]
      /\ janitor' \in Passes /\ PassGoes
      /\ \A i \in TaskIds : worker'[i] # "none" => worker[i] # "none"
  <2>1. CASE a = Janitor
    <3>1. /\ janitor' = [janitor EXCEPT !.pc = "redrive", !.mod = NoModule]
          /\ UNCHANGED <<worker, lock>>
      BY <2>1 DEF Detect
    <3>2. /\ janitor' \in Passes /\ janitor'.pc = "redrive"
          /\ janitor'.stale = janitor.stale /\ janitor'.redrive = janitor.redrive
      BY <3>1 DEF TypeOK, Passes
    <3>3. PassGoes
      BY <3>2 DEF PassGoes, JanitorInv
    <3>4. QED
      BY <3>1, <3>2, <3>3 DEF TypeOK
  <2>2. CASE a # Janitor
    <3>1. a \in TaskIds
      BY <2>2 DEF Actors
    <3>2. GoTo(a, "none") /\ Unlock(a) /\ UNCHANGED janitor
      BY <2>2 DEF Detect
    <3>3. /\ worker' \in [TaskIds -> PCs] /\ worker'[a] = "none"
          /\ \A k \in TaskIds : k # a => worker'[k] = worker[k]
      BY <3>1, <3>2, Constants, WorkerFields
    <3>4. lock' \in [Modules -> -MaxTasks .. MaxTasks] /\ janitor' \in Passes /\ PassGoes
      BY <3>2, UnlockType, SamePass DEF TypeOK
    <3>5. QED
      BY <3>3, <3>4
  <2>3. QED
    BY <2>1, <2>2
<1>6. TypeOK'
  BY <1>1, <1>3, <1>5 DEF TypeOK
<1>7. RowsGo
  BY <1>1, <1>5, SameRows
<1>8. QED
  BY <1>3, <1>4, <1>5, <1>6, <1>7, Kept


-----------------------------------------------------------------------------
(* A request that is accepted is counted. *)
LEMMA AcceptType ==
  ASSUME TypeOK, NEW kind, Accept(kind)
  PROVE  requests' \in 0 .. MaxRequests
  BY BoundsAssumption DEF Accept, TypeOK

(* Steps of users and of the janitor that queue nothing and move no worker. *)
LEMMA QuietInv ==
  ASSUME DestroyInv, UNCHANGED <<infra, task, nextId, worker, lock, todo, pick, ghosts,
                                 cancels, interrupted>>,
         status' \in [Modules -> Statuses], stack' \in StackStatuses,
         scope' \in SUBSET Modules, request' \in {"none", "stack", "project"},
         audit' \in SUBSET Modules, requests' \in 0 .. MaxRequests,
         sweeps' \in 0 .. MaxSweeps, faults' \in 0 .. MaxFaults,
         janitor' \in Passes, PassGoes, Seen'
  PROVE  DestroyInv'
<1> USE DEF DestroyInv
<1>1. TypeOK'
  BY DEF TypeOK
<1>2. RowsGo /\ PicksGo /\ Shrinks
  BY SameRows, SamePicks, SameOwed
<1>3. QED
  BY <1>1, <1>2, Kept

(* The types of what only requests and the janitor change. *)
LEMMA UserTypes ==
  ASSUME DestroyInv
  PROVE  /\ request \in {"none", "stack", "project"} /\ audit \in SUBSET Modules
         /\ requests \in 0 .. MaxRequests /\ sweeps \in 0 .. MaxSweeps
         /\ cancels \in 0 .. MaxCancels /\ interrupted \in SUBSET Modules
         /\ janitor \in Passes /\ task \in [TaskIds -> TaskRows]
  BY DEF DestroyInv, TypeOK

LEMMA PollInv ==
  ASSUME DestroyInv, PollStack
  PROVE  DestroyInv'
<1>1. /\ UpdateStackProgress
      /\ UNCHANGED <<infra, task, nextId, worker, lock, todo, pick, request, audit,
                     requests, janitor, sweeps, ghosts, faults, cancels, interrupted>>
  BY DEF PollStack, taskVars, chainVars, userVars, sweepVars, lossVars
<1>2. /\ Seen' /\ status' \in [Modules -> Statuses]
      /\ stack' \in StackStatuses /\ scope' \in SUBSET Modules
  BY <1>1, ProgressSeen
<1>3. PassGoes
  BY <1>1, SamePass DEF DestroyInv
<1>4. QED
  BY <1>1, <1>2, <1>3, Types, UserTypes, QuietInv

(* destroy_stack: no row with resources is deleted. *)
LEMMA DestroyStackInv ==
  ASSUME DestroyInv, DestroyStack
  PROVE  DestroyInv'
<1> DEFINE st == [m \in Modules |-> RecoveredForDestroy(m)]
           toDestroy == {m \in Rows : st[m] \notin NO_INFRA_STATUSES}
<1>1. /\ Accept("stack")
      /\ IF \E m \in Rows : st[m] = "destroying"
           THEN status' = st /\ UNCHANGED <<stack, scope, request>>
           ELSE /\ status' = [m \in Modules |-> IF m \in toDestroy THEN st[m] ELSE "gone"]
                /\ scope' = toDestroy
                /\ stack' = IF toDestroy = {} THEN "gone" ELSE "destroying"
                /\ request' = IF toDestroy = {} THEN "none" ELSE "stack"
      /\ UNCHANGED <<infra, task, nextId, worker, lock, todo, pick, audit, janitor, sweeps,
                     ghosts, faults, cancels, interrupted>>
  BY DEF DestroyStack, taskVars, chainVars, sweepVars, lossVars
<1>2. st \in [Modules -> Statuses]
  BY RecoversTypes DEF DestroyInv
<1>3. \A m \in Owed : st[m] \in {status[m], "destroy_failed"}
  BY RecoversTrue, OwedHas
<1>4. \A m \in Owed : m \in toDestroy
  BY <1>3, OwedHas DEF NO_INFRA_STATUSES
<1>5. toDestroy \subseteq Modules
  BY DEF Rows
<1> HIDE DEF st, toDestroy
<1>6. Owed' = Owed /\ Shrinks
  BY <1>1, OwedSame, SameOwed
<1>7. CASE \E m \in Rows : st[m] = "destroying"
  <2>1. status' = st /\ UNCHANGED <<stack, scope, request>>
    BY <1>1, <1>7
  <2>2. Seen'
    BY <1>3, <1>6, <2>1, SeenKept
  <2>3. PassGoes /\ requests' \in 0 .. MaxRequests
    BY <1>1, SamePass, AcceptType DEF DestroyInv
  <2>4. QED
    BY <1>1, <1>2, <2>1, <2>2, <2>3, Types, UserTypes, QuietInv
<1>8. CASE ~\E m \in Rows : st[m] = "destroying"
  <2>1. /\ status' = [m \in Modules |-> IF m \in toDestroy THEN st[m] ELSE "gone"]
        /\ scope' = toDestroy
        /\ stack' = IF toDestroy = {} THEN "gone" ELSE "destroying"
        /\ request' = IF toDestroy = {} THEN "none" ELSE "stack"
    BY <1>1, <1>8
  <2>2. ASSUME NEW m \in Owed'
        PROVE  status'[m] \notin Lost /\ stack' \notin {"destroyed", "gone"} /\ m \in scope'
    <3>1. m \in Owed /\ m \in toDestroy /\ m \in Modules
      BY <1>4, <1>5, <1>6
    <3>2. status[m] \notin NO_INFRA_STATUSES /\ status[m] # "gone"
      BY <3>1, OwedHas
    <3>3. status'[m] \in {status[m], "destroy_failed"}
      BY <1>3, <2>1, <3>1
    <3>4. QED
      BY <2>1, <3>1, <3>2, <3>3 DEF Lost, NO_INFRA_STATUSES
  <2>3. Seen'
    BY <2>2 DEF Seen
  <2>4. PassGoes /\ requests' \in 0 .. MaxRequests
    BY <1>1, SamePass, AcceptType DEF DestroyInv
  <2>5. status' \in [Modules -> Statuses]
    BY <1>2, <2>1, Constants
  <2>6. /\ stack' \in StackStatuses /\ scope' \in SUBSET Modules
        /\ request' \in {"none", "stack", "project"}
    BY <1>5, <2>1 DEF StackStatuses
  <2>7. QED
    BY <1>1, <2>3, <2>4, <2>5, <2>6, Types, UserTypes, QuietInv
<1>9. QED
  BY <1>7, <1>8

LEMMA DestroyAllInv ==
  ASSUME DestroyInv, DestroyAll
  PROVE  DestroyInv'
<1>1. /\ Accept("project") /\ stack' \in {stack, "destroying"} /\ request' = "project"
      /\ UNCHANGED <<status, scope, infra, task, nextId, worker, lock, todo, pick, audit,
                     janitor, sweeps, ghosts, faults, cancels, interrupted>>
  BY DEF DestroyAll, taskVars, chainVars, sweepVars, lossVars
<1>2. Shrinks /\ PassGoes /\ requests' \in 0 .. MaxRequests
  BY <1>1, SameOwed, SamePass, AcceptType DEF DestroyInv
<1>3. Seen'
  BY <1>1, <1>2, SeenKept
<1>4. stack' \in StackStatuses
  BY <1>1, Types DEF StackStatuses
<1>5. QED
  BY <1>1, <1>2, <1>3, <1>4, Types, UserTypes, QuietInv

(* The trailing write of a single-module request. *)
LEMMA AuditInv ==
  ASSUME DestroyInv, NEW m \in Modules, Audit(m)
  PROVE  DestroyInv'
<1>1. /\ audit' = audit \ {m} /\ status' \in {status, Destroying({m})}
      /\ UNCHANGED <<stack, scope, infra, task, nextId, worker, lock, todo, pick, request,
                     requests, janitor, sweeps, ghosts, faults, cancels, interrupted>>
  BY DEF Audit, taskVars, chainVars, sweepVars, lossVars
<1>2. Shrinks /\ PassGoes /\ Owed' = Owed
  BY <1>1, SameOwed, SamePass, OwedSame DEF DestroyInv
<1>3. /\ status' \in [Modules -> Statuses]
      /\ \A k \in Modules : status'[k] \in {status[k], "destroying"}
  BY <1>1, DestroyingFields, Types DEF DestroyInv
<1>4. Seen'
  BY <1>1, <1>2, <1>3, OwedHas, SeenKept
<1>5. audit' \in SUBSET Modules
  BY <1>1, UserTypes
<1>6. QED
  BY <1>1, <1>2, <1>3, <1>4, <1>5, Types, UserTypes, QuietInv

(* The first wave of a stack run: the leaves of the stack's scope. *)
LEMMA StackWaveInv ==
  ASSUME DestroyInv, StackWave
  PROVE  DestroyInv'
<1>1. /\ request' = "none"
      /\ UNCHANGED <<scope, infra, lock, todo, pick, audit, requests, janitor, sweeps,
                     ghosts, cancels, interrupted>>
  BY DEF StackWave, chainVars, sweepVars
<1>2. PICK wave \in SUBSET {m \in Leaves(scope) : ~Active(m)} :
        \E early, unsent \in SUBSET wave :
          /\ Queue(task, wave, "stack", early, unsent)
          /\ stack' = IF unsent = {} THEN stack ELSE "failed"
          /\ status' = Destroying(wave)
  BY DEF StackWave
<1>3. wave \in SUBSET Modules
  BY Types DEF Leaves
<1>4. ASSUME NEW m \in wave
      PROVE  Clear(m)
  <2>1. \A x \in scope : m \in Deps[x] => status[x] \in NO_INFRA_STATUSES \cup {"gone"}
    BY <1>4 DEF Leaves
  <2>2. \A x \in Owed : m \notin Deps[x]
    BY <2>1, OwedHas
  <2>3. QED
    BY <2>2, ClearIs
<1>5. "stack" \in Scopes /\ stack' \in {stack, "failed", "destroying"}
  BY <1>2 DEF Scopes
<1>6. Queues(task, wave, "stack")
  <2>1. PICK early, unsent \in SUBSET wave : Queue(task, wave, "stack", early, unsent)
    BY <1>2
  <2>2. QED
    BY <1>3, <1>5, <2>1, UserTypes, QueueFields DEF DestroyInv
<1>7. /\ status' \in [Modules -> Statuses]
      /\ \A m \in Owed : status'[m] \in {status[m], "destroying"}
  BY <1>2, DestroyingFields, OwedHas DEF DestroyInv
<1>8. PicksGo
  BY <1>1, SamePicks
<1>9. QED
  BY <1>1, <1>3, <1>4, <1>5, <1>6, <1>7, <1>8, Types, UserTypes, QueueInv

(* A leaf of the project: its turn has come, also when in-cluster modules are
   taken for destroyed. *)
LEMMA LeafClear ==
  ASSUME DestroyInv, NEW st, \A x \in Owed : st[x] = status[x], NEW m, Leaf(st, m)
  PROVE  Clear(m)
<1>1. \A x \in Dependents(m) : st[x] \in NO_INFRA_STATUSES
  BY DEF Leaf, Clean
<1>2. ASSUME NEW x \in Owed, m \in Deps[x]
      PROVE  FALSE
  <2>1. x \in Rows /\ status[x] \notin NO_INFRA_STATUSES
    BY OwedHas
  <2>2. x \in Dependents(m)
    BY <1>2, <2>1 DEF Dependents
  <2>3. QED
    BY <1>1, <2>1, <2>2
<1>3. QED
  BY <1>2, ClearIs

(* The first wave of a project run, and the tasks it adopts. *)
LEMMA ProjectWaveInv ==
  ASSUME DestroyInv, ProjectWave
  PROVE  DestroyInv'
<1> DEFINE Forced == [m \in Modules |->
                        IF m \in Rows \cap InCluster /\ ~Clean(status, m)
                          THEN "destroyed" ELSE status[m]]
           Adopted(first) == [i \in TaskIds |->
                                IF i \in first THEN [task[i] EXCEPT !.scope = "project"]
                                ELSE task[i]]
           Wave(st) == {m \in Rows : Leaf(st, m) /\ ~Active(m)}
<1>1. /\ request' = "none"
      /\ UNCHANGED <<stack, scope, infra, lock, todo, pick, audit, requests, janitor,
                     sweeps, ghosts, cancels, interrupted>>
  BY DEF ProjectWave, chainVars, sweepVars
<1>2. PicksGo
  BY <1>1, SamePicks
<1>3. CASE Fault /\ UNCHANGED <<taskVars, status>>
  <2>1. UNCHANGED <<task, nextId, worker, status>>
    BY <1>3 DEF taskVars
  <2>2. Shrinks /\ PassGoes /\ faults' \in 0 .. MaxFaults
    BY <1>1, <1>3, SameOwed, SamePass, FaultType DEF DestroyInv
  <2>3. Seen'
    BY <1>1, <2>1, <2>2, SeenKept
  <2>4. QED
    BY <1>1, <2>1, <2>2, <2>3, Types, UserTypes, QuietInv
<1>4. ASSUME NEW st \in {status, Forced},
             NEW first \in SUBSET {i \in TaskIds : Adopts(st, i)},
             \E early \in SUBSET Wave(st) :
               Queue(Adopted(first), Wave(st), "project", early, {}),
             status' = [m \in Modules |-> IF m \in Wave(st) THEN "destroying" ELSE st[m]]
      PROVE  DestroyInv'
  <2>1. st \in [Modules -> Statuses]
    BY Types, Constants
  <2>2. \A x \in Owed : st[x] = status[x]
    BY OwedHas
  <2> HIDE DEF Forced
  <2>3. Wave(st) \in SUBSET Modules /\ \A m \in Wave(st) : Clear(m)
    BY <2>2, LeafClear DEF Rows
  <2>4. /\ Adopted(first) \in [TaskIds -> TaskRows]
        /\ \A i \in TaskIds :
             /\ Adopted(first)[i].module = task[i].module /\ Adopted(first)[i].st = task[i].st
             /\ Adopted(first)[i].scope = task[i].scope \/ Clear(task[i].module)
             /\ Adopted(first)[i].scope = "module" => task[i].scope = "module"
    <3>1. ASSUME NEW i \in TaskIds
          PROVE  /\ Adopted(first)[i] \in TaskRows
                 /\ Adopted(first)[i].module = task[i].module
                 /\ Adopted(first)[i].st = task[i].st
                 /\ Adopted(first)[i].scope = task[i].scope \/ Clear(task[i].module)
                 /\ Adopted(first)[i].scope = "module" => task[i].scope = "module"
      <4>1. task[i] \in TaskRows
        BY UserTypes
      <4>2. CASE i \in first
        <5>1. Adopted(first)[i] = [task[i] EXCEPT !.scope = "project"]
          BY <4>2
        <5>2. Clear(task[i].module)
          BY <2>2, <4>2, LeafClear DEF Adopts
        <5>3. /\ [task[i] EXCEPT !.scope = "project"] \in TaskRows
              /\ [task[i] EXCEPT !.scope = "project"].module = task[i].module
              /\ [task[i] EXCEPT !.scope = "project"].st = task[i].st
              /\ [task[i] EXCEPT !.scope = "project"].scope = "project"
          BY <4>1 DEF TaskRows, Scopes
        <5>4. QED
          BY <5>1, <5>2, <5>3
      <4>3. CASE i \notin first
        <5>1. Adopted(first)[i] = task[i]
          BY <4>3
        <5>2. QED
          BY <4>1, <5>1
      <4>4. QED
        BY <4>2, <4>3
    <3>2. QED
      BY <3>1
  <2>5. PICK early \in SUBSET Wave(st) :
          Queue(Adopted(first), Wave(st), "project", early, {})
    BY <1>4
  <2>6. PICK ms \in SUBSET Modules : ms = Wave(st)
    BY <2>3
  <2>7. PICK table \in [TaskIds -> TaskRows] : table = Adopted(first)
    BY <2>4
  <2> HIDE DEF Wave, Adopted
  <2>8. {} \in SUBSET ms /\ early \in SUBSET ms /\ "project" \in Scopes
    BY <2>6 DEF Scopes
  <2>9. Queues(table, ms, "project")
    <3>1. Queue(table, ms, "project", early, {})
      BY <2>5, <2>6, <2>7
    <3>2. QED
      BY <2>8, <3>1, QueueFields DEF DestroyInv
  <2>10. /\ status' \in [Modules -> Statuses]
         /\ \A m \in Owed : status'[m] \in {status[m], "destroying"}
    BY <1>4, <2>1, <2>2, OwedHas, Constants
  <2>11. \A i \in TaskIds :
           /\ table[i].module = task[i].module /\ table[i].st = task[i].st
           /\ table[i].scope = task[i].scope \/ Clear(task[i].module)
           /\ table[i].scope = "module" => task[i].scope = "module"
    BY <2>4, <2>7
  <2>12. \A m \in ms : Clear(m)
    BY <2>3, <2>6
  <2>13. QED
    BY <1>1, <1>2, <2>8, <2>9, <2>10, <2>11, <2>12, Types, UserTypes, QueueInv
<1>5. QED
  BY <1>3, <1>4 DEF ProjectWave

LEMMA DestroyModuleInv ==
  ASSUME DestroyInv, NEW m \in Modules, DestroyModule(m)
  PROVE  DestroyInv'
<1>1. /\ Accept("module") /\ status' = Destroying({m})
      /\ UNCHANGED <<stack, scope, infra, lock, todo, pick, request, janitor, sweeps,
                     ghosts, cancels, interrupted>>
  BY DEF DestroyModule, chainVars, sweepVars
<1>2. /\ audit' \in {audit, audit \cup {m}}
      /\ \E unsent \in SUBSET {m} : Queue(task, {m}, "module", {}, unsent)
  BY DEF DestroyModule
<1>3. {m} \in SUBSET Modules /\ {} \in SUBSET {m} /\ "module" \in Scopes
  BY DEF Scopes
<1>4. Queues(task, {m}, "module")
  BY <1>2, <1>3, UserTypes, QueueFields DEF DestroyInv
<1>5. /\ status' \in [Modules -> Statuses]
      /\ \A k \in Owed : status'[k] \in {status[k], "destroying"}
  BY <1>1, DestroyingFields, OwedHas DEF DestroyInv
<1>6. /\ PicksGo /\ audit' \in SUBSET Modules /\ requests' \in 0 .. MaxRequests
      /\ "module" \in Requests
  BY <1>1, <1>2, SamePicks, AcceptType, UserTypes DEF DestroyInv, Accept
<1>7. QED
  BY <1>1, <1>3, <1>4, <1>5, <1>6, Types, UserTypes, QueueInv


-----------------------------------------------------------------------------
(* What a revoke does: it stops workers and drops messages. *)
LEMMA RevokeFields ==
  ASSUME DestroyInv, NEW hit \in SUBSET TaskIds, Revoke(hit)
  PROVE  /\ cancels' \in 0 .. MaxCancels /\ worker' \in [TaskIds -> PCs]
         /\ \A i \in TaskIds : worker'[i] # "none" => worker[i] # "none"
         /\ todo' \in [Actors -> SUBSET Modules]
         /\ pick' \in [Actors -> Modules \cup {NoModule}] /\ PicksGo
         /\ ghosts' \in SUBSET TaskIds
<1> USE DEF DestroyInv
<1>1. cancels' \in 0 .. MaxCancels
  BY BoundsAssumption DEF Revoke, TypeOK
<1>2. /\ worker' \in [TaskIds -> PCs]
      /\ \A i \in TaskIds : worker'[i] # "none" => worker[i] # "none"
  BY Constants DEF Revoke, TypeOK
<1>3. todo' \in [Actors -> SUBSET Modules]
  BY Types DEF Revoke
<1>4. pick' \in [Actors -> Modules \cup {NoModule}] /\ PicksGo
  BY Types DEF Revoke, PicksGo
<1>5. ghosts' \in SUBSET TaskIds
  BY Types DEF Revoke
<1>6. QED
  BY <1>1, <1>2, <1>3, <1>4, <1>5

LEMMA UnlockedType ==
  ASSUME DestroyInv, NEW hit
  PROVE  Unlocked(hit) \in [Modules -> -MaxTasks .. MaxTasks]
<1>1. 0 \in -MaxTasks .. MaxTasks
  BY BoundsAssumption
<1>2. \A m \in Modules : lock[m] \in -MaxTasks .. MaxTasks
  BY Types
<1>3. QED
  BY <1>1, <1>2 DEF Unlocked

(* A cancellation excuses the module: nobody knows what is left of it. *)
LEMMA CancelInv ==
  ASSUME DestroyInv, NEW m \in Modules, NEW hit \in SUBSET TaskIds, Revoke(hit),
         lock' \in [Modules -> -MaxTasks .. MaxTasks],
         status' \in [Modules -> Statuses],
         \A k \in Modules : k # m => status'[k] = status[k],
         interrupted' = interrupted \cup {m},
         task' \in [TaskIds -> TaskRows],
         \A i \in TaskIds :
           \/ task'[i] = task[i]
           \/ /\ task[i].st # "none" /\ task[i].module = m /\ task'[i].module = m
              /\ task'[i].st = "cancelled" /\ task'[i].scope = task[i].scope,
         UNCHANGED <<stack, scope, infra, nextId, request, audit, requests, janitor,
                     sweeps, faults>>
  PROVE  DestroyInv'
<1> USE DEF DestroyInv
<1>1. /\ cancels' \in 0 .. MaxCancels /\ worker' \in [TaskIds -> PCs]
      /\ \A i \in TaskIds : worker'[i] # "none" => worker[i] # "none"
      /\ todo' \in [Actors -> SUBSET Modules]
      /\ pick' \in [Actors -> Modules \cup {NoModule}] /\ PicksGo
      /\ ghosts' \in SUBSET TaskIds
  BY RevokeFields
<1>2. Shrinks /\ m \notin Owed' /\ interrupted' \in SUBSET Modules
  BY UserTypes DEF Shrinks, Owed, Excused
<1>3. TypeOK'
  BY <1>1, <1>2 DEF TypeOK
<1>4. Seen'
  <2>1. \A k \in Owed' : k \in Modules /\ k # m
    BY <1>2 DEF Owed
  <2>2. QED
    BY <1>2, <2>1, SeenKept
<1>5. ASSUME NEW i \in TaskIds
      PROVE  Goes(i)
  <2>1. worker'[i] # "none" => task[i].st # "none"
    BY <1>1 DEF RowInv
  <2>2. m \in interrupted'
    OBVIOUS
  <2>3. QED
    BY <2>1, <2>2 DEF Goes
<1>6. RowsGo
  <2>1. nextId <= nextId'
    BY BoundsAssumption DEF TypeOK
  <2>2. QED
    BY <1>5, <2>1 DEF RowsGo
<1>7. QED
  BY <1>1, <1>2, <1>3, <1>4, <1>6, SamePass, Kept

LEMMA CancelTaskInv ==
  ASSUME DestroyInv, NEW i \in TaskIds, CancelTask(i)
  PROVE  DestroyInv'
<1> USE DEF DestroyInv
<1>1. /\ task[i].st \in NonTerminal /\ SetTask(i, "cancelled")
      /\ interrupted' = interrupted \cup {ModuleOf(i)}
      /\ status' = IF status[ModuleOf(i)] = "destroying"
                     THEN [status EXCEPT ![ModuleOf(i)] = "initialized"] ELSE status
      /\ UNCHANGED <<stack, scope, infra, nextId, request, audit, requests, janitor,
                     sweeps, faults>>
  BY DEF CancelTask, userVars, sweepVars
<1>2. PICK hit \in SUBSET {i} : Revoke(hit) /\ lock' = Unlocked(hit)
  BY DEF CancelTask
<1>3. task[i].st # "none" /\ "cancelled" \in TaskStatuses
  BY <1>1 DEF NonTerminal, TaskStatuses
<1>4. PICK m \in Modules : m = ModuleOf(i)
  BY <1>3, HasModule
<1>5. /\ status' \in [Modules -> Statuses]
      /\ \A k \in Modules : k # m => status'[k] = status[k]
  BY <1>1, <1>4, Types, Constants
<1>6. /\ task' \in [TaskIds -> TaskRows] /\ task'[i].st = "cancelled"
      /\ task'[i].module = task[i].module /\ task'[i].scope = task[i].scope
      /\ \A k \in TaskIds : k # i => task'[k] = task[k]
  BY <1>1, <1>3, TaskFields
<1>7. \A k \in TaskIds :
        \/ task'[k] = task[k]
        \/ /\ task[k].st # "none" /\ task[k].module = m /\ task'[k].module = m
           /\ task'[k].st = "cancelled" /\ task'[k].scope = task[k].scope
  BY <1>3, <1>4, <1>6 DEF ModuleOf
<1>8. hit \in SUBSET TaskIds /\ lock' \in [Modules -> -MaxTasks .. MaxTasks]
  BY <1>2, UnlockedType
<1>9. QED
  BY <1>1, <1>2, <1>4, <1>5, <1>6, <1>7, <1>8, CancelInv

LEMMA CancelOperationInv ==
  ASSUME DestroyInv, NEW m \in Modules, CancelOperation(m)
  PROVE  DestroyInv'
<1> USE DEF DestroyInv
<1> DEFINE active == {i \in TasksOf(m) : task[i].st \in NonTerminal}
<1>1. /\ interrupted' = interrupted \cup {m}
      /\ status' = IF status[m] = "destroying"
                     THEN [status EXCEPT ![m] = "applied"] ELSE status
      /\ UNCHANGED <<stack, scope, infra, nextId, request, audit, requests, janitor,
                     sweeps, faults>>
  BY DEF CancelOperation, userVars, sweepVars
<1>2. /\ status' \in [Modules -> Statuses]
      /\ \A k \in Modules : k # m => status'[k] = status[k]
  BY <1>1, Types, Constants
<1>3. active \subseteq TaskIds
  BY DEF TasksOf
<1>4. CASE \E hit \in SUBSET {i \in active : worker[i] # "none"} :
             /\ Revoke(hit)
             /\ \/ lock' = Unlocked(hit)
                \/ lock' = [Unlocked(hit) EXCEPT ![m] = IF @ > 0 THEN -@ ELSE @]
             /\ task' = [i \in TaskIds |->
                           IF i \in active THEN [task[i] EXCEPT !.st = "cancelled"]
                           ELSE task[i]]
  <2>1. PICK hit \in SUBSET {i \in active : worker[i] # "none"} :
          /\ Revoke(hit)
          /\ \/ lock' = Unlocked(hit)
             \/ lock' = [Unlocked(hit) EXCEPT ![m] = IF @ > 0 THEN -@ ELSE @]
          /\ task' = [i \in TaskIds |->
                        IF i \in active THEN [task[i] EXCEPT !.st = "cancelled"]
                        ELSE task[i]]
    BY <1>4
  <2>2. hit \in SUBSET TaskIds
    BY <1>3
  <2>3. lock' \in [Modules -> -MaxTasks .. MaxTasks]
    <3>1. PICK free \in [Modules -> -MaxTasks .. MaxTasks] : free = Unlocked(hit)
      BY UnlockedType
    <3>2. PICK n : n = IF free[m] > 0 THEN -free[m] ELSE free[m]
      OBVIOUS
    <3>3. n \in -MaxTasks .. MaxTasks
      BY <3>1, <3>2, BoundsAssumption
    <3>4. lock' = free \/ lock' = [free EXCEPT ![m] = n]
      BY <2>1, <3>1, <3>2
    <3>5. QED
      BY <3>1, <3>3, <3>4
  <2>4. ASSUME NEW i \in TaskIds
        PROVE  /\ task'[i] \in TaskRows
               /\ \/ task'[i] = task[i]
                  \/ /\ task[i].st # "none" /\ task[i].module = m /\ task'[i].module = m
                     /\ task'[i].st = "cancelled" /\ task'[i].scope = task[i].scope
    <3>1. task[i] \in TaskRows
      BY UserTypes
    <3>2. CASE i \in active
      <4>1. task'[i] = [task[i] EXCEPT !.st = "cancelled"]
        BY <2>1, <3>2
      <4>2. task[i].st # "none" /\ task[i].module = m
        BY <3>2 DEF TasksOf, NonTerminal
      <4>3. /\ task'[i] \in TaskRows /\ task'[i].module = task[i].module
            /\ task'[i].st = "cancelled" /\ task'[i].scope = task[i].scope
        BY <3>1, <4>1 DEF TaskRows, TaskStatuses
      <4>4. QED
        BY <4>2, <4>3
    <3>3. CASE i \notin active
      <4>1. task'[i] = task[i]
        BY <2>1, <3>3
      <4>2. QED
        BY <3>1, <4>1
    <3>4. QED
      BY <3>2, <3>3
  <2>5. task' \in [TaskIds -> TaskRows]
    <3> HIDE DEF active
    <3>1. QED
      BY <2>1, <2>4
  <2>6. QED
    BY <1>1, <1>2, <2>1, <2>2, <2>3, <2>4, <2>5, CancelInv
<1>5. CASE Revoke({}) /\ UNCHANGED <<lock, task>>
  <2>1. {} \in SUBSET TaskIds
    OBVIOUS
  <2>2. QED
    BY <1>1, <1>2, <1>5, <2>1, Types, UserTypes, CancelInv
<1>6. QED
  BY <1>4, <1>5 DEF CancelOperation

-----------------------------------------------------------------------------
(* The janitor. What its record holds at rest. *)
LEMMA AtRestType ==
  AtRest \in Passes /\ AtRest.pc = "idle" /\ AtRest.stale = {} /\ AtRest.redrive = {}
  BY DEF AtRest, Passes

LEMMA JanitorBeginInv ==
  ASSUME DestroyInv, JanitorBegin
  PROVE  DestroyInv'
<1>1. UNCHANGED <<status, stack, scope, infra, task, nextId, worker, lock, todo, pick,
                  request, audit, requests, ghosts, cancels, interrupted>>
  BY DEF JanitorBegin, rowVars, taskVars, chainVars, userVars
<1>2. sweeps' \in 0 .. MaxSweeps
  <2>1. sweeps \in 0 .. MaxSweeps
    BY UserTypes
  <2>2. UNCHANGED sweeps \/ (sweeps < MaxSweeps /\ sweeps' = sweeps + 1)
    BY DEF JanitorBegin
  <2>3. QED
    BY <2>1, <2>2, BoundsAssumption
<1>3. faults' \in 0 .. MaxFaults
  BY Types, FaultType DEF JanitorBegin, DestroyInv
<1>4. Live \in SUBSET TaskIds
  BY Types DEF Live
<1>5. /\ janitor' \in Passes /\ janitor'.pc = "tasks"
      /\ janitor'.stale = {} /\ janitor'.redrive = {}
  <2>1. CASE janitor' = [AtRest EXCEPT !.pc = "tasks", !.live = Live]
    <3>1. PICK live \in SUBSET TaskIds : live = Live
      BY <1>4
    <3>2. janitor' = [AtRest EXCEPT !.pc = "tasks", !.live = live]
      BY <2>1, <3>1
    <3>3. QED
      BY <3>2 DEF AtRest, Passes
  <2>2. CASE janitor' = [AtRest EXCEPT !.pc = "tasks"]
    BY <2>2 DEF AtRest, Passes
  <2>3. QED
    BY <2>1, <2>2 DEF JanitorBegin
<1>6. PassGoes
  BY <1>5 DEF PassGoes
<1>7. Shrinks
  BY <1>1, SameOwed
<1>8. Seen'
  BY <1>1, <1>7, SeenKept
<1>9. QED
  BY <1>1, <1>2, <1>3, <1>5, <1>6, <1>8, Types, UserTypes, QuietInv

LEMMA JanitorTasksInv ==
  ASSUME DestroyInv, JanitorTasks
  PROVE  DestroyInv'
<1> USE DEF DestroyInv
<1>1. UNCHANGED <<status, stack, scope, infra, task, nextId, worker, lock, todo, pick,
                  request, audit, requests, sweeps, ghosts, faults, cancels, interrupted>>
  BY DEF JanitorTasks, rowVars, taskVars, chainVars, userVars, lossVars
<1>2. PICK stale : stale = {i \in TaskIds : task[i].st \in NonTerminal} \ janitor.live
  OBVIOUS
<1>3. PICK mods : mods = {ModuleOf(i) : i \in stale} \cap Rows
  OBVIOUS
<1>4. PICK stuck : stuck = {m \in mods : status[m] = "destroying"}
  OBVIOUS
<1>5. janitor' = [janitor EXCEPT !.pc = "redrive", !.stale = stale, !.redrive = mods,
                                 !.stuck = stuck]
  BY <1>2, <1>3, <1>4 DEF JanitorTasks
<1>6. stale \in SUBSET TaskIds /\ mods \in SUBSET Modules /\ stuck \in SUBSET Modules
  BY <1>2, <1>3, <1>4 DEF Rows
<1>7. /\ janitor' \in Passes /\ janitor'.pc = "redrive"
      /\ janitor'.stale = stale /\ janitor'.redrive = mods
  BY <1>5, <1>6, UserTypes DEF Passes
<1>8. PassGoes
  <2>1. \A i \in stale : task[i].st # "none"
    BY <1>2 DEF NonTerminal
  <2>2. ASSUME NEW m \in mods
        PROVE  TasksOf(m) # {}
    <3>1. PICK i \in stale : m = ModuleOf(i)
      BY <1>3
    <3>2. QED
      BY <1>6, <3>1 DEF ModuleOf, TasksOf
  <2>3. QED
    BY <1>7, <2>1, <2>2 DEF PassGoes
<1>9. Shrinks
  BY <1>1, SameOwed
<1>10. Seen'
  BY <1>1, <1>9, SeenKept
<1>11. QED
  BY <1>1, <1>7, <1>8, <1>10, Types, UserTypes, QuietInv

(* The janitor fails rows that exist. *)
LEMMA FailStaleGoes ==
  ASSUME DestroyInv, FailStale \/ UNCHANGED task, UNCHANGED <<nextId, worker>>
  PROVE  RowsGo /\ task' \in [TaskIds -> TaskRows]
<1> USE DEF DestroyInv
<1>1. CASE UNCHANGED task
  BY <1>1, SameRows, UserTypes
<1>2. CASE FailStale
  <2>1. ASSUME NEW i \in TaskIds
        PROVE  Goes(i) /\ task'[i] \in TaskRows
    <3>1. task[i] \in TaskRows /\ (worker'[i] # "none" => task[i].st # "none")
      BY UserTypes DEF RowInv
    <3>2. CASE i \in janitor.stale
      <4>1. task'[i] = [task[i] EXCEPT !.st = "failed"]
        BY <1>2, <3>2 DEF FailStale
      <4>2. /\ task'[i] \in TaskRows /\ task'[i].module = task[i].module
            /\ task'[i].st = "failed" /\ task'[i].scope = task[i].scope
        BY <3>1, <4>1 DEF TaskRows, TaskStatuses
      <4>3. task[i].st # "none"
        BY <3>2 DEF JanitorInv
      <4>4. QED
        BY <3>1, <4>2, <4>3 DEF Goes
    <3>3. CASE i \notin janitor.stale
      <4>1. task'[i] = task[i]
        BY <1>2, <3>3 DEF FailStale
      <4>2. QED
        BY <3>1, <4>1 DEF Goes
    <3>4. QED
      BY <3>2, <3>3
  <2>2. task' \in [TaskIds -> TaskRows]
    BY <1>2, <2>1 DEF FailStale
  <2>3. nextId <= nextId'
    BY BoundsAssumption DEF TypeOK
  <2>4. QED
    BY <2>1, <2>2, <2>3 DEF RowsGo
<1>3. QED
  BY <1>1, <1>2

(* Steps of the janitor that write rows. *)
LEMMA PassInv ==
  ASSUME DestroyInv, FailStale \/ UNCHANGED task,
         status' \in [Modules -> Statuses], stack' \in {stack, "failed"},
         \A m \in Modules : status'[m] \in {status[m], "destroy_failed"},
         todo' \in [Actors -> SUBSET Modules],
         pick' \in [Actors -> Modules \cup {NoModule}], PicksGo,
         janitor' \in Passes, PassGoes,
         UNCHANGED <<scope, infra, nextId, worker, lock, request, audit, requests, sweeps,
                     ghosts, faults, cancels, interrupted>>
  PROVE  DestroyInv'
<1> USE DEF DestroyInv
<1>1. RowsGo /\ task' \in [TaskIds -> TaskRows]
  BY FailStaleGoes
<1>2. Shrinks /\ Owed' = Owed
  BY SameOwed, OwedSame
<1>3. Seen'
  BY <1>2, OwedHas, SeenKept
<1>4. stack' \in StackStatuses
  BY Types DEF StackStatuses
<1>5. TypeOK'
  BY <1>1, <1>4 DEF TypeOK
<1>6. QED
  BY <1>1, <1>2, <1>3, <1>5, Kept

LEMMA JanitorRedriveInv ==
  ASSUME DestroyInv, NEW m \in Modules, JanitorRedrive(m)
  PROVE  DestroyInv'
<1> USE DEF DestroyInv
<1>1. /\ m \in janitor.redrive /\ PicksGo
      /\ UNCHANGED <<stack, scope, infra, nextId, worker, lock, pick, request, audit,
                     requests, sweeps, ghosts, faults, cancels, interrupted>>
  BY SamePicks DEF JanitorRedrive, userVars, lossVars
<1>2. CASE m \in Rows
  <2>1. /\ FailStale
        /\ \/ status' = [status EXCEPT ![m] = "destroy_failed"]
           \/ status' = status
        /\ janitor' = [janitor EXCEPT !.pc = "trigger", !.mod = m, !.redrive = @ \ {m},
                                      !.stale = {}, !.stuck = {}]
        /\ \/ todo' = [todo EXCEPT ![Janitor] = {}]
           \/ todo' = [todo EXCEPT ![Janitor] = Deps[m]]
    BY <1>2 DEF JanitorRedrive
  <2>2. /\ status' \in [Modules -> Statuses]
        /\ \A k \in Modules : status'[k] \in {status[k], "destroy_failed"}
    BY <2>1, Types, Constants
  <2>3. todo' \in [Actors -> SUBSET Modules]
    <3>1. Deps[m] \in SUBSET Modules /\ Janitor \in Actors
      BY ModulesAssumption DEF Actors
    <3>2. QED
      BY <2>1, <3>1, Types
  <2>4. PICK left \in SUBSET Modules : left = janitor.redrive \ {m}
    BY UserTypes DEF Passes
  <2>5. janitor' = [janitor EXCEPT !.pc = "trigger", !.mod = m, !.redrive = left,
                                   !.stale = {}, !.stuck = {}]
    BY <2>1, <2>4
  <2>6. /\ janitor' \in Passes /\ janitor'.pc = "trigger" /\ janitor'.mod = m
        /\ janitor'.redrive = left /\ janitor'.stale = {}
    BY <2>5, UserTypes DEF Passes
  <2>7. PassGoes
    BY <1>1, <2>4, <2>6 DEF PassGoes, JanitorInv
  <2>8. QED
    BY <1>1, <2>1, <2>2, <2>3, <2>6, <2>7, Types, PassInv
<1>3. CASE m \notin Rows
  <2>1. janitor' = AtRest /\ (FailStale \/ UNCHANGED task) /\ UNCHANGED <<status, todo>>
    BY <1>3 DEF JanitorRedrive
  <2>2. janitor' \in Passes /\ PassGoes
    BY <2>1, AtRestType DEF PassGoes
  <2>3. QED
    BY <1>1, <2>1, <2>2, Types, PassInv
<1>4. QED
  BY <1>2, <1>3

LEMMA JanitorVanishedInv ==
  ASSUME DestroyInv, JanitorVanished
  PROVE  DestroyInv'
<1> USE DEF DestroyInv
<1>1. /\ janitor' = [janitor EXCEPT !.pc = "redrive", !.mod = NoModule]
      /\ todo' = [todo EXCEPT ![Janitor] = {}] /\ pick' = [pick EXCEPT ![Janitor] = NoModule]
      /\ UNCHANGED <<status, stack, scope, infra, task, nextId, worker, lock, request, audit,
                     requests, sweeps, ghosts, faults, cancels, interrupted>>
  BY DEF JanitorVanished, rowVars, taskVars, userVars, lossVars
<1>2. /\ todo' \in [Actors -> SUBSET Modules]
      /\ pick' \in [Actors -> Modules \cup {NoModule}] /\ PicksGo
  BY <1>1, HookFields DEF Actors
<1>3. /\ janitor' \in Passes /\ janitor'.pc = "redrive"
      /\ janitor'.stale = janitor.stale /\ janitor'.redrive = janitor.redrive
  BY <1>1, UserTypes DEF Passes
<1>4. PassGoes
  BY <1>3 DEF PassGoes, JanitorInv
<1>5. QED
  BY <1>1, <1>2, <1>3, <1>4, Types, PassInv

LEMMA JanitorStacksInv ==
  ASSUME DestroyInv, JanitorStacks
  PROVE  DestroyInv'
<1>1. /\ janitor' = AtRest /\ FailStale /\ stack' \in {stack, "failed"} /\ PicksGo
      /\ UNCHANGED <<status, scope, infra, nextId, worker, lock, todo, pick, request, audit,
                     requests, sweeps, ghosts, faults, cancels, interrupted>>
  BY SamePicks DEF JanitorStacks, chainVars, userVars, lossVars
<1>2. janitor' \in Passes /\ PassGoes
  BY <1>1, AtRestType DEF PassGoes
<1>3. QED
  BY <1>1, <1>2, Types, PassInv

-----------------------------------------------------------------------------
(* Before the first request nothing has been torn down. *)
LEMMA InitInv == Init => DestroyInv
<1> SUFFICES ASSUME Init PROVE DestroyInv
  OBVIOUS
<1>1. \A i \in TaskIds :
        /\ task[i].module = NoModule /\ task[i].scope = "stack" /\ task[i].st = "none"
        /\ task[i] \in TaskRows
  BY DEF Init, TaskRows, Scopes, TaskStatuses
<1>2. \A m \in Modules :
        /\ status[m] \in {"applied", "apply_failed", "initialized"}
        /\ infra[m] = (status[m] # "initialized")
  BY DEF Init
<1>3. janitor \in Passes /\ janitor.pc = "idle" /\ janitor.stale = {} /\ janitor.redrive = {}
  BY AtRestType DEF Init
<1>4. stack \in {"failed", "deployed", "pending"} /\ scope = Modules
  BY DEF Init
<1>5. /\ lock \in [Modules -> -MaxTasks .. MaxTasks] /\ nextId \in 1 .. MaxTasks + 1
      /\ requests \in 0 .. MaxRequests /\ faults \in 0 .. MaxFaults
      /\ cancels \in 0 .. MaxCancels /\ sweeps \in 0 .. MaxSweeps
  BY BoundsAssumption DEF Init
<1>6. /\ status \in [Modules -> Statuses] /\ infra \in [Modules -> BOOLEAN]
      /\ stack \in StackStatuses /\ task \in [TaskIds -> TaskRows]
  <2>1. status \in [Modules -> Statuses]
    BY DEF Init, Statuses
  <2>2. infra \in [Modules -> BOOLEAN]
    BY DEF Init
  <2>3. stack \in StackStatuses
    BY <1>4 DEF StackStatuses
  <2>4. task \in [TaskIds -> TaskRows]
    BY <1>1 DEF Init
  <2>5. QED
    BY <2>1, <2>2, <2>3, <2>4
<1>7. TypeOK
  BY <1>3, <1>4, <1>5, <1>6 DEF TypeOK, Init, PCs
<1>8. RowInv /\ OutcomeInv /\ TurnInv
  BY <1>1 DEF RowInv, OutcomeInv, TurnInv, Init
<1>9. JanitorInv
  BY <1>3 DEF JanitorInv
<1>10. ScopeInv /\ InfraAccounted
  BY <1>2, <1>4 DEF ScopeInv, InfraAccounted, NO_INFRA_STATUSES
<1>11. QED
  BY <1>7, <1>8, <1>9, <1>10 DEF DestroyInv

LEMMA StutterInv ==
  ASSUME DestroyInv, UNCHANGED vars
  PROVE  DestroyInv'
<1>1. UNCHANGED <<status, stack, scope, infra, task, nextId, worker, lock, todo, pick,
                  request, audit, requests, janitor, sweeps, ghosts, faults, cancels,
                  interrupted>>
  BY DEF vars, rowVars, taskVars, chainVars, userVars, sweepVars, lossVars
<1>2. Shrinks /\ PassGoes
  BY <1>1, SameOwed, SamePass DEF DestroyInv
<1>3. Seen'
  BY <1>1, <1>2, SeenKept
<1>4. QED
  BY <1>1, <1>2, <1>3, Types, UserTypes, QuietInv

(* Every step keeps the invariant. *)
LEMMA StepInv ==
  ASSUME DestroyInv, [Next]_vars
  PROVE  DestroyInv'
<1>1. CASE \E i \in TaskIds : Worker(i) \/ Crash(i)
  <2>1. PICK i \in TaskIds : Worker(i) \/ Crash(i)
    BY <1>1
  <2>2. CASE Start(i) \/ StartEarly(i) \/ Acquire(i)
    BY <2>2, StartInv, StartEarlyInv, AcquireInv
  <2>3. CASE LockTimeout(i) \/ Raised(i)
    <3>1. worker[i] # "none" /\ Handler(i) /\ UNCHANGED infra
      BY <2>3 DEF LockTimeout, Raised
    <3>2. QED
      BY <3>1, HandlerInv
  <2>4. CASE DestroyOk(i) \/ DestroyFail(i) \/ InitFail(i) \/ Exception(i)
    BY <2>4, DestroyOkInv, FailInv
  <2>5. CASE UpdateStack(i) \/ RowVanished(i) \/ Crash(i)
    BY <2>5, UpdateStackInv, VanishInv, CrashInv
  <2>6. QED
    BY <2>1, <2>2, <2>3, <2>4, <2>5 DEF Worker
<1>2. CASE \E a \in Actors : Hook(a)
  <2>1. PICK a \in Actors : Hook(a)
    BY <1>2
  <2>2. CASE \E d \in Modules : TriggerRead(a, d)
    BY <2>2, TriggerReadInv
  <2>3. CASE TriggerCommit(a) \/ TriggerError(a) \/ Detect(a)
    BY <2>3, TriggerCommitInv, TriggerErrorInv, DetectInv
  <2>4. QED
    BY <2>1, <2>2, <2>3 DEF Hook
<1>3. CASE JanitorPass
  <2>1. CASE \E m \in Modules : JanitorRedrive(m)
    BY <2>1, JanitorRedriveInv
  <2>2. CASE JanitorBegin \/ JanitorTasks \/ JanitorVanished \/ JanitorStacks
    BY <2>2, JanitorBeginInv, JanitorTasksInv, JanitorVanishedInv, JanitorStacksInv
  <2>3. QED
    BY <1>3, <2>1, <2>2 DEF JanitorPass
<1>4. CASE User
  <2>1. CASE DestroyStack \/ StackWave \/ DestroyAll \/ ProjectWave \/ PollStack
    BY <2>1, DestroyStackInv, StackWaveInv, DestroyAllInv, ProjectWaveInv, PollInv
  <2>2. CASE \E m \in Modules : DestroyModule(m) \/ Audit(m) \/ CancelOperation(m)
    BY <2>2, DestroyModuleInv, AuditInv, CancelOperationInv
  <2>3. CASE \E i \in TaskIds : CancelTask(i)
    BY <2>3, CancelTaskInv
  <2>4. QED
    BY <1>4, <2>1, <2>2, <2>3 DEF User
<1>5. CASE UNCHANGED vars
  BY <1>5, StutterInv
<1>6. QED
  BY <1>1, <1>2, <1>3, <1>4, <1>5 DEF Next

(* The inductive invariant holds in every state the teardown can reach. *)
THEOREM DestroyInvariant == Spec => []DestroyInv
<1>1. Init => DestroyInv
  BY InitInv
<1>2. DestroyInv /\ [Next]_vars => DestroyInv'
  BY StepInv
<1>3. QED
  BY <1>1, <1>2, PTL DEF Spec

(* Every row keeps a status of its own enumeration, every actor a known pc:
   in particular the BUG-009 and BUG-008 recoveries, the reconcile of
   _run_terminal_detection_project and the janitor write module statuses. *)
THEOREM TypeCorrect == Spec => []TypeOK
<1>1. DestroyInv => TypeOK
  BY DEF DestroyInv
<1>2. QED
  BY <1>1, DestroyInvariant, PTL

(* No module is written off while its resources exist: update_stack_progress,
   destroy_stack, _finalize_destroy and the terminal detections, under every
   interleaving with workers, redeliveries, cancellations and the janitor. *)
THEOREM InfraAccountedSafety == Spec => []InfraAccounted
<1>1. DestroyInv => InfraAccounted
  BY DEF DestroyInv
<1>2. QED
  BY <1>1, DestroyInvariant, PTL

(* A stack or project run works on a module only when nothing that depends on
   it has resources left: the first waves and the barrier of
   _trigger_next_destroy_module, whatever was redelivered or re-driven. *)
THEOREM TeardownOrderSafety == Spec => []TeardownOrder
<1>1. ASSUME DestroyInv PROVE TeardownOrder
  <2>1. ASSUME NEW i \in TaskIds, worker[i] = "body", task[i].scope # "module"
        PROVE  Clear(ModuleOf(i))
    <3>1. task[i].st # "none"
      BY <1>1, <2>1 DEF DestroyInv, RowInv
    <3>2. QED
      BY <1>1, <2>1, <3>1 DEF DestroyInv, TurnInv, ModuleOf
  <2>2. QED
    BY <2>1 DEF TeardownOrder, Clear
<1>2. DestroyInv => TeardownOrder
  BY <1>1
<1>3. QED
  BY <1>2, DestroyInvariant, PTL

-----------------------------------------------------------------------------
(* The refinement. What is owed is what the abstract teardown calls owed. *)
LEMMA SameOwing == Abstract!Owed = Owed
  BY DEF Abstract!Owed, Owed

(* A step that leaves resources and exceptions alone is a report: the invariant
   of the next state says that it is true. *)
LEMMA Reports ==
  ASSUME DestroyInv', UNCHANGED <<infra, interrupted>>
  PROVE  Abstract!Next
<1> DEFINE ms == {m \in Modules : status'[m] \in NO_INFRA_STATUSES \cup {"gone"}}
           c == stack' \in {"destroyed", "gone"}
<1>1. Owed' = Owed
  BY OwedSame
<1>2. \A m \in Owed : m \notin ms /\ ~c
  BY <1>1 DEF DestroyInv, InfraAccounted, Owed
<1>3. ms \cap Abstract!Owed = {} /\ (c => Abstract!Owed = {})
  BY <1>2, SameOwing
<1>4. ms \in SUBSET Modules
  OBVIOUS
<1>5. (c => Abstract!Report(ms, TRUE)) /\ (~c => Abstract!Report(ms, FALSE))
  BY <1>3 DEF Abstract!Report, Excused
<1> HIDE DEF ms, c
<1>6. \E x \in SUBSET Modules, b \in BOOLEAN : Abstract!Report(x, b)
  BY <1>4, <1>5, Zenon
<1>7. QED
  BY <1>6 DEF Abstract!Next

(* A cancellation is an interruption. *)
LEMMA Interrupts ==
  ASSUME DestroyInv, NEW m \in Modules, UNCHANGED <<infra, stack>>,
         interrupted' = interrupted \cup {m},
         \/ status' = status
         \/ /\ status[m] = "destroying"
            /\ \E s \in {"initialized", "applied"} : status' = [status EXCEPT ![m] = s]
  PROVE  Abstract!Next
<1> DEFINE off == {k \in Modules : status[k] \in NO_INFRA_STATUSES \cup {"gone"}}
<1>1. status \in [Modules -> Statuses]
  BY Types
<1>2. /\ status[m] = "destroying" => m \notin off
      /\ "applied" \notin NO_INFRA_STATUSES \cup {"gone"}
      /\ "initialized" \in NO_INFRA_STATUSES
  BY DEF NO_INFRA_STATUSES
<1>3. {k \in Modules : status'[k] \in NO_INFRA_STATUSES \cup {"gone"}}
        \in {off, off \cup {m}}
  <2>1. CASE status' = status
    BY <2>1
  <2>2. CASE status[m] = "destroying" /\ status' = [status EXCEPT ![m] = "initialized"]
    BY <1>1, <1>2, <2>2
  <2>3. CASE status[m] = "destroying" /\ status' = [status EXCEPT ![m] = "applied"]
    BY <1>1, <1>2, <2>3
  <2>4. QED
    BY <2>1, <2>2, <2>3
<1>4. Abstract!Interrupt(m)
  BY <1>3 DEF Abstract!Interrupt, Excused
<1>5. QED
  BY <1>4 DEF Abstract!Next

(* A destroy that succeeds comes in turn, or was asked for alone. *)
LEMMA Destroys ==
  ASSUME DestroyInv, DestroyInv', NEW i \in TaskIds, DestroyOk(i)
  PROVE  Abstract!Next
<1>1. /\ worker[i] # "none" /\ SetStatus(ModuleOf(i), "destroyed")
      /\ infra' = [infra EXCEPT ![ModuleOf(i)] = FALSE]
      /\ UNCHANGED <<stack, interrupted>>
  BY DEF DestroyOk, HoldsModule, lossVars
<1>2. PICK m \in Modules : m = ModuleOf(i)
  BY <1>1, WorkerHas
<1>3. /\ \A k \in Modules : infra'[k] = (infra[k] /\ k # m)
      /\ infra \in [Modules -> BOOLEAN] /\ infra' = [infra EXCEPT ![m] = FALSE]
  BY <1>1, <1>2, Types
<1>4. CASE ~infra[m]
  <2>1. infra' = infra
    BY <1>3, <1>4
  <2>2. QED
    BY <1>1, <2>1, Reports
<1>5. CASE infra[m]
  <2>1. \A k \in Modules : status'[k] = IF k = m THEN "destroyed" ELSE status[k]
    BY <1>1, <1>2, Types DEF SetStatus
  <2>2. Abstract!InTurn(m)
    <3>1. task[i].st # "none"
      BY <1>1, WorkerHas
    <3>2. CASE task[i].scope = "module"
      <4>1. "module" \in Requests
        BY <3>1, <3>2 DEF DestroyInv, RowInv
      <4>2. QED
        BY <4>1 DEF Abstract!InTurn
    <3>3. CASE task[i].scope # "module"
      <4>1. Clear(m)
        BY <1>2, <3>1, <3>3 DEF DestroyInv, TurnInv, ModuleOf
      <4>2. \A x \in Abstract!Owed : m \notin Deps[x]
        BY <4>1, ClearIs, SameOwing
      <4>3. QED
        BY <4>2 DEF Abstract!InTurn
    <3>4. QED
      BY <3>2, <3>3
  <2>3. {k \in Modules : infra'[k]} = {k \in Modules : infra[k]} \ {m}
    BY <1>3
  <2>4. {k \in Modules : status'[k] \in NO_INFRA_STATUSES \cup {"gone"}} =
          {k \in Modules : status[k] \in NO_INFRA_STATUSES \cup {"gone"}} \cup {m}
    BY <2>1 DEF NO_INFRA_STATUSES
  <2>5. Abstract!Destroy(m)
    BY <1>1, <1>5, <2>2, <2>3, <2>4 DEF Abstract!Destroy, Excused
  <2>6. QED
    BY <2>5 DEF Abstract!Next
<1>6. QED
  BY <1>4, <1>5

(* Every other step writes neither resources nor exceptions. *)
LEMMA OnlyReports ==
  ASSUME [Next]_vars, \A i \in TaskIds : ~DestroyOk(i) /\ ~CancelTask(i),
         \A m \in Modules : ~CancelOperation(m)
  PROVE  UNCHANGED <<infra, interrupted>>
<1>1. ASSUME NEW i \in TaskIds, Worker(i) \/ Crash(i)
      PROVE  UNCHANGED <<infra, interrupted>>
  BY <1>1 DEF Worker, Crash, Start, StartEarly, Acquire, LockTimeout, Raised, Handler,
              DestroyFail, InitFail, Exception, UpdateStack, RowVanished, lossVars
<1>2. ASSUME NEW a \in Actors, Hook(a)
      PROVE  UNCHANGED <<infra, interrupted>>
  BY <1>2 DEF Hook, TriggerRead, TriggerCommit, TriggerError, Detect, lossVars
<1>3. ASSUME JanitorPass
      PROVE  UNCHANGED <<infra, interrupted>>
  BY <1>3 DEF JanitorPass, JanitorBegin, JanitorTasks, JanitorVanished, JanitorStacks,
              JanitorRedrive, lossVars
<1>4. ASSUME User
      PROVE  UNCHANGED <<infra, interrupted>>
  BY <1>4 DEF User, DestroyStack, StackWave, DestroyAll, ProjectWave, PollStack,
              DestroyModule, Audit, lossVars
<1>5. UNCHANGED vars => UNCHANGED <<infra, interrupted>>
  BY DEF vars, lossVars
<1>6. QED
  BY <1>1, <1>2, <1>3, <1>4, <1>5 DEF Next

(* The chain implements the abstract teardown: whatever workers, hooks,
   requests, cancellations, polls and the janitor do, resources go in
   dependency order, and what rows and stack report as gone is gone. *)
THEOREM Refinement == Spec => ImplementsTeardown
<1>1. Init => Abstract!Init
  <2> SUFFICES ASSUME Init PROVE Abstract!Init
    OBVIOUS
  <2>1. \A m \in Modules :
          /\ infra[m] = (status[m] # "initialized")
          /\ status[m] \in NO_INFRA_STATUSES \cup {"gone"} <=> status[m] = "initialized"
    BY DEF Init, NO_INFRA_STATUSES
  <2>2. Excused \subseteq Modules
    BY ModulesAssumption DEF Init, Excused
  <2>3. stack \notin {"destroyed", "gone"}
    BY DEF Init
  <2>4. {m \in Modules : status[m] \in NO_INFRA_STATUSES \cup {"gone"}} =
          Modules \ {m \in Modules : infra[m]}
    BY <2>1
  <2>5. QED
    BY <2>2, <2>3, <2>4 DEF Abstract!Init
<1>2. DestroyInv /\ DestroyInv' /\ [Next]_vars => [Abstract!Next]_Abstract!vars
  <2> SUFFICES ASSUME DestroyInv, DestroyInv', [Next]_vars
               PROVE  Abstract!Next
    OBVIOUS
  <2>1. ASSUME NEW i \in TaskIds, DestroyOk(i)
        PROVE  Abstract!Next
    BY <2>1, Destroys
  <2>2. ASSUME NEW i \in TaskIds, CancelTask(i)
        PROVE  Abstract!Next
    <3>1. ModuleOf(i) \in Modules
      BY <2>2, HasModule DEF CancelTask, NonTerminal, DestroyInv
    <3>2. QED
      BY <2>2, <3>1, Interrupts DEF CancelTask
  <2>3. ASSUME NEW m \in Modules, CancelOperation(m)
        PROVE  Abstract!Next
    <3>1. /\ interrupted' = interrupted \cup {m} /\ UNCHANGED <<infra, stack>>
          /\ status' = IF status[m] = "destroying"
                         THEN [status EXCEPT ![m] = "applied"] ELSE status
      BY <2>3 DEF CancelOperation
    <3>2. QED
      BY <3>1, Interrupts
  <2>4. QED
    BY <2>1, <2>2, <2>3, OnlyReports, Reports
<1>3. QED
  BY <1>1, <1>2, DestroyInvariant, PTL
  DEF Spec, ImplementsTeardown, Abstract!Spec

=============================================================================
