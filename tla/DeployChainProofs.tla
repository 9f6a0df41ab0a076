--------------------------- MODULE DeployChainProofs ---------------------------
(***************************************************************************)
(* Proofs about DeployChain, for every dependency graph, every start and   *)
(* every number of tasks, requests and faults.                             *)
(***************************************************************************)
EXTENDS DeployChain, WellFoundedInduction, TLAPS

(* The API is not a task; the task ids are the numbers up to the bound. *)
LEMMA Ids ==
  /\ API \notin TaskIds /\ Sessions = TaskIds \cup {API}
  /\ TaskIds \subseteq Nat
  /\ \A n \in Nat : n > 0 /\ n <= MaxTasks <=> n \in TaskIds
  BY DeployAssumption DEF API, TaskIds, Sessions

(* What the type invariant says of a task. *)
LEMMA TaskTypes ==
  ASSUME TypeOK, NEW k \in TaskIds
  PROVE  /\ task[k].mod \in Modules /\ Deps[task[k].mod] \subseteq Modules
         /\ task[k].kind \in {"init", "init_only", "apply"}
         /\ task[k].row \in Rows /\ task[k].pc \in PCs
         /\ task[k].seen \in Statuses \cup {"none"}
  BY DeployAssumption DEF TypeOK, TaskRecords, Rows, PCs

(* Task k goes on to pc with its row as given; the other tasks stay. *)
Moves(k, row, pc) ==
  /\ task' \in [TaskIds -> TaskRecords]
  /\ \A j \in TaskIds : j # k => task'[j] = task[j]
  /\ task'[k].mod = task[k].mod /\ task'[k].kind = task[k].kind
  /\ task'[k].row = row /\ task'[k].pc = pc

(* A write of row, pc and what was read moves the task and nothing else. *)
LEMMA RowMoves ==
  ASSUME TypeOK, NEW k \in TaskIds, NEW row \in Rows, NEW pc \in PCs,
         NEW seen \in Statuses \cup {"none"},
         task' = [task EXCEPT ![k].row = row, ![k].pc = pc, ![k].seen = seen]
  PROVE  Moves(k, row, pc)
  BY ZenonT(60) DEF TypeOK, TaskRecords, Moves

(* The fields of a task that has not been created. *)
LEMMA NoTaskFields ==
  NoTask.pc = "none" /\ NoTask.row = "none" /\ NoTask.kind = "init"
  BY DEF NoTask

(* A task that does something has been created. *)
LEMMA MovesFresh ==
  ASSUME FreshInv, NEW k \in TaskIds, NEW row, NEW pc, Moves(k, row, pc),
         task[k].pc # "none", nextTask' = nextTask
  PROVE  FreshInv'
<1>1. ~(k >= nextTask)
  BY NoTaskFields DEF FreshInv
<1>2. QED
  BY <1>1 DEF Moves, FreshInv

(* The lock stays with its task as long as that holds it. *)
LEMMA LockKept ==
  ASSUME TypeOK, LockInv, UNCHANGED lock,
         \A j \in TaskIds :
           \/ task'[j] = task[j]
           \/ task'[j].mod = task[j].mod /\ {task[j].pc, task'[j].pc} \subseteq Holding
           \/ task[j].pc \notin Holding /\ task'[j].pc \notin Holding
  PROVE  LockInv'
<1>1. ASSUME NEW m \in Modules, lock[m] # 0
      PROVE  task'[lock[m]].mod = m /\ task'[lock[m]].pc \in Holding
  <2>1. lock[m] \in TaskIds
    BY <1>1, Ids DEF TypeOK, API
  <2>2. task[lock[m]].mod = m /\ task[lock[m]].pc \in Holding
    BY <1>1 DEF LockInv
  <2>3. QED
    BY <2>1, <2>2
<1>2. ASSUME NEW j \in TaskIds, task'[j].pc \in Holding
      PROVE  lock[task'[j].mod] = j
  BY <1>2 DEF LockInv
<1>3. QED
  BY <1>1, <1>2 DEF LockInv

(* No session has the row of task k among those it has not committed, and  *)
(* its own dispatcher does not run.                                        *)
Uninvolved(k) == disp[k].pc = "idle" /\ \A d \in Sessions : k \notin disp[d].pend

(* What a session is about to commit stays valid while its tasks stay. *)
LEMMA SessionKept ==
  ASSUME TypeOK, SessionInv, UNCHANGED disp, lost => lost',
         \A j \in TaskIds : task'[j] = task[j] \/ Uninvolved(j)
  PROVE  SessionInv'
<1>1. ASSUME NEW d \in Sessions
      PROVE  /\ disp[d].pc = "idle" => disp[d] = Idle
             /\ d # API /\ disp[d].pc = "loop" => task'[d].pc = "hook"
  BY Ids DEF SessionInv, Uninvolved
<1>2. ASSUME NEW d \in Sessions, NEW k \in disp[d].pend
      PROVE  /\ task'[k].row = "unseen" /\ task'[k].kind # "init_only"
             /\ task'[k].pc = "sent" \/ (task'[k].pc = "over" /\ lost')
  <2>1. k \in TaskIds /\ ~Uninvolved(k)
    BY DEF TypeOK, Dispatchers, Uninvolved
  <2>2. QED
    BY <2>1 DEF SessionInv
<1>3. QED
  BY <1>1, <1>2 DEF SessionInv

(* No session is about to send a task that does not exist. *)
LEMMA NewUninvolved ==
  ASSUME TypeOK, SessionInv, NEW k \in TaskIds, task[k] = NoTask
  PROVE  Uninvolved(k)
  BY NoTaskFields, Ids DEF SessionInv, Uninvolved, TypeOK, Dispatchers

(* A module that is still waiting after a step waited before it, when the  *)
(* step makes no module applied or waiting and creates no task.            *)
LEMMA WaitedBefore ==
  ASSUME TypeOK, WaitInv, ~lost, NEW m \in Modules, Deps[m] # {},
         DepsApplied(m)', ~OnlyInit(m)', status'[m] \in Waiting,
         \A n \in Modules : status'[n] \in Waiting \cup {"applied"}
                              => status[n] = status'[n],
         OnlyInit(m) => OnlyInit(m)'
  PROVE  \E j \in TaskIds : MovesOn(j, m)
<1>1. DepsApplied(m)
  BY DeployAssumption DEF DepsApplied
<1>2. status[m] \in Waiting
  OBVIOUS
<1>3. QED
  BY <1>1, <1>2 DEF WaitInv

(* A task of module m is created; the other tasks stay. *)
Creates(m, kind, row, pc) ==
  /\ nextTask \in TaskIds /\ nextTask' = nextTask + 1
  /\ task[nextTask] = NoTask
  /\ task' \in [TaskIds -> TaskRecords]
  /\ \A j \in TaskIds : j # nextTask => task'[j] = task[j]
  /\ task'[nextTask].mod = m /\ task'[nextTask].kind = kind
  /\ task'[nextTask].row = row /\ task'[nextTask].pc = pc

(* A write of the next task record creates a task. *)
LEMMA NewCreates ==
  ASSUME TypeOK, FreshInv, NEW m \in Modules,
         NEW kind \in {"init", "init_only", "apply"}, NEW row \in Rows,
         NEW pc \in PCs, nextTask <= MaxTasks, nextTask' = nextTask + 1,
         task' = [task EXCEPT ![nextTask] =
                    [mod |-> m, kind |-> kind, row |-> row, pc |-> pc,
                     seen |-> "none"]]
  PROVE  Creates(m, kind, row, pc) /\ nextTask' \in 1 .. MaxTasks + 1
<1>1. nextTask \in TaskIds /\ nextTask' \in 1 .. MaxTasks + 1
  BY DeployAssumption DEF TypeOK, TaskIds
<1>2. task[nextTask] = NoTask
  BY <1>1, Ids DEF TypeOK, FreshInv
<1>3. task'[nextTask] = [mod |-> m, kind |-> kind, row |-> row, pc |-> pc,
                         seen |-> "none"]
  BY <1>1 DEF TypeOK
<1>4. task'[nextTask] \in TaskRecords
  BY <1>3 DEF TaskRecords, Rows, PCs
<1>5. task' \in [TaskIds -> TaskRecords]
  BY <1>1, <1>4 DEF TypeOK
<1>6. \A j \in TaskIds : j # nextTask => task'[j] = task[j]
  BY DEF TypeOK
<1>7. QED
  BY <1>1, <1>2, <1>3, <1>5, <1>6 DEF Creates

(* After a creation the tasks beyond the counter are still unused. *)
LEMMA CreatesFresh ==
  ASSUME TypeOK, FreshInv, NEW m, NEW kind, NEW row, NEW pc,
         Creates(m, kind, row, pc)
  PROVE  FreshInv'
<1>1. nextTask \in Nat
  BY DEF TypeOK
<1>2. ASSUME NEW k \in TaskIds, k >= nextTask'
      PROVE  k # nextTask /\ k >= nextTask
  BY <1>1, <1>2, Ids DEF Creates
<1>3. QED
  BY <1>2 DEF Creates, FreshInv

(* The module that the dispatcher takes next is one of those left over: a  *)
(* set of numbers has a least element.                                     *)
LEMMA FirstOfTodo ==
  ASSUME TypeOK, NEW d \in Sessions, At(d)
  PROVE  First(d) \in disp[d].todo
<1> DEFINE todo == disp[d].todo
           mods == {x[1] : x \in todo}
<1>1. todo \subseteq Modules \X {"init", "apply"} /\ todo # {}
  BY DEF TypeOK, Dispatchers, At
<1>2. mods \subseteq Nat /\ mods # {}
  <2>1. \A x \in todo : x[1] \in Nat
    BY <1>1, DeployAssumption
  <2>2. QED
    BY <1>1, <2>1
<1>3. PICK i \in mods : \A j \in mods : <<j, i>> \notin OpToRel(<, Nat)
  <2> HIDE DEF mods
  <2>1. QED
    BY <1>2, NatLessThanWellFounded, WFMin
<1>4. \A j \in mods : ~(j < i)
  BY <1>2, <1>3 DEF OpToRel
<1>5. PICK x \in todo : x[1] = i
  BY <1>3
<1>6. \A y \in todo : x[1] <= y[1]
  BY <1>2, <1>4, <1>5, SMTT(30)
<1>7. QED
  BY <1>6 DEF First

(* Before the first request nothing is under way. *)
LEMMA InitInv == Init => DeployInv
<1> SUFFICES ASSUME Init PROVE DeployInv
  OBVIOUS
<1> USE DeployAssumption, StartAssumption DEF Init
<1>1. status \in [Modules -> Statuses \ Transitional]
  OBVIOUS
<1>2. NoTask \in TaskRecords /\ Idle \in Dispatchers
  BY DEF NoTask, Idle, TaskRecords, Dispatchers, Open, Running, Rows, PCs
<1>3. 0 \in Sessions /\ 1 \in 1 .. MaxTasks + 1
  BY DEF Sessions
<1>4. TypeOK
  <2>1. status \in [Modules -> Statuses] /\ built \subseteq Modules
    BY <1>1
  <2>2. lock \in [Modules -> Sessions] /\ task \in [TaskIds -> TaskRecords]
        /\ disp \in [Sessions -> Dispatchers]
    BY <1>2, <1>3
  <2>3. /\ changed \subseteq Modules /\ nextTask \in 1 .. MaxTasks + 1
        /\ faults \in 0 .. MaxFaults /\ requests \in 0 .. MaxRequests
        /\ marks \subseteq [task : TaskIds, to : Transitional, blind : BOOLEAN]
    BY <1>3
  <2>4. lost \in BOOLEAN
    OBVIOUS
  <2>5. QED
    BY <2>1, <2>2, <2>3, <2>4 DEF TypeOK
<1>5. FreshInv /\ LockInv /\ SessionInv /\ RowInv
  BY DEF FreshInv, LockInv, SessionInv, RowInv, Open, Holding, NoTask, Idle
<1>6. BuiltInv
  BY DEF BuiltInv, BuildOrder, Existing, NoTask
<1>7. SettleInv
  BY <1>1 DEF SettleInv
<1>8. WaitInv
  BY DEF WaitInv, DepsApplied
<1>9. QED
  BY <1>4, <1>5, <1>6, <1>7, <1>8 DEF DeployInv

-------------------------------------------------------------------------------
(* Task k fails, before it asks for the lock or under it: row and module   *)
(* are marked, the lock is released.                                       *)
LEMMA FailInv ==
  ASSUME DeployInv, NEW k \in TaskIds,
         NEW to \in {"init_failed", "plan_failed", "apply_failed"},
         Row(k, "failed", "over"), SetStatus(task[k].mod, to),
         \/ task[k].pc = "locked" /\ Unlock(task[k].mod)
         \/ task[k].pc = "sent" /\ task[k].row # "unseen" /\ UNCHANGED lock,
         \/ built' = built
         \/ task[k].kind = "apply" /\ task[k].pc = "locked"
            /\ built' = built \cup {task[k].mod},
         UNCHANGED <<nextTask, disp, marks, requests, lost, changed>>,
         faults' \in 0 .. MaxFaults
  PROVE  DeployInv'
<1> USE DEF DeployInv
<1>1. Moves(k, "failed", "over")
  BY RowMoves DEF Row, Rows, PCs
<1>2. task[k].mod \in Modules /\ Deps[task[k].mod] \subseteq Modules
  BY TaskTypes
<1>3. /\ status' \in [Modules -> Statuses] /\ status'[task[k].mod] = to
      /\ \A m \in Modules : m # task[k].mod => status'[m] = status[m]
  BY <1>2 DEF SetStatus, TypeOK, Statuses, InitOutcomes, ApplyOutcomes
<1>4. /\ lock' \in [Modules -> Sessions] /\ lock'[task[k].mod] # k
      /\ \A m \in Modules : lock'[m] = lock[m] \/ (lock'[m] = 0 /\ lock[m] = k)
  <2>1. CASE UNCHANGED lock /\ task[k].pc = "sent"
    <3>1. lock[task[k].mod] # k
      BY <1>2, <2>1, Ids DEF LockInv, Holding, API
    <3>2. QED
      BY <2>1, <3>1 DEF TypeOK
  <2>2. CASE Unlock(task[k].mod) /\ task[k].pc = "locked"
    <3>1. lock[task[k].mod] = k /\ k # 0 /\ 0 \in Sessions
      BY <2>2, Ids DEF LockInv, Holding, API
    <3>2. QED
      BY <1>2, <2>2, <3>1 DEF Unlock, TypeOK
  <2>3. QED
    BY <2>1, <2>2
<1>5. TypeOK'
  BY <1>1, <1>2, <1>3, <1>4 DEF TypeOK, Moves
<1>6. FreshInv'
  BY <1>1, MovesFresh
<1>7. LockInv'
  <2>1. ASSUME NEW m \in Modules, lock'[m] # 0
        PROVE  /\ task'[lock'[m]].mod = m
               /\ task'[lock'[m]].pc \in Holding
    <3>1. lock'[m] = lock[m] /\ lock[m] \in TaskIds
      BY <1>4, <2>1, Ids DEF TypeOK, API
    <3>2. task[lock[m]].mod = m /\ lock[m] # k
      BY <1>4, <2>1, <3>1 DEF LockInv
    <3>3. QED
      BY <1>1, <2>1, <3>1, <3>2 DEF Moves, LockInv, Holding
  <2>2. ASSUME NEW j \in TaskIds, task'[j].pc \in Holding
        PROVE  lock'[task'[j].mod] = j
    <3>1. j # k /\ lock[task[j].mod] = j
      BY <1>1, <2>2 DEF Moves, LockInv, Holding
    <3>2. QED
      BY <1>1, <1>4, <3>1, TaskTypes DEF Moves
  <2>3. QED
    BY <2>1, <2>2 DEF LockInv
<1>8. SessionInv'
  <2>1. Uninvolved(k)
    BY Ids DEF Uninvolved, SessionInv, TypeOK, Dispatchers
  <2>2. QED
    BY <1>1, <2>1, SessionKept DEF Moves
<1>9. RowInv'
  BY <1>1 DEF Moves, RowInv, InFlight, Open
<1>10. BuiltInv'
  <2>1. task[k].kind = "apply" /\ task[k].pc = "locked"
          => Deps[task[k].mod] \subseteq built
    BY DEF BuiltInv
  <2>2. built \subseteq built' /\ BuildOrder'
    BY <2>1 DEF BuiltInv, BuildOrder
  <2>3. \A m \in Modules : status'[m] = "applied" => m \in built'
    BY <1>2, <1>3, <2>2 DEF BuiltInv
  <2>4. QED
    BY <1>1, <2>2, <2>3 DEF Moves, BuiltInv
<1>11. SettleInv'
  BY <1>1, <1>3 DEF Moves, SettleInv, InFlight, Transitional
<1>12. WaitInv'
  <2> SUFFICES ASSUME ~lost, NEW m \in Modules, Deps[m] # {}, DepsApplied(m)',
                      ~OnlyInit(m)', status'[m] \in Waiting
               PROVE  \E j \in TaskIds : MovesOn(j, m)'
    BY DEF WaitInv
  <2>1. m # task[k].mod /\ task[k].mod \notin Deps[m]
    BY <1>2, <1>3 DEF DepsApplied, Waiting
  <2>2. OnlyInit(m) => OnlyInit(m)'
    BY <1>1 DEF Moves, OnlyInit
  <2>3. \A n \in Modules : status'[n] \in Waiting \cup {"applied"}
                             => status[n] = status'[n]
    BY <1>3 DEF Waiting
  <2>4. PICK j \in TaskIds : MovesOn(j, m)
    BY <2>2, <2>3, WaitedBefore
  <2>5. j # k
    BY <2>1, <2>4 DEF MovesOn, InFlight
  <2>6. QED
    BY <1>1, <2>4, <2>5 DEF Moves, MovesOn, InFlight
<1>13. QED
  BY <1>5, <1>6, <1>7, <1>8, <1>9, <1>10, <1>11, <1>12

(* A task of module m is created and its message sent, its row committed;  *)
(* the module's status may be set to a transitional one with it.           *)
LEMMA CreateInv ==
  ASSUME DeployInv, NEW m \in Modules,
         NEW kind \in {"init", "init_only", "apply"},
         Creates(m, kind, "queued", "sent"), nextTask' \in 1 .. MaxTasks + 1,
         \/ status' = status
         \/ \E s \in Transitional : status' = [status EXCEPT ![m] = s],
         NEW follow \in SUBSET [task : {nextTask}, to : Transitional, blind : BOOLEAN],
         marks' = marks \cup follow,
         requests' \in 0 .. MaxRequests,
         UNCHANGED <<changed, built, lock, disp, faults, lost>>
  PROVE  DeployInv'
<1> USE DEF DeployInv
<1>1. /\ status' \in [Modules -> Statuses]
      /\ \A n \in Modules : status'[n] = status[n]
                            \/ (n = m /\ status'[n] \in Transitional)
  BY DEF TypeOK, Transitional, Statuses, InitOutcomes, ApplyOutcomes
<1>2. nextTask \in TaskIds /\ nextTask \in Nat
  BY DEF Creates, TypeOK
<1>3. marks' \subseteq [task : TaskIds, to : Transitional, blind : BOOLEAN]
  BY <1>2 DEF TypeOK
<1>4. TypeOK'
  BY <1>1, <1>3 DEF TypeOK, Creates
<1>5. FreshInv'
  BY CreatesFresh
<1>6. LockInv'
  BY NoTaskFields, LockKept DEF Creates, Holding
<1>7. SessionInv'
  <2>1. \A j \in TaskIds : task'[j] = task[j] \/ Uninvolved(j)
    BY NewUninvolved DEF Creates
  <2>2. UNCHANGED <<disp, lost>>
    OBVIOUS
  <2>3. QED
    BY <2>1, <2>2, SessionKept
<1>8. RowInv'
  <2>1. nextTask' = nextTask + 1
    BY DEF Creates
  <2>2. \A w \in marks : w.task \in Nat /\ w.task < nextTask
    BY Ids DEF RowInv, TypeOK
  <2>3. \A w \in follow : w.task = nextTask
    OBVIOUS
  <2>4. \A w \in marks' : w.task < nextTask'
    BY <1>2, <2>1, <2>2, <2>3
  <2>5. QED
    BY <2>4 DEF RowInv, Creates, InFlight
<1>9. BuiltInv'
  BY <1>1 DEF BuiltInv, BuildOrder, Creates, Transitional
<1>10. SettleInv'
  <2> SUFFICES ASSUME ~lost, NEW n \in Modules, status'[n] \in Transitional
               PROVE  \E j \in TaskIds : InFlight(j)' /\ task'[j].mod = n
    BY DEF SettleInv
  <2>1. CASE n = m
    BY <1>2, <2>1 DEF Creates, InFlight
  <2>2. CASE n # m
    <3>1. PICK j \in TaskIds : InFlight(j) /\ task[j].mod = n
      BY <1>1, <2>2 DEF SettleInv
    <3>2. QED
      BY <3>1, NoTaskFields DEF Creates, InFlight
  <2>3. QED
    BY <2>1, <2>2
<1>11. WaitInv'
  <2> SUFFICES ASSUME ~lost, NEW n \in Modules, Deps[n] # {}, DepsApplied(n)',
                      ~OnlyInit(n)', status'[n] \in Waiting
               PROVE  \E j \in TaskIds : MovesOn(j, n)'
    BY DEF WaitInv
  <2>1. OnlyInit(n) => OnlyInit(n)'
    BY NoTaskFields DEF OnlyInit, Creates
  <2>2. \A x \in Modules : status'[x] \in Waiting \cup {"applied"}
                             => status[x] = status'[x]
    BY <1>1 DEF Waiting, Transitional
  <2>3. PICK j \in TaskIds : MovesOn(j, n)
    BY <2>1, <2>2, WaitedBefore
  <2>4. j # nextTask
    BY <2>3, NoTaskFields DEF MovesOn, InFlight, Creates
  <2>5. QED
    BY <2>3, <2>4 DEF Creates, MovesOn, InFlight
<1>12. QED
  BY <1>4, <1>5, <1>6, <1>7, <1>8, <1>9, <1>10, <1>11

-------------------------------------------------------------------------------
(* The dispatcher of session d is in its loop; nothing else changes. What  *)
(* it was going to do for a waiting module, another task will do.          *)
LEMMA DispatchInv ==
  ASSUME DeployInv, NEW d \in Sessions, NEW r \in Dispatchers,
         disp' = [disp EXCEPT ![d] = r], r.pc = "loop", r.pend = disp[d].pend,
         d # API => task[d].pc = "hook",
         UNCHANGED <<status, changed, built, task, nextTask, lock, marks, faults,
                     lost>>,
         requests' \in 0 .. MaxRequests,
         \A m \in Modules :
           /\ ~lost /\ d # API /\ status[m] \in Waiting /\ DepsApplied(m)
           /\ MovesOn(d, m)
           => \E j \in TaskIds : MovesOn(j, m)'
  PROVE  DeployInv'
<1> USE DEF DeployInv
<1>1. /\ disp' \in [Sessions -> Dispatchers]
      /\ \A c \in Sessions : c # d => disp'[c] = disp[c]
      /\ disp'[d] = r
  BY DEF TypeOK
<1>2. TypeOK'
  BY <1>1 DEF TypeOK
<1>3. FreshInv' /\ LockInv' /\ RowInv' /\ BuiltInv' /\ SettleInv'
  BY DEF FreshInv, LockInv, RowInv, BuiltInv, BuildOrder, SettleInv, InFlight
<1>4. SessionInv'
  <2>1. \A c \in Sessions : disp'[c].pend = disp[c].pend
    BY <1>1
  <2>2. \A c \in Sessions : /\ disp'[c].pc = "idle" => disp'[c] = Idle
                            /\ c # API /\ disp'[c].pc = "loop" => task[c].pc = "hook"
    BY <1>1 DEF SessionInv
  <2>3. QED
    BY <2>1, <2>2 DEF SessionInv
<1>5. WaitInv'
  <2> SUFFICES ASSUME ~lost, NEW m \in Modules, Deps[m] # {}, DepsApplied(m),
                      ~OnlyInit(m), status[m] \in Waiting
               PROVE  \E j \in TaskIds : MovesOn(j, m)'
    BY DEF WaitInv, DepsApplied, OnlyInit
  <2>1. PICK j \in TaskIds : MovesOn(j, m)
    BY DEF WaitInv
  <2>2. CASE j = d
    BY <2>1, <2>2, Ids
  <2>3. CASE j # d
    <3>1. disp'[j] = disp[j]
      BY <1>1, <2>3, Ids
    <3>2. QED
      BY <2>1, <3>1 DEF MovesOn, InFlight
  <2>4. QED
    BY <2>2, <2>3
<1>6. QED
  BY <1>2, <1>3, <1>4, <1>5

(* A module with a task in flight is passed over: that task will end.      *)
LEMMA SkipInv ==
  ASSUME DeployInv, NEW d \in Sessions, Skip(d)
  PROVE  DeployInv'
<1> USE DEF DeployInv
<1> DEFINE r == [disp[d] EXCEPT !.todo = @ \ {First(d)}]
<1>1. First(d) \in disp[d].todo
  BY FirstOfTodo DEF Skip
<1>2. disp[d] \in Dispatchers /\ disp[d].pc = "loop"
  BY DEF TypeOK, Skip, At
<1>3. /\ r \in Dispatchers /\ r.pc = "loop" /\ r.pend = disp[d].pend
      /\ r.todo = disp[d].todo \ {First(d)}
  BY <1>2 DEF Dispatchers
<1>4. disp' = [disp EXCEPT ![d] = r]
  BY DEF Skip
<1>5. UNCHANGED <<status, changed, built, task, nextTask, lock, marks, faults,
                  requests, lost>>
  BY DEF Skip, bounds
<1>6. d # API => task[d].pc = "hook"
  BY <1>2 DEF SessionInv
<1>7. ASSUME NEW m \in Modules, ~lost, d # API, MovesOn(d, m)
      PROVE  \E j \in TaskIds : MovesOn(j, m)'
  <2>1. d \in TaskIds /\ task[d].pc = "hook" /\ disp'[d] = r
    BY <1>4, <1>6, <1>7, Ids DEF TypeOK
  <2>2. PICK x \in disp[d].todo : x[1] = m
    BY <1>2, <1>7, <2>1 DEF MovesOn, InFlight
  <2>3. CASE x = First(d)
    <3>1. PICK k \in TaskIds : task[k].mod = m /\ task[k].row \in Open
      BY <2>2, <2>3 DEF Skip, OpenRows
    <3>2. InFlight(k)
      BY <1>7, <3>1 DEF RowInv
    <3>3. QED
      BY <1>5, <3>1, <3>2 DEF MovesOn, InFlight
  <2>4. CASE x # First(d)
    <3>1. x \in disp'[d].todo
      BY <1>3, <2>1, <2>2, <2>4
    <3>2. QED
      BY <1>5, <1>7, <2>1, <2>2, <3>1 DEF MovesOn, InFlight
  <2>5. QED
    BY <2>3, <2>4
<1>8. requests' \in 0 .. MaxRequests
  BY <1>5 DEF TypeOK
<1>9. QED
  <2> HIDE DEF r
  <2>1. QED
    BY <1>3, <1>4, <1>5, <1>6, <1>7, <1>8, DispatchInv

(* Candidates are modules with the kind of task each needs. *)
LEMMA CandidatesType == TypeOK => Candidates \subseteq Modules \X {"init", "apply"}
  BY DEF Candidates

(* A deploy-all request: the first wave is chosen. *)
LEMMA DeployAllInv ==
  ASSUME DeployInv, DeployAll
  PROVE  DeployInv'
<1> USE DEF DeployInv
<1> DEFINE r == [pc |-> "loop", todo |-> Candidates, pend |-> {}]
<1>1. r \in Dispatchers /\ r.pc = "loop" /\ r.pend = {}
  BY CandidatesType DEF Dispatchers
<1>2. API \in Sessions /\ disp[API].pend = {}
  <2>1. API \in Sessions /\ disp[API].pc = "idle"
    BY Ids DEF DeployAll
  <2>2. disp[API] = Idle
    BY <2>1 DEF SessionInv
  <2>3. QED
    BY <2>1, <2>2 DEF Idle
<1>3. disp' = [disp EXCEPT ![API] = r]
  BY DEF DeployAll, Loop
<1>4. UNCHANGED <<status, changed, built, task, nextTask, lock, marks, faults,
                  lost>>
  BY DEF DeployAll
<1>5. requests' \in 0 .. MaxRequests
  BY DeployAssumption DEF DeployAll, Request, TypeOK
<1>6. QED
  <2> HIDE DEF r
  <2>1. QED
    BY <1>1, <1>2, <1>3, <1>4, <1>5, DispatchInv

(* The hook looks at all modules: one that waits on applied modules is a   *)
(* candidate.                                                              *)
LEMMA HookInv ==
  ASSUME DeployInv, NEW k \in TaskIds, Hook(k)
  PROVE  DeployInv'
<1> USE DEF DeployInv
<1>1. k \in Sessions /\ k # API /\ disp[k] = Idle /\ Idle.pend = {}
  BY Ids DEF Hook, SessionInv, Idle
<1>2. UNCHANGED <<status, changed, built, task, nextTask, lock, marks, faults,
                  requests, lost>>
  BY DEF Hook, bounds
<1>3. requests' \in 0 .. MaxRequests
  BY <1>2 DEF TypeOK
<1>4. CASE status[task[k].mod] = "applied" /\ Loop(k)
  <2> DEFINE r == [pc |-> "loop", todo |-> Candidates, pend |-> {}]
  <2>1. r \in Dispatchers /\ r.pc = "loop" /\ r.pend = {} /\ r.todo = Candidates
    BY CandidatesType DEF Dispatchers
  <2>2. disp' = [disp EXCEPT ![k] = r]
    BY <1>4 DEF Loop
  <2>3. disp'[k] = r
    BY <1>1, <2>2 DEF TypeOK
  <2>4. ASSUME NEW m \in Modules, status[m] \in Waiting, DepsApplied(m),
               MovesOn(k, m)
        PROVE  MovesOn(k, m)'
    <3>1. \E x \in Candidates : x[1] = m
      <4> DEFINE x == <<m, IF status[m] = "not_initialized" THEN "init" ELSE "apply">>
      <4>1. x \in Candidates
        BY <2>4 DEF Candidates, DepsApplied, Waiting
      <4>2. x[1] = m
        OBVIOUS
      <4>3. QED
        BY <4>1, <4>2
    <3>2. task[k].pc = "hook" /\ task[k].mod \in Deps[m]
      BY <2>4 DEF Hook, MovesOn, InFlight
    <3>3. QED
      BY <1>2, <2>1, <2>3, <3>1, <3>2 DEF MovesOn
  <2>5. QED
    <3> HIDE DEF r
    <3>1. QED
      BY <1>1, <1>2, <1>3, <2>1, <2>2, <2>4, DispatchInv DEF Hook
<1>5. CASE /\ status[task[k].mod] # "applied"
           /\ disp' = [disp EXCEPT ![k] = [Idle EXCEPT !.pc = "loop"]]
  <2> DEFINE r == [Idle EXCEPT !.pc = "loop"]
  <2>1. r \in Dispatchers /\ r.pc = "loop" /\ r.pend = {}
    BY DEF Dispatchers, Idle
  <2>2. \A m \in Modules : ~(MovesOn(k, m) /\ DepsApplied(m))
    BY <1>5 DEF Hook, MovesOn, InFlight, DepsApplied
  <2>3. disp' = [disp EXCEPT ![k] = r]
    BY <1>5
  <2>4. QED
    <3> HIDE DEF r
    <3>1. QED
      BY <1>1, <1>2, <1>3, <2>1, <2>2, <2>3, DispatchInv DEF Hook
<1>6. QED
  BY <1>4, <1>5 DEF Hook

(* The loop of session d has sent something. *)
LEMMA LoopSends ==
  ASSUME TypeOK, NEW d \in Sessions, NEW k \in TaskIds,
         NEW todo \in SUBSET disp[d].todo,
         disp' = [disp EXCEPT ![d].pend = disp[d].pend \cup {k}, ![d].todo = todo]
  PROVE  /\ disp' \in [Sessions -> Dispatchers]
         /\ \A c \in Sessions : c # d => disp'[c] = disp[c]
         /\ disp'[d].pc = disp[d].pc /\ disp'[d].todo = todo
         /\ disp'[d].pend = disp[d].pend \cup {k}
  BY DEF TypeOK, Dispatchers

(* What the dispatcher sends counts for the module and for its dependents, *)
(* which leave the loop with it.                                           *)
LEMMA SendInv ==
  ASSUME DeployInv, NEW d \in Sessions, Send(d)
  PROVE  DeployInv'
<1> USE DEF DeployInv
<1> DEFINE m == First(d)[1]
<1>1. /\ First(d) \in disp[d].todo
      /\ m \in Modules /\ First(d)[2] \in {"init", "apply"}
  <2>1. First(d) \in disp[d].todo
    BY FirstOfTodo DEF Send
  <2>2. QED
    BY <2>1 DEF TypeOK, Dispatchers
<1>2. /\ Creates(m, First(d)[2], "unseen", "sent")
      /\ nextTask' \in 1 .. MaxTasks + 1
  <2>1. "unseen" \in Rows /\ "sent" \in PCs
    BY DEF Rows, PCs
  <2>2. QED
    BY <1>1, <2>1, NewCreates DEF Send, NewTask
<1>3. /\ disp' \in [Sessions -> Dispatchers]
      /\ \A c \in Sessions : c # d => disp'[c] = disp[c]
      /\ disp[d].pc = "loop" /\ disp'[d].pc = "loop"
      /\ disp'[d].pend = disp[d].pend \cup {nextTask}
      /\ disp'[d].todo = {x \in disp[d].todo : x[1] # m /\ m \notin Deps[x[1]]}
  <2> DEFINE todo == {x \in disp[d].todo : x[1] # m /\ m \notin Deps[x[1]]}
  <2>1. disp' = [disp EXCEPT ![d].pend = disp[d].pend \cup {nextTask},
                             ![d].todo = todo]
    BY DEF Send
  <2>2. todo \in SUBSET disp[d].todo /\ nextTask \in TaskIds /\ disp[d].pc = "loop"
    BY <1>2 DEF Creates, Send, At
  <2> HIDE DEF todo
  <2>3. /\ disp' \in [Sessions -> Dispatchers]
        /\ \A c \in Sessions : c # d => disp'[c] = disp[c]
        /\ disp'[d].pc = disp[d].pc /\ disp'[d].todo = todo
        /\ disp'[d].pend = disp[d].pend \cup {nextTask}
    BY <2>1, <2>2, LoopSends
  <2>4. QED
    BY <2>2, <2>3 DEF todo
<1>4. UNCHANGED <<status, changed, built, lock, marks, faults, requests, lost>>
  BY DEF Send, bounds
<1> HIDE DEF m
<1>5. TypeOK'
  BY <1>2, <1>3, <1>4 DEF TypeOK, Creates
<1>6. FreshInv'
  BY <1>2, CreatesFresh
<1>7. LockInv'
  BY <1>2, <1>4, NoTaskFields, LockKept DEF Creates, Holding
<1>8. SessionInv'
  <2>1. Uninvolved(nextTask)
    BY <1>2, NewUninvolved DEF Creates
  <2>2. ASSUME NEW c \in Sessions
        PROVE  /\ disp'[c].pc = "idle" => disp'[c] = Idle
               /\ c # API /\ disp'[c].pc = "loop" => task'[c].pc = "hook"
    BY <1>2, <1>3, <2>1, Ids DEF Creates, SessionInv, Uninvolved
  <2>3. ASSUME NEW c \in Sessions, NEW k \in disp'[c].pend
        PROVE  /\ task'[k].row = "unseen" /\ task'[k].kind # "init_only"
               /\ task'[k].pc = "sent" \/ (task'[k].pc = "over" /\ lost')
    <3>1. CASE k = nextTask
      BY <1>1, <1>2, <3>1 DEF Creates
    <3>2. CASE k # nextTask
      <4>1. k \in disp[c].pend /\ k \in TaskIds
        BY <1>3, <2>3, <3>2 DEF TypeOK, Dispatchers
      <4>2. QED
        BY <1>2, <1>4, <3>2, <4>1 DEF Creates, SessionInv
    <3>3. QED
      BY <3>1, <3>2
  <2>4. \A b, c \in Sessions : b # c => disp'[b].pend \cap disp'[c].pend = {}
    BY <1>3, <2>1 DEF SessionInv, Uninvolved
  <2>5. QED
    BY <2>2, <2>3, <2>4 DEF SessionInv
<1>9. RowInv'
  <2>1. \A w \in marks : w.task < nextTask'
    <3>1. nextTask \in Nat /\ nextTask' = nextTask + 1
      BY <1>2 DEF Creates, TypeOK
    <3>2. \A w \in marks : w.task \in Nat /\ w.task < nextTask
      BY Ids DEF RowInv, TypeOK
    <3>3. QED
      BY <3>1, <3>2
  <2>2. QED
    BY <1>2, <1>4, <2>1 DEF RowInv, Creates, InFlight
<1>10. BuiltInv'
  BY <1>2, <1>4 DEF BuiltInv, BuildOrder, Creates
<1>11. SettleInv'
  BY <1>2, <1>4, NoTaskFields DEF SettleInv, Creates, InFlight
<1>12. WaitInv'
  <2> SUFFICES ASSUME ~lost, NEW n \in Modules, Deps[n] # {}, DepsApplied(n)',
                      ~OnlyInit(n)', status'[n] \in Waiting
               PROVE  \E j \in TaskIds : MovesOn(j, n)'
    BY <1>4 DEF WaitInv
  <2>1. OnlyInit(n) => OnlyInit(n)'
    BY <1>2, NoTaskFields DEF OnlyInit, Creates
  <2>2. PICK j \in TaskIds : MovesOn(j, n)
    BY <1>4, <2>1, WaitedBefore
  <2>3. j # nextTask /\ task'[j] = task[j]
    BY <1>2, <2>2, NoTaskFields DEF MovesOn, InFlight, Creates
  <2>4. CASE MovesOn(j, n)'
    BY <2>4
  <2>5. CASE ~MovesOn(j, n)'
    <3>1. j = d /\ (n = m \/ m \in Deps[n])
      BY <1>3, <2>2, <2>3, <2>5, Ids DEF MovesOn, InFlight
    <3>2. PICK k \in TaskIds : k = nextTask
      BY <1>2 DEF Creates
    <3>3. MovesOn(k, n)'
      BY <1>2, <3>1, <3>2 DEF MovesOn, InFlight, Creates
    <3>4. QED
      BY <3>3
  <2>6. QED
    BY <2>4, <2>5
<1>13. QED
  BY <1>5, <1>6, <1>7, <1>8, <1>9, <1>10, <1>11, <1>12

(* A session rolls back: its rows are gone, its messages are not.          *)
RollsBack(d) ==
  /\ \A j \in TaskIds \ disp[d].pend : task'[j] = task[j]
  /\ \A j \in disp[d].pend : /\ task'[j].mod = task[j].mod
                             /\ task'[j].kind = task[j].kind
                             /\ task'[j].pc = task[j].pc
                             /\ task'[j].row = "none"

(* The broker refuses a message. *)
LEMMA SendFailsInv ==
  ASSUME DeployInv, NEW d \in Sessions, SendFails(d)
  PROVE  DeployInv'
<1> USE DEF DeployInv
<1> DEFINE m == First(d)[1]
<1>1. m \in Modules /\ First(d)[2] \in {"init", "apply"}
  <2>1. First(d) \in disp[d].todo
    BY FirstOfTodo DEF SendFails
  <2>2. QED
    BY <2>1 DEF TypeOK, Dispatchers
<1>2. /\ UNCHANGED <<status, changed, built, lock, marks, requests>>
      /\ disp[d].pc = "loop" /\ lost'
  BY DEF SendFails, At
<1>3. faults' \in 0 .. MaxFaults
  BY DeployAssumption DEF SendFails, Fault, TypeOK
<1>4. SettleInv' /\ WaitInv'
  BY <1>2 DEF SettleInv, WaitInv
<1>5. \A w \in marks : w.task \in Nat /\ w.task < nextTask
  BY Ids DEF RowInv, TypeOK
<1>6. ASSUME d # API, nextTask <= MaxTasks, nextTask' = nextTask + 1,
             task' = [task EXCEPT ![nextTask] =
                       [NewTask(m, First(d)[2], "unseen") EXCEPT !.pc = "over"]],
             disp' = [disp EXCEPT ![d].pend = @ \cup {nextTask}, ![d].todo = {}]
      PROVE  DeployInv'
  <2>1. /\ Creates(m, First(d)[2], "unseen", "over")
        /\ nextTask' \in 1 .. MaxTasks + 1
    <3>1. "unseen" \in Rows /\ "over" \in PCs
      BY DEF Rows, PCs
    <3>2. [NewTask(m, First(d)[2], "unseen") EXCEPT !.pc = "over"]
            = [mod |-> m, kind |-> First(d)[2], row |-> "unseen", pc |-> "over",
               seen |-> "none"]
      BY DEF NewTask
    <3>3. task' = [task EXCEPT ![nextTask] =
                    [mod |-> m, kind |-> First(d)[2], row |-> "unseen",
                     pc |-> "over", seen |-> "none"]]
      BY <1>6, <3>2, Zenon
    <3> HIDE DEF m
    <3>4. nextTask <= MaxTasks /\ nextTask' = nextTask + 1
      BY <1>6
    <3>5. QED
      BY <1>1, <3>1, <3>3, <3>4, NewCreates
  <2>2. /\ disp' \in [Sessions -> Dispatchers]
        /\ \A c \in Sessions : c # d => disp'[c] = disp[c]
        /\ disp'[d].pc = "loop" /\ disp'[d].pend = disp[d].pend \cup {nextTask}
    <3>1. nextTask \in TaskIds /\ {} \in SUBSET disp[d].todo
      BY <2>1 DEF Creates
    <3>2. QED
      BY <1>2, <1>6, <3>1, LoopSends
  <2> HIDE DEF m
  <2>3. TypeOK'
    BY <1>2, <1>3, <2>1, <2>2 DEF TypeOK, Creates
  <2>4. FreshInv'
    BY <2>1, CreatesFresh
  <2>5. LockInv'
    BY <1>2, <2>1, NoTaskFields, LockKept DEF Creates, Holding
  <2>6. SessionInv'
    <3>1. Uninvolved(nextTask)
      BY <2>1, NewUninvolved DEF Creates
    <3>2. ASSUME NEW c \in Sessions
          PROVE  /\ disp'[c].pc = "idle" => disp'[c] = Idle
                 /\ c # API /\ disp'[c].pc = "loop" => task'[c].pc = "hook"
      <4>1. c # API /\ disp[c].pc = "loop" => c \in TaskIds /\ c # nextTask
        BY <3>1, Ids DEF Uninvolved
      <4>2. QED
        BY <1>2, <2>1, <2>2, <4>1 DEF Creates, SessionInv
    <3>3. ASSUME NEW c \in Sessions, NEW k \in disp'[c].pend
          PROVE  /\ task'[k].row = "unseen" /\ task'[k].kind # "init_only"
                 /\ task'[k].pc \in {"sent", "over"}
      <4>1. CASE k = nextTask
        BY <1>1, <2>1, <4>1 DEF Creates
      <4>2. CASE k # nextTask
        <5>1. k \in disp[c].pend /\ k \in TaskIds
          BY <2>2, <3>3, <4>2 DEF TypeOK, Dispatchers
        <5>2. QED
          BY <2>1, <4>2, <5>1 DEF Creates, SessionInv
      <4>3. QED
        BY <4>1, <4>2
    <3>4. \A b, c \in Sessions : b # c => disp'[b].pend \cap disp'[c].pend = {}
      BY <2>2, <3>1 DEF SessionInv, Uninvolved
    <3>5. QED
      BY <1>2, <3>2, <3>3, <3>4 DEF SessionInv
  <2>7. RowInv'
    <3>1. nextTask \in Nat /\ nextTask' = nextTask + 1
      BY <2>1 DEF Creates, TypeOK
    <3>2. QED
      BY <1>2, <1>5, <3>1 DEF RowInv
  <2>8. BuiltInv'
    BY <1>2, <2>1 DEF BuiltInv, BuildOrder, Creates
  <2>9. QED
    BY <1>4, <2>3, <2>4, <2>5, <2>6, <2>7, <2>8
<1>7. ASSUME d = API,
             task' = [k \in TaskIds |-> IF k \in disp[d].pend
                                        THEN [task[k] EXCEPT !.row = "none"]
                                        ELSE task[k]],
             disp' = [disp EXCEPT ![d] = Idle], UNCHANGED nextTask
      PROVE  DeployInv'
  <2>1. RollsBack(d) /\ task' \in [TaskIds -> TaskRecords]
    <3>1. disp[d].pend \subseteq TaskIds
      BY DEF TypeOK, Dispatchers
    <3>2. \A k \in TaskIds : [task[k] EXCEPT !.row = "none"] \in TaskRecords
      BY DEF TypeOK, TaskRecords, Rows
    <3>3. task' \in [TaskIds -> TaskRecords]
      BY <1>7, <3>2 DEF TypeOK
    <3>4. RollsBack(d)
      BY <1>7, <3>1 DEF RollsBack, TypeOK, TaskRecords
    <3>5. QED
      BY <3>3, <3>4
  <2>2. /\ disp' \in [Sessions -> Dispatchers]
        /\ \A c \in Sessions : c # d => disp'[c] = disp[c]
        /\ disp'[d] = Idle /\ Idle.pc = "idle" /\ Idle.pend = {}
    BY <1>7 DEF TypeOK, Dispatchers, Idle
  <2>3. TypeOK'
    BY <1>2, <1>3, <1>7, <2>1, <2>2 DEF TypeOK
  <2>4. \A k \in disp[d].pend : /\ k \in TaskIds /\ task[k].pc \in {"sent", "over"}
                                /\ task[k].row = "unseen"
    BY DEF SessionInv, TypeOK, Dispatchers
  <2>5. FreshInv'
    <3>1. \A k \in TaskIds : k >= nextTask => k \notin disp[d].pend
      BY <2>4, NoTaskFields DEF FreshInv
    <3>2. QED
      BY <1>7, <2>1, <3>1 DEF FreshInv, RollsBack
  <2>6. LockInv'
    <3>1. \A j \in TaskIds : \/ task'[j] = task[j]
                             \/ task[j].pc \notin Holding /\ task'[j].pc \notin Holding
      BY <2>1, <2>4 DEF RollsBack, Holding
    <3>2. QED
      BY <1>2, <3>1, LockKept
  <2>7. SessionInv'
    <3>1. \A c \in Sessions : c # d => disp[c].pend \cap disp[d].pend = {}
      BY DEF SessionInv
    <3>2. ASSUME NEW c \in Sessions, c # d, disp[c].pc = "loop"
          PROVE  c \in TaskIds /\ task'[c].pc = "hook"
      <4>1. c \in TaskIds /\ task[c].pc = "hook"
        BY <1>7, <3>2, Ids DEF SessionInv
      <4>2. QED
        BY <2>1, <4>1 DEF RollsBack
    <3>3. ASSUME NEW c \in Sessions, c # d, NEW k \in disp[c].pend
          PROVE  k \in TaskIds /\ task'[k] = task[k]
      BY <2>1, <3>1, <3>3 DEF RollsBack, TypeOK, Dispatchers
    <3>4. ASSUME NEW c \in Sessions, NEW k \in disp'[c].pend
          PROVE  /\ task'[k].row = "unseen" /\ task'[k].kind # "init_only"
                 /\ task'[k].pc \in {"sent", "over"}
      BY <2>2, <3>3, <3>4 DEF SessionInv
    <3>5. ASSUME NEW c \in Sessions
          PROVE  /\ disp'[c].pc = "idle" => disp'[c] = Idle
                 /\ c # API /\ disp'[c].pc = "loop" => task'[c].pc = "hook"
      BY <1>7, <2>2, <3>2 DEF SessionInv
    <3>6. \A b, c \in Sessions : b # c => disp'[b].pend \cap disp'[c].pend = {}
      BY <2>2 DEF SessionInv
    <3>7. QED
      BY <1>2, <3>4, <3>5, <3>6 DEF SessionInv
  <2>8. RowInv'
    BY <1>2, <1>5, <1>7 DEF RowInv
  <2>9. BuiltInv'
    BY <1>2, <2>1, <2>4 DEF BuiltInv, BuildOrder, RollsBack
  <2>10. QED
    BY <1>4, <2>3, <2>5, <2>6, <2>7, <2>8, <2>9
<1>8. QED
  BY <1>6, <1>7 DEF SendFails

(* The commit makes rows visible whose messages are on their way, and sets *)
(* only their modules to transitional statuses.                            *)
LEMMA CommitInv ==
  ASSUME DeployInv, NEW d \in Sessions, Commit(d)
  PROVE  DeployInv'
<1> USE DEF DeployInv
<1> DEFINE pend == disp[d].pend
           sent(m) == {k \in pend : task[k].mod = m /\ task[k].pc # "over"}
<1>1. /\ disp[d].pc = "loop" /\ disp[d].todo = {}
      /\ UNCHANGED <<changed, built, nextTask, marks, faults, requests, lost>>
  BY DEF Commit, bounds
<1>2. \A k \in pend : /\ k \in TaskIds /\ task[k].row = "unseen"
                      /\ task[k].pc \in {"sent", "over"} /\ k # d
                      /\ ~lost => task[k].pc = "sent"
  <2>1. d # API => task[d].pc = "hook"
    BY <1>1 DEF SessionInv
  <2>2. QED
    BY <2>1, Ids DEF SessionInv, TypeOK, Dispatchers
<1>3. /\ task' \in [TaskIds -> TaskRecords]
      /\ \A k \in pend : /\ task'[k].mod = task[k].mod /\ task'[k].pc = task[k].pc
                         /\ task'[k].kind = task[k].kind /\ task'[k].row = "queued"
      /\ \A k \in TaskIds \ pend : k # d => task'[k] = task[k]
      /\ d \in TaskIds => /\ task'[d].mod = task[d].mod /\ task'[d].pc = "over"
                          /\ task'[d].kind = task[d].kind /\ task'[d].row = task[d].row
  <2>1. task' = [k \in TaskIds |->
                  IF k \in pend THEN [task[k] EXCEPT !.row = "queued"]
                  ELSE IF k = d THEN [task[k] EXCEPT !.pc = "over"] ELSE task[k]]
    BY DEF Commit
  <2>2. \A k \in TaskIds : /\ [task[k] EXCEPT !.row = "queued"] \in TaskRecords
                           /\ [task[k] EXCEPT !.pc = "over"] \in TaskRecords
    BY DEF TypeOK, TaskRecords, Rows, PCs, Open
  <2>3. task' \in [TaskIds -> TaskRecords]
    BY <2>1, <2>2 DEF TypeOK
  <2>4. QED
    BY <1>2, <2>1, <2>3 DEF TypeOK, TaskRecords
<1>4. /\ status' \in [Modules -> Statuses]
      /\ \A m \in Modules : \/ status'[m] = status[m]
                            \/ status'[m] \in Transitional /\ sent(m) # {}
  BY DEF Commit, TypeOK, Transitional, Statuses, InitOutcomes, ApplyOutcomes
<1>5. /\ disp' \in [Sessions -> Dispatchers] /\ disp'[d] = Idle
      /\ \A c \in Sessions : c # d => disp'[c] = disp[c]
      /\ Idle.pc = "idle" /\ Idle.pend = {}
  BY DEF Commit, TypeOK, Dispatchers, Idle
<1>6. /\ lock' \in [Modules -> Sessions]
      /\ \A m \in Modules : lock'[m] = IF d # API /\ lock[m] = d THEN 0 ELSE lock[m]
  BY Ids DEF Commit, TypeOK, API
<1>7. TypeOK'
  BY <1>1, <1>3, <1>4, <1>5, <1>6 DEF TypeOK
<1>8. FreshInv'
  <2>1. \A k \in TaskIds : k >= nextTask => k \notin pend /\ k # d
    <3>1. d # API => task[d].pc = "hook"
      BY <1>1 DEF SessionInv
    <3>2. QED
      BY <1>2, <3>1, NoTaskFields, Ids DEF FreshInv
  <2>2. QED
    BY <1>1, <1>3, <2>1 DEF FreshInv
<1>9. LockInv'
  <2>1. ASSUME NEW m \in Modules, lock'[m] # 0
        PROVE  task'[lock'[m]].mod = m /\ task'[lock'[m]].pc \in Holding
    <3>1. lock'[m] = lock[m] /\ lock[m] \in TaskIds /\ lock[m] # d
      BY <1>6, <2>1, Ids DEF TypeOK, API
    <3>2. task[lock[m]].mod = m /\ task[lock[m]].pc \in Holding
      BY <2>1, <3>1 DEF LockInv
    <3>3. QED
      BY <1>2, <1>3, <3>1, <3>2 DEF Holding
  <2>2. ASSUME NEW j \in TaskIds, task'[j].pc \in Holding
        PROVE  lock'[task'[j].mod] = j
    <3>1. j # d /\ task'[j] = task[j]
      BY <1>2, <1>3, <2>2 DEF Holding
    <3>2. QED
      BY <1>6, <2>2, <3>1, TaskTypes DEF LockInv
  <2>3. QED
    BY <2>1, <2>2 DEF LockInv
<1>10. SessionInv'
  <2>1. \A c \in Sessions : c # d => disp[c].pend \cap pend = {}
    BY DEF SessionInv
  <2>2. ASSUME NEW c \in Sessions, NEW k \in disp'[c].pend
        PROVE  k \in disp[c].pend /\ task'[k] = task[k]
    <3>1. c # d /\ k \in disp[c].pend /\ k \in TaskIds \ pend
      BY <1>5, <2>1, <2>2 DEF TypeOK, Dispatchers
    <3>2. d # API => task[d].pc = "hook"
      BY <1>1 DEF SessionInv
    <3>3. k # d
      BY <3>1, <3>2, Ids DEF SessionInv
    <3>4. QED
      BY <1>3, <3>1, <3>3
  <2>3. ASSUME NEW c \in Sessions, c # API, disp'[c].pc = "loop"
        PROVE  task'[c].pc = "hook"
    <3>1. c # d /\ c \in TaskIds /\ task[c].pc = "hook"
      BY <1>5, <2>3, Ids DEF SessionInv
    <3>2. c \notin pend
      BY <1>2, <3>1
    <3>3. QED
      BY <1>3, <3>1, <3>2
  <2>4. \A c \in Sessions : disp'[c].pc = "idle" => disp'[c] = Idle
    BY <1>5 DEF SessionInv
  <2>5. \A b, c \in Sessions : b # c => disp'[b].pend \cap disp'[c].pend = {}
    BY <1>5 DEF SessionInv
  <2>6. QED
    BY <1>1, <2>2, <2>3, <2>4, <2>5 DEF SessionInv
<1>11. RowInv'
  <2>1. ASSUME NEW k \in TaskIds, task'[k].row \in Open, ~lost
        PROVE  InFlight(k)'
    <3>1. CASE k \in pend
      BY <1>2, <1>3, <2>1, <3>1 DEF InFlight
    <3>2. CASE k = d
      <4>1. d # API /\ task[d].pc = "hook" /\ task[d].row \in Open
        BY <1>1, <1>2, <1>3, <2>1, <3>2, Ids DEF SessionInv
      <4>2. QED
        BY <2>1, <3>2, <4>1 DEF RowInv, InFlight
    <3>3. CASE k \notin pend /\ k # d
      BY <1>3, <2>1, <3>3 DEF RowInv, InFlight
    <3>4. QED
      BY <3>1, <3>2, <3>3
  <2>2. QED
    BY <1>1, <2>1 DEF RowInv
<1>12. BuiltInv'
  <2>1. \A m \in Modules : status'[m] = "applied" => status[m] = "applied"
    BY <1>4 DEF Transitional
  <2>2. \A k \in TaskIds : task'[k].kind = "apply" /\ task'[k].pc \in {"checked", "locked"}
                             => task'[k] = task[k]
    BY <1>2, <1>3
  <2>3. QED
    BY <1>1, <2>1, <2>2 DEF BuiltInv, BuildOrder
<1>13. \A k \in TaskIds : InFlight(k) => InFlight(k)' /\ task'[k].mod = task[k].mod
  <2>1. d # API => task[d].pc = "hook"
    BY <1>1 DEF SessionInv
  <2>2. QED
    BY <1>2, <1>3, <2>1, Ids DEF InFlight
<1>14. SettleInv'
  <2> SUFFICES ASSUME ~lost, NEW m \in Modules, status'[m] \in Transitional
               PROVE  \E k \in TaskIds : InFlight(k)' /\ task'[k].mod = m
    BY <1>1 DEF SettleInv
  <2>1. CASE status'[m] = status[m]
    BY <1>13, <2>1 DEF SettleInv
  <2>2. CASE sent(m) # {}
    <3>1. PICK k \in pend : task[k].mod = m /\ task[k].pc # "over"
      BY <2>2
    <3>2. k \in TaskIds /\ InFlight(k)
      BY <1>2, <3>1 DEF InFlight
    <3>3. QED
      BY <1>13, <3>1, <3>2
  <2>3. QED
    BY <1>4, <2>1, <2>2
<1>15. WaitInv'
  <2> SUFFICES ASSUME ~lost, NEW m \in Modules, Deps[m] # {}, DepsApplied(m)',
                      ~OnlyInit(m)', status'[m] \in Waiting
               PROVE  \E j \in TaskIds : MovesOn(j, m)'
    BY <1>1 DEF WaitInv
  <2>1. \A k \in TaskIds : task'[k].mod = task[k].mod /\ task'[k].kind = task[k].kind
    BY <1>3
  <2>2. OnlyInit(m) => OnlyInit(m)'
    BY <2>1 DEF OnlyInit
  <2>3. \A n \in Modules : status'[n] \in Waiting \cup {"applied"}
                             => status[n] = status'[n]
    BY <1>4 DEF Waiting, Transitional
  <2>4. PICK j \in TaskIds : MovesOn(j, m)
    BY <2>2, <2>3, WaitedBefore
  <2>5. CASE InFlight(j)
    <3>1. task[j].mod \in {m} \cup Deps[m]
      BY <2>4, <2>5 DEF MovesOn, InFlight
    <3>2. QED
      BY <1>13, <2>5, <3>1 DEF MovesOn
  <2>6. CASE ~InFlight(j)
    <3>1. j # d
      BY <1>1, <2>4, <2>6, Ids DEF MovesOn, SessionInv
    <3>2. j \notin pend
      BY <1>2, <2>4, <2>6 DEF MovesOn
    <3>3. task'[j] = task[j] /\ disp'[j] = disp[j]
      BY <1>3, <1>5, <3>1, <3>2, Ids
    <3>4. QED
      BY <2>4, <3>3 DEF MovesOn, InFlight
  <2>7. QED
    BY <2>5, <2>6
<1>16. QED
  BY <1>7, <1>8, <1>9, <1>10, <1>11, <1>12, <1>14, <1>15

(* A late status write of a request counts only while its task is open.    *)
LEMMA MarkInv ==
  ASSUME DeployInv, NEW w \in marks, Mark(w)
  PROVE  DeployInv'
<1> USE DEF DeployInv
<1> DEFINE m == task[w.task].mod
<1>1. /\ UNCHANGED <<changed, built, task, nextTask, lock, disp, faults, requests>>
      /\ marks' \subseteq marks
  BY DEF Mark, bounds
<1>2. w.task \in TaskIds /\ w.to \in Transitional /\ m \in Modules
  <2>1. w.task \in TaskIds /\ w.to \in Transitional
    BY DEF TypeOK
  <2>2. QED
    BY <2>1, TaskTypes
<1>3. /\ status' \in [Modules -> Statuses]
      /\ \A n \in Modules : n # m => status'[n] = status[n]
      /\ status'[m] \in {status[m], w.to}
  BY <1>2 DEF Mark, TypeOK, Transitional, Statuses, InitOutcomes, ApplyOutcomes
<1>4. lost' \in BOOLEAN /\ (lost => lost')
  BY DEF Mark
<1>5. ~lost' => ~lost /\ task[w.task].row \in Open
  BY DEF Mark
<1>6. TypeOK'
  BY <1>1, <1>3, <1>4 DEF TypeOK
<1>7. FreshInv' /\ LockInv'
  BY <1>1 DEF FreshInv, LockInv
<1>8. SessionInv'
  BY <1>1, <1>4, SessionKept
<1>9. RowInv'
  BY <1>1, <1>5 DEF RowInv, InFlight
<1>10. BuiltInv'
  BY <1>1, <1>2, <1>3 DEF BuiltInv, BuildOrder, Transitional
<1>11. SettleInv'
  <2> SUFFICES ASSUME ~lost', NEW n \in Modules, status'[n] \in Transitional
               PROVE  \E k \in TaskIds : InFlight(k)' /\ task'[k].mod = n
    BY DEF SettleInv
  <2>1. CASE n = m
    BY <1>1, <1>2, <1>5, <2>1 DEF RowInv, InFlight
  <2>2. CASE n # m
    BY <1>1, <1>3, <1>5, <2>2 DEF SettleInv, InFlight
  <2>3. QED
    BY <2>1, <2>2
<1>12. WaitInv'
  <2> SUFFICES ASSUME ~lost', NEW n \in Modules, Deps[n] # {}, DepsApplied(n)',
                      ~OnlyInit(n)', status'[n] \in Waiting
               PROVE  \E j \in TaskIds : MovesOn(j, n)'
    BY DEF WaitInv
  <2>1. OnlyInit(n) => OnlyInit(n)'
    BY <1>1 DEF OnlyInit
  <2>2. \A x \in Modules : status'[x] \in Waiting \cup {"applied"}
                             => status[x] = status'[x]
    BY <1>2, <1>3 DEF Waiting, Transitional
  <2>3. PICK j \in TaskIds : MovesOn(j, n)
    BY <1>5, <2>1, <2>2, WaitedBefore
  <2>4. QED
    BY <1>1, <2>3 DEF MovesOn, InFlight
<1>13. QED
  BY <1>6, <1>7, <1>8, <1>9, <1>10, <1>11, <1>12

-------------------------------------------------------------------------------
(* Task k begins, or gets the lock: it is in flight before and after.      *)
LEMMA AdvanceInv ==
  ASSUME DeployInv, NEW k \in TaskIds, NEW row, NEW pc, Moves(k, row, pc),
         \/ task[k].pc = "sent" /\ task[k].row # "unseen"
         \/ task[k].pc = "checked",
         \/ pc = "checked" /\ UNCHANGED lock
         \/ /\ pc = "locked" /\ lock[task[k].mod] = 0
            /\ lock' = [lock EXCEPT ![task[k].mod] = k],
         task[k].kind = "apply" => Deps[task[k].mod] \subseteq built,
         UNCHANGED <<status, changed, built, nextTask, disp, marks, faults,
                     requests, lost>>
  PROVE  DeployInv'
<1> USE DEF DeployInv
<1>1. task[k].mod \in Modules /\ k \in Sessions /\ k # 0
  BY TaskTypes, Ids DEF API
<1>2. lock' \in [Modules -> Sessions]
  BY <1>1 DEF TypeOK
<1>3. TypeOK'
  BY <1>2 DEF TypeOK, Moves
<1>4. FreshInv'
  BY MovesFresh
<1>5. LockInv'
  <2>1. CASE UNCHANGED lock /\ pc = "checked"
    BY <2>1, LockKept DEF Moves, Holding
  <2>2. CASE /\ lock' = [lock EXCEPT ![task[k].mod] = k] /\ pc = "locked"
             /\ lock[task[k].mod] = 0
    <3>1. ASSUME NEW m \in Modules, lock'[m] # 0
          PROVE  task'[lock'[m]].mod = m /\ task'[lock'[m]].pc \in Holding
      <4>1. CASE m = task[k].mod
        BY <1>1, <2>2, <4>1 DEF TypeOK, Moves, Holding
      <4>2. CASE m # task[k].mod
        <5>1. lock'[m] = lock[m] /\ lock[m] \in TaskIds
          BY <1>1, <2>2, <3>1, <4>2, Ids DEF TypeOK, API
        <5>2. task[lock[m]].mod = m /\ task[lock[m]].pc \in Holding
          BY <3>1, <5>1 DEF LockInv
        <5>3. QED
          BY <4>2, <5>1, <5>2 DEF Moves
      <4>3. QED
        BY <4>1, <4>2
    <3>2. ASSUME NEW j \in TaskIds, task'[j].pc \in Holding
          PROVE  lock'[task'[j].mod] = j
      <4>1. CASE j = k
        BY <1>1, <2>2, <4>1 DEF TypeOK, Moves
      <4>2. CASE j # k
        <5>1. task'[j] = task[j] /\ lock[task[j].mod] = j /\ j # 0
          BY <3>2, <4>2, Ids DEF Moves, LockInv, API
        <5>2. task[j].mod # task[k].mod /\ task[j].mod \in Modules
          BY <2>2, <5>1, TaskTypes
        <5>3. QED
          BY <2>2, <5>1, <5>2 DEF TypeOK
      <4>3. QED
        BY <4>1, <4>2
    <3>3. QED
      BY <3>1, <3>2 DEF LockInv
  <2>3. QED
    BY <2>1, <2>2
<1>6. SessionInv'
  <2>1. Uninvolved(k)
    BY Ids DEF Uninvolved, SessionInv, TypeOK, Dispatchers
  <2>2. QED
    BY <2>1, SessionKept DEF Moves
<1>7. \A j \in TaskIds : InFlight(j) => InFlight(j)' /\ task'[j].mod = task[j].mod
  BY DEF Moves, InFlight
<1>8. RowInv'
  BY DEF Moves, RowInv, InFlight
<1>9. BuiltInv'
  BY DEF Moves, BuiltInv, BuildOrder
<1>10. SettleInv'
  BY <1>7 DEF SettleInv
<1>11. WaitInv'
  <2> SUFFICES ASSUME ~lost, NEW m \in Modules, Deps[m] # {}, DepsApplied(m)',
                      ~OnlyInit(m)', status'[m] \in Waiting
               PROVE  \E j \in TaskIds : MovesOn(j, m)'
    BY DEF WaitInv
  <2>1. OnlyInit(m) => OnlyInit(m)'
    BY DEF Moves, OnlyInit
  <2>2. PICK j \in TaskIds : MovesOn(j, m)
    BY <2>1, WaitedBefore
  <2>3. MovesOn(j, m)'
    BY <2>2 DEF Moves, MovesOn, InFlight
  <2>4. QED
    BY <2>3
<1>12. QED
  BY <1>3, <1>4, <1>5, <1>6, <1>8, <1>9, <1>10, <1>11

(* A worker takes the message of a task. *)
LEMMA BeginInv ==
  ASSUME DeployInv, NEW k \in TaskIds, Begin(k)
  PROVE  DeployInv'
<1> USE DEF DeployInv
<1>1. /\ UNCHANGED <<changed, built, nextTask, lock, disp, marks, faults, requests,
                     lost>>
      /\ task[k].pc = "sent" /\ task[k].row # "unseen"
  BY DEF Begin, bounds
<1>2. CASE /\ task[k].kind # "apply" \/ DepsApplied(task[k].mod)
           /\ Row(k, "in_progress", "checked") /\ UNCHANGED status
  <2>1. Moves(k, "in_progress", "checked")
    BY <1>2, RowMoves DEF Row, Rows, PCs, Open, Running
  <2>2. task[k].kind = "apply" => Deps[task[k].mod] \subseteq built
    BY <1>2, TaskTypes DEF DepsApplied, BuiltInv
  <2>3. QED
    BY <1>1, <1>2, <2>1, <2>2, AdvanceInv
<1>3. CASE Row(k, "failed", "over") /\ SetStatus(task[k].mod, "apply_failed")
  <2>1. faults' \in 0 .. MaxFaults
    BY <1>1 DEF TypeOK
  <2>2. QED
    BY <1>1, <1>3, <2>1, FailInv
<1>4. QED
  BY <1>2, <1>3 DEF Begin

(* A task gets the lock of its module. *)
LEMMA AcquireInv ==
  ASSUME DeployInv, NEW k \in TaskIds, Acquire(k)
  PROVE  DeployInv'
<1> USE DEF DeployInv
<1>1. /\ UNCHANGED <<status, changed, built, nextTask, disp, marks, faults, requests,
                     lost>>
      /\ task[k].pc = "checked" /\ lock[task[k].mod] = 0
      /\ lock' = [lock EXCEPT ![task[k].mod] = k]
  BY DEF Acquire, bounds
<1>2. task[k].mod \in Modules /\ task[k].row \in Rows
  BY TaskTypes
<1>3. Moves(k, task[k].row, "locked")
  <2>1. status[task[k].mod] \in Statuses
    BY <1>2 DEF TypeOK
  <2>2. task' = [task EXCEPT ![k].pc = "locked", ![k].seen = status[task[k].mod]]
    BY DEF Acquire
  <2>3. QED
    BY <1>2, <2>1, <2>2 DEF Moves, TypeOK, TaskRecords, PCs, Running
<1>4. task[k].kind = "apply" => Deps[task[k].mod] \subseteq built
  BY <1>1 DEF BuiltInv
<1>5. QED
  BY <1>1, <1>3, <1>4, AdvanceInv

(* The task that gives up leaves its module to the one that holds the lock. *)
LEMMA LockTimeoutInv ==
  ASSUME DeployInv, NEW k \in TaskIds, LockTimeout(k)
  PROVE  DeployInv'
<1> USE DEF DeployInv
<1>1. /\ UNCHANGED <<status, changed, built, nextTask, lock, disp, marks, faults,
                     requests, lost>>
      /\ task[k].pc = "checked" /\ Row(k, "failed", "over")
  BY DEF LockTimeout, bounds
<1>2. PICK h \in TaskIds : lock[task[k].mod] = h /\ task[h].pc = "locked"
  BY DEF LockTimeout
<1>3. Moves(k, "failed", "over")
  BY <1>1, RowMoves DEF Row, Rows, PCs
<1>4. /\ task[k].mod \in Modules /\ h # k /\ task[h].mod = task[k].mod
      /\ task'[h] = task[h]
  <2>1. task[k].mod \in Modules /\ h # 0 /\ h # k
    BY <1>1, <1>2, TaskTypes, Ids DEF API
  <2>2. QED
    BY <1>2, <1>3, <2>1 DEF LockInv, Moves
<1>5. TypeOK'
  BY <1>1, <1>3 DEF TypeOK, Moves
<1>6. FreshInv'
  BY <1>1, <1>3, MovesFresh
<1>7. LockInv'
  BY <1>1, <1>3, LockKept DEF Moves, Holding
<1>8. SessionInv'
  <2>1. Uninvolved(k)
    BY <1>1, Ids DEF Uninvolved, SessionInv, TypeOK, Dispatchers
  <2>2. QED
    BY <1>1, <1>3, <2>1, SessionKept DEF Moves
<1>9. RowInv'
  BY <1>1, <1>3 DEF Moves, RowInv, InFlight, Open
<1>10. BuiltInv'
  BY <1>1, <1>3 DEF Moves, BuiltInv, BuildOrder
<1>11. \A j \in TaskIds : InFlight(j) =>
         \E i \in TaskIds : InFlight(i)' /\ task'[i].mod = task[j].mod
  BY <1>2, <1>3, <1>4 DEF Moves, InFlight
<1>12. SettleInv'
  BY <1>1, <1>11 DEF SettleInv
<1>13. WaitInv'
  <2> SUFFICES ASSUME ~lost, NEW m \in Modules, Deps[m] # {}, DepsApplied(m)',
                      ~OnlyInit(m)', status'[m] \in Waiting
               PROVE  \E j \in TaskIds : MovesOn(j, m)'
    BY <1>1 DEF WaitInv
  <2>1. OnlyInit(m) => OnlyInit(m)'
    BY <1>3 DEF Moves, OnlyInit
  <2>2. PICK j \in TaskIds : MovesOn(j, m)
    BY <1>1, <2>1, WaitedBefore
  <2>3. CASE InFlight(j)
    <3>1. task[j].mod \in {m} \cup Deps[m]
      BY <2>2, <2>3 DEF MovesOn, InFlight
    <3>2. PICK i \in TaskIds : InFlight(i)' /\ task'[i].mod = task[j].mod
      BY <1>11, <2>3
    <3>3. QED
      BY <3>1, <3>2 DEF MovesOn
  <2>4. CASE ~InFlight(j)
    <3>1. j # k /\ task'[j] = task[j]
      BY <1>1, <1>3, <2>4 DEF Moves, InFlight
    <3>2. QED
      BY <1>1, <2>2, <3>1 DEF MovesOn, InFlight
  <2>5. QED
    BY <2>3, <2>4
<1>14. QED
  BY <1>5, <1>6, <1>7, <1>8, <1>9, <1>10, <1>12, <1>13

(* A worker takes a message before its row is committed. *)
LEMMA NotFoundInv ==
  ASSUME DeployInv, NEW k \in TaskIds, NotFound(k)
  PROVE  DeployInv'
<1> USE DEF DeployInv
<1>1. /\ UNCHANGED <<status, changed, built, nextTask, lock, disp, marks, requests>>
      /\ task[k].pc = "sent" /\ lost'
  BY DEF NotFound
<1>2. faults' \in 0 .. MaxFaults
  BY DeployAssumption DEF NotFound, Fault, TypeOK
<1>3. Moves(k, task[k].row, "over")
  <2>1. task' = [task EXCEPT ![k].pc = "over"]
    BY DEF NotFound
  <2>2. QED
    BY <2>1 DEF Moves, TypeOK, TaskRecords, PCs
<1>4. TypeOK'
  BY <1>1, <1>2, <1>3 DEF TypeOK, Moves
<1>5. FreshInv'
  BY <1>1, <1>3, MovesFresh
<1>6. LockInv'
  BY <1>1, <1>3, LockKept DEF Moves, Holding
<1>7. SessionInv'
  <2>1. ASSUME NEW d \in Sessions, NEW j \in disp[d].pend
        PROVE  /\ task'[j].row = "unseen" /\ task'[j].kind # "init_only"
               /\ task'[j].pc \in {"sent", "over"}
    <3>1. j \in TaskIds
      BY DEF TypeOK, Dispatchers
    <3>2. QED
      BY <1>3, <3>1 DEF SessionInv, Moves
  <2>2. ASSUME NEW d \in Sessions, d # API, disp[d].pc = "loop"
        PROVE  task'[d].pc = "hook"
    BY <1>1, <1>3, <2>2, Ids DEF SessionInv, Moves
  <2>3. QED
    BY <1>1, <2>1, <2>2 DEF SessionInv
<1>8. RowInv'
  BY <1>1 DEF RowInv
<1>9. BuiltInv'
  BY <1>1, <1>3 DEF Moves, BuiltInv, BuildOrder
<1>10. SettleInv' /\ WaitInv'
  BY <1>1 DEF SettleInv, WaitInv
<1>11. QED
  BY <1>4, <1>5, <1>6, <1>7, <1>8, <1>9, <1>10

(* The engine of task k succeeds. A module that was initialized waits for  *)
(* auto_apply or for a dependency; the dependents of one that was applied  *)
(* wait for the hook.                                                      *)
LEMMA SucceedInv ==
  ASSUME DeployInv, NEW k \in TaskIds, task[k].pc = "locked",
         NEW pc, NEW to, Moves(k, "completed", pc), SetStatus(task[k].mod, to),
         \/ /\ pc = "auto" /\ to = "initialized" /\ task[k].kind # "apply"
            /\ UNCHANGED <<built, changed>>
         \/ /\ pc = "hook" /\ to = "applied" /\ task[k].kind = "apply"
            /\ built' = built \cup {task[k].mod} /\ changed' \subseteq changed,
         UNCHANGED <<nextTask, lock, disp, marks, faults, requests, lost>>
  PROVE  DeployInv'
<1> USE DEF DeployInv
<1> DEFINE m == task[k].mod
<1>1. m \in Modules /\ Deps[m] \subseteq Modules
  BY TaskTypes
<1>2. /\ status' \in [Modules -> Statuses] /\ status'[m] = to
      /\ \A n \in Modules : n # m => status'[n] = status[n]
  BY <1>1 DEF SetStatus, TypeOK, Statuses, InitOutcomes, ApplyOutcomes
<1>3. disp[k].pc = "idle" /\ Uninvolved(k)
  BY Ids DEF Uninvolved, SessionInv, TypeOK, Dispatchers
<1>4. TypeOK'
  BY <1>1, <1>2 DEF TypeOK, Moves
<1>5. FreshInv'
  BY MovesFresh
<1>6. LockInv'
  BY LockKept DEF Moves, Holding
<1>7. SessionInv'
  BY <1>3, SessionKept DEF Moves
<1>8. RowInv'
  BY DEF Moves, RowInv, InFlight, Open
<1>9. BuiltInv'
  <2>1. task[k].kind = "apply" => Deps[m] \subseteq built
    BY DEF BuiltInv
  <2>2. built \subseteq built' /\ BuildOrder'
    BY <2>1 DEF BuiltInv, BuildOrder
  <2>3. \A n \in Modules : status'[n] = "applied" => n \in built'
    BY <1>1, <1>2, <2>2 DEF BuiltInv
  <2>4. QED
    BY <2>2, <2>3 DEF Moves, BuiltInv
<1>10. SettleInv'
  BY <1>2 DEF Moves, SettleInv, InFlight, Transitional
<1>11. WaitInv'
  <2> SUFFICES ASSUME ~lost, NEW n \in Modules, Deps[n] # {}, DepsApplied(n)',
                      ~OnlyInit(n)', status'[n] \in Waiting
               PROVE  \E j \in TaskIds : MovesOn(j, n)'
    BY DEF WaitInv
  <2>1. CASE n = m
    <3>1. pc = "auto" /\ task[k].kind # "apply"
      BY <1>2, <2>1 DEF Waiting
    <3>2. task[k].kind = "init"
      BY <2>1, <3>1, TaskTypes DEF Moves, OnlyInit
    <3>3. MovesOn(k, n)'
      BY <2>1, <3>1, <3>2 DEF MovesOn, Moves
    <3>4. QED
      BY <3>3
  <2>2. CASE n # m /\ m \in Deps[n]
    <3>1. pc = "hook"
      BY <1>1, <1>2, <2>2 DEF DepsApplied
    <3>2. MovesOn(k, n)'
      BY <1>3, <2>2, <3>1 DEF MovesOn, Moves
    <3>3. QED
      BY <3>2
  <2>3. CASE n # m /\ m \notin Deps[n]
    <3>1. DepsApplied(n) /\ status[n] \in Waiting
      BY <1>2, <2>3, DeployAssumption DEF DepsApplied
    <3>2. ~OnlyInit(n)
      BY DEF Moves, OnlyInit
    <3>3. PICK j \in TaskIds : MovesOn(j, n)
      BY <3>1, <3>2 DEF WaitInv
    <3>4. j # k
      BY <2>3, <3>3 DEF MovesOn, InFlight
    <3>5. QED
      BY <3>3, <3>4 DEF Moves, MovesOn, InFlight
  <2>4. QED
    BY <2>1, <2>2, <2>3
<1>12. QED
  BY <1>4, <1>5, <1>6, <1>7, <1>8, <1>9, <1>10, <1>11

(* tofu init ends. *)
LEMMA InitEndsInv ==
  ASSUME DeployInv, NEW k \in TaskIds, NEW to \in {"initialized", "init_failed"},
         InitEnds(k, to)
  PROVE  DeployInv'
<1>1. /\ UNCHANGED <<changed, built, nextTask, disp, marks, faults, requests, lost>>
      /\ task[k].pc = "locked" /\ task[k].kind # "apply"
      /\ faults' \in 0 .. MaxFaults
  BY DEF InitEnds, bounds, DeployInv, TypeOK
<1>2. CASE Raise(k)
  BY <1>1, <1>2, FailInv DEF Raise
<1>3. CASE /\ to = "initialized" /\ SetStatus(task[k].mod, to)
           /\ Row(k, "completed", "auto") /\ UNCHANGED lock
  <2>1. Moves(k, "completed", "auto")
    BY <1>3, RowMoves DEF Row, Rows, PCs, Running, DeployInv
  <2>2. QED
    BY <1>1, <1>3, <2>1, SucceedInv
<1>4. CASE /\ to = "init_failed" /\ SetStatus(task[k].mod, to)
           /\ Row(k, "failed", "over") /\ Unlock(task[k].mod)
  BY <1>1, <1>4, FailInv
<1>5. QED
  BY <1>2, <1>3, <1>4 DEF InitEnds

(* The apply, or a phase before it, ends. *)
LEMMA ApplyEndsInv ==
  ASSUME DeployInv, NEW k \in TaskIds,
         NEW to \in {"applied", "apply_failed", "plan_failed", "init_failed"},
         ApplyEnds(k, to)
  PROVE  DeployInv'
<1>1. /\ UNCHANGED <<nextTask, disp, marks, faults, requests, lost>>
      /\ task[k].pc = "locked" /\ task[k].kind = "apply"
      /\ built' = built \/ built' = built \cup {task[k].mod}
      /\ to = "applied" => built' = built \cup {task[k].mod}
      /\ faults' \in 0 .. MaxFaults
  BY DEF ApplyEnds, bounds, DeployInv, TypeOK
<1>2. CASE Raise(k) /\ UNCHANGED changed
  BY <1>1, <1>2, FailInv DEF Raise
<1>3. CASE /\ to = "applied" /\ SetStatus(task[k].mod, to)
           /\ Row(k, "completed", "hook") /\ changed' = changed \ {task[k].mod}
           /\ UNCHANGED lock
  <2>1. Moves(k, "completed", "hook")
    BY <1>3, RowMoves DEF Row, Rows, PCs, Running, DeployInv
  <2>2. changed' \subseteq changed
    BY <1>3
  <2>3. QED
    BY <1>1, <1>3, <2>1, <2>2, SucceedInv
<1>4. CASE /\ to # "applied" /\ SetStatus(task[k].mod, to)
           /\ Row(k, "failed", "over") /\ Unlock(task[k].mod) /\ UNCHANGED changed
  BY <1>1, <1>4, FailInv
<1>5. QED
  BY <1>2, <1>3, <1>4 DEF ApplyEnds

(* The soft time limit of a task. *)
LEMMA TimeLimitInv ==
  ASSUME DeployInv, NEW k \in TaskIds, TimeLimit(k)
  PROVE  DeployInv'
<1>1. /\ UNCHANGED <<changed, nextTask, disp, marks, requests, lost>>
      /\ task[k].pc = "locked" /\ task[k].kind = "apply"
      /\ built' = built \/ built' = built \cup {task[k].mod}
  BY DEF TimeLimit
<1>2. faults' \in 0 .. MaxFaults
  BY DeployAssumption DEF TimeLimit, Fault, DeployInv, TypeOK
<1>3. QED
  BY <1>1, <1>2, FailInv DEF TimeLimit, Raise

(* auto_apply queues the apply of an initialized module, or leaves it to   *)
(* the hook of the dependency that is missing.                             *)
LEMMA AutoApplyInv ==
  ASSUME DeployInv, NEW k \in TaskIds, AutoApply(k)
  PROVE  DeployInv'
<1> USE DEF DeployInv
<1> DEFINE m == task[k].mod
<1>1. /\ UNCHANGED <<changed, built, disp, marks, faults, requests, lost>>
      /\ task[k].pc = "auto" /\ Unlock(m)
  BY DEF AutoApply, bounds
<1>2. m \in Modules /\ lock[m] = k /\ k # 0
  BY <1>1, TaskTypes, Ids DEF LockInv, Holding, API
<1>3. /\ lock' \in [Modules -> Sessions]
      /\ \A n \in Modules : lock'[n] = IF n = m THEN 0 ELSE lock[n]
  BY <1>1, <1>2, Ids DEF Unlock, TypeOK, API
<1>4. ASSUME /\ \A j \in TaskIds : task[j].pc \in Holding /\ j # k => task'[j] = task[j]
             /\ \A j \in TaskIds : task'[j].pc \in Holding => task'[j] = task[j] /\ j # k
      PROVE  LockInv'
  <2>1. ASSUME NEW n \in Modules, lock'[n] # 0
        PROVE  task'[lock'[n]].mod = n /\ task'[lock'[n]].pc \in Holding
    <3>1. n # m /\ lock'[n] = lock[n] /\ lock[n] \in TaskIds
      BY <1>3, <2>1, Ids DEF TypeOK, API
    <3>2. task[lock[n]].mod = n /\ task[lock[n]].pc \in Holding
      BY <2>1, <3>1 DEF LockInv
    <3>3. QED
      BY <1>4, <3>1, <3>2
  <2>2. ASSUME NEW j \in TaskIds, task'[j].pc \in Holding
        PROVE  lock'[task'[j].mod] = j
    <3>1. task'[j] = task[j] /\ j # k /\ lock[task[j].mod] = j
      BY <1>4, <2>2 DEF LockInv
    <3>2. task[j].mod # m /\ task[j].mod \in Modules
      BY <1>2, <3>1, TaskTypes
    <3>3. QED
      BY <1>3, <3>1, <3>2
  <2>3. QED
    BY <2>1, <2>2 DEF LockInv
<1>5. Uninvolved(k)
  BY <1>1, Ids DEF Uninvolved, SessionInv, TypeOK, Dispatchers
<1>6. task[k].row \notin Open \/ lost
  BY <1>1 DEF RowInv, InFlight
<1>7. CASE /\ ~(task[k].kind = "init" /\ DepsApplied(m))
           /\ Row(k, task[k].row, "over") /\ UNCHANGED <<status, nextTask>>
  <2>1. Moves(k, task[k].row, "over")
    <3>1. task[k].row \in Rows /\ "over" \in PCs
      BY TaskTypes DEF PCs
    <3>2. QED
      BY <1>7, <3>1, RowMoves DEF Row
  <2>2. TypeOK'
    BY <1>1, <1>3, <1>7, <2>1 DEF TypeOK, Moves
  <2>3. FreshInv'
    BY <1>1, <1>7, <2>1, MovesFresh
  <2>4. LockInv'
    BY <1>4, <2>1 DEF Moves, Holding
  <2>5. SessionInv'
    BY <1>1, <1>5, <2>1, SessionKept DEF Moves
  <2>6. RowInv'
    BY <1>1, <1>6, <1>7, <2>1 DEF RowInv, Moves, InFlight
  <2>7. BuiltInv'
    BY <1>1, <1>7, <2>1 DEF BuiltInv, BuildOrder, Moves
  <2>8. SettleInv'
    BY <1>1, <1>7, <2>1 DEF SettleInv, Moves, InFlight
  <2>9. WaitInv'
    <3> SUFFICES ASSUME ~lost, NEW n \in Modules, Deps[n] # {}, DepsApplied(n)',
                        ~OnlyInit(n)', status'[n] \in Waiting
                 PROVE  \E j \in TaskIds : MovesOn(j, n)'
      BY <1>1 DEF WaitInv
    <3>1. OnlyInit(n) => OnlyInit(n)'
      BY <2>1 DEF Moves, OnlyInit
    <3>2. PICK j \in TaskIds : MovesOn(j, n)
      BY <1>7, <3>1, WaitedBefore
    <3>3. DepsApplied(n)
      BY <1>7 DEF DepsApplied
    <3>4. j # k
      BY <1>1, <1>7, <3>2, <3>3 DEF MovesOn, InFlight
    <3>5. QED
      BY <1>1, <2>1, <3>2, <3>4 DEF Moves, MovesOn, InFlight
  <2>10. QED
    BY <2>2, <2>3, <2>4, <2>5, <2>6, <2>7, <2>8, <2>9
<1>8. CASE /\ task[k].kind = "init" /\ DepsApplied(m) /\ nextTask <= MaxTasks
           /\ nextTask' = nextTask + 1
           /\ task' = [task EXCEPT ![nextTask] = NewTask(m, "apply", "queued"),
                                   ![k].pc = "over",
                                   ![k].row = IF Legal(status[m], "applying")
                                              THEN @ ELSE "failed"]
           /\ SetStatus(m, IF Legal(status[m], "applying") THEN "applying"
                           ELSE "init_failed")
  <2>1. /\ nextTask \in TaskIds /\ nextTask # k /\ task[nextTask] = NoTask
        /\ nextTask \in Nat /\ nextTask' \in 1 .. MaxTasks + 1
    <3>1. nextTask \in TaskIds /\ nextTask \in Nat /\ nextTask' \in 1 .. MaxTasks + 1
      BY <1>8, DeployAssumption DEF TypeOK, TaskIds
    <3>2. task[nextTask] = NoTask
      BY <3>1 DEF FreshInv
    <3>3. QED
      BY <1>1, <3>1, <3>2, NoTaskFields
  <2>2. PICK i \in TaskIds : i = nextTask
    BY <2>1
  <2>3. PICK row \in {task[k].row, "failed"} :
          task' = [task EXCEPT ![i] = [mod |-> m, kind |-> "apply", row |-> "queued",
                                       pc |-> "sent", seen |-> "none"],
                               ![k].pc = "over", ![k].row = row]
    <3>1. CASE Legal(status[m], "applying")
      BY <1>8, <2>1, <2>2, <3>1 DEF NewTask, TypeOK
    <3>2. CASE ~Legal(status[m], "applying")
      BY <1>8, <2>1, <2>2, <3>2 DEF NewTask, TypeOK
    <3>3. QED
      BY <3>1, <3>2
  <2>4. /\ task' \in [TaskIds -> TaskRecords]
        /\ \A j \in TaskIds : j # i /\ j # k => task'[j] = task[j]
        /\ task'[k].mod = m /\ task'[k].kind = "init"
        /\ task'[k].pc = "over" /\ task'[k].row = row
        /\ task'[i].mod = m /\ task'[i].kind = "apply"
        /\ task'[i].pc = "sent" /\ task'[i].row = "queued"
    <3> DEFINE new == [mod |-> m, kind |-> "apply", row |-> "queued",
                       pc |-> "sent", seen |-> "none"]
    <3>1. new \in TaskRecords
      BY <1>2 DEF TaskRecords, Rows, Open, PCs
    <3>2. row \in Rows /\ "over" \in PCs
      BY TaskTypes DEF Rows, PCs
    <3>3. task'[i] = new
      BY <2>1, <2>2, <2>3 DEF TypeOK
    <3>4. \A j \in TaskIds : j # i /\ j # k => task'[j] = task[j]
      BY <2>3 DEF TypeOK
    <3>5. task'[k] = [task[k] EXCEPT !.pc = "over", !.row = row]
      BY <2>1, <2>2, <2>3 DEF TypeOK
    <3>6. task[k] \in TaskRecords
      BY DEF TypeOK
    <3>7. /\ task'[k] \in TaskRecords /\ task'[k].mod = m /\ task'[k].kind = "init"
          /\ task'[k].pc = "over" /\ task'[k].row = row
      <4>1. task[k].kind = "init"
        BY <1>8
      <4>2. QED
        BY <3>2, <3>5, <3>6, <4>1 DEF TaskRecords
    <3>8. task' \in [TaskIds -> TaskRecords]
      BY <2>3, <3>1, <3>3, <3>4, <3>7 DEF TypeOK
    <3>9. QED
      BY <3>3, <3>4, <3>7, <3>8
  <2>5. /\ status' \in [Modules -> Statuses]
        /\ \A n \in Modules : n # m => status'[n] = status[n]
        /\ status'[m] \in {"applying", "init_failed"}
    BY <1>2, <1>8 DEF SetStatus, TypeOK, Statuses, InitOutcomes, ApplyOutcomes
  <2>6. TypeOK'
    BY <1>1, <1>3, <2>1, <2>4, <2>5 DEF TypeOK
  <2>7. FreshInv'
    <3>1. ASSUME NEW j \in TaskIds, j >= nextTask'
          PROVE  j # i /\ j >= nextTask
      BY <1>8, <2>1, <2>2, <3>1, Ids
    <3>2. ~(k >= nextTask)
      BY <1>1, NoTaskFields DEF FreshInv
    <3>3. QED
      BY <2>4, <3>1, <3>2 DEF FreshInv
  <2>8. LockInv'
    <3>1. task[i].pc = "none"
      BY <2>1, <2>2, NoTaskFields
    <3>2. QED
      BY <1>4, <2>4, <3>1 DEF Holding
  <2>9. SessionInv'
    BY <1>1, <1>5, <2>1, <2>2, <2>4, NewUninvolved, SessionKept
  <2>10. RowInv'
    <3>1. \A w \in marks : w.task \in Nat /\ w.task < nextTask
      BY Ids DEF RowInv, TypeOK
    <3>2. \A w \in marks : w.task < nextTask'
      BY <1>8, <2>1, <3>1
    <3>3. \A j \in TaskIds : task'[j].row \in Open /\ ~lost => InFlight(j)'
      BY <1>6, <2>3, <2>4 DEF RowInv, InFlight, Open
    <3>4. QED
      BY <1>1, <3>2, <3>3 DEF RowInv
  <2>11. BuiltInv'
    BY <1>1, <2>4, <2>5 DEF BuiltInv, BuildOrder
  <2>12. SettleInv'
    <3> SUFFICES ASSUME ~lost, NEW n \in Modules, status'[n] \in Transitional
                 PROVE  \E j \in TaskIds : InFlight(j)' /\ task'[j].mod = n
      BY <1>1 DEF SettleInv
    <3>1. CASE n = m
      BY <2>4, <3>1 DEF InFlight
    <3>2. CASE n # m
      <4>1. PICK j \in TaskIds : InFlight(j) /\ task[j].mod = n
        BY <2>5, <3>2 DEF SettleInv
      <4>2. j # i /\ j # k
        BY <1>1, <2>1, <2>2, <4>1, NoTaskFields DEF InFlight
      <4>3. QED
        BY <2>4, <4>1, <4>2 DEF InFlight
    <3>3. QED
      BY <3>1, <3>2
  <2>13. WaitInv'
    <3> SUFFICES ASSUME ~lost, NEW n \in Modules, Deps[n] # {}, DepsApplied(n)',
                        ~OnlyInit(n)', status'[n] \in Waiting
                 PROVE  \E j \in TaskIds : MovesOn(j, n)'
      BY <1>1 DEF WaitInv
    <3>1. OnlyInit(n) => OnlyInit(n)'
      BY <1>8, <2>1, <2>2, <2>4, NoTaskFields DEF OnlyInit
    <3>2. \A x \in Modules : status'[x] \in Waiting \cup {"applied"}
                               => status[x] = status'[x]
      BY <2>5 DEF Waiting
    <3>3. PICK j \in TaskIds : MovesOn(j, n)
      BY <3>1, <3>2, WaitedBefore
    <3>4. n # m
      BY <2>5 DEF Waiting
    <3>5. j # i /\ j # k
      BY <1>1, <2>1, <2>2, <3>3, <3>4, NoTaskFields DEF MovesOn, InFlight
    <3>6. QED
      BY <1>1, <2>4, <3>3, <3>5 DEF MovesOn, InFlight
  <2>14. QED
    BY <2>6, <2>7, <2>8, <2>9, <2>10, <2>11, <2>12, <2>13
<1>9. QED
  BY <1>7, <1>8 DEF AutoApply

(* The death of a worker brings its task back; what its session had not    *)
(* committed is gone, but nothing that was committed waits for it alone.   *)
LEMMA DieInv ==
  ASSUME DeployInv, NEW k \in TaskIds, Die(k)
  PROVE  DeployInv'
<1> USE DEF DeployInv
<1> DEFINE pend == disp[k].pend
<1>1. /\ UNCHANGED <<status, changed, built, nextTask, marks, requests, lost>>
      /\ task[k].pc \in Running
  BY DEF Die
<1>2. faults' \in 0 .. MaxFaults
  <2>1. faults < MaxFaults /\ faults' = faults + 1
    BY DEF Die, Fault
  <2>2. QED
    BY <2>1, DeployAssumption DEF TypeOK
<1>3. /\ k \in Sessions /\ k # API /\ k # 0 /\ task[k].mod \in Modules
      /\ \A d \in Sessions : k \notin disp[d].pend
      /\ \A j \in pend : j \in TaskIds /\ task[j].pc \in {"sent", "over"}
                         /\ task[j].row = "unseen"
  BY <1>1, Ids, TaskTypes DEF SessionInv, TypeOK, Dispatchers, Running, API
<1>4. /\ task' \in [TaskIds -> TaskRecords]
      /\ task'[k].mod = task[k].mod /\ task'[k].kind = task[k].kind
      /\ task'[k].pc = "sent" /\ task'[k].row = task[k].row
      /\ \A j \in pend : /\ task'[j].mod = task[j].mod /\ task'[j].pc = task[j].pc
                         /\ task'[j].kind = task[j].kind /\ task'[j].row = "none"
      /\ \A j \in TaskIds \ pend : j # k => task'[j] = task[j]
  <2>1. task' = [j \in TaskIds |->
                  IF j = k THEN [task[j] EXCEPT !.pc = "sent", !.seen = "none"]
                  ELSE IF j \in pend THEN [task[j] EXCEPT !.row = "none"]
                  ELSE task[j]]
    BY DEF Die
  <2>2. \A j \in TaskIds :
          /\ [task[j] EXCEPT !.pc = "sent", !.seen = "none"] \in TaskRecords
          /\ [task[j] EXCEPT !.row = "none"] \in TaskRecords
    BY ZenonT(60) DEF TypeOK, TaskRecords, Rows, PCs
  <2>3. task' \in [TaskIds -> TaskRecords]
    BY <2>1, <2>2 DEF TypeOK
  <2>4. /\ task'[k].mod = task[k].mod /\ task'[k].kind = task[k].kind
        /\ task'[k].pc = "sent" /\ task'[k].row = task[k].row
    <3>1. task'[k] = [task[k] EXCEPT !.pc = "sent", !.seen = "none"]
      BY <2>1
    <3>2. task[k] \in TaskRecords
      BY DEF TypeOK
    <3>3. QED
      BY <3>1, <3>2 DEF TaskRecords
  <2>5. ASSUME NEW j \in pend
        PROVE  /\ task'[j].mod = task[j].mod /\ task'[j].pc = task[j].pc
               /\ task'[j].kind = task[j].kind /\ task'[j].row = "none"
    <3>1. j \in TaskIds /\ j # k
      BY <1>3
    <3>2. task'[j] = [task[j] EXCEPT !.row = "none"]
      BY <2>1, <3>1
    <3>3. task[j] \in TaskRecords
      BY <3>1 DEF TypeOK
    <3>4. QED
      BY <3>2, <3>3 DEF TaskRecords
  <2>6. \A j \in TaskIds \ pend : j # k => task'[j] = task[j]
    BY <2>1
  <2>7. QED
    BY <2>3, <2>4, <2>5, <2>6
<1>5. /\ disp' \in [Sessions -> Dispatchers] /\ disp'[k] = Idle
      /\ \A c \in Sessions : c # k => disp'[c] = disp[c]
      /\ Idle.pc = "idle" /\ Idle.pend = {}
  BY <1>3 DEF Die, TypeOK, Dispatchers, Idle
<1>6. /\ lock' \in [Modules -> Sessions]
      /\ \A m \in Modules : lock'[m] = IF lock[m] = k THEN 0 ELSE lock[m]
  <2>1. \A m \in Modules : lock[m] = k => m = task[k].mod
    BY <1>3 DEF LockInv
  <2>2. 0 \in Sessions
    BY Ids DEF API
  <2>3. QED
    BY <1>3, <2>1, <2>2 DEF Die, TypeOK
<1>7. TypeOK'
  BY <1>1, <1>2, <1>4, <1>5, <1>6 DEF TypeOK
<1>8. FreshInv'
  <2>1. \A j \in TaskIds : j >= nextTask => j \notin pend /\ j # k
    BY <1>1, <1>3, NoTaskFields DEF FreshInv, Running
  <2>2. QED
    BY <1>1, <1>4, <2>1 DEF FreshInv
<1>9. LockInv'
  <2>1. ASSUME NEW m \in Modules, lock'[m] # 0
        PROVE  task'[lock'[m]].mod = m /\ task'[lock'[m]].pc \in Holding
    <3>1. lock'[m] = lock[m] /\ lock[m] \in TaskIds /\ lock[m] # k
      BY <1>6, <2>1, Ids DEF TypeOK, API
    <3>2. task[lock[m]].mod = m /\ task[lock[m]].pc \in Holding
      BY <2>1, <3>1 DEF LockInv
    <3>3. QED
      BY <1>3, <1>4, <3>1, <3>2 DEF Holding
  <2>2. ASSUME NEW j \in TaskIds, task'[j].pc \in Holding
        PROVE  lock'[task'[j].mod] = j
    <3>1. j # k /\ task'[j] = task[j]
      BY <1>3, <1>4, <2>2 DEF Holding
    <3>2. QED
      BY <1>6, <2>2, <3>1, TaskTypes DEF LockInv
  <2>3. QED
    BY <2>1, <2>2 DEF LockInv
<1>10. SessionInv'
  <2>1. ASSUME NEW c \in Sessions, NEW j \in disp'[c].pend
        PROVE  j \in disp[c].pend /\ task'[j] = task[j]
    <3>1. c # k /\ j \in disp[c].pend /\ j \in TaskIds \ pend /\ j # k
      BY <1>3, <1>5, <2>1 DEF SessionInv, TypeOK, Dispatchers
    <3>2. QED
      BY <1>4, <3>1
  <2>2. ASSUME NEW c \in Sessions, c # API, disp'[c].pc = "loop"
        PROVE  task'[c].pc = "hook"
    <3>1. c # k /\ c \in TaskIds /\ task[c].pc = "hook"
      BY <1>5, <2>2, Ids DEF SessionInv
    <3>2. QED
      BY <1>3, <1>4, <3>1
  <2>3. \A c \in Sessions : disp'[c].pc = "idle" => disp'[c] = Idle
    BY <1>5 DEF SessionInv
  <2>4. \A b, c \in Sessions : b # c => disp'[b].pend \cap disp'[c].pend = {}
    BY <1>5 DEF SessionInv
  <2>5. QED
    BY <1>1, <2>1, <2>2, <2>3, <2>4 DEF SessionInv
<1>11. RowInv'
  BY <1>1, <1>3, <1>4 DEF RowInv, InFlight, Open
<1>12. BuiltInv'
  BY <1>1, <1>3, <1>4 DEF BuiltInv, BuildOrder
<1>13. \A j \in TaskIds : InFlight(j) => InFlight(j)' /\ task'[j].mod = task[j].mod
  BY <1>3, <1>4 DEF InFlight
<1>14. SettleInv'
  BY <1>1, <1>13 DEF SettleInv
<1>15. WaitInv'
  <2> SUFFICES ASSUME ~lost, NEW m \in Modules, Deps[m] # {}, DepsApplied(m)',
                      ~OnlyInit(m)', status'[m] \in Waiting
               PROVE  \E j \in TaskIds : MovesOn(j, m)'
    BY <1>1 DEF WaitInv
  <2>1. \A j \in TaskIds : task'[j].mod = task[j].mod /\ task'[j].kind = task[j].kind
    BY <1>4
  <2>2. OnlyInit(m) => OnlyInit(m)'
    BY <2>1 DEF OnlyInit
  <2>3. PICK j \in TaskIds : MovesOn(j, m)
    BY <1>1, <2>2, WaitedBefore
  <2>4. CASE j = k
    <3>1. task[k].mod \in {m} \cup Deps[m]
      BY <2>3, <2>4 DEF MovesOn
    <3>2. MovesOn(k, m)'
      BY <1>4, <3>1 DEF MovesOn, InFlight
    <3>3. QED
      BY <3>2
  <2>5. CASE j # k
    <3>1. disp'[j] = disp[j] /\ task'[j].pc = task[j].pc
      BY <1>4, <1>5, <2>5, Ids
    <3>2. MovesOn(j, m)'
      BY <2>1, <2>3, <3>1 DEF MovesOn, InFlight
    <3>3. QED
      BY <3>2
  <2>6. QED
    BY <2>4, <2>5
<1>16. QED
  BY <1>7, <1>8, <1>9, <1>10, <1>11, <1>12, <1>14, <1>15

-------------------------------------------------------------------------------
(* The requests for one module create a task and may set its status.       *)
LEMMA RequestInv ==
  ASSUME DeployInv, NEW m \in Modules, NEW kind \in {"init", "init_only", "apply"},
         NEW follow \in SUBSET [task : {nextTask}, to : Transitional, blind : BOOLEAN],
         Submit(m, kind, follow),
         \/ UNCHANGED status
         \/ \E s \in Transitional : status' = [status EXCEPT ![m] = s]
  PROVE  DeployInv'
<1>1. /\ Creates(m, kind, "queued", "sent") /\ nextTask' \in 1 .. MaxTasks + 1
  <2>1. "queued" \in Rows /\ "sent" \in PCs
    BY DEF Rows, PCs, Open
  <2>2. QED
    BY <2>1, NewCreates DEF Submit, NewTask, DeployInv
<1>2. /\ UNCHANGED <<changed, built, lock, disp, faults, lost>>
      /\ marks' = marks \cup follow
  BY DEF Submit
<1>3. requests' \in 0 .. MaxRequests
  BY DeployAssumption DEF Submit, Request, DeployInv, TypeOK
<1>4. QED
  BY <1>1, <1>2, <1>3, CreateInv

(* What a session notes about the task that it is to send. *)
LEMMA FollowType ==
  ASSUME NEW kind, NEW blind \in BOOLEAN
  PROVE  Follow(kind, blind) \in [task : {nextTask}, to : Transitional, blind : BOOLEAN]
  BY DEF Follow, Transitional

(* The requests for a single module. *)
LEMMA RequestsInv ==
  ASSUME DeployInv, NEW m \in Singles,
         Deploy(m) \/ Retry(m) \/ SubmitInit(m) \/ SubmitApply(m) \/ Edit(m)
  PROVE  DeployInv'
<1> DEFINE Writes == SUBSET [task : {nextTask}, to : Transitional, blind : BOOLEAN]
<1>1. m \in Modules
  BY DeployAssumption
<1>2. CASE Deploy(m)
  <2>1. \E kind \in {"init", "init_only", "apply"} : \E follow \in Writes :
          Submit(m, kind, follow)
    BY <1>2, FollowType DEF Deploy
  <2>2. UNCHANGED status
    BY <1>2 DEF Deploy
  <2>3. QED
    BY <1>1, <2>1, <2>2, RequestInv
<1>3. CASE Retry(m)
  <2>1. \E kind \in {"init", "init_only", "apply"} : \E follow \in Writes :
          Submit(m, kind, follow)
    BY <1>3, FollowType, ZenonT(60) DEF Retry
  <2>2. UNCHANGED status
    BY <1>3 DEF Retry
  <2>3. QED
    BY <1>1, <2>1, <2>2, RequestInv
<1>4. CASE SubmitInit(m)
  <2>1. {Follow("init_only", FALSE)} \in Writes /\ "initializing" \in Transitional
    BY FollowType DEF Transitional
  <2>2. QED
    BY <1>1, <1>4, <2>1, RequestInv DEF SubmitInit
<1>5. CASE SubmitApply(m)
  <2>1. {Follow("apply", FALSE)} \in Writes /\ "applying" \in Transitional
    BY FollowType DEF Transitional
  <2>2. QED
    BY <1>1, <1>5, <2>1, RequestInv DEF SubmitApply
<1>6. CASE Edit(m)
  <2>1. /\ UNCHANGED <<status, built, task, nextTask, lock, disp, marks, faults, lost>>
        /\ changed' = changed \cup {m}
    BY <1>6 DEF Edit
  <2>2. requests' \in 0 .. MaxRequests
    BY <1>6, DeployAssumption DEF Edit, Request, DeployInv, TypeOK
  <2>3. TypeOK'
    BY <1>1, <2>1, <2>2 DEF DeployInv, TypeOK
  <2>4. FreshInv' /\ LockInv' /\ SessionInv' /\ RowInv' /\ BuiltInv' /\ SettleInv'
    BY <2>1 DEF DeployInv, FreshInv, LockInv, SessionInv, RowInv, BuiltInv,
                BuildOrder, SettleInv, InFlight
  <2>5. WaitInv'
    BY <2>1 DEF DeployInv, WaitInv, MovesOn, InFlight, OnlyInit, DepsApplied
  <2>6. QED
    BY <2>3, <2>4, <2>5 DEF DeployInv
<1>7. QED
  BY <1>2, <1>3, <1>4, <1>5, <1>6

(* Every step preserves the inductive invariant. *)
LEMMA StepInv == DeployInv /\ [Next]_vars => DeployInv'
<1> SUFFICES ASSUME DeployInv, [Next]_vars
             PROVE  DeployInv'
  OBVIOUS
<1>1. ASSUME NEW d \in Sessions, Dispatcher(d) \/ SendFails(d)
      PROVE  DeployInv'
  BY <1>1, SkipInv, SendInv, CommitInv, SendFailsInv DEF Dispatcher
<1>2. CASE DeployAll
  BY <1>2, DeployAllInv
<1>3. ASSUME NEW m \in Singles,
             Deploy(m) \/ Retry(m) \/ SubmitInit(m) \/ SubmitApply(m) \/ Edit(m)
      PROVE  DeployInv'
  BY <1>3, RequestsInv
<1>4. ASSUME NEW w \in marks, Mark(w)
      PROVE  DeployInv'
  BY <1>4, MarkInv
<1>5. ASSUME NEW k \in TaskIds, Work(k)
      PROVE  DeployInv'
  BY <1>5, BeginInv, AcquireInv, InitEndsInv, ApplyEndsInv, AutoApplyInv, HookInv
  DEF Work
<1>6. ASSUME NEW k \in TaskIds,
             NotFound(k) \/ LockTimeout(k) \/ TimeLimit(k) \/ Die(k)
      PROVE  DeployInv'
  BY <1>6, NotFoundInv, LockTimeoutInv, TimeLimitInv, DieInv
<1>7. CASE UNCHANGED vars
  <2>1. UNCHANGED <<status, changed, built, task, nextTask, lock, disp, marks,
                    faults, requests, lost>>
    BY <1>7 DEF vars, bounds
  <2>2. TypeOK' /\ FreshInv' /\ LockInv' /\ SessionInv' /\ RowInv' /\ BuiltInv'
    BY <2>1 DEF DeployInv, TypeOK, FreshInv, LockInv, SessionInv, RowInv, BuiltInv,
                BuildOrder, InFlight
  <2>3. SettleInv' /\ WaitInv'
    BY <2>1 DEF DeployInv, SettleInv, WaitInv, MovesOn, InFlight, OnlyInit,
                DepsApplied
  <2>4. QED
    BY <2>2, <2>3 DEF DeployInv
<1>8. QED
  BY <1>1, <1>2, <1>3, <1>4, <1>5, <1>6, <1>7 DEF Next

(* The inductive invariant holds throughout: every lock belongs to the task *)
(* that works under it, and every module that is in a transitional status,  *)
(* or waits on applied modules, has a task that will take it on.            *)
THEOREM DeployInvariant == Spec => []DeployInv
  BY InitInv, StepInv, PTL DEF Spec

(* The statuses, rows and sessions keep their types. *)
THEOREM TypeCorrect == Spec => []TypeOK
<1>1. DeployInv => TypeOK
  BY DEF DeployInv
<1>2. QED
  BY <1>1, DeployInvariant, PTL

(* Infrastructure is created in the order of the dependencies, for every   *)
(* dependency graph.                                                       *)
THEOREM BuildOrderSafety == Spec => []BuildOrder
<1>1. DeployInv => BuildOrder
  BY DEF DeployInv, BuiltInv
<1>2. QED
  BY <1>1, DeployInvariant, PTL

(* A chain that has come to rest without a loss leaves no module in a      *)
(* transitional status.                                                    *)
THEOREM SettledSafety == Spec => []SettledStatus
<1>1. DeployInv => SettledStatus
  BY DEF DeployInv, SettleInv, SettledStatus, Quiet, InFlight
<1>2. QED
  BY <1>1, DeployInvariant, PTL

(* A chain that has come to rest without a loss leaves no module waiting   *)
(* whose dependencies are applied: no wave stalls.                         *)
THEOREM NotStalledSafety == Spec => []ChainNotStalled
<1>1. DeployInv => ChainNotStalled
  <2> SUFFICES ASSUME DeployInv, Quiet, ~lost, NEW m \in Modules, Deps[m] # {},
                      DepsApplied(m), ~OnlyInit(m), status[m] \in Waiting
               PROVE  FALSE
    BY DEF ChainNotStalled, OnlyInit
  <2>1. PICK k \in TaskIds : MovesOn(k, m)
    BY DEF DeployInv, WaitInv
  <2>2. QED
    BY <2>1 DEF Quiet, MovesOn, InFlight
<1>2. QED
  BY <1>1, DeployInvariant, PTL

================================================================================
