------------------------------ MODULE BnkUpgrade ------------------------------
(***************************************************************************)
(* BNK upgrades of one cluster: plans, their stepwise execution and their  *)
(* rollback, each a Celery task under the entity lock of its upgrade row   *)
(* (services/bnk_upgrade_execution_service.py, tasks/bnk_upgrade_tasks.py).*)
(*                                                                         *)
(* The lock appears here as what FencedLease promises of it: a lease that  *)
(* can lapse, and a fence that rejects the writes of an earlier epoch. The *)
(* wait for the lock (60 s) is longer than the reclaim window (30 s), so a *)
(* waiter gives up only on a live holder. A version is the upgrade that    *)
(* installed it, 0 before all of them. Only the helm step has an effect    *)
(* that a rollback can see; all steps have an effect that must happen. The *)
(* install is FLO-managed (execute_upgrade fails any other one at once).   *)
(*                                                                         *)
(* create_upgrade looks for open upgrades and commits its plan after a scan *)
(* of the cluster, without a lock: a step that reads, a step that writes.  *)
(* The row lock that the superseded plan's flush takes is left out: other  *)
(* writers would only wait for it, and here they come before or after.     *)
(***************************************************************************)
EXTENDS Integers, Sequences, FiniteSets

CONSTANTS
  Upgrades,   \* ids of the bnk_upgrades rows, 1 .. n
  Steps,      \* length of every plan
  HelmStep,   \* the number of its helm_upgrade step
  MaxExecs,   \* bound: messages ever sent
  MaxFaults   \* bound: worker deaths, lapses of a lease, exceptions

ASSUME UpgradeAssumption ==
  /\ Upgrades \subseteq Nat \ {0} /\ IsFiniteSet(Upgrades) /\ Upgrades # {}
  /\ Steps \in Nat /\ HelmStep \in 1 .. Steps
  /\ MaxExecs \in Nat /\ MaxFaults \in Nat

Execs == 1 .. MaxExecs

Statuses == {"none", "ready", "in_progress", "completed", "failed",
             "rolling_back", "rolled_back", "cancelled"}
Executing == {"in_progress", "rolling_back"}

VARIABLES
  status,    \* status[u]: BnkUpgrade.status
  step,      \* step[u]: current_step
  target,    \* target[u]: rollback_info's flo_revision, 0 when not available
  fence,     \* fence[u]: lock_fence_token
  live,      \* live[u]: held, with a heartbeat younger than the reclaim window
  revs,      \* helm's history of the FLO release: of each revision its version
             \* and, for the properties, the upgrade that made it
  exec,      \* exec[e]: a message, or the worker that works on it
  nextExec,  \* the next message
  faults,    \* faults so far
  planning,  \* the create_upgrade requests that have looked for open upgrades
  old,       \* old[u]: the plan that u's request will replace, 0 for none
  hist       \* hist[u]: what happened to the upgrade, for the properties

row  == <<status, step, target, fence, live>>
requests == <<nextExec, planning, old>>
vars == <<row, revs, exec, requests, faults, hist>>

NoExec == [u |-> CHOOSE u \in Upgrades : TRUE, kind |-> "execute",
           pc |-> "none", fence |-> 0, at |-> 0]
NoHist == [from |-> 1,           \* the revision at planning
           done |-> {},          \* steps whose work has been done
           cut |-> {},           \* steps in progress when the lease was lost,
                                 \* or whose failure could not be written
           late |-> FALSE,       \* rollback_info captured after the helm step
           abandoned |-> FALSE,  \* a worker died in the rollback, or a task
                                 \* ended and could not write its failure
           unfenced |-> FALSE,   \* marked failed by a task without the lock
           raced |-> FALSE,      \* cancelled between a task's read and write,
                                 \* or by a request that a task has overtaken
           beside |-> FALSE]     \* planned on a look at the open upgrades that
                                 \* another plan had made stale, or replaces
                                 \* an upgrade that was

(* Program counters of an executor that holds, or has held, the lock. *)
Locked == {"begin", "refused", "loop", "step", "failing", "helm", "restored",
           "stuck", "release"}

(* The step's number is committed, its result is not, or it has failed. *)
Working == {"step", "failing"}

(* rolling_back is written, the end of the rollback is not. *)
RollbackPCs == {"helm", "restored", "stuck"}

(* In the handlers, which run when the lock is released. *)
Handlers == {"unlocked", "raised", "marking"}

ExecRecords == [u : Upgrades, kind : {"execute", "rollback"},
                pc : Locked \cup Handlers \cup {"none", "sent", "done"},
                fence : Nat, at : 0 .. Steps]
HistRecords == [from : Nat, done : SUBSET (1 .. Steps), cut : SUBSET (1 .. Steps),
                late : BOOLEAN, abandoned : BOOLEAN, unfenced : BOOLEAN,
                raced : BOOLEAN, beside : BOOLEAN]
Revisions == [version : {0} \cup Upgrades, by : {0} \cup Upgrades]

TypeOK ==
  /\ status \in [Upgrades -> Statuses]
  /\ step \in [Upgrades -> 0 .. Steps]
  /\ target \in [Upgrades -> Nat]
  /\ fence \in [Upgrades -> Nat] /\ live \in [Upgrades -> BOOLEAN]
  /\ revs \in Seq(Revisions)
  /\ exec \in [Execs -> ExecRecords]
  /\ nextExec \in 1 .. MaxExecs + 1 /\ faults \in 0 .. MaxFaults
  /\ planning \subseteq Upgrades
  /\ old \in [Upgrades -> {0} \cup Upgrades]
  /\ hist \in [Upgrades -> HistRecords]
  /\ \A u \in Upgrades : target[u] <= Len(revs) /\ hist[u].from \in 1 .. Len(revs)
  /\ \A e \in Execs : exec[e].fence <= fence[exec[e].u]

Init ==
  /\ status = [u \in Upgrades |-> "none"] /\ step = [u \in Upgrades |-> 0]
  /\ target = [u \in Upgrades |-> 0] /\ fence = [u \in Upgrades |-> 0]
  /\ live = [u \in Upgrades |-> FALSE]
  /\ revs = <<[version |-> 0, by |-> 0]>>
  /\ exec = [e \in Execs |-> NoExec] /\ nextExec = 1
  /\ faults = 0
  /\ planning = {} /\ old = [u \in Upgrades |-> 0]
  /\ hist = [u \in Upgrades |-> NoHist]

-----------------------------------------------------------------------------
(* Helpers *)

Version == revs[Len(revs)].version

(* Upgrade u has helm append a revision. *)
Revised(u, version) == Append(revs, [version |-> version, by |-> u])

Fault == faults < MaxFaults /\ faults' = faults + 1

Goto(e, pc) == exec' = [exec EXCEPT ![e].pc = pc]
End(e) == exec' = [exec EXCEPT ![e] = [NoExec EXCEPT !.pc = "done"]]
SetStatus(e, s) == status' = [status EXCEPT ![exec[e].u] = s]

(* set_locked_entity_fields accepts the write. *)
Fenced(e) == exec[e].fence = fence[exec[e].u]

At(e, kind, pc) == exec[e].kind = kind /\ exec[e].pc = pc

Send(u, kind) ==
  /\ nextExec <= MaxExecs
  /\ exec' = [exec EXCEPT ![nextExec] =
                [NoExec EXCEPT !.u = u, !.kind = kind, !.pc = "sent"]]
  /\ nextExec' = nextExec + 1

(* A "cancelled" written over u: a task is admitted and does not see it any *)
(* more, or has written since the request has read "ready".                 *)
Raced(u) ==
  \/ status[u] \notin {"ready", "cancelled"}
  \/ \E e \in Execs : exec[e].u = u /\ At(e, "execute", "begin")

-----------------------------------------------------------------------------
(* Requests *)

OpenRows == {v \in Upgrades : status[v] \in {"ready"} \cup Executing}

Unplanned(u) ==
  /\ status[u] = "none" /\ u \notin planning
  /\ \A v \in Upgrades : v < u => status[v] # "none" \/ v \in planning

(* Mutant: does not look for upgrades that execute. *)
PlanCheckReady(u) ==
  LET ready == {v \in Upgrades : status[v] = "ready"}
  IN
  /\ Unplanned(u)
  /\ planning' = planning \cup {u}
  /\ \/ ready = {} /\ UNCHANGED <<old, hist>>
     \/ \E v \in ready :
          /\ old' = [old EXCEPT ![u] = v]
          /\ hist' = [hist EXCEPT ![u].beside = hist[v].beside]
  /\ UNCHANGED <<row, revs, exec, nextExec, faults>>

(* create_upgrade looks at one of the open upgrades of the cluster. One that *)
(* executes refuses the request, one that is ready will be replaced.         *)
PlanCheck(u) ==
  /\ Unplanned(u)
  /\ planning' = planning \cup {u}
  /\ \/ OpenRows = {} /\ UNCHANGED <<old, hist>>
     \/ \E v \in OpenRows :
          /\ status[v] = "ready"
          /\ old' = [old EXCEPT ![u] = v]
          /\ hist' = [hist EXCEPT ![u].beside = hist[v].beside]
  /\ UNCHANGED <<row, revs, exec, nextExec, faults>>

(* After the scan and the pre-checks it commits both rows. *)
Plan(u) ==
  /\ u \in planning
  /\ \E s \in {"ready", "failed"} :
       /\ status' = [v \in Upgrades |-> IF v = u THEN s
                                       ELSE IF v = old[u] THEN "cancelled"
                                       ELSE status[v]]
       /\ hist' = [v \in Upgrades |-> [hist[v] EXCEPT
                     !.from = IF v = u THEN Len(revs) ELSE @,
                     !.raced = @ \/ (v = old[u] /\ Raced(v)),
                     !.beside = @ \/ (s = "ready" /\ v \in planning \ {u})]]
  /\ planning' = planning \ {u} /\ old' = [old EXCEPT ![u] = 0]
  /\ UNCHANGED <<step, target, fence, live, revs, exec, nextExec, faults>>

(* The scan fails: the request's transaction is rolled back. *)
PlanAborted(u) ==
  /\ u \in planning
  /\ planning' = planning \ {u} /\ old' = [old EXCEPT ![u] = 0]
  /\ hist' = [hist EXCEPT ![u].beside = FALSE]
  /\ UNCHANGED <<row, revs, exec, nextExec, faults>>

(* POST .../execute *)
ExecuteRoute(u) ==
  /\ status[u] = "ready" /\ Send(u, "execute")
  /\ UNCHANGED <<row, revs, faults, planning, old, hist>>

RollbackAllowed(u) == target[u] # 0 /\ status[u] \in {"failed", "in_progress"}

(* POST .../rollback *)
RollbackRoute(u) ==
  /\ RollbackAllowed(u) /\ Send(u, "rollback")
  /\ UNCHANGED <<row, revs, faults, planning, old, hist>>

(* cancel_upgrade *)
Cancel(u) ==
  /\ status[u] = "ready"
  /\ status' = [status EXCEPT ![u] = "cancelled"]
  /\ hist' = [hist EXCEPT ![u].raced = @ \/ Raced(u)]
  /\ UNCHANGED <<step, target, fence, live, revs, exec, faults, requests>>

-----------------------------------------------------------------------------
(* Both tasks: the lock around the service call *)

(* Mutant: no look at the status. *)
AdmittedAlways(e) == TRUE

(* The status that the service reads, before it writes its own. *)
Admitted(e) ==
  LET u == exec[e].u
  IN  IF exec[e].kind = "execute" THEN status[u] \in {"ready", "in_progress"}
      ELSE RollbackAllowed(u)

(* A free or lapsed lock is taken; what the earlier holder was doing then *)
(* goes on without it. The service call begins with a look at the status. *)
Acquire(e) ==
  LET u == exec[e].u
      cut == {exec[d].at : d \in {x \in Execs : /\ exec[x].u = u /\ Fenced(x)
                                               /\ exec[x].pc \in Working}}
  IN
  /\ exec[e].pc = "sent" /\ ~live[u]
  /\ fence' = [fence EXCEPT ![u] = @ + 1]
  /\ live' = [live EXCEPT ![u] = TRUE]
  /\ exec' = [exec EXCEPT ![e].pc = IF Admitted(e) THEN "begin" ELSE "refused",
                          ![e].fence = fence[u] + 1]
  /\ hist' = [hist EXCEPT ![u].cut = @ \cup cut]
  /\ UNCHANGED <<status, step, target, revs, requests, faults>>

(* EntityLockError after the wait. *)
GiveUp(e) ==
  /\ exec[e].pc = "sent" /\ live[exec[e].u]
  /\ Goto(e, "unlocked")
  /\ UNCHANGED <<row, revs, requests, faults, hist>>

(* A fenced write finds another token: EntityLockLostError. Release then *)
(* changes no row.                                                       *)
Lose(e) ==
  /\ exec[e].pc \in {"begin", "loop", "failing", "restored", "stuck"}
  /\ ~Fenced(e)
  /\ Goto(e, "unlocked")
  /\ UNCHANGED <<row, revs, requests, faults, hist>>

(* The handlers of both lock errors write the status without the fence, or *)
(* cannot and say nothing of it.                                           *)
FailUnfenced(e) ==
  LET u == exec[e].u
  IN
  /\ exec[e].pc = "unlocked" /\ End(e)
  /\ \/ /\ SetStatus(e, "failed") /\ UNCHANGED faults
        /\ hist' = [hist EXCEPT ![u].unfenced = TRUE]
     \/ /\ UNCHANGED status /\ Fault
        /\ hist' = [hist EXCEPT ![u].abandoned = TRUE]
  /\ UNCHANGED <<step, target, fence, live, revs, requests>>

Unlocked(e) == IF Fenced(e) THEN [live EXCEPT ![exec[e].u] = FALSE] ELSE live

Release(e) ==
  /\ exec[e].pc = "release"
  /\ live' = Unlocked(e) /\ End(e)
  /\ UNCHANGED <<status, step, target, fence, revs, requests, faults, hist>>

(* The service refuses the status with a ValueError, which is an exception *)
(* like any other to the tasks.                                            *)
Refuse(e) ==
  /\ exec[e].pc = "refused" /\ live' = Unlocked(e)
  /\ IF exec[e].kind = "execute" THEN Goto(e, "raised") ELSE End(e)
  /\ UNCHANGED <<status, step, target, fence, revs, requests, faults, hist>>

(* Mutant: it only returns, like the handler of the rollback. *)
HandleReturns(e) ==
  /\ exec[e].pc = "raised" /\ End(e)
  /\ UNCHANGED <<row, revs, requests, faults, hist>>

(* The handler of all other exceptions of execute_upgrade_task reads the    *)
(* status, and marks failed what is in progress.                            *)
Handle(e) ==
  /\ exec[e].pc = "raised"
  /\ IF status[exec[e].u] = "in_progress" THEN Goto(e, "marking") ELSE End(e)
  /\ UNCHANGED <<row, revs, requests, faults, hist>>

(* Its write has no fence either, and its session may be the one that the  *)
(* exception has broken: then it fails, and is only logged.                *)
MarkFailed(e) ==
  LET u == exec[e].u
      owned == Fenced(e) /\ exec[e].fence > 0 /\ status[u] = "in_progress"
  IN
  /\ exec[e].pc = "marking" /\ End(e)
  /\ \/ /\ SetStatus(e, "failed")
        /\ hist' = [hist EXCEPT ![u].unfenced = @ \/ ~owned]
     \/ UNCHANGED status /\ hist' = [hist EXCEPT ![u].abandoned = TRUE]
  /\ UNCHANGED <<step, target, fence, live, revs, requests, faults>>

-----------------------------------------------------------------------------
(* execute_upgrade *)

(* in_progress, then the FLO revision for a rollback, whose failure is only *)
(* a warning.                                                               *)
BeginExecute(e) ==
  LET u == exec[e].u
  IN
  /\ At(e, "execute", "begin") /\ Fenced(e)
  /\ SetStatus(e, "in_progress") /\ Goto(e, "loop")
  /\ \/ /\ target' = [target EXCEPT ![u] = Len(revs)]
        /\ hist' = [hist EXCEPT ![u].late = @ \/ step[u] >= HelmStep]
     \/ UNCHANGED <<target, hist>>
  /\ UNCHANGED <<step, fence, live, revs, requests, faults>>

(* Mutant: one step too many. *)
BeginStepPast(e) ==
  LET u == exec[e].u
  IN
  /\ exec[e].pc = "loop" /\ Fenced(e) /\ step[u] <= Steps
  /\ step' = [step EXCEPT ![u] = @ + 1]
  /\ exec' = [exec EXCEPT ![e].pc = "step", ![e].at = step[u] + 1]
  /\ UNCHANGED <<status, target, fence, live, revs, requests, faults, hist>>

(* current_step is committed before the step's work. *)
BeginStep(e) ==
  LET u == exec[e].u
  IN
  /\ exec[e].pc = "loop" /\ Fenced(e) /\ step[u] < Steps
  /\ step' = [step EXCEPT ![u] = @ + 1]
  /\ exec' = [exec EXCEPT ![e].pc = "step", ![e].at = step[u] + 1]
  /\ UNCHANGED <<status, target, fence, live, revs, requests, faults, hist>>

(* Mutant: a failure is not noticed. *)
WorkUnchecked(e) ==
  LET u == exec[e].u
      helm == exec[e].at = HelmStep
  IN
  /\ exec[e].pc = "step"
  /\ exec' = [exec EXCEPT ![e].pc = "loop", ![e].at = 0]
  /\ \/ /\ hist' = [hist EXCEPT ![u].done = @ \cup {exec[e].at}]
        /\ revs' = IF helm THEN Revised(u, u) ELSE revs
     \/ UNCHANGED <<hist, revs>>
  /\ UNCHANGED <<row, requests, faults>>

(* The step's work, which the fence does not see; its result is appended to *)
(* step_results. A helm upgrade that fails may leave a revision behind.     *)
Work(e) ==
  LET u == exec[e].u
      helm == exec[e].at = HelmStep
  IN
  /\ exec[e].pc = "step"
  /\ \/ /\ exec' = [exec EXCEPT ![e].pc = "loop", ![e].at = 0]
        /\ hist' = [hist EXCEPT ![u].done = @ \cup {exec[e].at}]
        /\ revs' = IF helm THEN Revised(u, u) ELSE revs
     \/ /\ Goto(e, "failing") /\ UNCHANGED hist
        /\ revs' = revs \/ (helm /\ revs' = Revised(u, u))
  /\ UNCHANGED <<row, requests, faults>>

FailStep(e) ==
  /\ exec[e].pc = "failing" /\ Fenced(e)
  /\ SetStatus(e, "failed") /\ Goto(e, "release")
  /\ UNCHANGED <<step, target, fence, live, revs, requests, faults, hist>>

Finish(e) ==
  /\ exec[e].pc = "loop" /\ Fenced(e) /\ step[exec[e].u] = Steps
  /\ SetStatus(e, "completed") /\ Goto(e, "release")
  /\ UNCHANGED <<step, target, fence, live, revs, requests, faults, hist>>

-----------------------------------------------------------------------------
(* rollback *)

BeginRollback(e) ==
  /\ At(e, "rollback", "begin") /\ Fenced(e)
  /\ SetStatus(e, "rolling_back") /\ Goto(e, "helm")
  /\ UNCHANGED <<step, target, fence, live, revs, requests, faults, hist>>

(* Mutant: rolls back to the newest revision. *)
HelmRollbackToLast(e) ==
  /\ exec[e].pc = "helm"
  /\ \/ /\ revs' = Revised(exec[e].u, Version)
        /\ Goto(e, "restored")
     \/ UNCHANGED revs /\ Goto(e, "stuck")
  /\ UNCHANGED <<row, requests, faults, hist>>

(* helm rollback appends a revision with the version of the target; it may *)
(* fail, or the scan that verifies it.                                     *)
HelmRollback(e) ==
  LET rolledBack == Revised(exec[e].u, revs[target[exec[e].u]].version)
  IN
  /\ exec[e].pc = "helm"
  /\ \/ revs' = rolledBack /\ Goto(e, "restored")
     \/ revs' \in {revs, rolledBack} /\ Goto(e, "stuck")
  /\ UNCHANGED <<row, requests, faults, hist>>

FinishRollback(e) ==
  /\ exec[e].pc = "restored" /\ Fenced(e)
  /\ SetStatus(e, "rolled_back") /\ Goto(e, "release")
  /\ UNCHANGED <<step, target, fence, live, revs, requests, faults, hist>>

FailRollback(e) ==
  /\ exec[e].pc = "stuck" /\ Fenced(e)
  /\ SetStatus(e, "failed") /\ Goto(e, "release")
  /\ UNCHANGED <<step, target, fence, live, revs, requests, faults, hist>>

-----------------------------------------------------------------------------
(* Faults *)

(* An exception outside the steps of execute_upgrade: the lock is released. *)
(* The session may still have the in_progress that the task wrote.          *)
Raise(e) ==
  LET u == exec[e].u
  IN
  /\ exec[e].kind = "execute" /\ exec[e].pc \in {"sent", "begin", "loop", "failing"}
  /\ Fault /\ live' = Unlocked(e)
  /\ Goto(e, "raised") \/ (exec[e].pc \in {"loop", "failing"} /\ Goto(e, "marking"))
  /\ hist' = [hist EXCEPT
       ![u].cut = IF exec[e].pc \in Working THEN @ \cup {exec[e].at} ELSE @]
  /\ UNCHANGED <<status, step, target, fence, revs, requests>>

(* The same in the rollback, whose handler writes nothing. *)
RaiseRollback(e) ==
  /\ exec[e].kind = "rollback" /\ exec[e].pc \in {"sent", "begin"} \cup RollbackPCs
  /\ Fault /\ live' = Unlocked(e) /\ End(e)
  /\ hist' = [hist EXCEPT ![exec[e].u].abandoned = @ \/ exec[e].pc \in RollbackPCs]
  /\ UNCHANGED <<status, step, target, fence, revs, requests>>

(* The worker dies; the message comes back, the lock is reclaimed later. *)
Crash(e) ==
  LET u == exec[e].u
  IN
  /\ exec[e].pc \in Locked \cup Handlers /\ Fault
  /\ exec' = [exec EXCEPT ![e] = [NoExec EXCEPT !.u = u,
                                    !.kind = exec[e].kind, !.pc = "sent"]]
  /\ live' = Unlocked(e)
  /\ hist' = [hist EXCEPT
       ![u].cut = IF exec[e].pc \in Working THEN @ \cup {exec[e].at} ELSE @,
       ![u].abandoned = @ \/ (/\ exec[e].kind = "rollback"
                              /\ exec[e].pc \in RollbackPCs \cup Handlers)]
  /\ UNCHANGED <<status, step, target, fence, revs, requests>>

(* The holder misses its heartbeats, or catches up before anybody else. *)
Lapse(e) ==
  /\ exec[e].pc \in Locked /\ Fenced(e) /\ live[exec[e].u] /\ Fault
  /\ live' = [live EXCEPT ![exec[e].u] = FALSE]
  /\ UNCHANGED <<status, step, target, fence, revs, exec, requests, hist>>

Recover(e) ==
  /\ exec[e].pc \in Locked /\ Fenced(e) /\ ~live[exec[e].u]
  /\ live' = [live EXCEPT ![exec[e].u] = TRUE]
  /\ UNCHANGED <<status, step, target, fence, revs, exec, requests, faults,
                 hist>>

Worker(e) ==
  \/ Acquire(e) \/ GiveUp(e) \/ Lose(e) \/ FailUnfenced(e) \/ Release(e)
  \/ Refuse(e) \/ Handle(e) \/ MarkFailed(e)
  \/ BeginExecute(e) \/ BeginStep(e) \/ Work(e) \/ FailStep(e) \/ Finish(e)
  \/ BeginRollback(e) \/ HelmRollback(e) \/ FinishRollback(e) \/ FailRollback(e)

Next ==
  \/ \E u \in Upgrades :
       \/ PlanCheck(u) \/ Plan(u) \/ PlanAborted(u)
       \/ ExecuteRoute(u) \/ RollbackRoute(u) \/ Cancel(u)
  \/ \E e \in Execs :
       Worker(e) \/ Raise(e) \/ RaiseRollback(e) \/ Crash(e) \/ Lapse(e) \/ Recover(e)

(* Workers take messages and go on; users and faults are free not to act. *)
Fairness == \A e \in Execs : WF_vars(Worker(e))

Spec == Init /\ [][Next]_vars
FairSpec == Spec /\ Fairness

-----------------------------------------------------------------------------
(* Properties *)

(* An upgrade that reports completed has done every step of its plan, apart *)
(* from steps whose worker died or lost its lease while it worked on them,  *)
(* or was not able to write that they failed (execute_upgrade).             *)
CompletedDidSteps ==
  \A u \in Upgrades : status[u] = "completed" =>
    1 .. Steps \subseteq hist[u].done \cup hist[u].cut

(* The same without the exception: "Resume from where we left off", "per-   *)
(* step commits are preserved for crash recovery" (execute_upgrade).        *)
CompletedDidAll ==
  \A u \in Upgrades : status[u] = "completed" => 1 .. Steps \subseteq hist[u].done

(* create_upgrade refuses to plan beside an upgrade that executes. So two   *)
(* upgrades of the cluster are not both in progress, unless a task that did *)
(* not hold the lock wrote "failed" over a running one, a plan was cancelled *)
(* or replaced under a task that had been admitted, or one of the two was   *)
(* planned while another plan was committed after its look at the open rows. *)
OneInProgress ==
  \A u, v \in Upgrades :
    u # v /\ status[u] = "in_progress" /\ status[v] = "in_progress"
    => \E w \in {u, v} : hist[w].unfenced \/ hist[w].raced \/ hist[w].beside

(* The version from before the upgrade; another one has changed it since. *)
Before(u) == revs[hist[u].from].version
Others(u) == \E i \in hist[u].from + 1 .. Len(revs) :
               revs[i].by # u /\ revs[i].version # Before(u)

(* A rollback that reports success has put back the version from before the *)
(* upgrade, unless another upgrade of the cluster has changed the release    *)
(* meanwhile (its lock is another one), rollback_info was captured again     *)
(* after the helm step, or the helm step was cut short.                     *)
RollbackRestores ==
  [][\A u \in Upgrades :
       status[u] # "rolled_back" /\ status'[u] = "rolled_back" =>
         \/ Version = Before(u)
         \/ Others(u) \/ hist[u].late \/ HelmStep \in hist[u].cut]_vars

(* What has completed, was rolled back or cancelled stays so, unless a task *)
(* without the lock marks it failed, a task that was about to begin has     *)
(* missed the cancellation, or the cancellation has missed the task.        *)
EndsAreFinal ==
  [][\A u \in Upgrades :
       status[u] \in {"completed", "rolled_back", "cancelled"} =>
         status'[u] = status[u] \/ hist'[u].unfenced \/ hist'[u].raced]_vars

(* Whatever worker dies, an upgrade that executes comes to a result: the    *)
(* redelivered task takes over. Except when a rollback lost its worker, or  *)
(* a task ended with an exception and its handler did not write "failed".   *)
UpgradeSettles ==
  \A u \in Upgrades :
    status[u] \in Executing ~> status[u] \notin Executing \/ hist[u].abandoned

-----------------------------------------------------------------------------
(* The inductive invariants *)

Holds(e) == exec[e].pc \in Locked /\ Fenced(e)
Flagged(u) == hist[u].unfenced \/ hist[u].raced
Excused(u) == Flagged(u) \/ hist[u].beside
Open == {"ready", "in_progress"}
ExecutePCs == {"loop"} \cup Working

(* Messages are of upgrades that were planned, and each kind has its steps. *)
MessageInv ==
  /\ \A e \in Execs : e >= nextExec \/ exec[e].pc = "none" => exec[e] = NoExec
  /\ \A u \in Upgrades : status[u] = "none" => target[u] = 0 /\ step[u] = 0
  /\ \A e \in Execs : exec[e].pc \notin {"none", "done"} =>
       /\ status[exec[e].u] # "none"
       /\ exec[e].kind = "rollback" => target[exec[e].u] # 0
  /\ \A e \in Execs :
       /\ exec[e].pc \in ExecutePCs => exec[e].kind = "execute"
       /\ exec[e].pc \in RollbackPCs => exec[e].kind = "rollback"
       /\ exec[e].pc \in Working => exec[e].at \in 1 .. step[exec[e].u]

(* Every token was given to one task. *)
FenceInv ==
  /\ \A e \in Execs : exec[e].pc \in Locked => exec[e].fence > 0
  /\ \A d, e \in Execs :
       exec[d].u = exec[e].u /\ exec[d].fence = exec[e].fence /\ exec[e].fence > 0
       => d = e

(* The status is what the holder of the lock has left it at, or somebody   *)
(* wrote without the lock.                                                 *)
HolderStatus(e, s) ==
  /\ At(e, "execute", "begin") => s \in Open
  /\ exec[e].pc \in ExecutePCs => s = "in_progress"
  /\ At(e, "rollback", "begin") => s \in {"failed", "in_progress"}
  /\ exec[e].pc \in RollbackPCs => s = "rolling_back"
StatusInv ==
  /\ \A u \in Upgrades : Flagged(u) => status[u] \notin {"none", "ready"}
  /\ \A e \in Execs : Holds(e) /\ ~Flagged(exec[e].u) =>
       HolderStatus(e, status[exec[e].u])

(* At most one upgrade of the cluster is planned or in progress, and what a *)
(* request has seen of them is still so, with the exceptions that the flags *)
(* stand for.                                                               *)
OpenInv ==
  /\ \A u, v \in Upgrades :
       u # v /\ status[u] \in Open /\ status[v] \in Open => Excused(u) \/ Excused(v)
  /\ \A u \in planning : ~hist[u].beside =>
       \A v \in Upgrades : status[v] \in Open => v = old[u] \/ Excused(v)
PlanningInv ==
  \A u \in Upgrades :
    /\ u \in planning => status[u] = "none"
    /\ old[u] # 0 => u \in planning /\ status[old[u]] # "none"

(* The steps up to current_step are done, or were cut short, or the holder *)
(* of the lock works on them.                                              *)
Covered(u) ==
  \A s \in 1 .. step[u] :
    \/ s \in hist[u].done \cup hist[u].cut
    \/ \E e \in Execs : exec[e].u = u /\ Holds(e) /\ exec[e].pc \in Working
                          /\ exec[e].at = s
Executes(e, u) ==
  exec[e].u = u /\ Holds(e) /\ exec[e].kind = "execute"
  /\ exec[e].pc \in {"begin"} \cup ExecutePCs
Ongoing(u) == status[u] \in Open \/ \E e \in Execs : Executes(e, u)
StepsInv ==
  /\ \A u \in Upgrades : Ongoing(u) => Covered(u)
  /\ CompletedDidSteps
  /\ \A e \in Execs : exec[e].pc \in Working /\ ~Fenced(e) =>
       exec[e].at \in hist[exec[e].u].cut

(* The release has the version from before until the helm step begins, the *)
(* saved revision is from before it, and restored means restored, but for  *)
(* the exceptions of RollbackRestores.                                     *)
RestoreInv ==
  \A u \in Upgrades :
    /\ hist[u].late => step[u] >= HelmStep
    /\ ~Others(u) =>
         /\ step[u] < HelmStep =>
              \A i \in hist[u].from .. Len(revs) : revs[i].version = Before(u)
         /\ target[u] # 0 /\ ~hist[u].late => revs[target[u]].version = Before(u)
         /\ \A e \in Execs :
              /\ exec[e].u = u /\ exec[e].pc = "restored" /\ Holds(e)
              /\ ~hist[u].late /\ HelmStep \notin hist[u].cut
              => Version = Before(u)

UpgradeInv ==
  /\ TypeOK /\ MessageInv /\ FenceInv /\ StatusInv /\ OpenInv /\ PlanningInv
  /\ StepsInv /\ RestoreInv

=============================================================================
