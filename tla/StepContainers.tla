---------------------------- MODULE StepContainers ----------------------------
(***************************************************************************)
(* Step containers of the container engine: a Celery task runs each step   *)
(* as a detached container on the docker daemon and polls it               *)
(* (services/execution/container_runner.py). The container outlives the    *)
(* worker process, so four parties decide when it goes: the task itself,   *)
(* the sweep at the start of the next step on the workspace, the periodic  *)
(* reaper (tasks/container_reaper.py) and a cancel request                 *)
(* (services/project_module_service.py). What ties a container to a task   *)
(* is its bnkforge.task label and the set of live task ids that the        *)
(* workers keep in Redis (core/worker_heartbeat.py).                       *)
(*                                                                         *)
(* All tasks share one workspace, as the modules of a blueprint deployment *)
(* do. A message that is redelivered keeps its task id. Two attempts of    *)
(* one task never overlap: the visibility timeout exceeds the hard limit.  *)
(***************************************************************************)
EXTENDS Integers, FiniteSets

CONSTANTS
  Tasks,     \* Celery task ids
  Modules,   \* project modules
  ModuleOf,  \* the module of each task
  Workers,   \* worker hostnames
  NoTask,    \* the lease of a module that nobody holds
  MaxBoxes,  \* bound: containers ever created
  MaxFaults, \* bound: deaths, lost Redis and docker calls
  MaxCancels \* bound: cancel requests

ASSUME StepAssumption ==
  /\ IsFiniteSet(Tasks) /\ IsFiniteSet(Workers) /\ IsFiniteSet(Modules)
  /\ Tasks # {} /\ Workers # {} /\ Modules # {}
  /\ ModuleOf \in [Tasks -> Modules] /\ NoTask \notin Tasks
  /\ MaxBoxes \in Nat /\ MaxFaults \in Nat /\ MaxCancels \in Nat

Boxes == 1 .. MaxBoxes
SomeTask == CHOOSE t \in Tasks : TRUE

VARIABLES
  pc,       \* pc[t]: where the task's message or attempt is
  on,       \* on[t]: the worker of the latest attempt
  row,      \* row[t]: the tasks row is open (queued, pending, in_progress)
  rows,     \* rows[t]: containers that the attempt's sweep has listed; once
            \* it has read the live ids, those of them that it will remove
  cur,      \* cur[t]: the container of the attempt's step, 0 for none
  lease,    \* lease[m]: the task whose lease is in entity_locks
  entries,  \* entries[w][t]: members of worker:tasks:<w> that name t
  box,      \* box[c]: owner label and state of a container
  nextBox,  \* the next container
  revoking, \* revoke broadcasts that the workers have not received
  cancel,   \* the cancel request: [pc, module, tasks]
  killing,  \* tasks left to the kill_module_containers job
  reaper,   \* the reaper's pass: [pc, ids], ids as for rows
  faults,   \* faults so far
  cancels,  \* cancel requests so far
  hist      \* what happened, for the properties

attempt == <<pc, on, row, rows, cur>>
daemon  == <<box, nextBox>>
request == <<revoking, cancel, killing, cancels>>
vars == <<attempt, lease, entries, daemon, request, reaper, faults, hist>>

(* Where an attempt holds, or believes it holds, the module lock. *)
InLock == {"locked", "listed", "sweeping", "create", "polling", "cleanup"}
(* Where an attempt exists: a worker process is executing it. *)
Running == InLock \cup {"started", "ending"}

NoCancel == [pc |-> "idle", module |-> CHOOSE m \in Modules : TRUE,
             tasks |-> {}]
NoHist == [unswept |-> {},    \* tasks with a predecessor that was not removed
           unseen |-> {},     \* attempts whose start was not recorded
           atCancel |-> {},   \* containers of the tasks when they were revoked
           missed |-> FALSE]  \* a kill call of this cancel failed

BoxRecords == [task : Tasks,
               state : {"none", "coming", "running", "exited", "gone"}]

TypeOK ==
  /\ pc \in [Tasks -> Running \cup {"none", "queued", "over"}]
  /\ on \in [Tasks -> Workers] /\ row \in [Tasks -> BOOLEAN]
  /\ rows \in [Tasks -> SUBSET Boxes]
  /\ cur \in [Tasks -> Boxes \cup {0}]
  /\ lease \in [Modules -> Tasks \cup {NoTask}]
  /\ entries \in [Workers -> [Tasks -> 0 .. MaxFaults + 1]]
  /\ box \in [Boxes -> BoxRecords]
  /\ nextBox \in 1 .. MaxBoxes + 1
  /\ revoking \subseteq Tasks /\ killing \subseteq Tasks
  /\ cancel \in [pc : {"idle", "waiting", "confirmed", "unconfirmed"},
                 module : Modules, tasks : SUBSET Tasks]
  /\ reaper \in [pc : {"idle", "listed", "reaping"}, ids : SUBSET Boxes]
  /\ faults \in 0 .. MaxFaults /\ cancels \in 0 .. MaxCancels
  /\ hist \in [unswept : SUBSET Tasks, unseen : SUBSET Tasks,
               atCancel : SUBSET Boxes, missed : BOOLEAN]

Init ==
  /\ pc = [t \in Tasks |-> "none"]
  /\ on = [t \in Tasks |-> CHOOSE w \in Workers : TRUE]
  /\ row = [t \in Tasks |-> FALSE]
  /\ rows = [t \in Tasks |-> {}]
  /\ cur = [t \in Tasks |-> 0]
  /\ lease = [m \in Modules |-> NoTask]
  /\ entries = [w \in Workers |-> [t \in Tasks |-> 0]]
  /\ box = [c \in Boxes |-> [task |-> SomeTask, state |-> "none"]]
  /\ nextBox = 1
  /\ revoking = {} /\ killing = {}
  /\ cancel = NoCancel
  /\ reaper = [pc |-> "idle", ids |-> {}]
  /\ faults = 0 /\ cancels = 0
  /\ hist = NoHist
-------------------------------------------------------------------------------
Goto(t, to) == pc' = [pc EXCEPT ![t] = to]

Fault == faults < MaxFaults /\ faults' = faults + 1

(* docker ps --all: containers that have been created and not removed. *)
Present == {c \in Boxes : box[c].state \in {"running", "exited"}}
Alive == {c \in Boxes : box[c].state = "running"}

(* get_live_task_ids: every task id in the workers' sets. *)
LiveIds == {t \in Tasks : \E w \in Workers : entries[w][t] > 0}

(* docker rm --force of container c; a removed container has no label. *)
Removed(c) ==
  [box EXCEPT ![c] = IF @.state \in {"running", "exited"}
                     THEN [task |-> SomeTask, state |-> "gone"] ELSE @]
-------------------------------------------------------------------------------
(***************************************************************************)
(* The task.                                                               *)
(***************************************************************************)
(* A row is created and its message sent. *)
Submit(t) ==
  /\ pc[t] = "none"
  /\ Goto(t, "queued")
  /\ row' = [row EXCEPT ![t] = TRUE]
  /\ UNCHANGED <<on, rows, cur, lease, entries, daemon, request, reaper,
                 faults, hist>>

(* A worker takes the message; the task_prerun signal records the start,   *)
(* unless Redis fails (recorded is FALSE); the row becomes in_progress.    *)
Prerun(t, w, recorded) ==
  /\ pc[t] = "queued"
  /\ Goto(t, "started")
  /\ on' = [on EXCEPT ![t] = w]
  /\ row' = [row EXCEPT ![t] = TRUE]
  /\ \/ /\ recorded
        /\ entries' = [entries EXCEPT ![w][t] = @ + 1]
        /\ hist' = [hist EXCEPT !.unseen = @ \ {t}]
        /\ UNCHANGED faults
     \/ /\ ~recorded /\ Fault
        /\ hist' = [hist EXCEPT !.unseen = @ \cup {t}]
        /\ UNCHANGED entries
  /\ UNCHANGED <<rows, cur, lease, daemon, request, reaper>>

(* module_lock: the lease is free, or its holder's process is dead and the *)
(* lease has expired.                                                      *)
Acquire(t) ==
  LET m == ModuleOf[t] IN
  /\ pc[t] = "started"
  /\ \A u \in Tasks : lease[m] = u => pc[u] \notin InLock
  /\ lease' = [lease EXCEPT ![m] = t]
  /\ Goto(t, "locked")
  /\ UNCHANGED <<on, row, rows, cur, entries, daemon, request, reaper,
                 faults, hist>>

(* ModuleLockError: another lease, or the dead attempt's, is still fresh. *)
Refused(t) ==
  /\ pc[t] = "started"
  /\ lease[ModuleOf[t]] # NoTask
  /\ Goto(t, "ending")
  /\ row' = [row EXCEPT ![t] = FALSE]
  /\ UNCHANGED <<on, rows, cur, lease, entries, daemon, request, reaper,
                 faults, hist>>

(* run_step up to the sweep's docker ps, which may fail. *)
SweepList(t) ==
  /\ pc[t] = "locked"
  /\ \/ /\ rows' = [rows EXCEPT ![t] = Present]
        /\ Goto(t, IF Present = {} THEN "create" ELSE "listed")
        /\ UNCHANGED <<faults, hist>>
     \/ /\ Fault
        /\ Goto(t, "create")
        /\ hist' = [hist EXCEPT !.unswept = @ \cup {t}]
        /\ UNCHANGED rows
  /\ UNCHANGED <<on, row, cur, lease, entries, daemon, request, reaper>>

(* Mutant: whatever has a live owner is spared, the own predecessor too. *)
PredecessorsNotLive(t, live) == {c \in rows[t] : box[c].task \notin live}

(* Which rows the sweep removes, given the live ids: a live sibling's      *)
(* container is spared; the task's own predecessor and an orphan are not.  *)
Predecessors(t, live) ==
  {c \in rows[t] : box[c].task = t \/ box[c].task \notin live}

(* The sweep reads the live ids. An empty answer is no answer. *)
SweepLive(t) ==
  /\ pc[t] = "listed"
  /\ \E live \in {LiveIds, {}} :
       /\ live = {} /\ LiveIds # {} => Fault
       /\ live = LiveIds => UNCHANGED faults
       /\ \/ /\ live # {}
             /\ rows' = [rows EXCEPT ![t] = Predecessors(t, live)]
             /\ Goto(t, IF rows'[t] = {} THEN "create" ELSE "sweeping")
             /\ UNCHANGED hist
          \/ /\ live = {}
             /\ rows' = [rows EXCEPT ![t] = {}]
             /\ Goto(t, "create")
             /\ hist' = [hist EXCEPT !.unswept = @ \cup {t}]
  /\ UNCHANGED <<on, row, cur, lease, entries, daemon, request, reaper>>

(* docker rm --force of one of them. It may fail, and a call that times    *)
(* out ends the sweep with the others still there.                         *)
SweepRow(t) ==
  /\ pc[t] = "sweeping"
  /\ \E c \in rows[t] :
       \/ /\ box' = Removed(c)
          /\ rows' = [rows EXCEPT ![t] = @ \ {c}]
          /\ UNCHANGED <<faults, hist>>
       \/ /\ Fault
          /\ \E left \in {{c}, rows[t]} :
               /\ rows' = [rows EXCEPT ![t] = @ \ left]
               /\ hist' = [hist EXCEPT !.unswept =
                             @ \cup {box[x].task : x \in left}]
          /\ UNCHANGED box
  /\ Goto(t, IF rows'[t] = {} THEN "create" ELSE "sweeping")
  /\ UNCHANGED <<on, row, cur, lease, entries, nextBox, request, reaper>>

(* docker run --detach. When the call times out the daemon may still       *)
(* create the container, and the step goes to its finally block.           *)
Create(t) ==
  /\ pc[t] = "create"
  /\ nextBox <= MaxBoxes
  /\ nextBox' = nextBox + 1
  /\ cur' = [cur EXCEPT ![t] = nextBox]
  /\ \/ /\ box' = [box EXCEPT ![nextBox] = [task |-> t, state |-> "running"]]
        /\ Goto(t, "polling")
        /\ UNCHANGED faults
     \/ /\ Fault
        /\ box' = [box EXCEPT ![nextBox] = [task |-> t, state |-> "coming"]]
        /\ Goto(t, "cleanup")
  /\ UNCHANGED <<on, row, rows, lease, entries, request, reaper, hist>>

(* The image gate refuses, or docker run fails: nothing was created. *)
CreateFails(t) ==
  /\ pc[t] = "create"
  /\ Goto(t, "cleanup")
  /\ cur' = [cur EXCEPT ![t] = 0]
  /\ UNCHANGED <<on, row, rows, lease, entries, daemon, request, reaper,
                 faults, hist>>

(* _await_exit: the container has stopped, or inspect has failed for the   *)
(* whole grace period because it is gone.                                  *)
Poll(t) ==
  /\ pc[t] = "polling"
  /\ cur[t] \notin Alive
  /\ Goto(t, "cleanup")
  /\ UNCHANGED <<on, row, rows, cur, lease, entries, daemon, request,
                 reaper, faults, hist>>

(* _await_exit: timeout_seconds have passed, and the kill may fail; or the *)
(* endpoint is out of reach and the container runs on.                     *)
GiveUp(t, killed) ==
  /\ pc[t] = "polling"
  /\ Goto(t, "cleanup")
  /\ \/ /\ killed
        /\ box' = [box EXCEPT ![cur[t]].state = IF @ = "running" THEN "exited"
                                                ELSE @]
        /\ UNCHANGED faults
     \/ ~killed /\ Fault /\ UNCHANGED box
  /\ UNCHANGED <<on, row, rows, cur, lease, entries, nextBox, request,
                 reaper, hist>>

(* The finally block: docker rm --force, which may fail. Then the next     *)
(* step of the task's step-set, or the end of the operation: the rows are  *)
(* written, and the lock is released if the lease is still the task's.     *)
Cleanup(t, last) ==
  LET m == ModuleOf[t] IN
  /\ pc[t] = "cleanup"
  /\ \/ /\ box' = IF cur[t] = 0 THEN box ELSE Removed(cur[t])
        /\ UNCHANGED <<faults, hist>>
     \/ /\ cur[t] # 0 /\ Fault
        /\ hist' = [hist EXCEPT !.unswept = @ \cup {t}]
        /\ UNCHANGED box
  /\ cur' = [cur EXCEPT ![t] = 0]
  /\ \/ ~last /\ Goto(t, "locked") /\ UNCHANGED <<row, lease>>
     \/ /\ last
        /\ Goto(t, "ending")
        /\ row' = [row EXCEPT ![t] = FALSE]
        /\ lease' = [lease EXCEPT ![m] = IF @ = t THEN NoTask ELSE @]
  /\ UNCHANGED <<on, rows, entries, nextBox, request, reaper>>

(* Mutant: a counter is decremented whether or not the start was counted. *)
PostrunCounts(t) ==
  /\ pc[t] = "ending"
  /\ Goto(t, "over")
  /\ entries' = [entries EXCEPT ![on[t]][t] = @ - 1]
  /\ UNCHANGED <<on, row, rows, cur, lease, daemon, request, reaper, faults,
                 hist>>

(* task_postrun: one member of the worker's set that names the task goes. *)
Postrun(t) ==
  /\ pc[t] = "ending"
  /\ Goto(t, "over")
  /\ \/ /\ entries' = [entries EXCEPT ![on[t]][t] = IF @ > 0 THEN @ - 1 ELSE 0]
        /\ UNCHANGED faults
     \/ Fault /\ UNCHANGED entries
  /\ UNCHANGED <<on, row, rows, cur, lease, daemon, request, reaper,
                 hist>>

(* The worker process is killed. The message was not acknowledged and is   *)
(* delivered again; the Redis record, the lease and the container stay.    *)
Die(t) ==
  /\ pc[t] \in Running
  /\ Fault
  /\ Goto(t, "queued")
  /\ rows' = [rows EXCEPT ![t] = {}]
  /\ cur' = [cur EXCEPT ![t] = 0]
  /\ UNCHANGED <<on, row, lease, entries, daemon, request, reaper, hist>>

(* A revoke with SIGKILL reaches the workers: a waiting message is         *)
(* discarded, a running attempt is killed and its message acknowledged.    *)
Revoked(t) ==
  /\ t \in revoking
  /\ revoking' = revoking \ {t}
  /\ Goto(t, "over")
  /\ rows' = [rows EXCEPT ![t] = {}]
  /\ cur' = [cur EXCEPT ![t] = 0]
  /\ UNCHANGED <<on, row, lease, entries, daemon, cancel, killing, cancels, reaper,
                 faults, hist>>

(* mark_worker_offline after a warm shutdown, which waits for its tasks:   *)
(* the worker's set is deleted.                                            *)
Shutdown(w) ==
  /\ \A t \in Tasks : pc[t] \in Running => on[t] # w
  /\ \E t \in Tasks : entries[w][t] > 0
  /\ entries' = [entries EXCEPT ![w] = [t \in Tasks |-> 0]]
  /\ UNCHANGED <<attempt, lease, daemon, request, reaper, faults, hist>>
-------------------------------------------------------------------------------
(***************************************************************************)
(* The daemon.                                                             *)
(***************************************************************************)
Exit(c) ==
  /\ box[c].state = "running"
  /\ box' = [box EXCEPT ![c].state = "exited"]
  /\ UNCHANGED <<attempt, lease, entries, nextBox, request, reaper, faults,
                 hist>>

(* The container of a run call that timed out is created after all. *)
Arrive(c) ==
  /\ box[c].state = "coming"
  /\ box' = [box EXCEPT ![c].state = "running"]
  /\ hist' = [hist EXCEPT !.unswept = @ \cup {box[c].task}]
  /\ UNCHANGED <<attempt, lease, entries, nextBox, request, reaper, faults>>
-------------------------------------------------------------------------------
(***************************************************************************)
(* cancel_operation, in the API process; the kill runs on a worker.        *)
(***************************************************************************)
Cancel(m) ==
  LET open == {t \in Tasks : ModuleOf[t] = m /\ row[t]} IN
  /\ cancel.pc = "idle" /\ killing = {}
  /\ cancels < MaxCancels /\ cancels' = cancels + 1
  /\ open # {}
  /\ revoking' = revoking \cup open
  /\ cancel' = [pc |-> "waiting", module |-> m, tasks |-> open]
  /\ killing' = open
  /\ hist' = [hist EXCEPT !.atCancel = {c \in Present : box[c].task \in open},
                          !.missed = FALSE]
  /\ UNCHANGED <<attempt, lease, entries, daemon, reaper, faults>>

(* kill_task_containers for one of the ids: every container of its label   *)
(* is killed, except those whose kill call fails.                          *)
KillTask(t) ==
  /\ t \in killing
  /\ killing' = killing \ {t}
  /\ \E missed \in SUBSET {c \in Alive : box[c].task = t} :
       /\ missed # {} => Fault
       /\ missed = {} => UNCHANGED faults
       /\ box' = [c \in Boxes |->
                    IF box[c].task = t /\ c \in Alive \ missed
                    THEN [box[c] EXCEPT !.state = "exited"] ELSE box[c]]
       /\ hist' = [hist EXCEPT !.missed = @ \/ missed # {},
                             !.unswept = IF missed = {} THEN @ ELSE @ \cup {t}]
  /\ UNCHANGED <<attempt, lease, entries, nextBox, revoking, cancel, cancels, reaper>>

(* The worker could list for every task: reachable is True. *)
KillConfirmed ==
  /\ cancel.pc = "waiting" /\ killing = {}
  /\ cancel' = [cancel EXCEPT !.pc = "confirmed"]
  /\ UNCHANGED <<attempt, lease, entries, daemon, revoking, killing, cancels, reaper,
                 faults, hist>>

(* Mutant: a daemon that cannot be asked has no containers. *)
KillUnreachableIsNone ==
  /\ cancel.pc = "waiting" /\ killing # {} /\ Fault
  /\ killing' = {}
  /\ cancel' = [cancel EXCEPT !.pc = "confirmed"]
  /\ UNCHANGED <<attempt, lease, entries, daemon, revoking, cancels, reaper,
                 hist>>

(* docker ps fails: the job answers at once that docker is unreachable. *)
KillUnreachable ==
  /\ cancel.pc = "waiting" /\ killing # {} /\ Fault
  /\ killing' = {}
  /\ cancel' = [cancel EXCEPT !.pc = "unconfirmed"]
  /\ UNCHANGED <<attempt, lease, entries, daemon, revoking, cancels, reaper, hist>>

(* No answer within _KILL_CONFIRM_TIMEOUT_SECONDS; the job stays queued. *)
KillTimesOut ==
  /\ cancel.pc = "waiting" /\ killing # {} /\ Fault
  /\ cancel' = [cancel EXCEPT !.pc = "unconfirmed"]
  /\ UNCHANGED <<attempt, lease, entries, daemon, revoking, killing, cancels, reaper,
                 hist>>

(* Only a confirmed kill force-releases the module's lease; the rows are   *)
(* cancelled either way.                                                   *)
CancelEnds ==
  /\ cancel.pc \in {"confirmed", "unconfirmed"}
  /\ lease' = IF cancel.pc = "confirmed"
              THEN [lease EXCEPT ![cancel.module] = NoTask] ELSE lease
  /\ row' = [t \in Tasks |-> row[t] /\ t \notin cancel.tasks]
  /\ cancel' = NoCancel
  /\ hist' = [hist EXCEPT !.atCancel = {}, !.missed = FALSE]
  /\ UNCHANGED <<pc, on, rows, cur, entries, daemon, revoking, killing,
                 cancels, reaper, faults>>
-------------------------------------------------------------------------------
(***************************************************************************)
(* reap_orphaned_step_containers, every ten minutes.                       *)
(***************************************************************************)
ReapList ==
  /\ reaper.pc = "idle"
  /\ Present # {}
  /\ reaper' = [reaper EXCEPT !.pc = "listed", !.ids = Present]
  /\ UNCHANGED <<attempt, lease, entries, daemon, request, faults, hist>>

(* Mutant: an empty answer means that nothing is running. *)
ReapLiveTrusting ==
  /\ reaper.pc = "listed"
  /\ \E live \in {LiveIds, {}} :
       /\ live = LiveIds => UNCHANGED faults
       /\ live # LiveIds => Fault
       /\ reaper' = LET ids == {c \in reaper.ids : box[c].task \notin live} IN
                    [pc |-> IF ids = {} THEN "idle" ELSE "reaping",
                     ids |-> ids]
  /\ UNCHANGED <<attempt, lease, entries, daemon, request, hist>>

(* Mutant: only the containers that have stopped are reaped. *)
ReapLiveStopped ==
  LET orphans == {c \in reaper.ids \ Alive : box[c].task \notin LiveIds} IN
  /\ reaper.pc = "listed"
  /\ reaper' = [pc |-> IF orphans = {} THEN "idle" ELSE "reaping",
                ids |-> orphans]
  /\ UNCHANGED <<attempt, lease, entries, daemon, request, faults, hist>>

(* The live ids are read after the listing, and hold the reaper's own id   *)
(* whenever the lookup works; otherwise nothing is reaped in this pass.    *)
ReapLive ==
  LET orphans == {c \in reaper.ids : box[c].task \notin LiveIds} IN
  /\ reaper.pc = "listed"
  /\ \/ /\ reaper' = [pc |-> IF orphans = {} THEN "idle" ELSE "reaping",
                      ids |-> orphans]
        /\ UNCHANGED faults
     \/ /\ Fault
        /\ reaper' = [pc |-> "idle", ids |-> {}]
  /\ UNCHANGED <<attempt, lease, entries, daemon, request, hist>>

(* docker rm --force of one of them; its inspect or rm call may fail, and  *)
(* a call that times out ends the pass.                                    *)
Reap ==
  /\ reaper.pc = "reaping"
  /\ \E c \in reaper.ids : \E done \in {{c}, reaper.ids} :
       /\ reaper' = [pc |-> IF reaper.ids = done THEN "idle" ELSE "reaping",
                     ids |-> reaper.ids \ done]
       /\ \/ done = {c} /\ box' = Removed(c) /\ UNCHANGED faults
          \/ Fault /\ UNCHANGED box
  /\ UNCHANGED <<attempt, lease, entries, nextBox, request, hist>>
-------------------------------------------------------------------------------
Step(t) ==
  \/ Submit(t)
  \/ \E w \in Workers, recorded \in BOOLEAN : Prerun(t, w, recorded)
  \/ Acquire(t) \/ Refused(t)
  \/ SweepList(t) \/ SweepLive(t) \/ SweepRow(t)
  \/ Create(t) \/ CreateFails(t) \/ Poll(t)
  \/ \E killed \in BOOLEAN : GiveUp(t, killed)
  \/ \E last \in BOOLEAN : Cleanup(t, last)
  \/ Postrun(t) \/ Die(t) \/ Revoked(t)

Canceller ==
  \/ \E m \in Modules : Cancel(m)
  \/ \E t \in Tasks : KillTask(t)
  \/ KillConfirmed \/ KillUnreachable \/ KillTimesOut \/ CancelEnds

Reaper == ReapList \/ ReapLive \/ Reap

Next ==
  \/ \E t \in Tasks : Step(t)
  \/ \E w \in Workers : Shutdown(w)
  \/ \E c \in Boxes : Exit(c) \/ Arrive(c)
  \/ Canceller
  \/ Reaper

Spec == Init /\ [][Next]_vars

(* celery beat runs the reaper for ever. *)
FairSpec == Spec /\ WF_vars(Reaper)
-------------------------------------------------------------------------------
(***************************************************************************)
(* Properties.                                                             *)
(***************************************************************************)
(* Whatever the sweeps and the reaper read, and however old it is when     *)
(* they act on it, they never remove the container that an attempt is      *)
(* polling, if that attempt's start was recorded in Redis.                 *)
NoLiveStepRemoved ==
  [][\A t \in Tasks :
       (/\ pc[t] = "polling" /\ t \notin hist.unseen
        /\ cur[t] \in Alive)
       => box'[cur[t]].state # "gone"]_vars

(* Two containers of one task run at once only if a docker or Redis call   *)
(* failed: a redelivered task removes what its dead attempt left before it *)
(* creates its own ("Two `tofu apply`s on one state directory").           *)
OneBoxPerTask ==
  \A c, d \in Alive :
    c # d /\ box[c].task = box[d].task => box[c].task \in hist.unswept

(* A cancel that drops the module lock has stopped every container that    *)
(* the tasks had when it began, unless a kill call failed.                 *)
KillBeforeRelease ==
  [][(/\ cancel.pc # "idle" /\ cancel'.pc = "idle"
      /\ lease'[cancel.module] # lease[cancel.module]
      /\ ~hist.missed)
     => hist.atCancel \cap Alive = {}]_vars

(* The backstop: a container that runs without a live task id is removed,  *)
(* or stops, or its task is delivered again.                               *)
OrphanReaped ==
  \A c \in Boxes :
    (c \in Alive /\ box[c].task \notin LiveIds)
    ~> (c \notin Alive \/ box[c].task \in LiveIds)
-------------------------------------------------------------------------------
(***************************************************************************)
(* The inductive invariants.                                               *)
(***************************************************************************)
(* Containers are numbered in the order of their creation. *)
BoxInv ==
  /\ \A c \in Boxes : box[c].state = "none" <=> c >= nextBox
  /\ \A t \in Tasks : cur[t] # 0 =>
       /\ cur[t] < nextBox /\ pc[t] \in {"polling", "cleanup"}
       /\ box[cur[t]].state = "gone" \/ box[cur[t]].task = t
  /\ \A t \in Tasks : pc[t] = "polling" => cur[t] # 0 /\ box[cur[t]].state # "coming"
  /\ \A t \in Tasks : \A c \in rows[t] : c < nextBox
  /\ \A c \in reaper.ids : c < nextBox
  /\ \A c \in hist.atCancel : box[c].state \notin {"none", "coming"}

(* A recorded attempt is among the live ids, and is recorded no more often *)
(* than its worker died.                                                   *)
RecordInv ==
  \A t \in Tasks :
    /\ pc[t] \in Running /\ t \notin hist.unseen => entries[on[t]][t] > 0
    /\ \A w \in Workers :
         entries[w][t] <= IF pc[t] \in {"none", "queued"} THEN faults ELSE faults + 1

(* What a sweep and the reaper are about to remove nobody polls. *)
SpareInv ==
  \A t \in Tasks : pc[t] = "polling" /\ cur[t] \in Present /\ t \notin hist.unseen =>
    /\ \A u \in Tasks : pc[u] = "sweeping" => cur[t] \notin rows[u]
    /\ reaper.pc = "reaping" => cur[t] \notin reaper.ids

(* The containers that a task still has are those that its sweep knows of, *)
(* and that of its step.                                                   *)
SweepInv ==
  \A t \in Tasks, c \in Alive : box[c].task = t /\ t \notin hist.unswept =>
    /\ pc[t] # "create"
    /\ pc[t] \in {"listed", "sweeping"} => c \in rows[t]
    /\ pc[t] \in {"polling", "cleanup"} => c = cur[t]

(* What a cancel still has to kill. *)
KillInv ==
  /\ cancel.pc = "confirmed" => killing = {}
  /\ cancel.pc \in {"waiting", "confirmed"} /\ ~hist.missed =>
       \A c \in hist.atCancel \cap Alive : box[c].task \in killing

ContainerInv ==
  /\ TypeOK /\ BoxInv /\ RecordInv /\ SpareInv /\ OneBoxPerTask /\ SweepInv
  /\ KillInv
===============================================================================
