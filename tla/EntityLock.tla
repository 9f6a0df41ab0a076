----------------------------- MODULE EntityLock -----------------------------
(***************************************************************************)
(* The heartbeat lock with fencing tokens of services/entity_lock.py, on   *)
(* one row of one lockable table. (Every statement is WHERE id = ..., so   *)
(* rows do not interact; the three lockable tables share the code.)        *)
(*                                                                         *)
(* An execution is one run of a Celery task body that enters               *)
(* entity_lock(). Two executions may carry the SAME task id: acks_late and *)
(* reject_on_worker_lost (celery_app.py) redeliver a message, and nothing  *)
(* stops the first run. Each execution has two threads: the body and the   *)
(* HeartbeatRefresher.                                                     *)
(*                                                                         *)
(* Time is counted in ticks. Only ages are kept: the age of heartbeat_at   *)
(* saturates one past RECLAIM_AFTER, since the code never asks more than   *)
(* whether it is older than that.                                          *)
(***************************************************************************)
EXTENDS Integers

CONSTANTS
  Execs,               \* executions of task bodies
  TaskIds,             \* primary keys of the tasks table
  TaskOf,              \* TaskOf[p]: the task id execution p carries
  NULL,                \* SQL NULL in holding_task_id
  RECLAIM_AFTER,       \* RECLAIM_AFTER_SECONDS, in ticks
  HEARTBEAT_INTERVAL,  \* HEARTBEAT_INTERVAL_SECONDS, in ticks
  WAIT_TIMEOUT         \* DEFAULT_CONTEXT_WAIT_TIMEOUT, in ticks

ASSUME TaskAssumption ==
  /\ TaskOf \in [Execs -> TaskIds]
  /\ NULL \notin TaskIds

ASSUME TimingAssumption ==
  /\ HEARTBEAT_INTERVAL \in Nat \ {0}
  /\ RECLAIM_AFTER \in Nat
  /\ WAIT_TIMEOUT \in Nat
  /\ HEARTBEAT_INTERVAL <= RECLAIM_AFTER

VARIABLES
  holder,    \* the row: holding_task_id
  beatAge,   \* the row: now - heartbeat_at, saturating; 0 while it is NULL
  fence,     \* the row: lock_fence_token
  writer,    \* the row: token under which its fields were last written
  pc,        \* pc[p]: where the body thread of execution p is
  token,     \* token[p]: EntityLock.fence_token of p, 0 before it has one
  patience,  \* patience[p]: ticks left until the deadline of acquire()
  refresher, \* refresher[p]: the state of p's HeartbeatRefresher thread
  timer,     \* timer[p]: ticks since that thread started its present wait
  missed,    \* missed[p]: refreshes in a row that did not reach the row
             \*   (a history variable, saturating once no longer Tolerable)
  forced     \* the tokens whose lock was force-released (history)

rowVars  == <<holder, beatAge, fence, writer>>
bodyVars == <<pc, token, patience>>
beatVars == <<refresher, timer, missed>>
vars     == <<rowVars, bodyVars, beatVars, forced>>

PCs == {"idle", "waiting", "body", "releasing", "ended", "crashed"}

RefresherStates == {"off", "running", "late", "stopped", "lost"}

(* m missed refreshes in a row are no danger to the lock: the next one still
   comes before the heartbeat is RECLAIM_AFTER old. *)
Tolerable(m) == (m + 1) * HEARTBEAT_INTERVAL <= RECLAIM_AFTER

\* Mutant: the reclaim test is not strict.
StaleAtLimit == beatAge >= RECLAIM_AFTER

\* Mutant: one tick is added to the reclaim window.
StaleLater == beatAge > RECLAIM_AFTER + 1

(* heartbeat_at < now - reclaim_after_seconds *)
Stale == beatAge > RECLAIM_AFTER

(* The WHERE clause of acquire. *)
Acquirable == holder = NULL \/ Stale

(* The WHERE clause of refresh and release. *)
Owns(p) == holder = TaskOf[p] /\ fence = token[p]

-----------------------------------------------------------------------------
Init ==
  /\ holder = NULL
  /\ beatAge = 0
  /\ fence = 0
  /\ writer = 0
  /\ pc = [p \in Execs |-> "idle"]
  /\ token = [p \in Execs |-> 0]
  /\ patience = [p \in Execs |-> 0]
  /\ refresher = [p \in Execs |-> "off"]
  /\ timer = [p \in Execs |-> 0]
  /\ missed = [p \in Execs |-> 0]
  /\ forced = {}

(* A worker runs the task up to entity_lock(): acquire() sets its deadline. *)
Begin(p) ==
  /\ pc[p] = "idle"
  /\ pc' = [pc EXCEPT ![p] = "waiting"]
  /\ patience' = [patience EXCEPT ![p] = WAIT_TIMEOUT]
  /\ UNCHANGED <<rowVars, token, beatVars, forced>>

\* Mutant: the UPDATE does not increment lock_fence_token.
AcquireKeepsFence(p) ==
  /\ pc[p] = "waiting"
  /\ Acquirable
  /\ holder' = TaskOf[p]
  /\ beatAge' = 0
  /\ token' = [token EXCEPT ![p] = fence]
  /\ pc' = [pc EXCEPT ![p] = "body"]
  /\ refresher' = [refresher EXCEPT ![p] = "running"]
  /\ timer' = [timer EXCEPT ![p] = 0]
  /\ missed' = [missed EXCEPT ![p] = 0]
  /\ patience' = [patience EXCEPT ![p] = 0]
  /\ UNCHANGED <<fence, writer, forced>>

(* A poll of acquire() whose UPDATE ... RETURNING finds the row free or
   stale; entity_lock() then starts the refresher and enters the body. *)
Acquire(p) ==
  /\ pc[p] = "waiting"
  /\ Acquirable
  /\ holder' = TaskOf[p]
  /\ beatAge' = 0
  /\ fence' = fence + 1
  /\ token' = [token EXCEPT ![p] = fence + 1]
  /\ pc' = [pc EXCEPT ![p] = "body"]
  /\ refresher' = [refresher EXCEPT ![p] = "running"]
  /\ timer' = [timer EXCEPT ![p] = 0]
  /\ missed' = [missed EXCEPT ![p] = 0]
  /\ patience' = [patience EXCEPT ![p] = 0]
  /\ UNCHANGED <<writer, forced>>

(* A poll past the deadline that finds the row held: EntityLockError. *)
GiveUp(p) ==
  /\ pc[p] = "waiting"
  /\ ~Acquirable
  /\ patience[p] = 0
  /\ pc' = [pc EXCEPT ![p] = "ended"]
  /\ UNCHANGED <<rowVars, token, patience, beatVars, forced>>

-----------------------------------------------------------------------------
(* HeartbeatRefresher._run: _stop.wait(interval) has returned False. *)
Due(p) == refresher[p] = "running" /\ timer[p] = HEARTBEAT_INTERVAL

(* refresh() matched the row. *)
RefreshOk(p) ==
  /\ Due(p)
  /\ Owns(p)
  /\ beatAge' = 0
  /\ timer' = [timer EXCEPT ![p] = 0]
  /\ missed' = [missed EXCEPT ![p] = 0]
  /\ UNCHANGED <<holder, fence, writer, bodyVars, refresher, forced>>

(* refresh() matched no row: the thread sets _lost and returns. The body is
   not told. *)
RefreshLost(p) ==
  /\ Due(p)
  /\ ~Owns(p)
  /\ refresher' = [refresher EXCEPT ![p] = "lost"]
  /\ UNCHANGED <<rowVars, bodyVars, timer, missed, forced>>

(* refresh() raised, or the thread was not scheduled for a whole interval:
   the beat is missed and the loop goes on. *)
RefreshMissed(p) ==
  /\ Due(p)
  /\ timer' = [timer EXCEPT ![p] = 0]
  /\ missed' = [missed EXCEPT ![p] =
                  IF Tolerable(missed[p]) THEN missed[p] + 1 ELSE missed[p]]
  /\ UNCHANGED <<rowVars, bodyVars, refresher, forced>>

(* The refresh that was under way when stop() gave up joining the thread; the
   thread ends after it. *)
LateRefresh(p) ==
  /\ refresher[p] = "late"
  /\ \/ /\ Owns(p)
        /\ beatAge' = 0
        /\ refresher' = [refresher EXCEPT ![p] = "stopped"]
     \/ /\ ~Owns(p)
        /\ refresher' = [refresher EXCEPT ![p] = "lost"]
        /\ UNCHANGED beatAge
     \/ /\ refresher' = [refresher EXCEPT ![p] = "stopped"]  \* it raised
        /\ UNCHANGED beatAge
  /\ UNCHANGED <<holder, fence, writer, bodyVars, timer, missed, forced>>

-----------------------------------------------------------------------------
\* Mutant: the UPDATE has no lock_fence_token in its WHERE clause.
WriteUnfenced(p) ==
  /\ pc[p] = "body"
  /\ writer' = token[p]
  /\ UNCHANGED <<holder, beatAge, fence, bodyVars, beatVars, forced>>

(* set_locked_entity_fields: WHERE id = ... AND lock_fence_token = fence.
   Neither the holder nor the heartbeat is asked for. *)
Write(p) ==
  /\ pc[p] = "body"
  /\ token[p] = fence
  /\ writer' = token[p]
  /\ UNCHANGED <<holder, beatAge, fence, bodyVars, beatVars, forced>>

(* refresher.stop(): the thread is joined, unless it is inside a refresh that
   outlasts the join. *)
StopRefresher(p) ==
  /\ \/ /\ refresher[p] = "running"
        /\ refresher' = [refresher EXCEPT ![p] = "stopped"]
     \/ /\ Due(p)
        /\ refresher' = [refresher EXCEPT ![p] = "late"]
     \/ /\ refresher[p] = "lost"
        /\ UNCHANGED refresher
  /\ timer' = [timer EXCEPT ![p] = 0]
  /\ missed' = [missed EXCEPT ![p] = 0]

(* rowcount = 0: EntityLockLostError leaves the body. *)
WriteLost(p) ==
  /\ pc[p] = "body"
  /\ token[p] # fence
  /\ StopRefresher(p)
  /\ pc' = [pc EXCEPT ![p] = "releasing"]
  /\ UNCHANGED <<rowVars, token, patience, forced>>

(* The body returns or raises for its own reasons. *)
LeaveBody(p) ==
  /\ pc[p] = "body"
  /\ StopRefresher(p)
  /\ pc' = [pc EXCEPT ![p] = "releasing"]
  /\ UNCHANGED <<rowVars, token, patience, forced>>

\* Mutant: the release asks for the task id only.
ReleaseByTask(p) ==
  /\ pc[p] = "releasing"
  /\ IF refresher[p] # "lost" /\ holder = TaskOf[p]
       THEN holder' = NULL /\ beatAge' = 0
       ELSE UNCHANGED <<holder, beatAge>>
  /\ pc' = [pc EXCEPT ![p] = "ended"]
  /\ UNCHANGED <<fence, writer, token, patience, beatVars, forced>>

(* The finally clause: release unless the refresher reported the lock lost. *)
Release(p) ==
  /\ pc[p] = "releasing"
  /\ IF refresher[p] # "lost" /\ Owns(p)
       THEN holder' = NULL /\ beatAge' = 0
       ELSE UNCHANGED <<holder, beatAge>>
  /\ pc' = [pc EXCEPT ![p] = "ended"]
  /\ UNCHANGED <<fence, writer, token, patience, beatVars, forced>>

(* release() raised: it is logged and swallowed, the row stays held. *)
ReleaseError(p) ==
  /\ pc[p] = "releasing"
  /\ refresher[p] # "lost"
  /\ pc' = [pc EXCEPT ![p] = "ended"]
  /\ UNCHANGED <<rowVars, token, patience, beatVars, forced>>

(* The worker process is killed: both threads are gone, the row is not. *)
Crash(p) ==
  /\ pc[p] \in {"waiting", "body", "releasing"}
  /\ pc' = [pc EXCEPT ![p] = "crashed"]
  /\ refresher' = [refresher EXCEPT ![p] = "off"]
  /\ patience' = [patience EXCEPT ![p] = 0]
  /\ timer' = [timer EXCEPT ![p] = 0]
  /\ missed' = [missed EXCEPT ![p] = 0]
  /\ UNCHANGED <<rowVars, token, forced>>

-----------------------------------------------------------------------------
\* Mutant: the token is reset together with the holder.
ForceReleaseResets ==
  /\ holder # NULL
  /\ holder' = NULL
  /\ beatAge' = 0
  /\ fence' = 0
  /\ forced' = forced \cup {fence}
  /\ UNCHANGED <<writer, bodyVars, beatVars>>

(* force_release, from the admin route or a confirmed cancel: the holder is
   cleared and the fence is left as it is. *)
ForceRelease ==
  /\ holder # NULL
  /\ holder' = NULL
  /\ beatAge' = 0
  /\ forced' = forced \cup {fence}
  /\ UNCHANGED <<fence, writer, bodyVars, beatVars>>

\* Mutant: the heartbeat comparison is turned round.
SweepFresh ==
  /\ holder # NULL
  /\ beatAge < RECLAIM_AFTER
  /\ holder' = NULL
  /\ beatAge' = 0
  /\ UNCHANGED <<fence, writer, bodyVars, beatVars, forced>>

(* sweep_stale_entity_locks, the periodic job; the fence stays too. *)
Sweep ==
  /\ holder # NULL
  /\ Stale
  /\ holder' = NULL
  /\ beatAge' = 0
  /\ UNCHANGED <<fence, writer, bodyVars, beatVars, forced>>

(* Time passes, up to the moment a refresher is due: that it then acts, or
   misses its beat, is a step of its own. *)
Tick ==
  /\ \A p \in Execs : ~Due(p)
  /\ beatAge' = IF holder # NULL /\ ~Stale THEN beatAge + 1 ELSE beatAge
  /\ patience' = [p \in Execs |->
                    IF patience[p] > 0 THEN patience[p] - 1 ELSE 0]
  /\ timer' = [p \in Execs |->
                 IF refresher[p] = "running" THEN timer[p] + 1 ELSE timer[p]]
  /\ UNCHANGED <<holder, fence, writer, pc, token, refresher, missed, forced>>

-----------------------------------------------------------------------------
Beat(p) == RefreshOk(p) \/ RefreshLost(p) \/ RefreshMissed(p)

Exec(p) ==
  \/ Begin(p) \/ Acquire(p) \/ GiveUp(p)
  \/ Beat(p) \/ LateRefresh(p)
  \/ Write(p) \/ WriteLost(p) \/ LeaveBody(p)
  \/ Release(p) \/ ReleaseError(p) \/ Crash(p)

Next ==
  \/ ForceRelease
  \/ Sweep
  \/ Tick
  \/ \E p \in Execs : Exec(p)

Spec == Init /\ [][Next]_vars

(* Time passes, a due refresher thread runs, APScheduler keeps firing the
   sweep, and a waiting acquire() keeps polling. A body need never end. *)
Fairness ==
  /\ WF_vars(Tick)
  /\ WF_vars(Sweep)
  /\ \A p \in Execs : WF_vars(Beat(p)) /\ WF_vars(Acquire(p) \/ GiveUp(p))

FairSpec == Spec /\ Fairness

-----------------------------------------------------------------------------
(* Type correctness of the row, the threads and the history variables. *)
TypeOK ==
  /\ holder \in TaskIds \cup {NULL}
  /\ beatAge \in 0 .. RECLAIM_AFTER + 1
  /\ fence \in Nat
  /\ writer \in Nat
  /\ pc \in [Execs -> PCs]
  /\ token \in [Execs -> Nat]
  /\ patience \in [Execs -> 0 .. WAIT_TIMEOUT]
  /\ refresher \in [Execs -> RefresherStates]
  /\ timer \in [Execs -> 0 .. HEARTBEAT_INTERVAL]
  /\ missed \in [Execs -> Nat]
  /\ forced \subseteq Nat

(* The lock of p can no longer be relied on: p missed more refreshes in a row
   than the reclaim window allows for, or it was force-released. *)
Lapsed(p) == ~Tolerable(missed[p]) \/ token[p] \in forced

(* entity_lock, with reclaim_after_seconds = 30 and a heartbeat every 5: two
   bodies run under the lock at once only if the earlier of them has lapsed. A
   refresh by a stale execution, a release by an earlier delivery of the same
   task, a sweep or an expiring acquire never let a second body in beside a
   holder whose heartbeat keeps coming. *)
OverlapOnlyAfterLapse ==
  \A p, q \in Execs :
    /\ p # q
    /\ pc[p] = "body"
    /\ pc[q] = "body"
    /\ token[p] <= token[q]
    => Lapsed(p)

(* _sql_acquire hands every execution a lock_fence_token of its own, also two
   executions of one task id, and none that the row has not reached. *)
TokensUnique ==
  \A p, q \in Execs :
    /\ token[p] <= fence
    /\ p # q /\ token[p] = token[q] => token[p] = 0

(* release and refresh are guarded by task id AND fence: an execution that owns
   the row stops owning it only by its own release, by a force_release of its
   token, or because its heartbeat was stale; never through another execution,
   an earlier delivery of the same task included. *)
OwnershipKept ==
  [][\A p \in Execs :
       Owns(p) /\ ~Owns(p)' =>
         \/ pc[p] = "releasing" /\ pc'[p] = "ended"
         \/ fence \in forced'
         \/ Stale]_vars

(* set_locked_entity_fields: once fields were written under a token, no
   execution with an older token overwrites them. *)
NewestWriterWins == [][writer' >= writer]_vars

(* sweep_stale_entity_locks and the reclaim in acquire: a row whose holder has
   no running body (it crashed, its release raised, it left) does not stay
   held by it. *)
Zombie == holder # NULL /\ ~\E p \in Execs : Owns(p) /\ pc[p] = "body"

ZombieCleared == Zombie ~> ~Zombie

-----------------------------------------------------------------------------
(* The inductive invariant behind these properties. *)
TokenInv ==
  \A p \in Execs :
    /\ pc[p] \in {"idle", "waiting"} => token[p] = 0
    /\ pc[p] \in {"body", "releasing"} => token[p] > 0
    /\ pc[p] = "body" => refresher[p] \in {"running", "lost"}
    /\ pc[p] \in {"idle", "waiting", "crashed"} => refresher[p] = "off"

(* A body whose lock has not lapsed owns the row, its refresher runs, and the
   age of the row's heartbeat is accounted for by the beats it missed. *)
BeatInv ==
  \A p \in Execs :
    pc[p] = "body" /\ ~Lapsed(p) =>
      /\ Owns(p)
      /\ refresher[p] = "running"
      /\ beatAge <= missed[p] * HEARTBEAT_INTERVAL + timer[p]

ForcedInv ==
  /\ \A f \in forced : f <= fence
  /\ fence \in forced => holder = NULL

LockInv ==
  /\ TypeOK
  /\ TokensUnique
  /\ TokenInv
  /\ BeatInv
  /\ ForcedInv
  /\ writer <= fence

-----------------------------------------------------------------------------
(* The lease of the present token is in use and has not lapsed. *)
Healthy(p) == pc[p] = "body" /\ token[p] = fence /\ ~Lapsed(p)

Abstract == INSTANCE FencedLease WITH
  Clients  <- Execs,
  epoch    <- fence,
  grant    <- token,
  healthy  <- (\E p \in Execs : Healthy(p)),
  register <- writer

(* entity_lock implements FencedLease: a healthy lease is never granted away,
   and only the latest token writes. *)
ImplementsFencedLease == Abstract!Spec
=============================================================================
