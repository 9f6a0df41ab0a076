----------------------------- MODULE FleetBulkRun -----------------------------
(***************************************************************************)
(* Fleet bulk operations (D-022): a run acts on the members of a resolved  *)
(* decision wave by wave, one wave per fault domain or label value, with a *)
(* gate between waves. The executor is a Celery task without any lock      *)
(* (services/fleet_bulkop_service.py); a timed gate sends itself a delayed *)
(* resume message, an operator resumes and cancels through routes/fleet.py.*)
(*                                                                         *)
(* Buckets are naturals in their lexicographic order; the "(none)" bucket  *)
(* is the largest. One decision, and the runs started from it. A message   *)
(* and the worker that has taken it are one executor here.                 *)
(***************************************************************************)
EXTENDS Integers, Sequences, FiniteSets

CONSTANTS
  Runs,       \* ids of the fleet_bulk_runs rows
  Members,    \* FleetDecision.resolved_member_ids
  Buckets,    \* values of the fault domain, or of the wave label
  Placements, \* the buckets that the members may be in at first
  Gates,      \* gate modes that runs are started with
  NewBucket,  \* the wave label's value that a set-labels action assigns
  MaxExecs,   \* bound: messages ever sent
  MaxFaults,  \* bound: worker deaths, exceptions, broker errors, redeliveries
  MaxChanges  \* bound: changes of the inventory and of health

ASSUME FleetAssumption ==
  /\ IsFiniteSet(Runs) /\ Runs # {} /\ IsFiniteSet(Members)
  /\ Buckets \subseteq Nat /\ IsFiniteSet(Buckets) /\ NewBucket \in Buckets
  /\ Placements \subseteq [Members -> Buckets]
  /\ Gates \subseteq {"manual", "health_stable", "timed_wait"}
  /\ MaxExecs \in Nat /\ MaxFaults \in Nat /\ MaxChanges \in Nat

Execs == 1 .. MaxExecs

RunStatuses == {"none", "pending", "running", "paused_gate", "completed",
                "failed", "cancelled"}
Terminal == {"completed", "failed", "cancelled"}
Results == {"none", "pending", "final"}

VARIABLES
  status,    \* status[r]: FleetBulkRun.status
  index,     \* index[r]: current_wave_index
  gate,      \* gate[r]: gate_mode
  relabels,  \* relabels[r]: set-labels run that is grouped by the same label
  results,   \* results[r][m]: the row's status; final is succeeded, failed
             \* or skipped
  decision,  \* FleetDecision.status
  aged,      \* the decision is older than DECISION_TTL_SECONDS
  members,   \* the fleet_members rows that exist
  bucket,    \* bucket[m]: fault_domain, or the value of the wave label
  unstable,  \* members with a health_status outside STABLE_HEALTH_STATUSES
  exec,      \* exec[e]: a message, or the executor that works on it
  nextExec,  \* the next message
  faults,    \* faults so far
  changes,   \* changes of the inventory so far
  hist       \* hist[r]: what happened to the run, for the properties

rows  == <<status, index, gate, relabels, results, decision>>
fleet == <<aged, members, bucket, unstable, changes>>
vars  == <<rows, fleet, exec, nextExec, faults, hist>>

NoExec == [run |-> CHOOSE r \in Runs : TRUE, kind |-> "run", pc |-> "none",
           waves |-> <<>>, at |-> 0, todo |-> {}]
NoHist == [resumed |-> FALSE,   \* the resume route accepted a request
           cancelled |-> FALSE, \* cancelled, while no executor was starting
           moved |-> FALSE,     \* members left or changed bucket meanwhile
           redelivered |-> FALSE, \* a message of it was delivered again
           lost |-> FALSE]      \* a message of it never reached the broker, or
                                \* a task ended and could not write so

ExecRecords == [run : Runs, kind : {"run", "resume"},
                pc : {"none", "delayed", "sent", "stale", "loaded", "top",
                      "wave", "timer", "ending", "done"},
                waves : Seq(SUBSET Members), at : Nat, todo : SUBSET Members]
HistRecords == [resumed : BOOLEAN, cancelled : BOOLEAN, moved : BOOLEAN,
                redelivered : BOOLEAN, lost : BOOLEAN]

TypeOK ==
  /\ status \in [Runs -> RunStatuses]
  /\ index \in [Runs -> 0 .. Cardinality(Members)]
  /\ gate \in [Runs -> {"manual", "health_stable", "timed_wait"}]
  /\ relabels \in [Runs -> BOOLEAN]
  /\ results \in [Runs -> [Members -> Results]]
  /\ decision \in {"resolved", "consumed", "superseded"}
  /\ aged \in BOOLEAN
  /\ members \subseteq Members /\ unstable \subseteq Members
  /\ bucket \in [Members -> Buckets]
  /\ exec \in [Execs -> ExecRecords]
  /\ \A e \in Execs : exec[e].at <= Cardinality(Members)
  /\ nextExec \in 1 .. MaxExecs + 1
  /\ hist \in [Runs -> HistRecords]
  /\ faults \in 0 .. MaxFaults /\ changes \in 0 .. MaxChanges

Init ==
  /\ status = [r \in Runs |-> "none"] /\ index = [r \in Runs |-> 0]
  /\ gate = [r \in Runs |-> "manual"] /\ relabels = [r \in Runs |-> FALSE]
  /\ results = [r \in Runs |-> [m \in Members |-> "none"]]
  /\ decision = "resolved" /\ aged = FALSE
  /\ members = Members /\ bucket \in Placements
  /\ unstable = {}
  /\ exec = [e \in Execs |-> NoExec] /\ nextExec = 1
  /\ faults = 0 /\ changes = 0
  /\ hist = [r \in Runs |-> NoHist]

-----------------------------------------------------------------------------
(* Helpers *)

(* apply_async: a message of that kind for run r. *)
Sent(r, kind, pc) ==
  [exec EXCEPT ![nextExec] = [NoExec EXCEPT !.run = r, !.kind = kind, !.pc = pc]]
CanSend == nextExec <= MaxExecs

Fault == faults < MaxFaults /\ faults' = faults + 1

(* The executor goes on at pc, or ends and acknowledges its message. *)
Goto(e, pc) == exec' = [exec EXCEPT ![e].pc = pc]
Ended(e) == [exec EXCEPT ![e] = [NoExec EXCEPT !.run = exec[e].run,
                                               !.pc = "done"]]

Note(r, field) == hist' = [hist EXCEPT ![r][field] = TRUE]

(* The waves that a resumed run computes may differ from the ones it had. *)
NoteMoved ==
  hist' = [r \in Runs |->
             [hist[r] EXCEPT !.moved = @ \/ status[r] # "none"]]

(* _group_members_into_waves: the members that exist, one wave per bucket *)
(* in use, in the order of the buckets.                                    *)
Waves ==
  LET used == {bucket[m] : m \in members}
      nth(i) == CHOOSE b \in used :
                  Cardinality({c \in used : c < b}) = i - 1
  IN  [i \in 1 .. Cardinality(used) |->
         {m \in members : bucket[m] = nth(i)}]

(* _assert_decision_fresh *)
Fresh == decision = "resolved" /\ ~aged /\ members = Members

-----------------------------------------------------------------------------
(* Requests *)

(* start_fleet_bulk_op: the row is committed, then the task dispatched; a *)
(* broker error leaves a pending run.                                      *)
Start(r) ==
  /\ status[r] = "none" /\ decision = "resolved"
  /\ status' = [status EXCEPT ![r] = "pending"]
  /\ \E g \in Gates : gate' = [gate EXCEPT ![r] = g]
  /\ \E b \in BOOLEAN : relabels' = [relabels EXCEPT ![r] = b]
  /\ \/ /\ CanSend /\ exec' = Sent(r, "run", "sent")
        /\ nextExec' = nextExec + 1
        /\ UNCHANGED <<faults, hist>>
     \/ Fault /\ Note(r, "lost") /\ UNCHANGED <<exec, nextExec>>
  /\ UNCHANGED <<index, results, decision, fleet>>

(* resume_fleet_bulk_op_route: RUNNING is committed before the dispatch; a *)
(* broker error leaves it so.                                              *)
ResumeRoute(r) ==
  /\ status[r] = "paused_gate"
  /\ status' = [status EXCEPT ![r] = "running"]
  /\ \/ /\ CanSend /\ exec' = Sent(r, "resume", "sent")
        /\ nextExec' = nextExec + 1
        /\ Note(r, "resumed") /\ UNCHANGED faults
     \/ /\ Fault /\ UNCHANGED <<exec, nextExec>>
        /\ hist' = [hist EXCEPT ![r].resumed = TRUE, ![r].lost = TRUE]
  /\ UNCHANGED <<index, gate, relabels, results, decision, fleet>>

(* Mutant: the route writes another spelling. *)
CancelMisspelt(r) ==
  /\ status[r] \in {"pending", "running", "paused_gate"}
  /\ status' = [status EXCEPT ![r] = "canceled"]
  /\ Note(r, "cancelled")
  /\ UNCHANGED <<index, gate, relabels, results, decision, fleet, exec,
                 nextExec, faults>>

(* cancel_fleet_bulk_op *)
Cancel(r) ==
  /\ status[r] \in {"pending", "running", "paused_gate"}
  /\ status' = [status EXCEPT ![r] = "cancelled"]
  /\ hist' = [hist EXCEPT ![r].cancelled =
               ~\E e \in Execs : exec[e].run = r /\ exec[e].pc = "loaded"]
  /\ UNCHANGED <<index, gate, relabels, results, decision, fleet, exec,
                 nextExec, faults>>

(* resolve_target and decision_from_member_ids supersede the decision. *)
Supersede ==
  /\ decision = "resolved" /\ decision' = "superseded"
  /\ UNCHANGED <<status, index, gate, relabels, results, fleet, exec, nextExec,
                 faults, hist>>

-----------------------------------------------------------------------------
(* The executor: run_fleet_bulk_op and resume_fleet_bulk_op *)

(* The countdown of a timed gate has passed. *)
Elapse(e) ==
  /\ exec[e].pc = "delayed" /\ Goto(e, "sent")
  /\ UNCHANGED <<rows, fleet, nextExec, faults, hist>>

(* resume_fleet_bulk_op wants a paused run, and both kinds refuse a run *)
(* that is running or ended. *)
Accepts(e) ==
  LET s == status[exec[e].run]
  IN  IF exec[e].kind = "resume" THEN s = "paused_gate"
      ELSE s \notin Terminal \cup {"running"}

(* What the session reads before its first commit: run, decision, members. *)
Load(e) ==
  /\ exec[e].pc = "sent" /\ Accepts(e)
  /\ exec' = [exec EXCEPT ![e] =
       [@ EXCEPT !.pc = IF exec[e].kind = "run" /\ ~Fresh THEN "stale"
                        ELSE "loaded",
                 !.waves = Waves]]
  /\ UNCHANGED <<rows, fleet, nextExec, faults, hist>>

Refuse(e) ==
  /\ exec[e].pc = "sent" /\ ~Accepts(e)
  /\ exec' = Ended(e)
  /\ UNCHANGED <<rows, fleet, nextExec, faults, hist>>

(* StaleDecisionError *)
FailStale(e) ==
  /\ exec[e].pc = "stale"
  /\ status' = [status EXCEPT ![exec[e].run] = "failed"]
  /\ exec' = Ended(e)
  /\ UNCHANGED <<index, gate, relabels, results, decision, fleet, nextExec,
                 faults, hist>>

(* The first commit; resume_from is read after it. *)
Begin(e) ==
  /\ exec[e].pc = "loaded"
  /\ status' = [status EXCEPT ![exec[e].run] = "running"]
  /\ decision' = IF exec[e].kind = "run" THEN "consumed" ELSE decision
  /\ exec' = [exec EXCEPT ![e].pc = "top", ![e].at = index[exec[e].run]]
  /\ UNCHANGED <<index, gate, relabels, results, fleet, nextExec, faults, hist>>

(* Mutant: the status is not looked at again. *)
CancelUnseen(e) == FALSE

(* The top of the loop, exec[e].at being wave_idx from zero: the cancel   *)
(* check, current_wave_index, and the result rows.                         *)
CancelSeen(e) == status[exec[e].run] = "cancelled"
StartWave(e) ==
  LET r == exec[e].run
      wave == exec[e].waves[exec[e].at + 1]
  IN
  /\ exec[e].pc = "top" /\ exec[e].at < Len(exec[e].waves)
  /\ ~CancelSeen(e) /\ wave \subseteq members
  /\ index' = [index EXCEPT ![r] = exec[e].at]
  /\ results' = [results EXCEPT ![r] = [m \in Members |->
                   IF m \in wave /\ @[m] = "none" THEN "pending" ELSE @[m]]]
  /\ exec' = [exec EXCEPT ![e].pc = "wave", ![e].todo = wave]
  /\ UNCHANGED <<status, gate, relabels, decision, fleet, nextExec, faults,
                 hist>>

(* The commit of the index expires the members: reading one that was      *)
(* pruned meanwhile raises, and the run fails.                             *)
WavePruned(e) ==
  LET r == exec[e].run
  IN
  /\ exec[e].pc = "top" /\ exec[e].at < Len(exec[e].waves)
  /\ ~CancelSeen(e) /\ ~(exec[e].waves[exec[e].at + 1] \subseteq members)
  /\ index' = [index EXCEPT ![r] = exec[e].at]
  /\ status' = [status EXCEPT ![r] = "failed"]
  /\ exec' = Ended(e)
  /\ UNCHANGED <<gate, relabels, results, decision, fleet, nextExec, faults,
                 hist>>

StopCancelled(e) ==
  /\ exec[e].pc = "top" /\ exec[e].at < Len(exec[e].waves)
  /\ CancelSeen(e)
  /\ exec' = Ended(e)
  /\ UNCHANGED <<rows, fleet, nextExec, faults, hist>>

(* _dispatch_action_for_member in its own session, and its result row; a *)
(* set-labels action that succeeds changes the label.                     *)
Act(e, m) ==
  LET r == exec[e].run
  IN
  /\ exec[e].pc = "wave" /\ m \in exec[e].todo
  /\ results' = [results EXCEPT ![r][m] = "final"]
  /\ \/ UNCHANGED bucket
     \/ /\ relabels[r] /\ m \in members
        /\ bucket' = [bucket EXCEPT ![m] = NewBucket]
  /\ exec' = [exec EXCEPT ![e].todo = @ \ {m}]
  /\ IF bucket' # bucket THEN NoteMoved ELSE UNCHANGED hist
  /\ UNCHANGED <<status, index, gate, relabels, decision, aged, members,
                 unstable, changes, nextExec, faults>>

WaveDone(e) == exec[e].pc = "wave" /\ exec[e].todo = {}
LastWave(e) == exec[e].at + 1 = Len(exec[e].waves)

(* _wave_gate_passes: only the health gate can, and missing rows count as *)
(* healthy.                                                                *)
GatePasses(e) ==
  /\ gate[exec[e].run] = "health_stable"
  /\ exec[e].waves[exec[e].at + 1] \cap members \cap unstable = {}

PassGate(e) ==
  /\ WaveDone(e) /\ ~LastWave(e) /\ GatePasses(e)
  /\ exec' = [exec EXCEPT ![e].pc = "top", ![e].at = @ + 1]
  /\ UNCHANGED <<rows, fleet, nextExec, faults, hist>>

(* Mutant: the index of the wave after the next one is saved. *)
PauseSkips(e) ==
  LET r == exec[e].run
  IN
  /\ WaveDone(e) /\ ~LastWave(e) /\ ~GatePasses(e)
  /\ status' = [status EXCEPT ![r] = "paused_gate"]
  /\ index' = [index EXCEPT ![r] = exec[e].at + 2]
  /\ Goto(e, IF gate[r] = "timed_wait" THEN "timer" ELSE "ending")
  /\ UNCHANGED <<gate, relabels, results, decision, fleet, nextExec, faults,
                 hist>>

(* Mutants: nothing is sent; the executor does not return. *)
SendTimerForgotten(e) ==
  /\ exec[e].pc = "timer" /\ Goto(e, "ending")
  /\ UNCHANGED <<rows, fleet, nextExec, faults, hist>>
SendTimerGoesOn(e) ==
  /\ exec[e].pc = "timer" /\ CanSend
  /\ exec' = [Sent(exec[e].run, "resume", "delayed")
                EXCEPT ![e].pc = "top", ![e].at = @ + 1]
  /\ nextExec' = nextExec + 1
  /\ UNCHANGED <<rows, fleet, faults, hist>>

(* status and current_wave_index are committed; a timed gate then sends *)
(* the delayed resume message.                                          *)
Pause(e) ==
  LET r == exec[e].run
  IN
  /\ WaveDone(e) /\ ~LastWave(e) /\ ~GatePasses(e)
  /\ status' = [status EXCEPT ![r] = "paused_gate"]
  /\ index' = [index EXCEPT ![r] = exec[e].at + 1]
  /\ Goto(e, IF gate[r] = "timed_wait" THEN "timer" ELSE "ending")
  /\ UNCHANGED <<gate, relabels, results, decision, fleet, nextExec, faults,
                 hist>>

SendTimer(e) ==
  /\ exec[e].pc = "timer" /\ CanSend
  /\ exec' = [Sent(exec[e].run, "resume", "delayed") EXCEPT ![e].pc = "ending"]
  /\ nextExec' = nextExec + 1
  /\ UNCHANGED <<rows, fleet, faults, hist>>

(* Mutant: every wave is taken for the last one. *)
CompleteEarly(e) ==
  /\ WaveDone(e)
  /\ status' = [status EXCEPT ![exec[e].run] = "completed"]
  /\ Goto(e, "ending")
  /\ UNCHANGED <<index, gate, relabels, results, decision, fleet, nextExec,
                 faults, hist>>

(* The end of the loop, also when there are no waves. Nothing looks at the *)
(* status before it is written.                                            *)
Complete(e) ==
  /\ \/ WaveDone(e) /\ LastWave(e)
     \/ exec[e].pc = "top" /\ exec[e].at >= Len(exec[e].waves)
  /\ status' = [status EXCEPT ![exec[e].run] = "completed"]
  /\ Goto(e, "ending")
  /\ UNCHANGED <<index, gate, relabels, results, decision, fleet, nextExec,
                 faults, hist>>

(* acks_late: the message is acknowledged when the task has returned. *)
Ack(e) ==
  /\ exec[e].pc = "ending" /\ exec' = Ended(e)
  /\ UNCHANGED <<rows, fleet, nextExec, faults, hist>>

(* An exception inside the loop (soft time limit, database, broker) fails  *)
(* the run. Outside of it, or when the handler's own commit raises because *)
(* the session was not rolled back, the task ends with the run as it was   *)
(* and its message is acknowledged all the same.                           *)
Raise(e) ==
  LET r == exec[e].run
  IN
  /\ Fault /\ exec' = Ended(e)
  /\ \/ /\ exec[e].pc \in {"top", "wave", "timer"} /\ exec[e].waves # <<>>
        /\ status' = [status EXCEPT ![r] = "failed"]
        /\ UNCHANGED hist
     \/ /\ exec[e].pc \in {"loaded", "stale", "top", "wave", "timer"}
        /\ Note(r, "lost") /\ UNCHANGED status
  /\ UNCHANGED <<index, gate, relabels, results, decision, fleet, nextExec>>

(* The worker dies; task_reject_on_worker_lost puts the message back. *)
Crash(e) ==
  /\ exec[e].pc \notin {"none", "delayed", "sent", "done"} /\ Fault
  /\ exec' = [exec EXCEPT ![e] = [NoExec EXCEPT !.run = exec[e].run,
                                    !.kind = exec[e].kind, !.pc = "sent"]]
  /\ Note(exec[e].run, "redelivered")
  /\ UNCHANGED <<rows, fleet, nextExec>>

(* The countdown of a timed gate is longer than the visibility timeout of *)
(* the broker, which then hands the unacknowledged message out again.     *)
Redeliver(e) ==
  /\ exec[e].kind = "resume" /\ exec[e].pc = "delayed" /\ CanSend /\ Fault
  /\ exec' = Sent(exec[e].run, "resume", "delayed")
  /\ nextExec' = nextExec + 1
  /\ Note(exec[e].run, "redelivered")
  /\ UNCHANGED <<rows, fleet>>

Executor(e) ==
  \/ Elapse(e) \/ Load(e) \/ Refuse(e) \/ FailStale(e) \/ Begin(e)
  \/ StartWave(e) \/ WavePruned(e) \/ StopCancelled(e)
  \/ (\E m \in Members : Act(e, m))
  \/ PassGate(e) \/ Pause(e) \/ SendTimer(e) \/ Complete(e) \/ Ack(e)

-----------------------------------------------------------------------------
(* The inventory: reconcile, prune and label edits of other parts *)

Change == changes < MaxChanges /\ changes' = changes + 1

(* The time to live of the decision passes. *)
Age ==
  /\ decision = "resolved" /\ ~aged /\ aged' = TRUE /\ Change
  /\ UNCHANGED <<rows, members, bucket, unstable, exec, nextExec, faults, hist>>

(* backfill_fleet_members prunes the membership of a target that is gone. *)
Prune(m) ==
  /\ m \in members /\ members' = members \ {m} /\ Change
  /\ NoteMoved
  /\ UNCHANGED <<rows, aged, bucket, unstable, exec, nextExec, faults>>

(* reconcile_fleet_member discovers another value of the label. *)
Move(m) ==
  /\ m \in members /\ Change
  /\ \E b \in Buckets \ {bucket[m]} : bucket' = [bucket EXCEPT ![m] = b]
  /\ NoteMoved
  /\ UNCHANGED <<rows, aged, members, unstable, exec, nextExec, faults>>

Sicken(m) ==
  /\ m \in members \ unstable /\ unstable' = unstable \cup {m} /\ Change
  /\ UNCHANGED <<rows, aged, members, bucket, exec, nextExec, faults, hist>>

Next ==
  \/ \E r \in Runs : Start(r) \/ ResumeRoute(r) \/ Cancel(r)
  \/ Supersede
  \/ \E e \in Execs : Executor(e) \/ Raise(e) \/ Crash(e) \/ Redeliver(e)
  \/ Age
  \/ \E m \in Members : Prune(m) \/ Move(m) \/ Sicken(m)

(* Workers take messages and go on; countdowns elapse. Users, faults and *)
(* the inventory are free not to act.                                    *)
Fairness == \A e \in Execs : WF_vars(Executor(e))

Spec == Init /\ [][Next]_vars
FairSpec == Spec /\ Fairness

-----------------------------------------------------------------------------
(* Properties *)

Settled(r, m) == results[r][m] = "final"

(* While a wave is acted on, every member of the waves before it, as long  *)
(* as the fleet kept its buckets, has its final result: an executor that   *)
(* resumes, is redelivered or races with another one never gets ahead of   *)
(* an unfinished wave (current_wave_index, _execute_bulk_run_with_db).     *)
WavesInOrder ==
  \A e \in Execs :
    LET r == exec[e].run
    IN  exec[e].pc = "wave" /\ ~hist[r].moved =>
          \A i \in 1 .. exec[e].at : \A m \in exec[e].waves[i] : Settled(r, m)

Acting(e, r) == exec[e].run = r /\ exec[e].pc \in {"top", "wave"}

(* Two executors never act for one run at the same time, unless a message *)
(* of it was delivered again (its worker died, or its countdown outlasted  *)
(* the visibility timeout) or an operator resumed a timed gate by hand:    *)
(* the status guards stand in for the missing lock.                        *)
OneExecutor ==
  \A r \in Runs, d, e \in Execs :
    Acting(d, r) /\ Acting(e, r) =>
      \/ d = e \/ hist[r].redelivered
      \/ hist[r].resumed /\ gate[r] = "timed_wait"

(* A run that reports completed has a final result for every member of its *)
(* decision, as long as the fleet kept its buckets while it ran.           *)
CompletedCovers ==
  \A r \in Runs : status[r] = "completed" /\ ~hist[r].moved =>
    \A m \in Members : Settled(r, m)

WaveStarts(r) ==
  \E e \in Execs : /\ exec[e].run = r /\ exec[e].pc = "top"
                   /\ exec'[e].pc = "wave"

(* A cancellation accepted while no executor sits between its read of the *)
(* status and its first commit stops the run: no further wave starts,     *)
(* under any gate but the timed one.                                      *)
CancelStops ==
  [][\A r \in Runs : hist[r].cancelled /\ gate[r] # "timed_wait"
                       => ~WaveStarts(r)]_vars

Excused(r) == hist[r].redelivered \/ hist[r].lost

(* A started run reaches a gate or its end by itself, and a timed gate      *)
(* reopens by itself, unless a message was lost or delivered again, a task  *)
(* ended without being able to write so, or an operator resumed it by hand. *)
RunSettles ==
  \A r \in Runs :
    status[r] \in {"pending", "running"}
    \/ (status[r] = "paused_gate" /\ gate[r] = "timed_wait")
    ~> \/ status[r] \in Terminal
       \/ status[r] = "paused_gate" /\ gate[r] # "timed_wait"
       \/ Excused(r) \/ hist[r].resumed

(* A run that an operator resumed at a gate goes on: it pauses again or    *)
(* ends (resume_fleet_bulk_op, "the executor resumes from the current_wave *)
(* _index").                                                               *)
ResumeContinues ==
  \A r \in Runs :
    hist[r].resumed /\ status[r] = "running"
    ~> status[r] # "running" \/ Excused(r)

-----------------------------------------------------------------------------
(* The inductive invariants *)

Working == {"loaded", "top", "wave"}

(* The first n waves have their results. *)
DoneUpTo(r, waves, n) ==
  \A i \in DOMAIN waves : i <= n => \A m \in waves[i] : Settled(r, m)

(* A run's messages, and its progress, exist only once it was started, and *)
(* an executor has no more waves than there are members.                   *)
ExecInv ==
  /\ \A e \in Execs : e >= nextExec \/ exec[e].pc = "none" => exec[e] = NoExec
  /\ \A r \in Runs :
       status[r] = "none" => index[r] = 0 /\ ~hist[r].resumed /\ ~hist[r].cancelled
  /\ \A e \in Execs : exec[e].pc # "none" => status[exec[e].run] # "none"
  /\ \A e \in Execs : Len(exec[e].waves) <= Cardinality(Members)
  /\ \A e \in Execs : exec[e].pc = "wave" => exec[e].at < Len(exec[e].waves)

(* As long as the fleet keeps its buckets, every executor of a run has the *)
(* waves that it would compute now, and all members of the decision.       *)
WavesInv ==
  \A r \in Runs : ~hist[r].moved =>
    /\ status[r] \in {"running", "paused_gate", "completed"} => members = Members
    /\ \A e \in Execs : exec[e].run = r /\ exec[e].pc \in Working =>
         exec[e].waves = Waves /\ members = Members

(* What has been passed is done: the saved index, the executor's place in  *)
(* the loop, the wave that it is in.                                       *)
ProgressInv ==
  \A r \in Runs : ~hist[r].moved =>
    /\ DoneUpTo(r, Waves, index[r])
    /\ status[r] = "completed" => \A m \in Members : Settled(r, m)
    /\ \A e \in Execs : exec[e].run = r /\ exec[e].pc \in {"top", "wave"} =>
         DoneUpTo(r, exec[e].waves, exec[e].at)
    /\ \A e \in Execs : exec[e].run = r /\ exec[e].pc = "wave" =>
         \A m \in exec[e].waves[exec[e].at + 1] \ exec[e].todo : Settled(r, m)

Engaged(e, r) ==
  exec[e].run = r /\ exec[e].pc \in {"delayed", "sent", "stale", "timer"} \cup Working

(* One message or executor of a run at a time, and none at an operator's   *)
(* gate, without redelivery and without a hand on a timed gate.            *)
SingleInv ==
  \A r \in Runs :
    \/ hist[r].redelivered
    \/ hist[r].resumed /\ gate[r] = "timed_wait"
    \/ /\ \A d, e \in Execs : Engaged(d, r) /\ Engaged(e, r) => d = e
       /\ status[r] = "paused_gate" /\ gate[r] # "timed_wait"
            => \A e \in Execs : ~Engaged(e, r)

RunMessage(e, r) ==
  exec[e].run = r /\ exec[e].kind = "run" /\ exec[e].pc \notin {"none", "done"}

(* Without a timed gate a run has one executor for ever, redelivered or    *)
(* not: the messages of the resume route are refused. It does not come     *)
(* back once it has reached a gate, the decision being consumed, nor after *)
(* a cancellation that it was not too early to see.                        *)
UntimedRun(r) ==
  /\ \A d, e \in Execs : RunMessage(d, r) /\ RunMessage(e, r) => d = e
  /\ \A e \in Execs : exec[e].run = r =>
       /\ exec[e].kind = "resume" => exec[e].pc = "sent" /\ hist[r].resumed
       /\ exec[e].pc # "timer"
       /\ exec[e].pc \in {"top", "wave"} => decision # "resolved"
  /\ status[r] \in {"running", "paused_gate"} => decision # "resolved"
  /\ status[r] \in {"none", "pending"} => ~hist[r].resumed /\ ~hist[r].cancelled
  /\ hist[r].resumed => status[r] # "paused_gate"
  /\ status[r] = "paused_gate" \/ hist[r].resumed =>
       \A e \in Execs : exec[e].run = r => exec[e].pc \notin Working
  /\ hist[r].cancelled =>
       \A e \in Execs : exec[e].run = r =>
         /\ exec[e].pc # "loaded"
         /\ exec[e].pc \in {"top", "wave"} => status[r] = "cancelled"
CancelInv == \A r \in Runs : gate[r] # "timed_wait" => UntimedRun(r)

FleetInv == TypeOK /\ ExecInv /\ WavesInv /\ ProgressInv /\ SingleInv /\ CancelInv
=============================================================================
