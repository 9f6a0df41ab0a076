-------------------------------- MODULE Breaker --------------------------------
(***************************************************************************)
(* The circuit breaker of one target in one process                        *)
(* (services/reachability/breaker.py): threads that call the target        *)
(* through with_breaker, and, in the API's process only, the registry's    *)
(* scheduler that probes it. can_attempt takes no lock (the asyncio.Lock   *)
(* of _Breaker is never used), so threads interleave inside it.            *)
(***************************************************************************)
EXTENDS Integers

CONSTANTS
  Threads,           \* threads that call the target
  FailureThreshold,  \* failure_threshold
  SleepWindow,       \* sleep_window_seconds, in ticks
  Probed,            \* TRUE in the process that runs the scheduler
  MaxFaults          \* bound: changes of the target for the worse

VARIABLES
  state,     \* _Breaker.state
  failures,  \* consecutive_failures, up to the threshold
  inflight,  \* half_open_inflight
  age,       \* time since opened_at, up to the window
  pc,        \* pc[t]: where thread t is in the wrapper
  target,    \* how the target answers: "up", "down" or "auth" (wrong token)
  faults

vars == <<state, failures, inflight, age, pc, target, faults>>

TypeOK ==
  /\ state \in {"closed", "open", "half_open"}
  /\ failures \in 0 .. FailureThreshold /\ age \in 0 .. SleepWindow
  /\ inflight \in BOOLEAN
  /\ pc \in [Threads -> {"idle", "expired", "trial", "claim", "calling"}]
  /\ target \in {"up", "down", "auth"}
  /\ faults \in 0 .. MaxFaults

Init ==
  /\ state = "closed" /\ failures = 0 /\ inflight = FALSE /\ age = 0
  /\ pc = [t \in Threads |-> "idle"]
  /\ target = "up" /\ faults = 0

Goto(t, l) == pc' = [pc EXCEPT ![t] = l]
-------------------------------------------------------------------------------
(***************************************************************************)
(* can_attempt, by thread t. A refused call stays "idle".                  *)
(***************************************************************************)
Attempt(t) ==
  /\ pc[t] = "idle"
  /\ \/ state = "closed" /\ Goto(t, "calling")
     \/ state = "open" /\ age = SleepWindow /\ Goto(t, "expired")
     \/ state = "half_open" /\ Goto(t, "trial")
  /\ UNCHANGED <<state, failures, inflight, age, target, faults>>

(* The window is over: "let exactly one probe through". *)
HalfOpen(t) ==
  /\ pc[t] = "expired"
  /\ state' = "half_open" /\ inflight' = FALSE
  /\ Goto(t, "trial")
  /\ UNCHANGED <<failures, age, target, faults>>

Trial(t) ==
  /\ pc[t] = "trial"
  /\ Goto(t, IF state = "half_open" /\ ~inflight THEN "claim" ELSE "idle")
  /\ UNCHANGED <<state, failures, inflight, age, target, faults>>

Claim(t) ==
  /\ pc[t] = "claim"
  /\ inflight' = TRUE
  /\ Goto(t, "calling")
  /\ UNCHANGED <<state, failures, age, target, faults>>
-------------------------------------------------------------------------------
(***************************************************************************)
(* record_real_call, with the answer of a call or of a probe.              *)
(***************************************************************************)
RecordSuccess ==
  /\ failures' = 0 /\ inflight' = FALSE /\ state' = "closed"
  /\ UNCHANGED age

(* Wrong credentials do not count; a slow answer counts as a failure. *)
RecordFailure(auth) ==
  LET n == IF failures < FailureThreshold THEN failures + 1 ELSE failures IN
  \/ auth /\ UNCHANGED <<state, failures, inflight, age>>
  \/ /\ ~auth
     /\ failures' = n /\ inflight' = FALSE
     /\ IF state = "half_open" \/ n = FailureThreshold
        THEN state' = "open" /\ age' = 0
        ELSE UNCHANGED <<state, age>>

Record ==
  \/ target = "up" /\ RecordSuccess
  \/ target = "down" /\ RecordFailure(FALSE)
  \/ target = "auth" /\ RecordFailure(TRUE)

Return(t) ==
  /\ pc[t] = "calling"
  /\ Record
  /\ Goto(t, "idle")
  /\ UNCHANGED <<target, faults>>

(* _probe_one of the scheduler: it does not ask the breaker. *)
Probe ==
  /\ Probed
  /\ Record
  /\ UNCHANGED <<pc, target, faults>>

Tick ==
  /\ state = "open" /\ age < SleepWindow
  /\ age' = age + 1
  /\ UNCHANGED <<state, failures, inflight, pc, target, faults>>

(* The target goes down, or its token becomes invalid, and is repaired. *)
Breaks ==
  /\ faults < MaxFaults /\ faults' = faults + 1
  /\ target' \in {"down", "auth"} \ {target}
  /\ UNCHANGED <<state, failures, inflight, age, pc>>

Repaired ==
  /\ target # "up" /\ target' = "up"
  /\ UNCHANGED <<state, failures, inflight, age, pc, faults>>

Call(t) == Attempt(t) \/ HalfOpen(t) \/ Trial(t) \/ Claim(t) \/ Return(t)

Next ==
  \/ \E t \in Threads : Call(t)
  \/ Probe \/ Tick \/ Breaks \/ Repaired

Spec == Init /\ [][Next]_vars

(* Threads keep calling and their calls end, time passes, the scheduler    *)
(* probes. Nothing repairs the target by itself.                           *)
FairSpec ==
  /\ Spec
  /\ \A t \in Threads : WF_vars(Call(t))
  /\ WF_vars(Probe) /\ WF_vars(Tick)
-------------------------------------------------------------------------------
(* Auth failures do not count, "otherwise a wrong token leaves the breaker *)
(* stuck open forever": once the target answers again for good, the        *)
(* breaker closes for good.                                                *)
BreakerRecovers == <>[](target = "up") => <>[](state = "closed")
================================================================================
