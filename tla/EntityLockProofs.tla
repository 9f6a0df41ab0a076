-------------------------- MODULE EntityLockProofs --------------------------
(***************************************************************************)
(* Proofs about EntityLock, for every set of executions and tasks and for  *)
(* every heartbeat interval and reclaim window.                            *)
(***************************************************************************)
EXTENDS EntityLock, TLAPS

(* One more missed beat is one more interval (the only non-linear arithmetic
   of the module). *)
LEMMA MissedProduct ==
  ASSUME NEW m \in Nat, NEW i \in Nat
  PROVE  /\ m * i \in Nat
         /\ (m + 1) * i = m * i + i
  OBVIOUS

(* A holder whose beats have not lapsed is not stale: what _sql_acquire and the
   sweep test is false of its row. *)
LEMMA NotStale ==
  ASSUME LockInv, NEW p \in Execs, pc[p] = "body", ~Lapsed(p)
  PROVE  ~Stale /\ holder # NULL
<1> USE DEF LockInv, TypeOK
<1>1. /\ Owns(p)
      /\ beatAge <= missed[p] * HEARTBEAT_INTERVAL + timer[p]
  BY DEF BeatInv
<1>2. (missed[p] + 1) * HEARTBEAT_INTERVAL <= RECLAIM_AFTER
  BY DEF Lapsed, Tolerable
<1>3. /\ missed[p] * HEARTBEAT_INTERVAL \in Nat
      /\ (missed[p] + 1) * HEARTBEAT_INTERVAL
           = missed[p] * HEARTBEAT_INTERVAL + HEARTBEAT_INTERVAL
  BY MissedProduct, TimingAssumption
<1>4. beatAge <= RECLAIM_AFTER
  BY <1>1, <1>2, <1>3, TimingAssumption
<1>5. QED
  BY <1>1, <1>4, TaskAssumption, TimingAssumption DEF Stale, Owns

(* Nobody holds or has held the lock at first. *)
LEMMA InitInv == Init => LockInv
  BY TaskAssumption, TimingAssumption
  DEF Init, LockInv, TypeOK, TokensUnique, TokenInv, BeatInv, ForcedInv, PCs,
      RefresherStates


(* Every step preserves the inductive invariant. *)
LEMMA StepInv == LockInv /\ [Next]_vars => LockInv'
<1> SUFFICES ASSUME LockInv, [Next]_vars
             PROVE  LockInv'
  OBVIOUS
<1> USE TaskAssumption, TimingAssumption
    DEF LockInv, TypeOK, rowVars, bodyVars, beatVars, PCs, RefresherStates
<1>1. ASSUME NEW p \in Execs, Begin(p)
      PROVE  LockInv'
  BY <1>1 DEF Begin, TokensUnique, TokenInv, BeatInv, ForcedInv, Owns, Lapsed
<1>2. ASSUME NEW p \in Execs, Acquire(p)
      PROVE  LockInv'
  <2> USE <1>2 DEF Acquire
  <2>1. ASSUME NEW q \in Execs, pc[q] = "body"
        PROVE  q # p /\ Lapsed(q)
    BY <2>1, NotStale DEF Acquirable
  <2>2. TypeOK' /\ (writer <= fence)'
    OBVIOUS
  <2>3. TokensUnique'
    BY DEF TokensUnique
  <2>4. TokenInv'
    BY DEF TokenInv
  <2>5. BeatInv'
    <3> SUFFICES ASSUME NEW q \in Execs, pc'[q] = "body", ~Lapsed(q)'
                 PROVE  /\ Owns(q)'
                        /\ refresher'[q] = "running"
                        /\ beatAge' <= missed'[q] * HEARTBEAT_INTERVAL + timer'[q]
      BY DEF BeatInv
    <3>1. q = p
      BY <2>1 DEF Lapsed
    <3>2. QED
      BY <3>1 DEF Owns
  <2>6. ForcedInv'
    BY DEF ForcedInv
  <2>7. QED
    BY <2>2, <2>3, <2>4, <2>5, <2>6
<1>3. ASSUME NEW p \in Execs, GiveUp(p)
      PROVE  LockInv'
  BY <1>3 DEF GiveUp, TokensUnique, TokenInv, BeatInv, ForcedInv, Owns, Lapsed
<1>4. ASSUME NEW p \in Execs, RefreshOk(p)
      PROVE  LockInv'
  BY <1>4 DEF RefreshOk, Due, TokensUnique, TokenInv, BeatInv, ForcedInv, Owns,
              Lapsed, Tolerable
<1>5. ASSUME NEW p \in Execs, RefreshLost(p)
      PROVE  LockInv'
  BY <1>5 DEF RefreshLost, Due, TokensUnique, TokenInv, BeatInv, ForcedInv,
              Owns, Lapsed
<1>6. ASSUME NEW p \in Execs, RefreshMissed(p)
      PROVE  LockInv'
  <2> USE <1>6 DEF RefreshMissed, Due
  <2>1. TypeOK' /\ TokensUnique' /\ TokenInv' /\ ForcedInv' /\ (writer <= fence)'
    BY DEF TokensUnique, TokenInv, ForcedInv
  <2>2. BeatInv'
    <3> SUFFICES ASSUME NEW q \in Execs, pc'[q] = "body", ~Lapsed(q)'
                 PROVE  /\ Owns(q)'
                        /\ refresher'[q] = "running"
                        /\ beatAge' <= missed'[q] * HEARTBEAT_INTERVAL + timer'[q]
      BY DEF BeatInv
    <3>1. CASE q # p
      BY <3>1 DEF BeatInv, Owns, Lapsed
    <3>2. CASE q = p
      <4>1. Tolerable(missed[p]) /\ missed'[p] = missed[p] + 1
        BY <3>2 DEF Lapsed
      <4>2. beatAge <= missed[p] * HEARTBEAT_INTERVAL + HEARTBEAT_INTERVAL
        BY <3>2, <4>1 DEF BeatInv, Lapsed
      <4>3. beatAge <= (missed[p] + 1) * HEARTBEAT_INTERVAL
        BY <4>2, MissedProduct
      <4>4. QED
        BY <3>2, <4>1, <4>3 DEF BeatInv, Lapsed, Owns
    <3>3. QED
      BY <3>1, <3>2
  <2>3. QED
    BY <2>1, <2>2
<1>7. ASSUME NEW p \in Execs, LateRefresh(p)
      PROVE  LockInv'
  BY <1>7 DEF LateRefresh, TokensUnique, TokenInv, BeatInv, ForcedInv, Owns,
              Lapsed
<1>8. ASSUME NEW p \in Execs, Write(p)
      PROVE  LockInv'
  BY <1>8 DEF Write, TokensUnique, TokenInv, BeatInv, ForcedInv, Owns, Lapsed
<1>9. ASSUME NEW p \in Execs, WriteLost(p)
      PROVE  LockInv'
  BY <1>9 DEF WriteLost, StopRefresher, Due, TokensUnique, TokenInv, BeatInv,
              ForcedInv, Owns, Lapsed
<1>10. ASSUME NEW p \in Execs, LeaveBody(p)
       PROVE  LockInv'
  BY <1>10 DEF LeaveBody, StopRefresher, Due, TokensUnique, TokenInv, BeatInv,
               ForcedInv, Owns, Lapsed
<1>11. ASSUME NEW p \in Execs, Release(p)
       PROVE  LockInv'
  <2> USE <1>11 DEF Release
  <2>1. TypeOK' /\ TokensUnique' /\ TokenInv' /\ ForcedInv' /\ (writer <= fence)'
    BY DEF TokensUnique, TokenInv, ForcedInv
  <2>2. ASSUME NEW q \in Execs, pc[q] = "body", ~Lapsed(q)
        PROVE  ~Owns(p)
    BY <2>2 DEF BeatInv, Owns, TokensUnique, TokenInv
  <2>3. BeatInv'
    BY <2>2 DEF BeatInv, Owns, Lapsed
  <2>4. QED
    BY <2>1, <2>3
<1>12. ASSUME NEW p \in Execs, ReleaseError(p)
       PROVE  LockInv'
  BY <1>12 DEF ReleaseError, TokensUnique, TokenInv, BeatInv, ForcedInv, Owns,
               Lapsed
<1>13. ASSUME NEW p \in Execs, Crash(p)
       PROVE  LockInv'
  BY <1>13 DEF Crash, TokensUnique, TokenInv, BeatInv, ForcedInv, Owns, Lapsed
<1>14. CASE ForceRelease
  <2> USE <1>14 DEF ForceRelease
  <2>1. TypeOK' /\ TokensUnique' /\ TokenInv' /\ ForcedInv' /\ (writer <= fence)'
    BY DEF TokensUnique, TokenInv, ForcedInv
  <2>2. BeatInv'
    BY DEF BeatInv, Owns, Lapsed
  <2>3. QED
    BY <2>1, <2>2
<1>15. CASE Sweep
  <2> USE <1>15 DEF Sweep
  <2>1. TypeOK' /\ TokensUnique' /\ TokenInv' /\ ForcedInv' /\ (writer <= fence)'
    BY DEF TokensUnique, TokenInv, ForcedInv
  <2>2. ASSUME NEW q \in Execs, pc[q] = "body"
        PROVE  Lapsed(q)
    BY <2>2, NotStale
  <2>3. BeatInv'
    BY <2>2 DEF BeatInv, Lapsed
  <2>4. QED
    BY <2>1, <2>3
<1>16. CASE Tick
  <2> USE <1>16 DEF Tick
  <2>1. TypeOK'
    BY DEF Stale, Due
  <2>2. TokensUnique' /\ TokenInv' /\ ForcedInv' /\ (writer <= fence)'
    BY DEF TokensUnique, TokenInv, ForcedInv
  <2>3. BeatInv'
    BY DEF BeatInv, Owns, Lapsed
  <2>4. QED
    BY <2>1, <2>2, <2>3
<1>17. CASE UNCHANGED vars
  BY <1>17 DEF vars, TokensUnique, TokenInv, BeatInv, ForcedInv, Owns, Lapsed
<1>18. QED
  BY <1>1, <1>2, <1>3, <1>4, <1>5, <1>6, <1>7, <1>8, <1>9, <1>10, <1>11,
     <1>12, <1>13, <1>14, <1>15, <1>16, <1>17
  DEF Next, Exec, Beat

(* LockInv holds in every reachable state, for all constants. *)
THEOREM LockInvariant == Spec => []LockInv
  BY InitInv, StepInv, PTL DEF Spec

(* The row and the threads keep their types. *)
THEOREM TypeCorrect == Spec => []TypeOK
<1>1. LockInv => TypeOK
  BY DEF LockInv
<1>2. QED
  BY <1>1, LockInvariant, PTL

(* Two bodies run under one entity_lock only if the earlier one has lapsed. *)
THEOREM OverlapSafety == Spec => []OverlapOnlyAfterLapse
<1>1. LockInv => OverlapOnlyAfterLapse
  <2> SUFFICES ASSUME LockInv,
                      NEW p \in Execs, NEW q \in Execs,
                      p # q, pc[p] = "body", pc[q] = "body",
                      token[p] <= token[q], ~Lapsed(p)
               PROVE  FALSE
    BY DEF OverlapOnlyAfterLapse
  <2> USE DEF LockInv, TypeOK
  <2>1. fence = token[p]
    BY DEF BeatInv, Owns
  <2>2. token[q] = token[p]
    BY <2>1 DEF TokensUnique
  <2>3. QED
    BY <2>2 DEF TokensUnique, TokenInv
<1>2. QED
  BY <1>1, LockInvariant, PTL

(* No execution takes the row from an owner whose heartbeat is fresh and whose
   lock was not force-released: release and refresh are fenced. *)
THEOREM OwnershipSafety == Spec => OwnershipKept
<1> DEFINE Kept(p) == Owns(p) /\ ~Owns(p)' =>
                        \/ pc[p] = "releasing" /\ pc'[p] = "ended"
                        \/ fence \in forced'
                        \/ Stale
<1>1. LockInv /\ [Next]_vars => [\A p \in Execs : Kept(p)]_vars
  <2> SUFFICES ASSUME LockInv, Next, NEW p \in Execs, Owns(p), ~Owns(p)'
               PROVE  \/ pc[p] = "releasing" /\ pc'[p] = "ended"
                      \/ fence \in forced'
                      \/ Stale
    BY DEF Owns, vars, rowVars, bodyVars
  <2> USE TaskAssumption DEF LockInv, TypeOK, Owns, rowVars, bodyVars, beatVars
  <2>1. ASSUME NEW q \in Execs, Acquire(q)
        PROVE  Stale
    BY <2>1 DEF Acquire, Acquirable
  <2>2. ASSUME NEW q \in Execs, Release(q)
        PROVE  pc[p] = "releasing" /\ pc'[p] = "ended"
    <3>1. holder' # holder
      BY <2>2 DEF Release
    <3>2. holder = TaskOf[q] /\ token[q] = token[p]
      BY <2>2, <3>1 DEF Release
    <3>3. token[q] > 0
      BY <2>2 DEF Release, TokenInv
    <3>4. q = p
      BY <3>2, <3>3 DEF TokensUnique
    <3>5. QED
      BY <2>2, <3>4 DEF Release
  <2>3. ASSUME ForceRelease
        PROVE  fence \in forced'
    BY <2>3 DEF ForceRelease
  <2>4. ASSUME Sweep
        PROVE  Stale
    BY <2>4 DEF Sweep
  <2>5. ASSUME NEW q \in Execs,
               \/ Begin(q) \/ GiveUp(q) \/ Beat(q) \/ LateRefresh(q) \/ Write(q)
               \/ WriteLost(q) \/ LeaveBody(q) \/ ReleaseError(q) \/ Crash(q)
        PROVE  FALSE
    BY <2>5 DEF Begin, GiveUp, Beat, RefreshOk, RefreshLost, RefreshMissed,
                LateRefresh, Write, WriteLost, LeaveBody, ReleaseError, Crash
  <2>6. ASSUME Tick
        PROVE  FALSE
    BY <2>6 DEF Tick
  <2>7. QED
    BY <2>1, <2>2, <2>3, <2>4, <2>5, <2>6 DEF Next, Exec
<1>2. QED
  BY <1>1, LockInvariant, PTL DEF Spec, OwnershipKept

(* Fields written under a token are never overwritten under an older one. *)
THEOREM WriterSafety == Spec => NewestWriterWins
<1>1. LockInv /\ [Next]_vars => [writer' >= writer]_vars
  <2> SUFFICES ASSUME LockInv, Next
               PROVE  writer' >= writer
    OBVIOUS
  <2> USE DEF LockInv, TypeOK, rowVars
  <2>1. ASSUME NEW p \in Execs, Write(p)
        PROVE  writer' >= writer
    BY <2>1 DEF Write
  <2>2. ASSUME NEW p \in Execs, Exec(p), ~Write(p)
        PROVE  writer' = writer
    BY <2>2 DEF Exec, Begin, Acquire, GiveUp, Beat, RefreshOk, RefreshLost,
                RefreshMissed, LateRefresh, WriteLost, LeaveBody, Release,
                ReleaseError, Crash
  <2>3. ForceRelease \/ Sweep \/ Tick => writer' = writer
    BY DEF ForceRelease, Sweep, Tick
  <2>4. QED
    BY <2>1, <2>2, <2>3 DEF Next
<1>2. QED
  BY <1>1, LockInvariant, PTL DEF Spec, NewestWriterWins

-----------------------------------------------------------------------------
(* A step that leaves tokens, fence and writer alone only lets the lease lapse
   or recover; it is a step of the abstract lease or a stuttering one. *)
LEMMA LapseOrRecover ==
  ASSUME LockInv, UNCHANGED <<fence, token, writer>>,
         (\E p \in Execs : Healthy(p)') => fence > 0
  PROVE  [Abstract!Next]_Abstract!vars
<1> DEFINE h == \E p \in Execs : Healthy(p)
<1>1. CASE h /\ ~h'
  BY <1>1 DEF Abstract!Next, Abstract!Lapse
<1>2. CASE ~h /\ h'
  BY <1>2 DEF Abstract!Next, Abstract!Recover
<1>3. CASE h' = h
  BY <1>3 DEF Abstract!vars
<1>4. QED
  BY <1>1, <1>2, <1>3

(* entity_lock implements the fenced lease: every step of the row and the
   threads is a step of FencedLease, or leaves its variables alone. *)
THEOREM Refinement == Spec => ImplementsFencedLease
<1>1. Init => Abstract!Init
  BY DEF Init, Abstract!Init, Healthy
<1>2. LockInv /\ LockInv' /\ [Next]_vars => [Abstract!Next]_Abstract!vars
  <2> SUFFICES ASSUME LockInv, LockInv', [Next]_vars
               PROVE  [Abstract!Next]_Abstract!vars
    OBVIOUS
  <2>1. ASSUME NEW p \in Execs, Acquire(p)
        PROVE  Abstract!Grant(p)
    <3> USE <2>1 DEF Acquire, LockInv, TypeOK
    <3>1. ~\E q \in Execs : Healthy(q)
      BY NotStale DEF Acquirable, Healthy
    <3>2. Tolerable(0)
      BY TimingAssumption DEF Tolerable
    <3>3. fence + 1 \notin forced
      BY DEF ForcedInv
    <3>4. Healthy(p)'
      BY <3>2, <3>3 DEF Healthy, Lapsed, Tolerable
    <3>5. QED
      BY <3>1, <3>4 DEF Abstract!Grant
  <2>2. ASSUME NEW p \in Execs, Write(p)
        PROVE  Abstract!Write(p)
    <3> USE <2>2 DEF Write, LockInv, TypeOK
    <3>1. fence > 0
      BY DEF TokenInv
    <3>2. ASSUME NEW q \in Execs
          PROVE  Healthy(q)' = Healthy(q)
      BY DEF Healthy, Lapsed, Tolerable, bodyVars, beatVars
    <3>3. (\E q \in Execs : Healthy(q)') = (\E q \in Execs : Healthy(q))
      BY <3>2
    <3>4. QED
      BY <3>1, <3>3 DEF Abstract!Write, bodyVars
  <2>3. (\E p \in Execs : Healthy(p)') => fence' > 0
    BY DEF Healthy, LockInv, TokenInv, TypeOK
  <2>4. ASSUME UNCHANGED <<fence, token, writer>>
        PROVE  [Abstract!Next]_Abstract!vars
    BY <2>3, <2>4, LapseOrRecover
  <2>5. ASSUME NEW p \in Execs, Exec(p), ~Acquire(p), ~Write(p)
        PROVE  UNCHANGED <<fence, token, writer>>
    BY <2>5 DEF Exec, Begin, GiveUp, Beat, RefreshOk, RefreshLost,
                RefreshMissed, LateRefresh, WriteLost, LeaveBody, Release,
                ReleaseError, Crash, rowVars, bodyVars
  <2>6. ForceRelease \/ Sweep \/ Tick \/ UNCHANGED vars
          => UNCHANGED <<fence, token, writer>>
    BY DEF ForceRelease, Sweep, Tick, vars, rowVars, bodyVars
  <2>7. QED
    BY <2>1, <2>2, <2>4, <2>5, <2>6 DEF Next, Abstract!Next
<1>3. QED
  BY <1>1, <1>2, LockInvariant, PTL
  DEF Spec, ImplementsFencedLease, Abstract!Spec

=============================================================================
