-------------------------- MODULE FleetBulkRunProofs --------------------------
(***************************************************************************)
(* Proofs about FleetBulkRun, for every set of runs, members and buckets,  *)
(* every placement, and every number of messages, faults and changes.      *)
(***************************************************************************)
EXTENDS FleetBulkRun, FiniteSetTheorems, TLAPS

(* The buckets in use, and how many of them come before b. *)
Used == {bucket[m] : m \in members}
Below(b) == {c \in Used : c < b}

(* The buckets in use are not more than the members. *)
LEMMA UsedFinite ==
  ASSUME TypeOK
  PROVE  /\ IsFiniteSet(Used) /\ Cardinality(Used) \in Nat
         /\ Cardinality(Used) <= Cardinality(Members)
         /\ Cardinality(Members) \in Nat /\ Used \subseteq Nat
<1>1. /\ IsFiniteSet(members) /\ Cardinality(members) <= Cardinality(Members)
      /\ Cardinality(members) \in Nat /\ Cardinality(Members) \in Nat
  BY FleetAssumption, FS_Subset, FS_CardinalityType DEF TypeOK
<1>2. DEFINE f == [m \in members |-> bucket[m]]
<1>3. f \in Surjection(members, Used)
  BY DEF Surjection, Used
<1>4. IsFiniteSet(Used) /\ Cardinality(Used) <= Cardinality(members)
  BY <1>1, <1>3, FS_Surjection
<1>5. Used \subseteq Nat
  BY FleetAssumption DEF TypeOK, Used
<1>6. QED
  BY <1>1, <1>4, <1>5, FS_CardinalityType

(* The number of the buckets before a bucket tells it from the others. *)
LEMMA RankUnique ==
  ASSUME TypeOK, NEW b \in Used, NEW c \in Used,
         Cardinality(Below(b)) = Cardinality(Below(c))
  PROVE  b = c
<1>1. ASSUME NEW x \in Used, NEW y \in Used, x < y
      PROVE  Cardinality(Below(x)) # Cardinality(Below(y))
  <2>1. x \in Below(y) /\ x \notin Below(x)
    BY <1>1, UsedFinite DEF Below
  <2>2. Below(x) \subseteq Below(y) /\ Below(y) \subseteq Used
    BY <1>1, UsedFinite DEF Below
  <2>3. IsFiniteSet(Below(y))
    BY <2>2, UsedFinite, FS_Subset
  <2>4. QED
    BY <2>1, <2>2, <2>3, FS_Subset
<1>2. b < c \/ b = c \/ c < b
  BY UsedFinite
<1>3. QED
  BY <1>1, <1>2

(* The i-th bucket in use. *)
Nth(i) == CHOOSE b \in Used : Cardinality(Below(b)) = i - 1

(* The waves of a run as a function of their number. *)
LEMMA WavesAre ==
  Waves = [i \in 1 .. Cardinality(Used) |-> {m \in members : bucket[m] = Nth(i)}]
  BY DEF Waves, Nth, Used, Below

(* _group_members_into_waves makes at most one wave per member. *)
LEMMA WavesType ==
  ASSUME TypeOK
  PROVE  /\ Waves \in Seq(SUBSET Members) /\ Len(Waves) = Cardinality(Used)
         /\ Len(Waves) \in 0 .. Cardinality(Members)
  BY WavesAre, UsedFinite DEF TypeOK

(* _group_members_into_waves leaves no member out. *)
LEMMA WavesCover ==
  ASSUME TypeOK, NEW m \in members
  PROVE  \E i \in DOMAIN Waves : m \in Waves[i]
<1>1. PICK b \in Used : b = bucket[m]
  BY DEF Used
<1>2. PICK n : n = Cardinality(Below(b))
  OBVIOUS
<1>3. n \in 0 .. Cardinality(Used) - 1
  <2>1. Below(b) \subseteq Used /\ b \notin Below(b)
    BY UsedFinite DEF Below
  <2>2. /\ IsFiniteSet(Below(b)) /\ Cardinality(Below(b)) <= Cardinality(Used)
        /\ Cardinality(Below(b)) # Cardinality(Used)
    BY <2>1, UsedFinite, FS_Subset
  <2>3. n \in Nat
    BY <1>2, <2>2, FS_CardinalityType
  <2>4. QED
    BY <1>2, <2>2, <2>3, UsedFinite
<1>4. n + 1 \in 1 .. Cardinality(Used) /\ (n + 1) - 1 = n
  BY <1>3, UsedFinite
<1>5. Nth(n + 1) = b
  <2>1. \E c \in Used : Cardinality(Below(c)) = (n + 1) - 1
    BY <1>2, <1>4
  <2>2. /\ Nth(n + 1) \in Used
        /\ Cardinality(Below(Nth(n + 1))) = (n + 1) - 1
    BY <2>1 DEF Nth
  <2>3. QED
    BY <2>2, <1>2, <1>4, RankUnique
<1>6. QED
  BY <1>1, <1>4, <1>5, WavesAre

-----------------------------------------------------------------------------
(* What a step that changes little preserves *)

(* The constants of the rows that are not in use. *)
LEMMA NoExecFields ==
  /\ NoExec \in ExecRecords /\ NoExec.pc = "none" /\ NoExec.kind = "run"
  /\ NoExec.waves = <<>> /\ NoExec.at = 0 /\ NoExec.todo = {} /\ NoExec.run \in Runs
  BY FleetAssumption DEF NoExec, ExecRecords

(* What the type invariant says of an executor. *)
LEMMA ExecTypes ==
  ASSUME TypeOK, NEW e \in Execs
  PROVE  /\ exec[e].run \in Runs /\ exec[e].kind \in {"run", "resume"}
         /\ exec[e].pc \in {"none", "delayed", "sent", "stale", "loaded", "top",
                            "wave", "timer", "ending", "done"}
         /\ exec[e].waves \in Seq(SUBSET Members) /\ exec[e].at \in Nat
         /\ exec[e].at <= Cardinality(Members) /\ exec[e].todo \subseteq Members
         /\ e \in Nat /\ e > 0 /\ e <= MaxExecs
  BY FleetAssumption DEF TypeOK, ExecRecords, Execs

(* An executor that does something was sent, for a run that was started. *)
LEMMA WasSent ==
  ASSUME TypeOK, ExecInv, NEW e \in Execs, exec[e].pc # "none"
  PROVE  e < nextExec /\ status[exec[e].run] # "none"
<1>1. ~(e >= nextExec)
  BY NoExecFields DEF ExecInv
<1>2. e \in Nat /\ nextExec \in Nat
  BY ExecTypes DEF TypeOK
<1>3. QED
  BY <1>1, <1>2 DEF ExecInv

(* No run goes back to the state in which it was not started. *)
StatusKept == \A r \in Runs : status[r] # "none" => status'[r] # "none"

(* What the run's history says stays true. *)
HistKept ==
  \A r \in Runs : /\ hist[r].moved => hist'[r].moved
                  /\ hist[r].redelivered => hist'[r].redelivered
                  /\ hist[r].resumed => hist'[r].resumed

(* Executors that change have a run that was started, and a wave they are in. *)
LEMMA ExecKept ==
  ASSUME TypeOK, ExecInv, StatusKept, nextExec' \in Nat, nextExec <= nextExec',
         \A e \in Execs :
           \/ exec'[e] = exec[e]
           \/ /\ e < nextExec' /\ exec'[e].pc # "none"
              /\ status'[exec'[e].run] # "none"
              /\ Len(exec'[e].waves) <= Cardinality(Members)
              /\ exec'[e].pc = "wave" => exec'[e].at < Len(exec'[e].waves),
         \A r \in Runs : \/ status'[r] # "none"
                         \/ /\ index'[r] = index[r]
                            /\ hist'[r].resumed = hist[r].resumed
                            /\ hist'[r].cancelled = hist[r].cancelled
  PROVE  ExecInv'
<1>1. ASSUME NEW e \in Execs, e >= nextExec' \/ exec'[e].pc = "none"
      PROVE  exec'[e] = NoExec
  <2>1. exec'[e] = exec[e]
    BY <1>1, ExecTypes
  <2>2. e >= nextExec \/ exec[e].pc = "none"
    BY <1>1, <2>1, ExecTypes DEF TypeOK
  <2>3. QED
    BY <2>1, <2>2 DEF ExecInv
<1>2. ASSUME NEW r \in Runs, status'[r] = "none"
      PROVE  index'[r] = 0 /\ ~hist'[r].resumed /\ ~hist'[r].cancelled
  BY <1>2 DEF ExecInv, StatusKept
<1>3. ASSUME NEW e \in Execs
      PROVE  /\ exec'[e].pc # "none" => status'[exec'[e].run] # "none"
             /\ Len(exec'[e].waves) <= Cardinality(Members)
             /\ exec'[e].pc = "wave" => exec'[e].at < Len(exec'[e].waves)
  BY ExecTypes DEF ExecInv, StatusKept
<1>4. QED
  BY <1>1, <1>2, <1>3 DEF ExecInv

(* The fleet stays, and no executor starts with other waves than its. *)
LEMMA WavesKept ==
  ASSUME TypeOK, WavesInv, HistKept, UNCHANGED <<members, bucket>>,
         \A r \in Runs :
           ~hist'[r].moved /\ status'[r] \in {"running", "paused_gate", "completed"}
             => \/ status[r] \in {"running", "paused_gate", "completed"}
                \/ members = Members,
         \A e \in Execs :
           exec'[e].pc \in Working /\ ~hist'[exec'[e].run].moved =>
             \/ /\ exec'[e].run = exec[e].run /\ exec[e].pc \in Working
                /\ exec'[e].waves = exec[e].waves
             \/ exec'[e].waves = Waves /\ members = Members
  PROVE  WavesInv'
<1>1. Waves' = Waves
  BY DEF Waves
<1>2. SUFFICES ASSUME NEW r \in Runs, ~hist'[r].moved
               PROVE  /\ status'[r] \in {"running", "paused_gate", "completed"}
                           => members = Members
                      /\ \A e \in Execs :
                           exec'[e].run = r /\ exec'[e].pc \in Working =>
                             exec'[e].waves = Waves /\ members = Members
  BY <1>1 DEF WavesInv
<1>3. ~hist[r].moved
  BY <1>2 DEF HistKept
<1>4. QED
  BY <1>2, <1>3 DEF WavesInv

(* The fleet stays, no result is undone, and whoever passes a wave passes *)
(* one that has its results.                                              *)
LEMMA ProgressKept ==
  ASSUME TypeOK, ProgressInv, HistKept, UNCHANGED <<members, bucket>>,
         \A r \in Runs, m \in Members : Settled(r, m) => Settled(r, m)',
         \A r \in Runs :
           ~hist'[r].moved => \/ index'[r] = index[r]
                              \/ \A i \in DOMAIN Waves : i <= index'[r] =>
                                   \A m \in Waves[i] : Settled(r, m)',
         \A r \in Runs :
           ~hist'[r].moved /\ status'[r] = "completed" =>
             status[r] = "completed" \/ \A m \in Members : Settled(r, m)',
         \A e \in Execs :
           exec'[e].pc \in {"top", "wave"} /\ ~hist'[exec'[e].run].moved =>
             \/ exec'[e] = exec[e]
             \/ /\ \A i \in DOMAIN exec'[e].waves : i <= exec'[e].at =>
                     \A m \in exec'[e].waves[i] : Settled(exec[e].run, m)'
                /\ exec'[e].pc = "wave" =>
                     \A m \in exec'[e].waves[exec'[e].at + 1] \ exec'[e].todo :
                       Settled(exec[e].run, m)',
         ExecInv
  PROVE  ProgressInv'
<1>1. Waves' = Waves
  BY DEF Waves
<1>2. SUFFICES ASSUME NEW r \in Runs, ~hist'[r].moved
               PROVE  /\ DoneUpTo(r, Waves, index[r])'
                      /\ status'[r] = "completed" => \A m \in Members : Settled(r, m)'
                      /\ \A e \in Execs :
                           exec'[e].run = r /\ exec'[e].pc \in {"top", "wave"} =>
                             DoneUpTo(r, exec[e].waves, exec[e].at)'
                      /\ \A e \in Execs :
                           exec'[e].run = r /\ exec'[e].pc = "wave" =>
                             \A m \in exec'[e].waves[exec'[e].at + 1] \ exec'[e].todo :
                               Settled(r, m)'
  BY DEF ProgressInv
<1>3. ~hist[r].moved
  BY <1>2 DEF HistKept
<1>4. DoneUpTo(r, Waves, index[r])'
  <2>1. DoneUpTo(r, Waves, index[r])
    BY <1>3 DEF ProgressInv
  <2>2. \A i \in DOMAIN Waves : Waves[i] \subseteq Members
    BY WavesType
  <2>3. \A i \in DOMAIN Waves : i <= index'[r] => \A m \in Waves[i] : Settled(r, m)'
    BY <1>2, <2>1, <2>2 DEF DoneUpTo
  <2>4. QED
    BY <1>1, <2>3 DEF DoneUpTo
<1>5. status'[r] = "completed" => \A m \in Members : Settled(r, m)'
  BY <1>2, <1>3 DEF ProgressInv
<1>6. ASSUME NEW e \in Execs, exec'[e].run = r, exec'[e].pc \in {"top", "wave"}
      PROVE  /\ DoneUpTo(r, exec[e].waves, exec[e].at)'
             /\ exec'[e].pc = "wave" =>
                  \A m \in exec'[e].waves[exec'[e].at + 1] \ exec'[e].todo :
                    Settled(r, m)'
  <2>1. CASE exec'[e] = exec[e]
    <3>1. DoneUpTo(r, exec[e].waves, exec[e].at)
      BY <1>3, <1>6, <2>1 DEF ProgressInv
    <3>2. \A i \in DOMAIN exec[e].waves : exec[e].waves[i] \subseteq Members
      BY ExecTypes
    <3>3. \A i \in DOMAIN exec'[e].waves : i <= exec'[e].at =>
            \A m \in exec'[e].waves[i] : Settled(r, m)'
      BY <2>1, <3>1, <3>2 DEF DoneUpTo
    <3>4. ASSUME exec'[e].pc = "wave"
          PROVE  \A m \in exec'[e].waves[exec'[e].at + 1] \ exec'[e].todo :
                    Settled(r, m)'
      <4>1. exec[e].at + 1 \in DOMAIN exec[e].waves
        BY <2>1, <3>4, ExecTypes DEF ExecInv
      <4>2. \A m \in exec[e].waves[exec[e].at + 1] \ exec[e].todo : Settled(r, m)
        BY <1>3, <1>6, <2>1, <3>4 DEF ProgressInv
      <4>3. QED
        BY <2>1, <4>1, <4>2, <3>2
    <3>5. QED
      BY <3>3, <3>4 DEF DoneUpTo
  <2>2. CASE exec'[e] # exec[e]
    BY <1>2, <1>6, <2>2 DEF DoneUpTo
  <2>3. QED
    BY <2>1, <2>2
<1>7. QED
  BY <1>4, <1>5, <1>6

(* No run gets another message or executor, and none comes to a gate. *)
LEMMA SingleKept ==
  ASSUME TypeOK, SingleInv, HistKept, UNCHANGED gate,
         \A e \in Execs, r \in Runs : Engaged(e, r)' => Engaged(e, r),
         \A r \in Runs : status'[r] = "paused_gate" => status[r] = "paused_gate"
  PROVE  SingleInv'
  BY DEF SingleInv, HistKept

(* An executor of a run without a timed gate goes on or ends; the run may *)
(* end when it is not acted on any more.                                  *)
LEMMA CancelKept ==
  ASSUME TypeOK, NEW r \in Runs, UntimedRun(r),
         hist'[r].resumed = hist[r].resumed, hist'[r].cancelled = hist[r].cancelled,
         decision' = decision \/ decision' # "resolved",
         \/ status'[r] = status[r]
         \/ /\ status'[r] \in {"completed", "failed"}
            /\ \A e \in Execs : exec'[e].run = r => exec'[e].pc \notin {"top", "wave"},
         \A e \in Execs :
           \/ exec'[e] = exec[e]
           \/ /\ exec'[e].run = exec[e].run /\ exec'[e].kind = "run"
              /\ exec'[e].pc = "done"
           \/ /\ exec'[e].run = exec[e].run /\ exec'[e].kind = exec[e].kind
              /\ exec[e].pc \notin {"none", "done"}
              /\ exec'[e].kind = "resume" => exec'[e].pc = "sent"
              /\ exec'[e].pc \in {"top", "wave"} => exec[e].pc \in {"top", "wave"}
              /\ exec'[e].pc \notin {"loaded", "timer"}
  PROVE  UntimedRun(r)'
<1>1. \A d, e \in Execs : RunMessage(d, r)' /\ RunMessage(e, r)' => d = e
  <2>1. \A e \in Execs : RunMessage(e, r)' => RunMessage(e, r)
    BY DEF RunMessage
  <2>2. QED
    BY <2>1 DEF UntimedRun
<1>2. \A e \in Execs : exec'[e].run = r =>
        /\ exec'[e].kind = "resume" => exec'[e].pc = "sent" /\ hist'[r].resumed
        /\ exec'[e].pc # "timer"
        /\ exec'[e].pc \in {"top", "wave"} => decision' # "resolved"
  BY DEF UntimedRun
<1>3. /\ status'[r] \in {"running", "paused_gate"} => decision' # "resolved"
      /\ status'[r] \in {"none", "pending"} => ~hist'[r].resumed /\ ~hist'[r].cancelled
      /\ hist'[r].resumed => status'[r] # "paused_gate"
  BY DEF UntimedRun
<1>4. status'[r] = "paused_gate" \/ hist'[r].resumed =>
        \A e \in Execs : exec'[e].run = r => exec'[e].pc \notin Working
  BY DEF UntimedRun, Working
<1>5. hist'[r].cancelled =>
        \A e \in Execs : exec'[e].run = r =>
          /\ exec'[e].pc # "loaded"
          /\ exec'[e].pc \in {"top", "wave"} => status'[r] = "cancelled"
  BY DEF UntimedRun
<1>6. QED
  BY <1>1, <1>2, <1>3, <1>4, <1>5 DEF UntimedRun


-----------------------------------------------------------------------------
(* How the steps change the executors *)

(* Only executor e changes, and stays an executor of its run. *)
Changes(e) ==
  /\ exec' \in [Execs -> ExecRecords]
  /\ \A d \in Execs : exec'[d].at <= Cardinality(Members)
  /\ \A d \in Execs : d # e => exec'[d] = exec[d]
  /\ exec'[e].run = exec[e].run

(* An executor that goes on, at another place in the code. *)
LEMMA Goes ==
  ASSUME TypeOK, NEW e \in Execs,
         NEW pc \in {"sent", "stale", "loaded", "top", "wave", "timer", "ending"},
         Goto(e, pc)
  PROVE  /\ Changes(e) /\ exec'[e].kind = exec[e].kind /\ exec'[e].pc = pc
         /\ exec'[e].waves = exec[e].waves /\ exec'[e].at = exec[e].at
         /\ exec'[e].todo = exec[e].todo
  BY DEF TypeOK, ExecRecords, Goto, Changes

(* The records that messages and executors are set to. *)
MessageOf(r, kind, pc) == [NoExec EXCEPT !.run = r, !.kind = kind, !.pc = pc]
ReturnedOf(r) == [NoExec EXCEPT !.run = r, !.pc = "done"]

(* The fields of a message that has been sent or delayed. *)
LEMMA Message ==
  ASSUME NEW r \in Runs, NEW kind \in {"run", "resume"},
         NEW pc \in {"sent", "delayed"}
  PROVE  /\ MessageOf(r, kind, pc) \in ExecRecords /\ MessageOf(r, kind, pc).run = r
         /\ MessageOf(r, kind, pc).kind = kind /\ MessageOf(r, kind, pc).pc = pc
         /\ MessageOf(r, kind, pc).waves = <<>> /\ MessageOf(r, kind, pc).at = 0
  BY NoExecFields DEF ExecRecords, MessageOf

(* The fields of a task that has returned. *)
LEMMA Returned ==
  ASSUME NEW r \in Runs
  PROVE  /\ ReturnedOf(r) \in ExecRecords /\ ReturnedOf(r).run = r
         /\ ReturnedOf(r).kind = "run" /\ ReturnedOf(r).pc = "done"
         /\ ReturnedOf(r).waves = <<>> /\ ReturnedOf(r).at = 0
  BY NoExecFields DEF ExecRecords, ReturnedOf

(* An executor that returns. *)
LEMMA Ends ==
  ASSUME TypeOK, NEW e \in Execs, exec' = Ended(e)
  PROVE  /\ Changes(e) /\ exec'[e].kind = "run" /\ exec'[e].pc = "done"
         /\ exec'[e].waves = <<>> /\ exec'[e].at = 0
<1>1. PICK x \in ExecRecords :
        /\ x = ReturnedOf(exec[e].run)
        /\ x.run = exec[e].run /\ x.kind = "run" /\ x.pc = "done"
        /\ x.waves = <<>> /\ x.at = 0
  BY Returned, ExecTypes
<1>2. exec' = [exec EXCEPT ![e] = x]
  BY <1>1 DEF Ended, ReturnedOf
<1>3. exec'[e] = x /\ exec' \in [Execs -> ExecRecords]
      /\ \A d \in Execs : d # e => exec'[d] = exec[d]
  BY <1>2 DEF TypeOK
<1>4. \A d \in Execs : exec'[d].at <= Cardinality(Members)
  BY <1>1, <1>3, UsedFinite, ExecTypes
<1>5. QED
  BY <1>1, <1>3, <1>4 DEF Changes

(* A message that is put back. *)
LEMMA Redelivers ==
  ASSUME TypeOK, NEW e \in Execs,
         exec' = [exec EXCEPT ![e] = MessageOf(exec[e].run, exec[e].kind, "sent")]
  PROVE  /\ Changes(e) /\ exec'[e].kind = exec[e].kind /\ exec'[e].pc = "sent"
         /\ exec'[e].waves = <<>> /\ exec'[e].at = 0
<1>1. PICK x \in ExecRecords :
        /\ x = MessageOf(exec[e].run, exec[e].kind, "sent")
        /\ x.run = exec[e].run /\ x.kind = exec[e].kind /\ x.pc = "sent"
        /\ x.waves = <<>> /\ x.at = 0
  BY Message, ExecTypes
<1>2. exec' = [exec EXCEPT ![e] = x]
  BY <1>1
<1>3. exec'[e] = x /\ exec' \in [Execs -> ExecRecords]
      /\ \A d \in Execs : d # e => exec'[d] = exec[d]
  BY <1>2 DEF TypeOK
<1>4. \A d \in Execs : exec'[d].at <= Cardinality(Members)
  <2>1. x.at = 0
    BY <1>1
  <2>2. \A d \in Execs : exec[d].at <= Cardinality(Members)
    BY ExecTypes
  <2>3. QED
    BY <2>1, <2>2, <1>3, UsedFinite
<1>5. QED
  BY <1>1, <1>3, <1>4 DEF Changes

(* A message x of run r has been sent. *)
Sends(x, r, kind, pc) ==
  /\ x \in Execs /\ x = nextExec /\ nextExec' = nextExec + 1
  /\ nextExec' \in 1 .. MaxExecs + 1
  /\ exec[x] = NoExec
  /\ exec' \in [Execs -> ExecRecords]
  /\ \A d \in Execs : exec'[d].at <= Cardinality(Members)
  /\ exec'[x].run = r /\ exec'[x].kind = kind /\ exec'[x].pc = pc
  /\ exec'[x].waves = <<>>

(* apply_async uses the next message, which is free. *)
LEMMA SendsOne ==
  ASSUME TypeOK, ExecInv, NEW r \in Runs, NEW kind \in {"run", "resume"},
         NEW pc \in {"sent", "delayed"}, CanSend, exec' = Sent(r, kind, pc),
         nextExec' = nextExec + 1
  PROVE  \E x \in Execs : /\ Sends(x, r, kind, pc)
                          /\ \A d \in Execs : d # x => exec'[d] = exec[d]
<1>1. PICK y \in ExecRecords :
        /\ y = MessageOf(r, kind, pc)
        /\ y.run = r /\ y.kind = kind /\ y.pc = pc /\ y.waves = <<>> /\ y.at = 0
  BY Message
<1>2. PICK x \in Execs : x = nextExec
  BY FleetAssumption DEF TypeOK, CanSend, Execs
<1>3. exec' = [exec EXCEPT ![x] = y]
  BY <1>1, <1>2 DEF Sent, MessageOf
<1>4. exec'[x] = y /\ exec' \in [Execs -> ExecRecords]
      /\ \A d \in Execs : d # x => exec'[d] = exec[d]
  BY <1>3 DEF TypeOK
<1>5. \A d \in Execs : exec'[d].at <= Cardinality(Members)
  BY <1>1, <1>4, UsedFinite, ExecTypes
<1>6. nextExec' \in 1 .. MaxExecs + 1 /\ exec[x] = NoExec
  BY <1>2, FleetAssumption DEF TypeOK, ExecInv, CanSend, Execs
<1>7. QED
  BY <1>1, <1>2, <1>4, <1>5, <1>6 DEF Sends

(* What the history says of a run changes in one field. *)
LEMMA NotesLost ==
  ASSUME TypeOK, NEW r \in Runs, Note(r, "lost")
  PROVE  /\ hist' \in [Runs -> HistRecords]
         /\ \A q \in Runs : /\ hist'[q].moved = hist[q].moved
                            /\ hist'[q].redelivered = hist[q].redelivered
                            /\ hist'[q].resumed = hist[q].resumed
                            /\ hist'[q].cancelled = hist[q].cancelled
  BY DEF TypeOK, HistRecords, Note

(* The history notes a resume and nothing else. *)
LEMMA NotesResumed ==
  ASSUME TypeOK, NEW r \in Runs, Note(r, "resumed")
  PROVE  /\ hist' \in [Runs -> HistRecords]
         /\ \A q \in Runs : /\ hist'[q].moved = hist[q].moved
                            /\ hist'[q].redelivered = hist[q].redelivered
                            /\ q # r => hist'[q].resumed = hist[q].resumed
                            /\ hist'[q].cancelled = hist[q].cancelled
         /\ hist'[r].resumed
  BY DEF TypeOK, HistRecords, Note

(* The history notes a resume whose message was lost. *)
LEMMA NotesUnsent ==
  ASSUME TypeOK, NEW r \in Runs,
         hist' = [hist EXCEPT ![r].resumed = TRUE, ![r].lost = TRUE]
  PROVE  /\ hist' \in [Runs -> HistRecords]
         /\ \A q \in Runs : /\ hist'[q].moved = hist[q].moved
                            /\ hist'[q].redelivered = hist[q].redelivered
                            /\ q # r => hist'[q].resumed = hist[q].resumed
                            /\ hist'[q].cancelled = hist[q].cancelled
         /\ hist'[r].resumed
  BY DEF TypeOK, HistRecords

(* The history notes a redelivery and nothing else. *)
LEMMA NotesRedelivered ==
  ASSUME TypeOK, NEW r \in Runs, Note(r, "redelivered")
  PROVE  /\ hist' \in [Runs -> HistRecords]
         /\ \A q \in Runs : /\ hist'[q].moved = hist[q].moved
                            /\ q # r => hist'[q].redelivered = hist[q].redelivered
                            /\ hist'[q].resumed = hist[q].resumed
                            /\ hist'[q].cancelled = hist[q].cancelled
         /\ hist'[r].redelivered
  BY DEF TypeOK, HistRecords, Note

(* The history notes that the fleet changed under the runs that exist. *)
LEMMA NotesMoved ==
  ASSUME TypeOK, NoteMoved
  PROVE  /\ hist' \in [Runs -> HistRecords]
         /\ \A q \in Runs : /\ hist'[q].moved = (hist[q].moved \/ status[q] # "none")
                            /\ hist'[q].redelivered = hist[q].redelivered
                            /\ hist'[q].resumed = hist[q].resumed
                            /\ hist'[q].cancelled = hist[q].cancelled
  BY DEF TypeOK, HistRecords, NoteMoved

(* The history notes a cancel and nothing else. *)
LEMMA NotesCancelled ==
  ASSUME TypeOK, NEW r \in Runs, NEW b \in BOOLEAN,
         hist' = [hist EXCEPT ![r].cancelled = b]
  PROVE  /\ hist' \in [Runs -> HistRecords]
         /\ \A q \in Runs : /\ hist'[q].moved = hist[q].moved
                            /\ hist'[q].redelivered = hist[q].redelivered
                            /\ hist'[q].resumed = hist[q].resumed
                            /\ q # r => hist'[q].cancelled = hist[q].cancelled
         /\ hist'[r].cancelled = b
  BY DEF TypeOK, HistRecords

(* The first reads of an executor. *)
LEMMA Loads ==
  ASSUME TypeOK, NEW e \in Execs, Load(e)
  PROVE  /\ Changes(e) /\ exec'[e].kind = exec[e].kind
         /\ exec'[e].pc = IF exec[e].kind = "run" /\ ~Fresh THEN "stale" ELSE "loaded"
         /\ exec'[e].waves = Waves /\ exec'[e].at = exec[e].at
<1>1. PICK pc \in {"stale", "loaded"} :
        pc = IF exec[e].kind = "run" /\ ~Fresh THEN "stale" ELSE "loaded"
  OBVIOUS
<1>2. PICK w \in Seq(SUBSET Members) : w = Waves
  BY WavesType
<1>3. exec' = [exec EXCEPT ![e] = [@ EXCEPT !.pc = pc, !.waves = w]]
  BY <1>1, <1>2 DEF Load
<1>4. /\ Changes(e) /\ exec'[e].kind = exec[e].kind /\ exec'[e].pc = pc
      /\ exec'[e].waves = w /\ exec'[e].at = exec[e].at
  BY <1>3, ZenonT(60) DEF TypeOK, ExecRecords, Changes
<1>5. QED
  BY <1>1, <1>2, <1>4

(* The executor is at the top of the loop, for wave n. *)
LEMMA AtTop ==
  ASSUME TypeOK, NEW e \in Execs, NEW n \in 0 .. Cardinality(Members),
         exec' = [exec EXCEPT ![e].pc = "top", ![e].at = n]
  PROVE  /\ Changes(e) /\ exec'[e].kind = exec[e].kind /\ exec'[e].pc = "top"
         /\ exec'[e].waves = exec[e].waves /\ exec'[e].at = n
<1>1. exec \in [Execs -> ExecRecords] /\ n \in Nat /\ n <= Cardinality(Members)
  BY UsedFinite DEF TypeOK
<1>2. /\ exec' \in [Execs -> ExecRecords]
      /\ \A d \in Execs : d # e => exec'[d] = exec[d]
      /\ exec'[e].run = exec[e].run /\ exec'[e].kind = exec[e].kind
      /\ exec'[e].pc = "top"
      /\ exec'[e].waves = exec[e].waves /\ exec'[e].at = n
  BY <1>1 DEF ExecRecords
<1>3. \A d \in Execs : exec'[d].at <= Cardinality(Members)
  BY <1>1, <1>2, ExecTypes
<1>4. QED
  BY <1>2, <1>3 DEF Changes

(* The first commit, the start and the end of a wave. *)
LEMMA Begins ==
  ASSUME TypeOK, NEW e \in Execs, Begin(e)
  PROVE  /\ Changes(e) /\ exec'[e].kind = exec[e].kind /\ exec'[e].pc = "top"
         /\ exec'[e].waves = exec[e].waves /\ exec'[e].at = index[exec[e].run]
<1>1. PICK n \in 0 .. Cardinality(Members) : n = index[exec[e].run]
  BY ExecTypes DEF TypeOK
<1>2. exec' = [exec EXCEPT ![e].pc = "top", ![e].at = n]
  BY <1>1 DEF Begin
<1>3. QED
  BY <1>1, <1>2, AtTop

(* The task goes from the top of its loop into the next wave. *)
LEMMA StartsWave ==
  ASSUME TypeOK, NEW e \in Execs, StartWave(e)
  PROVE  /\ Changes(e) /\ exec'[e].kind = exec[e].kind /\ exec'[e].pc = "wave"
         /\ exec'[e].waves = exec[e].waves /\ exec'[e].at = exec[e].at
         /\ exec'[e].todo = exec[e].waves[exec[e].at + 1]
         /\ exec[e].waves[exec[e].at + 1] \subseteq Members
         /\ exec[e].pc = "top" /\ exec[e].at < Len(exec[e].waves)
<1>1. exec[e].pc = "top" /\ exec[e].at < Len(exec[e].waves)
  BY DEF StartWave
<1>2. PICK w \in SUBSET Members : w = exec[e].waves[exec[e].at + 1]
  BY <1>1, ExecTypes
<1>3. exec' = [exec EXCEPT ![e].pc = "wave", ![e].todo = w]
  BY <1>2 DEF StartWave
<1>4. /\ Changes(e) /\ exec'[e].kind = exec[e].kind /\ exec'[e].pc = "wave"
      /\ exec'[e].waves = exec[e].waves /\ exec'[e].at = exec[e].at
      /\ exec'[e].todo = w
  BY <1>3 DEF TypeOK, ExecRecords, Changes
<1>5. QED
  BY <1>1, <1>2, <1>4

(* The task deals with one member of its wave. *)
LEMMA Acts ==
  ASSUME TypeOK, NEW e \in Execs, NEW m \in Members, Act(e, m)
  PROVE  /\ Changes(e) /\ exec'[e].kind = exec[e].kind /\ exec'[e].pc = "wave"
         /\ exec'[e].waves = exec[e].waves /\ exec'[e].at = exec[e].at
         /\ exec'[e].todo = exec[e].todo \ {m} /\ exec[e].pc = "wave"
<1>1. exec' = [exec EXCEPT ![e].todo = @ \ {m}] /\ exec[e].pc = "wave"
  BY DEF Act
<1>2. QED
  BY <1>1 DEF TypeOK, ExecRecords, Changes

(* The task goes on to the next wave. *)
LEMMA PassesGate ==
  ASSUME TypeOK, ExecInv, NEW e \in Execs, PassGate(e)
  PROVE  /\ Changes(e) /\ exec'[e].kind = exec[e].kind /\ exec'[e].pc = "top"
         /\ exec'[e].waves = exec[e].waves /\ exec'[e].at = exec[e].at + 1
         /\ exec[e].pc = "wave" /\ exec[e].todo = {}
<1>1. exec[e].pc = "wave" /\ exec[e].todo = {}
  BY DEF PassGate, WaveDone
<1>2. PICK n \in 0 .. Cardinality(Members) : n = exec[e].at + 1
  BY <1>1, ExecTypes, UsedFinite DEF ExecInv
<1>3. exec' = [exec EXCEPT ![e].pc = "top", ![e].at = n]
  BY <1>2 DEF PassGate
<1>4. QED
  BY <1>1, <1>2, <1>3, AtTop

(* The delayed message of a timed gate. *)
LEMMA SendsTimer ==
  ASSUME TypeOK, ExecInv, NEW e \in Execs, SendTimer(e)
  PROVE  \E x \in Execs :
           /\ Sends(x, exec[e].run, "resume", "delayed") /\ x # e
           /\ \A d \in Execs : d \notin {e, x} => exec'[d] = exec[d]
           /\ exec'[e].run = exec[e].run /\ exec'[e].kind = exec[e].kind
           /\ exec'[e].pc = "ending" /\ exec[e].pc = "timer"
           /\ exec'[e].waves = exec[e].waves
<1>1. PICK y \in ExecRecords :
        /\ y = MessageOf(exec[e].run, "resume", "delayed")
        /\ y.run = exec[e].run /\ y.kind = "resume" /\ y.pc = "delayed"
        /\ y.waves = <<>> /\ y.at = 0
  BY Message, ExecTypes
<1>2. CanSend /\ exec[e].pc = "timer" /\ nextExec' = nextExec + 1
  BY DEF SendTimer
<1>3. PICK x \in Execs : x = nextExec
  BY <1>2, FleetAssumption DEF TypeOK, CanSend, Execs
<1>4. exec[x] = NoExec /\ x # e /\ nextExec' \in 1 .. MaxExecs + 1
  BY <1>2, <1>3, NoExecFields, FleetAssumption DEF TypeOK, ExecInv, CanSend, Execs
<1>5. exec' = [[exec EXCEPT ![x] = y] EXCEPT ![e].pc = "ending"]
  BY <1>1, <1>3 DEF SendTimer, Sent, MessageOf
<1>6. PICK f \in [Execs -> ExecRecords] : f = [exec EXCEPT ![x] = y]
  BY DEF TypeOK
<1>7. f[x] = y /\ \A d \in Execs : d # x => f[d] = exec[d]
  BY <1>6 DEF TypeOK
<1>8. exec' = [f EXCEPT ![e].pc = "ending"]
  BY <1>5, <1>6
<1>9. /\ exec' \in [Execs -> ExecRecords]
      /\ \A d \in Execs : d # e => exec'[d] = f[d]
      /\ exec'[e].run = f[e].run /\ exec'[e].kind = f[e].kind
      /\ exec'[e].pc = "ending" /\ exec'[e].waves = f[e].waves /\ exec'[e].at = f[e].at
  BY <1>8 DEF ExecRecords
<1>10. \A d \in Execs : exec'[d].at <= Cardinality(Members)
  <2>1. y.at = 0
    BY <1>1
  <2>2. QED
    BY <1>4, <1>7, <1>9, <2>1, UsedFinite, ExecTypes
<1>11. QED
  BY <1>1, <1>2, <1>3, <1>4, <1>7, <1>9, <1>10 DEF Sends

(* Without a timed gate, nobody else works while an executor does. *)
LEMMA Alone ==
  ASSUME TypeOK, NEW e \in Execs, UntimedRun(exec[e].run),
         exec[e].pc \notin {"none", "sent", "done"},
         NEW d \in Execs, d # e, exec[d].run = exec[e].run
  PROVE  exec[d].pc \in {"none", "sent", "done"} /\ exec[e].kind = "run"
<1>1. exec[e].kind = "run"
  BY ExecTypes DEF UntimedRun
<1>2. exec[d].pc \notin {"none", "sent", "done"} => exec[d].kind = "run"
  BY ExecTypes DEF UntimedRun
<1>3. QED
  BY <1>1, <1>2, ExecTypes DEF UntimedRun, RunMessage

-----------------------------------------------------------------------------
(* Every step preserves the invariant *)

(* An executor that returns, refuses or fails; its run fails or stays. *)
LEMMA EndedAtInv ==
  ASSUME FleetInv, NEW e \in Execs, exec[e].pc # "none", exec' = Ended(e),
         \/ status' = status
         \/ /\ exec[e].pc \in {"stale", "top", "wave", "timer"}
            /\ status' = [status EXCEPT ![exec[e].run] = "failed"],
         hist' \in [Runs -> HistRecords], faults' \in 0 .. MaxFaults,
         \A r \in Runs : /\ hist'[r].moved = hist[r].moved
                         /\ hist'[r].redelivered = hist[r].redelivered
                         /\ hist'[r].resumed = hist[r].resumed
                         /\ hist'[r].cancelled = hist[r].cancelled,
         index' \in [Runs -> 0 .. Cardinality(Members)],
         \A r \in Runs : index'[r] = index[r] \/ (hist[r].moved /\ r = exec[e].run),
         UNCHANGED <<gate, relabels, results, decision, fleet, nextExec>>
  PROVE  FleetInv'
<1> USE DEF FleetInv
<1>1. /\ Changes(e) /\ exec'[e].kind = "run" /\ exec'[e].pc = "done"
      /\ exec'[e].waves = <<>> /\ exec'[e].at = 0
  BY Ends
<1>2. exec[e].run \in Runs /\ e \in Nat
  BY ExecTypes
<1>3. /\ status' \in [Runs -> RunStatuses]
      /\ \A r \in Runs : r # exec[e].run => status'[r] = status[r]
      /\ \/ status'[exec[e].run] = status[exec[e].run]
         \/ /\ exec[e].pc \in {"stale", "top", "wave", "timer"}
            /\ status'[exec[e].run] = "failed"
  BY <1>2 DEF TypeOK, RunStatuses
<1>4. HistKept
  BY DEF HistKept
<1>5. UNCHANGED <<members, bucket, aged, unstable, changes>>
  BY DEF fleet
<1>6. TypeOK'
  BY <1>1, <1>3, <1>5 DEF TypeOK, Changes
<1>7. ExecInv'
  <2>1. e < nextExec /\ status[exec[e].run] # "none"
    BY WasSent
  <2>2. StatusKept /\ status'[exec[e].run] # "none"
    BY <1>3, <2>1 DEF StatusKept
  <2>3. Len(exec'[e].waves) <= Cardinality(Members)
    BY <1>1, UsedFinite
  <2>4. nextExec' \in Nat /\ nextExec <= nextExec' /\ e < nextExec'
    BY <2>1 DEF TypeOK
  <2>5. QED
    BY <1>1, <2>1, <2>2, <2>3, <2>4, ExecKept DEF Changes
<1>8. WavesInv'
  <2>1. \A r \in Runs : status'[r] = status[r] \/ status'[r] = "failed"
    BY <1>3
  <2>2. QED
    BY <1>1, <1>4, <1>5, <2>1, WavesKept DEF Changes, Working
<1>9. ProgressInv'
  <2>1. \A r \in Runs : status'[r] = status[r] \/ status'[r] = "failed"
    BY <1>3
  <2>2. \A r \in Runs, m \in Members : Settled(r, m) => Settled(r, m)'
    BY DEF Settled
  <2>3. QED
    BY <1>1, <1>4, <1>5, <2>1, <2>2, ProgressKept DEF Changes
<1>10. SingleInv'
  <2>1. \A r \in Runs : status'[r] = status[r] \/ status'[r] = "failed"
    BY <1>3
  <2>2. \A d \in Execs, r \in Runs : Engaged(d, r)' => Engaged(d, r)
    BY <1>1 DEF Engaged, Changes, Working
  <2>3. QED
    BY <1>4, <2>1, <2>2, SingleKept
<1>11. ASSUME NEW r \in Runs, gate[r] # "timed_wait"
       PROVE  UntimedRun(r)'
  <2>1. UntimedRun(r)
    BY <1>11 DEF CancelInv
  <2>2. ASSUME NEW d \in Execs, exec'[d].run = r, status'[r] # status[r]
        PROVE  exec'[d].pc \notin {"top", "wave"}
    <3>1. r = exec[e].run /\ exec[e].pc \in {"stale", "top", "wave", "timer"}
      BY <1>3, <2>2
    <3>2. CASE d = e
      BY <3>2, <1>1
    <3>3. CASE d # e
      <4>1. exec'[d] = exec[d]
        BY <3>3, <1>1 DEF Changes
      <4>2. exec[d].pc \in {"none", "sent", "done"}
        BY <2>1, <2>2, <3>1, <3>3, <4>1, Alone
      <4>3. QED
        BY <4>1, <4>2
    <3>4. QED
      BY <3>2, <3>3
  <2>3. status'[r] = status[r] \/ status'[r] = "failed"
    BY <1>3
  <2>4. \A d \in Execs :
           \/ exec'[d] = exec[d]
           \/ /\ exec'[d].run = exec[d].run /\ exec'[d].kind = "run"
              /\ exec'[d].pc = "done"
    BY <1>1 DEF Changes
  <2>5. QED
    BY <2>1, <2>2, <2>3, <2>4, CancelKept
<1>12. QED
  BY <1>6, <1>7, <1>8, <1>9, <1>10, <1>11 DEF CancelInv

(* An executor ends, and the saved index stays. *)
LEMMA EndedInv ==
  ASSUME FleetInv, NEW e \in Execs, exec[e].pc # "none", exec' = Ended(e),
         \/ status' = status
         \/ /\ exec[e].pc \in {"stale", "top", "wave", "timer"}
            /\ status' = [status EXCEPT ![exec[e].run] = "failed"],
         hist' \in [Runs -> HistRecords], faults' \in 0 .. MaxFaults,
         \A r \in Runs : /\ hist'[r].moved = hist[r].moved
                         /\ hist'[r].redelivered = hist[r].redelivered
                         /\ hist'[r].resumed = hist[r].resumed
                         /\ hist'[r].cancelled = hist[r].cancelled,
         UNCHANGED <<index, gate, relabels, results, decision, fleet, nextExec>>
  PROVE  FleetInv'
<1>1. index' \in [Runs -> 0 .. Cardinality(Members)]
  BY DEF FleetInv, TypeOK
<1>2. QED
  BY <1>1, EndedAtInv

(* A wave with a member that was pruned fails the run. *)
LEMMA WavePrunedInv ==
  ASSUME FleetInv, NEW e \in Execs, WavePruned(e)
  PROVE  FleetInv'
<1> USE DEF FleetInv
<1>1. PICK r \in Runs : r = exec[e].run
  BY ExecTypes
<1>2. /\ exec[e].pc = "top" /\ exec[e].at < Len(exec[e].waves)
      /\ ~(exec[e].waves[exec[e].at + 1] \subseteq members)
      /\ exec' = Ended(e) /\ status' = [status EXCEPT ![exec[e].run] = "failed"]
      /\ UNCHANGED <<gate, relabels, results, decision, fleet, nextExec, faults, hist>>
  BY DEF WavePruned
<1>3. hist[r].moved
  <2>1. exec[e].at + 1 \in DOMAIN exec[e].waves
    BY <1>2, ExecTypes
  <2>2. exec[e].waves[exec[e].at + 1] \subseteq Members
    BY <2>1, ExecTypes
  <2>3. ~hist[r].moved => members = Members
    BY <1>1, <1>2 DEF WavesInv, Working
  <2>4. QED
    BY <1>2, <2>2, <2>3
<1>4. PICK n \in 0 .. Cardinality(Members) : n = exec[e].at
  BY ExecTypes, UsedFinite
<1>5. index' = [index EXCEPT ![r] = n]
  BY <1>1, <1>4 DEF WavePruned
<1>6. /\ index' \in [Runs -> 0 .. Cardinality(Members)]
      /\ \A q \in Runs : index'[q] = index[q] \/ (hist[q].moved /\ q = exec[e].run)
  BY <1>1, <1>3, <1>5 DEF TypeOK
<1>7. hist' \in [Runs -> HistRecords] /\ faults' \in 0 .. MaxFaults
  BY <1>2 DEF TypeOK
<1>8. QED
  BY <1>2, <1>6, <1>7, EndedAtInv


(* Nobody but the runs that were not started can tell that the fleet moved. *)
LEMMA MovedKept ==
  ASSUME TypeOK, ExecInv, NoteMoved, UNCHANGED <<status, index>>,
         \A e \in Execs : exec'[e].run = exec[e].run
                            /\ (exec'[e].pc # "none" => exec[e].pc # "none")
  PROVE  WavesInv' /\ ProgressInv'
<1>1. ASSUME NEW r \in Runs, ~hist'[r].moved
      PROVE  /\ status'[r] = "none" /\ index'[r] = 0
             /\ \A e \in Execs : exec'[e].run = r => exec'[e].pc = "none"
  <2>1. status[r] = "none"
    BY <1>1, NotesMoved
  <2>2. QED
    BY <2>1 DEF ExecInv
<1>2. \A i \in DOMAIN Waves' : i > 0
  BY DEF Waves
<1>3. WavesInv'
  BY <1>1 DEF WavesInv, Working
<1>4. ASSUME NEW r \in Runs, ~hist'[r].moved
      PROVE  /\ DoneUpTo(r, Waves, index[r])'
             /\ status'[r] = "none"
             /\ \A e \in Execs : exec'[e].run = r => exec'[e].pc = "none"
  <2>1. \A i \in DOMAIN Waves' : ~(i <= index'[r])
    BY <1>1, <1>2, <1>4 DEF Waves
  <2>2. QED
    BY <1>1, <1>4, <2>1 DEF DoneUpTo
<1>5. ProgressInv'
  BY <1>4 DEF ProgressInv
<1>6. QED
  BY <1>3, <1>5

(* A step of the executors of other runs. *)
LEMMA OtherRunKept ==
  ASSUME NEW q \in Runs, UntimedRun(q), status'[q] = status[q],
         hist'[q].resumed = hist[q].resumed, hist'[q].cancelled = hist[q].cancelled,
         decision' = decision \/ decision' # "resolved",
         \A d \in Execs : exec'[d].run = q => exec'[d] = exec[d]
  PROVE  UntimedRun(q)'
<1>1. \A d \in Execs : RunMessage(d, q)' => RunMessage(d, q)
  BY DEF RunMessage
<1>2. \A c, d \in Execs : RunMessage(c, q)' /\ RunMessage(d, q)' => c = d
  BY <1>1 DEF UntimedRun
<1>3. QED
  BY <1>2 DEF UntimedRun

(* The fleet's rows do not matter to how many executors a run has. *)
LEMMA SingleCancelKept ==
  ASSUME TypeOK, SingleInv, CancelInv, UNCHANGED <<status, gate, exec>>,
         decision' = decision \/ decision' # "resolved",
         \A r \in Runs : /\ hist'[r].redelivered = hist[r].redelivered
                         /\ hist'[r].resumed = hist[r].resumed
                         /\ hist'[r].cancelled = hist[r].cancelled
  PROVE  SingleInv' /\ CancelInv'
<1>1. SingleInv'
  <2>1. \A e \in Execs, r \in Runs : Engaged(e, r)' = Engaged(e, r)
    BY DEF Engaged
  <2>2. QED
    BY <2>1 DEF SingleInv
<1>2. ASSUME NEW r \in Runs, gate[r] # "timed_wait"
      PROVE  UntimedRun(r)'
  BY <1>2, CancelKept DEF CancelInv
<1>3. QED
  BY <1>1, <1>2 DEF CancelInv

(* The decision ages or is superseded, members fall ill. *)
LEMMA OutsideInv ==
  ASSUME FleetInv, UNCHANGED <<status, index, gate, relabels, results, members,
                               bucket, exec, nextExec, faults, hist>>,
         decision' = decision \/ decision' = "superseded",
         aged' \in BOOLEAN, unstable' \subseteq Members, changes' \in 0 .. MaxChanges
  PROVE  FleetInv'
<1> USE DEF FleetInv
<1>1. TypeOK'
  BY DEF TypeOK
<1>2. ExecInv'
  BY DEF ExecInv
<1>3. Waves' = Waves /\ \A r \in Runs, m \in Members : Settled(r, m) = Settled(r, m)'
  BY DEF Waves, Settled
<1>4. WavesInv'
  BY <1>3 DEF WavesInv
<1>5. ProgressInv'
  <2>1. HistKept
    BY DEF HistKept
  <2>2. QED
    BY <1>3, <2>1, ProgressKept
<1>6. SingleInv' /\ CancelInv'
  BY SingleCancelKept
<1>7. QED
  BY <1>1, <1>2, <1>4, <1>5, <1>6

(* Members leave or change their bucket. *)
LEMMA MovedInv ==
  ASSUME FleetInv, NoteMoved, UNCHANGED <<rows, aged, unstable, exec, nextExec, faults>>,
         members' \subseteq Members, bucket' \in [Members -> Buckets],
         changes' \in 0 .. MaxChanges
  PROVE  FleetInv'
<1> USE DEF FleetInv
<1>1. UNCHANGED <<status, index, gate, relabels, results, decision>>
  BY DEF rows
<1>2. TypeOK'
  BY <1>1, NotesMoved DEF TypeOK
<1>3. ExecInv'
  BY <1>1, NotesMoved DEF ExecInv
<1>4. WavesInv' /\ ProgressInv'
  BY <1>1, MovedKept
<1>5. SingleInv' /\ CancelInv'
  BY <1>1, NotesMoved, SingleCancelKept
<1>6. QED
  BY <1>2, <1>3, <1>4, <1>5

(* A countdown elapses, or a worker dies and its message is put back. *)
LEMMA SentAgainInv ==
  ASSUME FleetInv, NEW e \in Execs, exec[e].pc \notin {"none", "done"}, Changes(e),
         exec'[e].kind = exec[e].kind, exec'[e].pc = "sent",
         exec'[e].waves = exec[e].waves \/ exec'[e].waves = <<>>,
         hist' \in [Runs -> HistRecords], faults' \in 0 .. MaxFaults,
         \A r \in Runs : /\ hist'[r].moved = hist[r].moved
                         /\ hist[r].redelivered => hist'[r].redelivered
                         /\ hist'[r].resumed = hist[r].resumed
                         /\ hist'[r].cancelled = hist[r].cancelled,
         exec[e].pc = "delayed" \/ hist'[exec[e].run].redelivered,
         UNCHANGED <<rows, fleet, nextExec>>
  PROVE  FleetInv'
<1> USE DEF FleetInv
<1>1. UNCHANGED <<status, index, gate, relabels, results, decision, members, bucket,
                  aged, unstable, changes>>
  BY DEF fleet, rows
<1>2. exec[e].run \in Runs /\ e \in Nat /\ Len(exec'[e].waves) <= Cardinality(Members)
  BY ExecTypes, UsedFinite DEF ExecInv
<1>3. HistKept
  BY DEF HistKept
<1>4. TypeOK'
  BY <1>1 DEF TypeOK, Changes
<1>5. ExecInv'
  <2>1. e < nextExec /\ status[exec[e].run] # "none"
    BY WasSent
  <2>2. StatusKept /\ nextExec' \in Nat /\ nextExec <= nextExec' /\ e < nextExec'
    BY <1>1, <2>1 DEF StatusKept, TypeOK
  <2>3. QED
    BY <1>1, <1>2, <2>1, <2>2, ExecKept DEF Changes
<1>6. WavesInv'
  BY <1>1, <1>3, WavesKept DEF Changes, Working
<1>7. ProgressInv'
  <2>1. \A r \in Runs, m \in Members : Settled(r, m) => Settled(r, m)'
    BY <1>1 DEF Settled
  <2>2. QED
    BY <1>1, <1>3, <2>1, ProgressKept DEF Changes
<1>8. SingleInv'
  <2>1. ASSUME NEW r \in Runs, ~hist'[r].redelivered
        PROVE  \A d \in Execs : Engaged(d, r)' => Engaged(d, r)
    BY <2>1 DEF Engaged, Changes, Working
  <2>2. QED
    BY <1>1, <2>1 DEF SingleInv
<1>9. ASSUME NEW r \in Runs, gate[r] # "timed_wait"
      PROVE  UntimedRun(r)'
  <2>1. UntimedRun(r)
    BY <1>9 DEF CancelInv
  <2>2. QED
    BY <1>1, <2>1, CancelKept DEF Changes
<1>10. QED
  BY <1>1, <1>4, <1>5, <1>6, <1>7, <1>8, <1>9 DEF CancelInv

(* The first reads of an executor. *)
LEMMA LoadInv ==
  ASSUME FleetInv, NEW e \in Execs, Load(e)
  PROVE  FleetInv'
<1> USE DEF FleetInv
<1>1. /\ Changes(e) /\ exec'[e].kind = exec[e].kind
      /\ exec'[e].pc = IF exec[e].kind = "run" /\ ~Fresh THEN "stale" ELSE "loaded"
      /\ exec'[e].waves = Waves /\ exec'[e].at = exec[e].at
  BY Loads
<1>2. UNCHANGED <<status, index, gate, relabels, results, decision, members, bucket,
                  aged, unstable, changes, nextExec, faults, hist>>
  BY DEF Load, fleet, rows
<1>3. exec[e].pc = "sent" /\ Accepts(e)
  BY DEF Load
<1>4. PICK r \in Runs : r = exec[e].run
  BY ExecTypes
<1>5. HistKept /\ StatusKept
  BY <1>2 DEF HistKept, StatusKept
<1>6. TypeOK'
  BY <1>1, <1>2 DEF TypeOK, Changes
<1>7. ExecInv'
  <2>1. e < nextExec /\ status[exec[e].run] # "none"
    BY <1>3, WasSent
  <2>2. nextExec' \in Nat /\ nextExec <= nextExec' /\ e < nextExec'
    BY <1>2, <2>1 DEF TypeOK
  <2>3. Len(exec'[e].waves) <= Cardinality(Members)
    BY <1>1, WavesType, UsedFinite
  <2>4. exec'[e].pc # "none" /\ exec'[e].pc # "wave" /\ status'[exec'[e].run] # "none"
    BY <1>1, <1>2, <2>1 DEF Changes
  <2>5. \A d \in Execs : exec'[d] = exec[d] \/ d = e
    BY <1>1 DEF Changes
  <2>6. QED
    BY <1>2, <1>5, <2>2, <2>3, <2>4, <2>5, ExecKept
<1>8. WavesInv'
  <2>1. ASSUME exec'[e].pc = "loaded", ~hist[r].moved
        PROVE  members = Members
    <3>1. CASE exec[e].kind = "run"
      BY <1>1, <2>1, <3>1 DEF Fresh
    <3>2. CASE exec[e].kind = "resume"
      <4>1. status[r] = "paused_gate"
        BY <1>3, <1>4, <3>2 DEF Accepts
      <4>2. QED
        BY <2>1, <4>1 DEF WavesInv
    <3>3. QED
      BY <3>1, <3>2, ExecTypes
  <2>2. exec'[e].pc \in Working => exec'[e].pc = "loaded"
    BY <1>1 DEF Working
  <2>3. QED
    BY <1>1, <1>2, <1>4, <1>5, <2>1, <2>2, WavesKept DEF Changes
<1>9. ProgressInv'
  <2>1. \A q \in Runs, m \in Members : Settled(q, m) => Settled(q, m)'
    BY <1>2 DEF Settled
  <2>2. QED
    BY <1>1, <1>2, <1>5, <2>1, ProgressKept DEF Changes
<1>10. SingleInv'
  <2>1. \A d \in Execs, q \in Runs : Engaged(d, q)' => Engaged(d, q)
    BY <1>1, <1>3 DEF Engaged, Changes, Working
  <2>2. QED
    BY <1>2, <1>5, <2>1, SingleKept
<1>11. ASSUME NEW q \in Runs, gate[q] # "timed_wait"
       PROVE  UntimedRun(q)'
  <2>1. UntimedRun(q)
    BY <1>11 DEF CancelInv
  <2>2. ASSUME q = r
        PROVE  /\ exec[e].kind = "run"
               /\ exec'[e].pc \in {"stale", "loaded"}
               /\ exec'[e].pc = "loaded" =>
                    ~hist[r].resumed /\ ~hist[r].cancelled /\ status[r] # "paused_gate"
    <3>1. exec[e].kind = "resume" => status[r] = "paused_gate" /\ hist[r].resumed
      BY <1>3, <1>4, <2>1, <2>2 DEF Accepts, UntimedRun
    <3>2. exec[e].kind = "run"
      BY <2>1, <2>2, <3>1, ExecTypes DEF UntimedRun
    <3>3. status[r] \in {"none", "pending", "paused_gate"}
      BY <1>3, <1>4, <3>2 DEF Accepts, TypeOK, RunStatuses, Terminal
    <3>4. status[r] = "paused_gate" => exec'[e].pc = "stale"
      BY <1>1, <2>1, <2>2, <3>2 DEF UntimedRun, Fresh
    <3>5. QED
      BY <1>1, <2>1, <2>2, <3>2, <3>3, <3>4 DEF UntimedRun
  <2>3. \A d \in Execs : /\ exec'[d].run = exec[d].run /\ exec'[d].kind = exec[d].kind
                         /\ d # e => exec'[d] = exec[d]
    BY <1>1 DEF Changes
  <2>4. \A d \in Execs : RunMessage(d, q)' => RunMessage(d, q)
    BY <1>3, <2>3 DEF RunMessage
  <2>5. ASSUME NEW d \in Execs, exec'[d].run = q
        PROVE  /\ exec'[d].kind = "resume" => exec'[d].pc = "sent" /\ hist'[q].resumed
               /\ exec'[d].pc # "timer"
               /\ exec'[d].pc \in {"top", "wave"} => decision' # "resolved"
    BY <1>2, <1>4, <2>1, <2>2, <2>3, <2>5 DEF UntimedRun
  <2>6. ASSUME NEW d \in Execs, exec'[d].run = q,
               status'[q] = "paused_gate" \/ hist'[q].resumed
        PROVE  exec'[d].pc \notin Working
    BY <1>2, <1>4, <2>1, <2>2, <2>3, <2>6 DEF UntimedRun, Working
  <2>7. ASSUME NEW d \in Execs, exec'[d].run = q, hist'[q].cancelled
        PROVE  /\ exec'[d].pc # "loaded"
               /\ exec'[d].pc \in {"top", "wave"} => status'[q] = "cancelled"
    BY <1>2, <1>4, <2>1, <2>2, <2>3, <2>7 DEF UntimedRun
  <2>8. /\ status'[q] \in {"running", "paused_gate"} => decision' # "resolved"
        /\ status'[q] \in {"none", "pending"} => ~hist'[q].resumed /\ ~hist'[q].cancelled
        /\ hist'[q].resumed => status'[q] # "paused_gate"
    BY <1>2, <2>1 DEF UntimedRun
  <2>9. \A c, d \in Execs : RunMessage(c, q)' /\ RunMessage(d, q)' => c = d
    BY <2>1, <2>4 DEF UntimedRun
  <2>10. QED
    BY <2>5, <2>6, <2>7, <2>8, <2>9 DEF UntimedRun
<1>12. QED
  BY <1>2, <1>6, <1>7, <1>8, <1>9, <1>10, <1>11 DEF CancelInv


(* The first commit: the executor goes to the wave that the row names. *)
LEMMA BeginInv ==
  ASSUME FleetInv, NEW e \in Execs, Begin(e)
  PROVE  FleetInv'
<1> USE DEF FleetInv
<1>1. /\ Changes(e) /\ exec'[e].kind = exec[e].kind /\ exec'[e].pc = "top"
      /\ exec'[e].waves = exec[e].waves /\ exec'[e].at = index[exec[e].run]
  BY Begins
<1>2. UNCHANGED <<index, gate, relabels, results, members, bucket,
                  aged, unstable, changes, nextExec, faults, hist>>
  BY DEF Begin, fleet
<1>3. PICK r \in Runs : r = exec[e].run
  BY ExecTypes
<1>4. /\ exec[e].pc = "loaded"
      /\ decision' = IF exec[e].kind = "run" THEN "consumed" ELSE decision
      /\ status' = [status EXCEPT ![r] = "running"]
  BY <1>3 DEF Begin
<1>5. /\ status' \in [Runs -> RunStatuses] /\ status'[r] = "running"
      /\ \A q \in Runs : q # r => status'[q] = status[q]
  BY <1>4 DEF TypeOK, RunStatuses
<1>6. HistKept /\ StatusKept
  BY <1>2, <1>5 DEF HistKept, StatusKept
<1>7. TypeOK'
  <2>1. decision' \in {"resolved", "consumed", "superseded"}
    BY <1>4 DEF TypeOK
  <2>2. QED
    BY <1>1, <1>2, <1>5, <2>1 DEF TypeOK, Changes
<1>8. \A d \in Execs : exec'[d] = exec[d] \/ d = e
  BY <1>1 DEF Changes
<1>9. exec'[e].run = r
  BY <1>1, <1>3 DEF Changes
<1>10. ExecInv'
  <2>1. e < nextExec
    BY <1>4, WasSent
  <2>2. nextExec' \in Nat /\ nextExec <= nextExec' /\ e < nextExec'
    BY <1>2, <2>1 DEF TypeOK
  <2>3. Len(exec'[e].waves) <= Cardinality(Members) /\ exec'[e].pc \notin {"none", "wave"}
    BY <1>1 DEF ExecInv
  <2>4. QED
    BY <1>2, <1>5, <1>6, <1>8, <1>9, <2>2, <2>3, ExecKept
<1>11. ~hist[r].moved => exec[e].waves = Waves /\ members = Members
  BY <1>3, <1>4 DEF WavesInv, Working
<1>12. WavesInv'
  BY <1>1, <1>2, <1>5, <1>6, <1>8, <1>9, <1>11, WavesKept
<1>13. ProgressInv'
  <2>1. \A q \in Runs, m \in Members : Settled(q, m) => Settled(q, m)'
    BY <1>2 DEF Settled
  <2>2. ~hist'[r].moved => \A i \in DOMAIN exec'[e].waves : i <= exec'[e].at =>
           \A m \in exec'[e].waves[i] : Settled(r, m)
    BY <1>1, <1>2, <1>3, <1>11 DEF ProgressInv, DoneUpTo
  <2>3. \A m : Settled(r, m) => Settled(exec[e].run, m)'
    BY <1>2, <1>9 DEF Settled
  <2>4. QED
    BY <1>1, <1>2, <1>5, <1>6, <1>8, <1>9, <2>1, <2>2, <2>3, ProgressKept
<1>14. SingleInv'
  <2>1. \A d \in Execs, q \in Runs : Engaged(d, q)' => Engaged(d, q)
    BY <1>1, <1>3, <1>4, <1>8, <1>9 DEF Engaged, Working
  <2>2. QED
    BY <1>2, <1>5, <1>6, <2>1, SingleKept
<1>15. ASSUME NEW q \in Runs, gate[q] # "timed_wait"
       PROVE  UntimedRun(q)'
  <2>1. UntimedRun(q)
    BY <1>15 DEF CancelInv
  <2>2. CASE q # r
    <3>1. decision' = decision \/ decision' # "resolved"
      BY <1>4
    <3>2. \A d \in Execs : exec'[d].run = q => exec'[d] = exec[d]
      BY <1>8, <1>9, <2>2
    <3>3. QED
      BY <1>2, <1>5, <2>1, <2>2, <3>1, <3>2, OtherRunKept
  <2>3. CASE q = r
    <3>1. ~hist[r].resumed /\ ~hist[r].cancelled
      BY <1>3, <1>4, <2>1, <2>3 DEF UntimedRun, Working
    <3>2. exec[e].kind = "run" /\ decision' # "resolved"
      BY <1>3, <1>4, <2>1, <2>3, ExecTypes DEF UntimedRun
    <3>3. \A d \in Execs : /\ exec'[d].run = exec[d].run /\ exec'[d].kind = exec[d].kind
                           /\ d # e => exec'[d] = exec[d]
      BY <1>1 DEF Changes
    <3>4. \A d \in Execs : RunMessage(d, q)' => RunMessage(d, q)
      BY <1>4, <3>3 DEF RunMessage
    <3>5. \A d \in Execs : exec'[d].run = q =>
             /\ exec'[d].kind = "resume" => exec'[d].pc = "sent" /\ hist'[q].resumed
             /\ exec'[d].pc # "timer"
             /\ exec'[d].pc \in {"top", "wave"} => decision' # "resolved"
      BY <1>1, <1>2, <2>1, <3>2, <3>3 DEF UntimedRun
    <3>6. hist'[q] = hist[q] /\ status'[q] = "running"
      BY <1>2, <1>5, <2>3
    <3>7. \A c, d \in Execs : RunMessage(c, q)' /\ RunMessage(d, q)' => c = d
      BY <2>1, <3>4 DEF UntimedRun
    <3>8. QED
      BY <2>3, <3>1, <3>2, <3>5, <3>6, <3>7 DEF UntimedRun
  <2>4. QED
    BY <2>2, <2>3
<1>16. QED
  BY <1>2, <1>7, <1>10, <1>12, <1>13, <1>14, <1>15 DEF CancelInv

(* The start of a wave: the row names it, and its results are pending. *)
LEMMA StartWaveInv ==
  ASSUME FleetInv, NEW e \in Execs, StartWave(e)
  PROVE  FleetInv'
<1> USE DEF FleetInv
<1>1. /\ Changes(e) /\ exec'[e].kind = exec[e].kind /\ exec'[e].pc = "wave"
      /\ exec'[e].waves = exec[e].waves /\ exec'[e].at = exec[e].at
      /\ exec'[e].todo = exec[e].waves[exec[e].at + 1]
      /\ exec[e].pc = "top" /\ exec[e].at < Len(exec[e].waves)
  BY StartsWave
<1>2. UNCHANGED <<status, gate, relabels, decision, members, bucket,
                  aged, unstable, changes, nextExec, faults, hist>>
  BY DEF StartWave, fleet
<1>3. PICK r \in Runs : r = exec[e].run
  BY ExecTypes
<1>4. PICK n \in 0 .. Cardinality(Members) : n = exec[e].at
  BY ExecTypes, UsedFinite
<1>5. /\ index' \in [Runs -> 0 .. Cardinality(Members)] /\ index'[r] = n
      /\ \A q \in Runs : q # r => index'[q] = index[q]
  <2>1. index' = [index EXCEPT ![r] = n]
    BY <1>3, <1>4 DEF StartWave
  <2>2. QED
    BY <2>1 DEF TypeOK
<1>6. /\ results' \in [Runs -> [Members -> Results]]
      /\ \A q \in Runs, m \in Members : Settled(q, m) => Settled(q, m)'
  <2>1. PICK w : w = exec[e].waves[exec[e].at + 1]
    OBVIOUS
  <2>2. PICK f \in [Members -> Results] :
          f = [m \in Members |-> IF m \in w /\ results[r][m] = "none" THEN "pending"
                                 ELSE results[r][m]]
    BY DEF TypeOK, Results
  <2>3. results' = [results EXCEPT ![r] = f]
    BY <1>3, <2>1, <2>2 DEF StartWave
  <2>4. \A m \in Members : results[r][m] = "final" => f[m] = "final"
    BY <2>2
  <2>5. QED
    BY <2>3, <2>4 DEF TypeOK, Settled
<1>7. HistKept /\ StatusKept
  BY <1>2 DEF HistKept, StatusKept
<1>8. TypeOK'
  BY <1>1, <1>2, <1>5, <1>6 DEF TypeOK, Changes
<1>9. \A d \in Execs : exec'[d] = exec[d] \/ d = e
  BY <1>1 DEF Changes
<1>10. exec'[e].run = r
  BY <1>1, <1>3 DEF Changes
<1>11. ExecInv'
  <2>1. e < nextExec /\ status[r] # "none"
    BY <1>1, <1>3, WasSent
  <2>2. nextExec' \in Nat /\ nextExec <= nextExec' /\ e < nextExec' /\ status'[r] # "none"
    BY <1>2, <2>1 DEF TypeOK
  <2>3. Len(exec'[e].waves) <= Cardinality(Members) /\ exec'[e].at < Len(exec'[e].waves)
    BY <1>1 DEF ExecInv
  <2>4. QED
    BY <1>1, <1>2, <1>5, <1>7, <1>9, <1>10, <2>2, <2>3, ExecKept
<1>12. WavesInv'
  BY <1>1, <1>2, <1>3, <1>7, <1>9, <1>10, WavesKept DEF Working
<1>13. ProgressInv'
  <2>1. ASSUME ~hist[r].moved
        PROVE  /\ exec[e].waves = Waves
               /\ \A i \in DOMAIN exec[e].waves : i <= exec[e].at =>
                    \A m \in exec[e].waves[i] : Settled(r, m)
    BY <1>1, <1>3, <2>1 DEF WavesInv, ProgressInv, Working, DoneUpTo
  <2>2. \A i \in DOMAIN exec[e].waves : exec[e].waves[i] \subseteq Members
    BY ExecTypes
  <2>3. \A m \in Members : Settled(r, m) => Settled(exec[e].run, m)'
    BY <1>6, <1>10
  <2>4. ~hist'[r].moved => \A i \in DOMAIN Waves : i <= index'[r] =>
                             \A m \in Waves[i] : Settled(r, m)'
    BY <1>2, <1>4, <1>5, <1>6, <2>1, <2>2
  <2>5. ~hist'[r].moved =>
          \A i \in DOMAIN exec'[e].waves : i <= exec'[e].at =>
            \A m \in exec'[e].waves[i] : Settled(exec[e].run, m)'
    BY <1>1, <1>2, <2>1, <2>2, <2>3
  <2>6. \A m \in exec'[e].waves[exec'[e].at + 1] \ exec'[e].todo :
          Settled(exec[e].run, m)'
    BY <1>1
  <2>7. QED
    BY <1>2, <1>5, <1>6, <1>7, <1>9, <1>10, <2>4, <2>5, <2>6, ProgressKept
<1>14. SingleInv'
  <2>1. \A d \in Execs, q \in Runs : Engaged(d, q)' => Engaged(d, q)
    BY <1>1, <1>3, <1>9, <1>10 DEF Engaged, Working
  <2>2. QED
    BY <1>2, <1>7, <2>1, SingleKept
<1>15. ASSUME NEW q \in Runs, gate[q] # "timed_wait"
       PROVE  UntimedRun(q)'
  <2>1. UntimedRun(q)
    BY <1>15 DEF CancelInv
  <2>2. exec[e].run = q => exec[e].kind = "run"
    BY <1>1, <2>1, ExecTypes DEF UntimedRun
  <2>3. CASE q = r
    BY <1>1, <1>2, <1>3, <2>1, <2>2, <2>3, CancelKept DEF Changes
  <2>4. CASE q # r
    <3>1. \A d \in Execs : exec'[d].run = q => exec'[d] = exec[d]
      BY <1>9, <1>10, <2>4
    <3>2. QED
      BY <1>2, <2>1, <3>1, OtherRunKept
  <2>5. QED
    BY <2>3, <2>4
<1>16. QED
  BY <1>2, <1>8, <1>11, <1>12, <1>13, <1>14, <1>15 DEF CancelInv


(* A wave without members to act on is done. *)
LEMMA WaveIsDone ==
  ASSUME FleetInv, NEW e \in Execs, exec[e].pc = "wave", exec[e].todo = {},
         ~hist[exec[e].run].moved
  PROVE  \A i \in DOMAIN exec[e].waves : i <= exec[e].at + 1 =>
           \A m \in exec[e].waves[i] : Settled(exec[e].run, m)
<1>1. PICK r \in Runs : r = exec[e].run
  BY ExecTypes DEF FleetInv
<1>2. /\ \A i \in DOMAIN exec[e].waves : i <= exec[e].at =>
           \A m \in exec[e].waves[i] : Settled(r, m)
      /\ \A m \in exec[e].waves[exec[e].at + 1] \ exec[e].todo : Settled(r, m)
  BY <1>1 DEF FleetInv, ProgressInv, DoneUpTo
<1>3. exec[e].at \in Nat /\ DOMAIN exec[e].waves \subseteq Int
  BY ExecTypes DEF FleetInv
<1>4. \A i \in DOMAIN exec[e].waves :
        i <= exec[e].at + 1 => i <= exec[e].at \/ i = exec[e].at + 1
  BY <1>3
<1>5. QED
  BY <1>1, <1>2, <1>4

(* An action on a member has its result; it may move that member. *)
LEMMA ActInv ==
  ASSUME FleetInv, NEW e \in Execs, NEW m \in Members, Act(e, m)
  PROVE  FleetInv'
<1> USE DEF FleetInv
<1>1. /\ Changes(e) /\ exec'[e].kind = exec[e].kind /\ exec'[e].pc = "wave"
      /\ exec'[e].waves = exec[e].waves /\ exec'[e].at = exec[e].at
      /\ exec'[e].todo = exec[e].todo \ {m} /\ exec[e].pc = "wave"
  BY Acts
<1>2. UNCHANGED <<status, index, gate, relabels, decision, aged, members, unstable,
                  changes, nextExec, faults>>
  BY DEF Act
<1>3. PICK r \in Runs : r = exec[e].run
  BY ExecTypes
<1>4. /\ results' \in [Runs -> [Members -> Results]]
      /\ \A q \in Runs, c \in Members : Settled(q, c) => Settled(q, c)'
      /\ Settled(r, m)'
  <2>1. results' = [results EXCEPT ![r][m] = "final"]
    BY <1>3 DEF Act
  <2>2. QED
    BY <2>1 DEF TypeOK, Settled, Results
<1>5. bucket' = bucket \/ bucket' = [bucket EXCEPT ![m] = NewBucket]
  BY DEF Act
<1>6. bucket' \in [Members -> Buckets]
  BY <1>5, FleetAssumption DEF TypeOK
<1>7. bucket' = bucket => hist' = hist
  BY DEF Act
<1>8. bucket' # bucket => NoteMoved
  BY DEF Act
<1>9. /\ hist' \in [Runs -> HistRecords]
      /\ \A q \in Runs : /\ hist[q].moved => hist'[q].moved
                         /\ hist'[q].redelivered = hist[q].redelivered
                         /\ hist'[q].resumed = hist[q].resumed
                         /\ hist'[q].cancelled = hist[q].cancelled
  <2>1. CASE hist' = hist
    BY <2>1 DEF TypeOK
  <2>2. CASE NoteMoved
    BY <2>2, NotesMoved
  <2>3. QED
    BY <1>7, <1>8, <2>1, <2>2
<1>10. HistKept /\ StatusKept
  BY <1>2, <1>9 DEF HistKept, StatusKept
<1>11. TypeOK'
  BY <1>1, <1>2, <1>4, <1>6, <1>9 DEF TypeOK, Changes
<1>12. \A d \in Execs : exec'[d] = exec[d] \/ d = e
  BY <1>1 DEF Changes
<1>13. exec'[e].run = r
  BY <1>1, <1>3 DEF Changes
<1>14. ExecInv'
  <2>1. e < nextExec /\ status[r] # "none"
    BY <1>1, <1>3, WasSent
  <2>2. nextExec' \in Nat /\ nextExec <= nextExec' /\ e < nextExec' /\ status'[r] # "none"
    BY <1>2, <2>1 DEF TypeOK
  <2>3. Len(exec'[e].waves) <= Cardinality(Members) /\ exec'[e].at < Len(exec'[e].waves)
    BY <1>1 DEF ExecInv
  <2>4. QED
    BY <1>1, <1>2, <1>9, <1>10, <1>12, <1>13, <2>2, <2>3, ExecKept
<1>15. ASSUME NoteMoved
       PROVE  WavesInv' /\ ProgressInv'
  <2>1. \A d \in Execs : exec'[d].run = exec[d].run
                            /\ (exec'[d].pc # "none" => exec[d].pc # "none")
    BY <1>1, <1>12 DEF Changes
  <2>2. WavesInv' /\ ProgressInv'
    BY <1>2, <1>15, <2>1, MovedKept
  <2>3. QED
    BY <2>2
<1>16. ASSUME bucket' = bucket
       PROVE  WavesInv' /\ ProgressInv'
  <2>1. WavesInv'
    BY <1>1, <1>2, <1>3, <1>10, <1>12, <1>13, <1>16, WavesKept DEF Working
  <2>2. \A i \in DOMAIN exec[e].waves : exec[e].waves[i] \subseteq Members
    BY ExecTypes
  <2>3. hist' = hist
    BY <1>7, <1>16
  <2>4. exec[e].at + 1 \in DOMAIN exec[e].waves
    BY <1>1, ExecTypes DEF ExecInv
  <2>5. \A c \in Members : Settled(r, c) => Settled(exec[e].run, c)'
    BY <1>4, <1>13
  <2>6. Settled(exec[e].run, m)'
    BY <1>4, <1>13
  <2>7. ~hist'[r].moved =>
          /\ \A i \in DOMAIN exec'[e].waves : i <= exec'[e].at =>
               \A c \in exec'[e].waves[i] : Settled(exec[e].run, c)'
          /\ \A c \in exec'[e].waves[exec'[e].at + 1] \ exec'[e].todo :
               Settled(exec[e].run, c)'
    <3>1. ASSUME ~hist'[r].moved
          PROVE  /\ \A i \in DOMAIN exec[e].waves : i <= exec[e].at =>
                      \A c \in exec[e].waves[i] : Settled(r, c)
                 /\ \A c \in exec[e].waves[exec[e].at + 1] \ exec[e].todo : Settled(r, c)
      BY <1>1, <1>3, <2>3, <3>1 DEF ProgressInv, DoneUpTo
    <3>2. QED
      BY <1>1, <2>2, <2>4, <2>5, <2>6, <3>1
  <2>8. ProgressInv'
    BY <1>2, <1>4, <1>10, <1>12, <1>13, <1>16, <2>7, ProgressKept
  <2>9. QED
    BY <2>1, <2>8
<1>17. SingleInv'
  <2>1. \A d \in Execs, q \in Runs : Engaged(d, q)' => Engaged(d, q)
    BY <1>1, <1>3, <1>12, <1>13 DEF Engaged, Working
  <2>2. QED
    BY <1>2, <1>10, <2>1, SingleKept
<1>18. ASSUME NEW q \in Runs, gate[q] # "timed_wait"
       PROVE  UntimedRun(q)'
  <2>1. UntimedRun(q)
    BY <1>18 DEF CancelInv
  <2>2. CASE q = r
    <3>1. exec[e].kind = "run"
      BY <1>1, <1>3, <2>1, <2>2, ExecTypes DEF UntimedRun
    <3>2. QED
      BY <1>1, <1>2, <1>3, <1>9, <2>1, <2>2, <3>1, CancelKept DEF Changes
  <2>3. CASE q # r
    <3>1. \A d \in Execs : exec'[d].run = q => exec'[d] = exec[d]
      BY <1>12, <1>13, <2>3
    <3>2. QED
      BY <1>2, <1>9, <2>1, <3>1, OtherRunKept
  <2>4. QED
    BY <2>2, <2>3
<1>19. QED
  BY <1>2, <1>7, <1>8, <1>11, <1>14, <1>15, <1>16, <1>17, <1>18 DEF CancelInv

(* The health gate is open: the executor goes on to the next wave. *)
LEMMA PassGateInv ==
  ASSUME FleetInv, NEW e \in Execs, PassGate(e)
  PROVE  FleetInv'
<1> USE DEF FleetInv
<1>1. /\ Changes(e) /\ exec'[e].kind = exec[e].kind /\ exec'[e].pc = "top"
      /\ exec'[e].waves = exec[e].waves /\ exec'[e].at = exec[e].at + 1
      /\ exec[e].pc = "wave" /\ exec[e].todo = {}
  BY PassesGate
<1>2. UNCHANGED <<status, index, gate, relabels, results, decision, members, bucket,
                  aged, unstable, changes, nextExec, faults, hist>>
  BY DEF PassGate, fleet, rows
<1>3. PICK r \in Runs : r = exec[e].run
  BY ExecTypes
<1>4. HistKept /\ StatusKept
  BY <1>2 DEF HistKept, StatusKept
<1>5. TypeOK'
  BY <1>1, <1>2 DEF TypeOK, Changes
<1>6. \A d \in Execs : exec'[d] = exec[d] \/ d = e
  BY <1>1 DEF Changes
<1>7. exec'[e].run = r
  BY <1>1, <1>3 DEF Changes
<1>8. ExecInv'
  <2>1. e < nextExec /\ status[r] # "none"
    BY <1>1, <1>3, WasSent
  <2>2. nextExec' \in Nat /\ nextExec <= nextExec' /\ e < nextExec' /\ status'[r] # "none"
    BY <1>2, <2>1 DEF TypeOK
  <2>3. Len(exec'[e].waves) <= Cardinality(Members)
    BY <1>1 DEF ExecInv
  <2>4. QED
    BY <1>1, <1>2, <1>4, <1>6, <1>7, <2>2, <2>3, ExecKept
<1>9. WavesInv'
  BY <1>1, <1>2, <1>3, <1>4, <1>6, <1>7, WavesKept DEF Working
<1>10. ProgressInv'
  <2>1. \A q \in Runs, m \in Members : Settled(q, m) => Settled(q, m)'
    BY <1>2 DEF Settled
  <2>2. ~hist'[r].moved => \A i \in DOMAIN exec'[e].waves : i <= exec'[e].at =>
           \A m \in exec'[e].waves[i] : Settled(r, m)
    BY <1>1, <1>2, <1>3, WaveIsDone
  <2>3. \A m : Settled(r, m) => Settled(exec[e].run, m)'
    BY <1>2, <1>7 DEF Settled
  <2>4. QED
    BY <1>1, <1>2, <1>4, <1>6, <1>7, <2>1, <2>2, <2>3, ProgressKept
<1>11. SingleInv'
  <2>1. \A d \in Execs, q \in Runs : Engaged(d, q)' => Engaged(d, q)
    BY <1>1, <1>3, <1>6, <1>7 DEF Engaged, Working
  <2>2. QED
    BY <1>2, <1>4, <2>1, SingleKept
<1>12. ASSUME NEW q \in Runs, gate[q] # "timed_wait"
       PROVE  UntimedRun(q)'
  <2>1. UntimedRun(q)
    BY <1>12 DEF CancelInv
  <2>2. CASE q = r
    <3>1. exec[e].kind = "run"
      BY <1>1, <1>3, <2>1, <2>2, ExecTypes DEF UntimedRun
    <3>2. QED
      BY <1>1, <1>2, <1>3, <2>1, <2>2, <3>1, CancelKept DEF Changes
  <2>3. CASE q # r
    <3>1. \A d \in Execs : exec'[d].run = q => exec'[d] = exec[d]
      BY <1>6, <1>7, <2>3
    <3>2. QED
      BY <1>2, <2>1, <3>1, OtherRunKept
  <2>4. QED
    BY <2>2, <2>3
<1>13. QED
  BY <1>2, <1>5, <1>8, <1>9, <1>10, <1>11, <1>12 DEF CancelInv


(* The run stops at a gate, after the wave that the executor was in. *)
LEMMA PauseInv ==
  ASSUME FleetInv, NEW e \in Execs, Pause(e)
  PROVE  FleetInv'
<1> USE DEF FleetInv
<1>1. PICK r \in Runs : r = exec[e].run
  BY ExecTypes
<1>2. /\ exec[e].pc = "wave" /\ exec[e].todo = {}
      /\ Goto(e, IF gate[r] = "timed_wait" THEN "timer" ELSE "ending")
  BY <1>1 DEF Pause, WaveDone
<1>3. /\ Changes(e) /\ exec'[e].kind = exec[e].kind
      /\ exec'[e].pc = IF gate[r] = "timed_wait" THEN "timer" ELSE "ending"
      /\ exec'[e].waves = exec[e].waves /\ exec'[e].at = exec[e].at
  BY <1>2, Goes
<1>4. UNCHANGED <<gate, relabels, results, decision, members, bucket,
                  aged, unstable, changes, nextExec, faults, hist>>
  BY DEF Pause, fleet
<1>5. /\ status' \in [Runs -> RunStatuses] /\ status'[r] = "paused_gate"
      /\ \A q \in Runs : q # r => status'[q] = status[q]
  BY <1>1 DEF Pause, TypeOK, RunStatuses
<1>6. PICK n \in 0 .. Cardinality(Members) : n = exec[e].at + 1
  BY <1>2, ExecTypes, UsedFinite DEF ExecInv
<1>7. /\ index' \in [Runs -> 0 .. Cardinality(Members)] /\ index'[r] = n
      /\ \A q \in Runs : q # r => index'[q] = index[q]
  <2>1. index' = [index EXCEPT ![r] = n]
    BY <1>1, <1>6 DEF Pause
  <2>2. QED
    BY <2>1 DEF TypeOK
<1>8. HistKept /\ StatusKept
  BY <1>4, <1>5 DEF HistKept, StatusKept
<1>9. TypeOK'
  BY <1>3, <1>4, <1>5, <1>7 DEF TypeOK, Changes
<1>10. \A d \in Execs : exec'[d] = exec[d] \/ d = e
  BY <1>3 DEF Changes
<1>11. exec'[e].run = r
  BY <1>1, <1>3 DEF Changes
<1>12. ExecInv'
  <2>1. e < nextExec
    BY <1>2, WasSent
  <2>2. nextExec' \in Nat /\ nextExec <= nextExec' /\ e < nextExec'
    BY <1>4, <2>1 DEF TypeOK
  <2>3. /\ Len(exec'[e].waves) <= Cardinality(Members)
        /\ exec'[e].pc \notin {"none", "wave"} /\ status'[exec'[e].run] # "none"
    BY <1>3, <1>5, <1>11 DEF ExecInv
  <2>4. \A q \in Runs : \/ status'[q] # "none"
                        \/ /\ index'[q] = index[q] /\ hist'[q] = hist[q]
    BY <1>4, <1>5, <1>7
  <2>5. QED
    BY <1>8, <1>10, <2>2, <2>3, <2>4, ExecKept
<1>13. ~hist[r].moved => exec[e].waves = Waves /\ members = Members
  BY <1>1, <1>2 DEF WavesInv, Working
<1>14. exec'[e].pc \in {"timer", "ending"}
  BY <1>3
<1>15. WavesInv'
  BY <1>4, <1>5, <1>8, <1>10, <1>13, <1>14, WavesKept DEF Working
<1>16. ProgressInv'
  <2>1. \A q \in Runs, m \in Members : Settled(q, m) => Settled(q, m)'
    BY <1>4 DEF Settled
  <2>2. \A m : Settled(r, m) => Settled(r, m)'
    BY <1>4 DEF Settled
  <2>3. ~hist'[r].moved => \A i \in DOMAIN Waves : i <= index'[r] =>
           \A m \in Waves[i] : Settled(r, m)'
    BY <1>1, <1>2, <1>4, <1>6, <1>7, <1>13, <2>2, WaveIsDone
  <2>4. \A d \in Execs : exec'[d].pc \in {"top", "wave"} => exec'[d] = exec[d]
    BY <1>10, <1>14
  <2>5. QED
    BY <1>4, <1>5, <1>7, <1>8, <2>1, <2>3, <2>4, ProgressKept
<1>17. SingleInv'
  <2>1. \A d \in Execs, q \in Runs : Engaged(d, q)' => Engaged(d, q)
    BY <1>1, <1>2, <1>10, <1>11 DEF Engaged, Working
  <2>2. Engaged(e, r) /\ (gate[r] # "timed_wait" => ~Engaged(e, r)')
    BY <1>1, <1>2, <1>3 DEF Engaged, Working
  <2>3. ASSUME NEW q \in Runs, q # r
        PROVE  status'[q] = status[q] /\ hist'[q] = hist[q] /\ gate'[q] = gate[q]
    BY <1>4, <1>5, <2>3
  <2>4. hist'[r] = hist[r] /\ gate'[r] = gate[r]
    BY <1>4
  <2>5. SUFFICES ASSUME NEW q \in Runs, ~hist'[q].redelivered,
                        ~(hist'[q].resumed /\ gate'[q] = "timed_wait")
                 PROVE  /\ \A c, d \in Execs : Engaged(c, q)' /\ Engaged(d, q)' => c = d
                        /\ status'[q] = "paused_gate" /\ gate'[q] # "timed_wait"
                             => \A d \in Execs : ~Engaged(d, q)'
    BY DEF SingleInv
  <2>6. /\ \A c, d \in Execs : Engaged(c, q) /\ Engaged(d, q) => c = d
        /\ status[q] = "paused_gate" /\ gate[q] # "timed_wait"
             => \A d \in Execs : ~Engaged(d, q)
    BY <1>4, <2>5 DEF SingleInv
  <2>7. QED
    BY <2>1, <2>2, <2>3, <2>4, <2>6
<1>18. ASSUME NEW q \in Runs, gate[q] # "timed_wait"
       PROVE  UntimedRun(q)'
  <2>1. UntimedRun(q)
    BY <1>18 DEF CancelInv
  <2>2. CASE q = r
    <3>1. /\ exec[e].kind = "run" /\ decision # "resolved" /\ ~hist[r].resumed
          /\ exec'[e].pc = "ending"
      BY <1>1, <1>2, <1>3, <1>18, <2>1, <2>2, ExecTypes DEF UntimedRun, Working
    <3>2. \A d \in Execs : d # e /\ exec'[d].run = r =>
            exec'[d] = exec[d] /\ exec[d].pc \in {"none", "sent", "done"}
      BY <1>1, <1>2, <1>10, <2>1, <2>2, Alone
    <3>3. \A d \in Execs : RunMessage(d, q)' => RunMessage(d, q)
      BY <1>1, <1>2, <1>10, <1>11, <2>2, <3>1 DEF RunMessage
    <3>4. \A c, d \in Execs : RunMessage(c, q)' /\ RunMessage(d, q)' => c = d
      BY <2>1, <3>3 DEF UntimedRun
    <3>5. \A d \in Execs : exec'[d].run = q =>
             /\ exec'[d].kind = "resume" => exec'[d].pc = "sent" /\ hist'[q].resumed
             /\ exec'[d].pc \notin {"timer", "loaded", "top", "wave"}
      BY <1>3, <1>4, <2>1, <2>2, <3>1, <3>2 DEF UntimedRun
    <3>6. status'[q] = "paused_gate" /\ hist'[q] = hist[q] /\ decision' = decision
      BY <1>4, <1>5, <2>2
    <3>7. QED
      BY <2>2, <3>1, <3>4, <3>5, <3>6 DEF UntimedRun, Working
  <2>3. CASE q # r
    <3>1. \A d \in Execs : exec'[d].run = q => exec'[d] = exec[d]
      BY <1>10, <1>11, <2>3
    <3>2. QED
      BY <1>4, <1>5, <2>1, <2>3, <3>1, OtherRunKept
  <2>4. QED
    BY <2>2, <2>3
<1>19. QED
  BY <1>4, <1>9, <1>12, <1>15, <1>16, <1>17, <1>18 DEF CancelInv

(* After the last wave, or without any wave, the run is completed. *)
LEMMA CompleteInv ==
  ASSUME FleetInv, NEW e \in Execs, Complete(e)
  PROVE  FleetInv'
<1> USE DEF FleetInv
<1>1. PICK r \in Runs : r = exec[e].run
  BY ExecTypes
<1>2. /\ exec[e].pc \in {"top", "wave"} /\ Goto(e, "ending")
      /\ \/ /\ exec[e].pc = "wave" /\ exec[e].todo = {}
            /\ exec[e].at + 1 = Len(exec[e].waves)
         \/ exec[e].pc = "top" /\ exec[e].at >= Len(exec[e].waves)
  BY DEF Complete, WaveDone, LastWave
<1>3. /\ Changes(e) /\ exec'[e].kind = exec[e].kind /\ exec'[e].pc = "ending"
      /\ exec'[e].waves = exec[e].waves /\ exec'[e].at = exec[e].at
  BY <1>2, Goes
<1>4. UNCHANGED <<index, gate, relabels, results, decision, members, bucket,
                  aged, unstable, changes, nextExec, faults, hist>>
  BY DEF Complete, fleet
<1>5. /\ status' \in [Runs -> RunStatuses] /\ status'[r] = "completed"
      /\ \A q \in Runs : q # r => status'[q] = status[q]
  BY <1>1 DEF Complete, TypeOK, RunStatuses
<1>6. HistKept /\ StatusKept
  BY <1>4, <1>5 DEF HistKept, StatusKept
<1>7. TypeOK'
  BY <1>3, <1>4, <1>5 DEF TypeOK, Changes
<1>8. \A d \in Execs : exec'[d] = exec[d] \/ d = e
  BY <1>3 DEF Changes
<1>9. exec'[e].run = r
  BY <1>1, <1>3 DEF Changes
<1>10. ExecInv'
  <2>1. e < nextExec
    BY <1>2, WasSent
  <2>2. nextExec' \in Nat /\ nextExec <= nextExec' /\ e < nextExec'
    BY <1>4, <2>1 DEF TypeOK
  <2>3. Len(exec'[e].waves) <= Cardinality(Members) /\ status'[exec'[e].run] # "none"
    BY <1>3, <1>5, <1>9 DEF ExecInv
  <2>4. QED
    BY <1>3, <1>4, <1>6, <1>8, <2>2, <2>3, ExecKept
<1>11. ~hist[r].moved => exec[e].waves = Waves /\ members = Members
  BY <1>1, <1>2 DEF WavesInv, Working
<1>12. WavesInv'
  BY <1>3, <1>4, <1>5, <1>6, <1>8, <1>11, WavesKept DEF Working
<1>13. ASSUME ~hist[r].moved
       PROVE  \A m \in Members : Settled(r, m)
  <2>1. \A i \in DOMAIN exec[e].waves : \A m \in exec[e].waves[i] : Settled(r, m)
    <3>1. \A i \in DOMAIN exec[e].waves : i \in Int /\ i <= Len(exec[e].waves)
      BY ExecTypes
    <3>2. Len(exec[e].waves) \in Nat /\ exec[e].at \in Nat
      BY ExecTypes
    <3>3. CASE exec[e].pc = "wave"
      <4>1. exec[e].todo = {} /\ exec[e].at + 1 = Len(exec[e].waves)
        BY <1>2, <3>3
      <4>2. \A i \in DOMAIN exec[e].waves : i <= exec[e].at + 1
        BY <3>1, <4>1
      <4>3. QED
        BY <1>1, <1>13, <3>3, <4>1, <4>2, WaveIsDone
    <3>4. CASE exec[e].pc = "top"
      <4>1. \A i \in DOMAIN exec[e].waves : i <= exec[e].at
        BY <1>2, <3>1, <3>2, <3>4
      <4>2. DoneUpTo(r, exec[e].waves, exec[e].at)
        BY <1>1, <1>13, <3>4 DEF ProgressInv
      <4>3. QED
        BY <4>1, <4>2 DEF DoneUpTo
    <3>5. QED
      BY <1>2, <3>3, <3>4
  <2>2. QED
    BY <1>11, <1>13, <2>1, WavesCover
<1>14. ProgressInv'
  <2>1. \A q \in Runs, m \in Members : Settled(q, m) => Settled(q, m)'
    BY <1>4 DEF Settled
  <2>2. \A d \in Execs : exec'[d].pc \in {"top", "wave"} => exec'[d] = exec[d]
    BY <1>3, <1>8
  <2>3. \A q \in Runs : ~hist'[q].moved /\ status'[q] = "completed" =>
             status[q] = "completed" \/ \A m \in Members : Settled(q, m)'
    BY <1>4, <1>5, <1>13, <2>1
  <2>4. QED
    BY <1>4, <1>6, <2>1, <2>2, <2>3, ProgressKept
<1>15. SingleInv'
  <2>1. \A d \in Execs, q \in Runs : Engaged(d, q)' => Engaged(d, q)
    BY <1>3, <1>8 DEF Engaged, Working
  <2>2. QED
    BY <1>4, <1>5, <1>6, <2>1, SingleKept
<1>16. ASSUME NEW q \in Runs, gate[q] # "timed_wait"
       PROVE  UntimedRun(q)'
  <2>1. UntimedRun(q)
    BY <1>16 DEF CancelInv
  <2>2. CASE q = r
    <3>1. exec[e].kind = "run"
      BY <1>1, <1>2, <2>1, <2>2, ExecTypes DEF UntimedRun
    <3>2. \A d \in Execs : exec'[d].run = q => exec'[d].pc \notin {"top", "wave"}
      <4>1. \A d \in Execs : d # e /\ exec'[d].run = r =>
              exec'[d] = exec[d] /\ exec[d].pc \in {"none", "sent", "done"}
        BY <1>1, <1>2, <1>8, <2>1, <2>2, Alone
      <4>2. QED
        BY <1>3, <2>2, <4>1
    <3>3. \A d \in Execs :
            \/ exec'[d] = exec[d]
            \/ /\ exec'[d].run = exec[d].run /\ exec'[d].kind = exec[d].kind
               /\ exec[d].pc \notin {"none", "done"}
               /\ exec'[d].kind = "run" /\ exec'[d].pc = "ending"
      BY <1>1, <1>2, <1>3, <1>8, <1>9, <3>1
    <3>4. QED
      BY <1>4, <1>5, <2>1, <2>2, <3>2, <3>3, CancelKept
  <2>3. CASE q # r
    <3>1. \A d \in Execs : exec'[d].run = q => exec'[d] = exec[d]
      BY <1>8, <1>9, <2>3
    <3>2. QED
      BY <1>4, <1>5, <2>1, <2>3, <3>1, OtherRunKept
  <2>4. QED
    BY <2>2, <2>3
<1>17. QED
  BY <1>4, <1>7, <1>10, <1>12, <1>14, <1>15, <1>16 DEF CancelInv


(* A timed gate sends its delayed message. *)
LEMMA SendTimerInv ==
  ASSUME FleetInv, NEW e \in Execs, SendTimer(e)
  PROVE  FleetInv'
<1> USE DEF FleetInv
<1>1. PICK r \in Runs : r = exec[e].run
  BY ExecTypes
<1>2. PICK x \in Execs :
        /\ Sends(x, r, "resume", "delayed") /\ x # e
        /\ \A d \in Execs : d \notin {e, x} => exec'[d] = exec[d]
        /\ exec'[e].run = r /\ exec'[e].kind = exec[e].kind
        /\ exec'[e].pc = "ending" /\ exec[e].pc = "timer"
        /\ exec'[e].waves = exec[e].waves
  BY <1>1, SendsTimer
<1>3. UNCHANGED <<status, index, gate, relabels, results, decision, members, bucket,
                  aged, unstable, changes, faults, hist>>
  BY DEF SendTimer, fleet, rows
<1>4. HistKept /\ StatusKept
  BY <1>3 DEF HistKept, StatusKept
<1>5. TypeOK'
  BY <1>2, <1>3 DEF TypeOK, Sends
<1>6. status[r] # "none" /\ e < nextExec
  BY <1>1, <1>2, WasSent
<1>7. exec'[x].run = r /\ exec'[x].pc = "delayed" /\ exec'[x].waves = <<>>
  BY <1>2 DEF Sends
<1>8. ExecInv'
  <2>1. /\ nextExec' \in Nat /\ nextExec <= nextExec' /\ x < nextExec' /\ e < nextExec'
    BY <1>2, <1>6, ExecTypes DEF Sends, TypeOK
  <2>2. /\ Len(exec'[e].waves) <= Cardinality(Members)
        /\ Len(exec'[x].waves) <= Cardinality(Members)
    BY <1>2, <1>7, UsedFinite DEF ExecInv
  <2>3. QED
    BY <1>2, <1>3, <1>4, <1>6, <1>7, <2>1, <2>2, ExecKept
<1>9. \A d \in Execs : exec'[d].pc \in Working => exec'[d] = exec[d]
  BY <1>2, <1>7 DEF Working
<1>10. WavesInv'
  BY <1>3, <1>4, <1>9, WavesKept
<1>11. ProgressInv'
  <2>1. \A q \in Runs, m \in Members : Settled(q, m) => Settled(q, m)'
    BY <1>3 DEF Settled
  <2>2. \A d \in Execs : exec'[d].pc \in {"top", "wave"} => exec'[d] = exec[d]
    BY <1>9 DEF Working
  <2>3. QED
    BY <1>3, <1>4, <2>1, <2>2, ProgressKept
<1>12. SingleInv'
  <2>1. \A d \in Execs, q \in Runs :
          Engaged(d, q)' => (Engaged(d, q) /\ d # e) \/ (d = x /\ q = r)
    BY <1>1, <1>2, <1>7 DEF Engaged, Working
  <2>2. Engaged(e, r)
    BY <1>1, <1>2 DEF Engaged
  <2>3. SUFFICES ASSUME NEW q \in Runs, ~hist'[q].redelivered,
                        ~(hist'[q].resumed /\ gate'[q] = "timed_wait")
                 PROVE  /\ \A c, d \in Execs : Engaged(c, q)' /\ Engaged(d, q)' => c = d
                        /\ status'[q] = "paused_gate" /\ gate'[q] # "timed_wait"
                             => \A d \in Execs : ~Engaged(d, q)'
    BY DEF SingleInv
  <2>4. /\ \A c, d \in Execs : Engaged(c, q) /\ Engaged(d, q) => c = d
        /\ status[q] = "paused_gate" /\ gate[q] # "timed_wait"
             => \A d \in Execs : ~Engaged(d, q)
    BY <1>3, <2>3 DEF SingleInv
  <2>5. QED
    BY <1>3, <2>1, <2>2, <2>4
<1>13. ASSUME NEW q \in Runs, gate[q] # "timed_wait"
       PROVE  UntimedRun(q)'
  <2>1. UntimedRun(q)
    BY <1>13 DEF CancelInv
  <2>2. q # r
    BY <1>1, <1>2, <2>1 DEF UntimedRun
  <2>3. \A d \in Execs : exec'[d].run = q => exec'[d] = exec[d]
    BY <1>2, <1>7, <2>2
  <2>4. QED
    BY <1>3, <2>1, <2>3, OtherRunKept
<1>14. QED
  BY <1>3, <1>5, <1>8, <1>10, <1>11, <1>12, <1>13 DEF CancelInv

(* The delayed message of a timed gate is delivered a second time. *)
LEMMA RedeliverInv ==
  ASSUME FleetInv, NEW e \in Execs, Redeliver(e)
  PROVE  FleetInv'
<1> USE DEF FleetInv
<1>1. PICK r \in Runs : r = exec[e].run
  BY ExecTypes
<1>2. exec[e].kind = "resume"
  BY DEF Redeliver
<1>3. /\ exec[e].pc = "delayed" /\ CanSend /\ Fault
      /\ exec' = Sent(r, "resume", "delayed") /\ nextExec' = nextExec + 1
      /\ Note(r, "redelivered")
      /\ UNCHANGED <<status, index, gate, relabels, results, decision, members, bucket,
                     aged, unstable, changes>>
  BY <1>1 DEF Redeliver, rows, fleet
<1>4. PICK x \in Execs : /\ Sends(x, r, "resume", "delayed")
                         /\ \A d \in Execs : d # x => exec'[d] = exec[d]
  BY <1>3, SendsOne
<1>5. /\ hist' \in [Runs -> HistRecords] /\ hist'[r].redelivered
      /\ \A q \in Runs : /\ hist'[q].moved = hist[q].moved
                         /\ q # r => hist'[q].redelivered = hist[q].redelivered
                         /\ hist'[q].resumed = hist[q].resumed
                         /\ hist'[q].cancelled = hist[q].cancelled
  BY <1>3, NotesRedelivered
<1>6. HistKept /\ StatusKept
  BY <1>3, <1>5 DEF HistKept, StatusKept
<1>7. TypeOK'
  <2>1. faults < MaxFaults /\ faults' = faults + 1
    BY <1>3 DEF Fault
  <2>2. faults' \in 0 .. MaxFaults
    BY <2>1, FleetAssumption DEF TypeOK
  <2>3. QED
    BY <1>3, <1>4, <1>5, <2>2 DEF TypeOK, Sends
<1>8. exec'[x].run = r /\ exec'[x].pc = "delayed" /\ exec'[x].waves = <<>>
  BY <1>4 DEF Sends
<1>9. ExecInv'
  <2>1. status[r] # "none"
    BY <1>1, <1>3, WasSent
  <2>2. nextExec' \in Nat /\ nextExec <= nextExec' /\ x < nextExec'
    BY <1>4, ExecTypes DEF Sends, TypeOK
  <2>3. Len(exec'[x].waves) <= Cardinality(Members)
    BY <1>8, UsedFinite
  <2>4. QED
    BY <1>3, <1>4, <1>5, <1>6, <1>8, <2>1, <2>2, <2>3, ExecKept
<1>10. \A d \in Execs : exec'[d].pc \in Working => exec'[d] = exec[d]
  BY <1>4, <1>8 DEF Working
<1>11. WavesInv'
  BY <1>3, <1>6, <1>10, WavesKept
<1>12. ProgressInv'
  <2>1. \A q \in Runs, m \in Members : Settled(q, m) => Settled(q, m)'
    BY <1>3 DEF Settled
  <2>2. \A d \in Execs : exec'[d].pc \in {"top", "wave"} => exec'[d] = exec[d]
    BY <1>10 DEF Working
  <2>3. QED
    BY <1>3, <1>6, <2>1, <2>2, ProgressKept
<1>13. SingleInv'
  <2>1. \A d \in Execs, q \in Runs : q # r /\ Engaged(d, q)' => Engaged(d, q)
    BY <1>4, <1>8 DEF Engaged
  <2>2. QED
    BY <1>3, <1>5, <2>1 DEF SingleInv
<1>14. ASSUME NEW q \in Runs, gate[q] # "timed_wait"
       PROVE  UntimedRun(q)'
  <2>1. UntimedRun(q)
    BY <1>14 DEF CancelInv
  <2>2. q # r
    BY <1>1, <1>2, <1>3, <2>1 DEF UntimedRun
  <2>3. \A d \in Execs : exec'[d].run = q => exec'[d] = exec[d]
    BY <1>4, <1>8, <2>2
  <2>4. QED
    BY <1>3, <1>5, <2>1, <2>2, <2>3, OtherRunKept
<1>15. QED
  BY <1>3, <1>7, <1>9, <1>11, <1>12, <1>13, <1>14 DEF CancelInv

(* A run is started, and its message sent or lost. *)
LEMMA StartInv ==
  ASSUME FleetInv, NEW r \in Runs, Start(r)
  PROVE  FleetInv'
<1> USE DEF FleetInv
<1>1. /\ status[r] = "none"
      /\ UNCHANGED <<index, results, decision, members, bucket, aged, unstable, changes>>
  BY DEF Start, fleet
<1>2. /\ status' \in [Runs -> RunStatuses] /\ status'[r] = "pending"
      /\ \A q \in Runs : q # r => status'[q] = status[q]
  BY DEF Start, TypeOK, RunStatuses
<1>3. /\ gate' \in [Runs -> {"manual", "health_stable", "timed_wait"}]
      /\ \A q \in Runs : q # r => gate'[q] = gate[q]
  <2>1. PICK g \in Gates : gate' = [gate EXCEPT ![r] = g]
    BY DEF Start
  <2>2. QED
    BY <2>1, FleetAssumption DEF TypeOK
<1>4. relabels' \in [Runs -> BOOLEAN]
  <2>1. PICK b \in BOOLEAN : relabels' = [relabels EXCEPT ![r] = b]
    BY DEF Start
  <2>2. QED
    BY <2>1 DEF TypeOK
<1>5. \/ /\ CanSend /\ exec' = Sent(r, "run", "sent") /\ nextExec' = nextExec + 1
         /\ UNCHANGED <<faults, hist>>
      \/ Fault /\ Note(r, "lost") /\ UNCHANGED <<exec, nextExec>>
  BY DEF Start
<1>6. /\ exec' \in [Execs -> ExecRecords]
      /\ \A d \in Execs : exec'[d].at <= Cardinality(Members)
      /\ nextExec' \in 1 .. MaxExecs + 1 /\ nextExec <= nextExec'
      /\ \A d \in Execs :
           \/ exec'[d] = exec[d]
           \/ /\ d = nextExec /\ d < nextExec' /\ exec'[d].run = r
              /\ exec'[d].kind = "run" /\ exec'[d].pc = "sent" /\ exec'[d].waves = <<>>
  <2>1. CASE CanSend /\ exec' = Sent(r, "run", "sent") /\ nextExec' = nextExec + 1
    <3>1. PICK x \in Execs : /\ Sends(x, r, "run", "sent")
                             /\ \A d \in Execs : d # x => exec'[d] = exec[d]
      BY <2>1, SendsOne
    <3>2. x = nextExec /\ x < nextExec' /\ nextExec <= nextExec'
      BY <3>1, ExecTypes DEF Sends, TypeOK
    <3>3. QED
      BY <3>1, <3>2 DEF Sends
  <2>2. CASE UNCHANGED <<exec, nextExec>>
    BY <2>2 DEF TypeOK
  <2>3. QED
    BY <1>5, <2>1, <2>2
<1>7. /\ hist' \in [Runs -> HistRecords]
      /\ \A q \in Runs : /\ hist'[q].moved = hist[q].moved
                         /\ hist'[q].redelivered = hist[q].redelivered
                         /\ hist'[q].resumed = hist[q].resumed
                         /\ hist'[q].cancelled = hist[q].cancelled
  <2>1. CASE hist' = hist
    BY <2>1 DEF TypeOK
  <2>2. CASE Note(r, "lost")
    BY <2>2, NotesLost
  <2>3. QED
    BY <1>5, <2>1, <2>2
<1>8. faults' \in 0 .. MaxFaults
  <2>1. faults' = faults \/ (faults < MaxFaults /\ faults' = faults + 1)
    BY <1>5 DEF Fault
  <2>2. QED
    BY <2>1, FleetAssumption DEF TypeOK
<1>9. HistKept /\ StatusKept
  BY <1>2, <1>7 DEF HistKept, StatusKept
<1>10. TypeOK'
  BY <1>1, <1>2, <1>3, <1>4, <1>6, <1>7, <1>8 DEF TypeOK
<1>11. ExecInv'
  <2>1. nextExec' \in Nat /\ Len(<<>>) <= Cardinality(Members)
    BY <1>6, UsedFinite
  <2>2. QED
    BY <1>1, <1>2, <1>6, <1>7, <1>9, <2>1, ExecKept
<1>12. \A d \in Execs : exec'[d].pc \in Working => exec'[d] = exec[d]
  BY <1>6 DEF Working
<1>13. WavesInv'
  BY <1>1, <1>2, <1>9, <1>12, WavesKept
<1>14. ProgressInv'
  <2>1. \A q \in Runs, m \in Members : Settled(q, m) => Settled(q, m)'
    BY <1>1 DEF Settled
  <2>2. \A d \in Execs : exec'[d].pc \in {"top", "wave"} => exec'[d] = exec[d]
    BY <1>12 DEF Working
  <2>3. QED
    BY <1>1, <1>2, <1>9, <2>1, <2>2, ProgressKept
<1>15. \A d \in Execs : exec[d].run = r => exec[d] = NoExec
  BY <1>1 DEF ExecInv
<1>16. SingleInv'
  <2>1. ASSUME NEW d \in Execs, NEW q \in Runs, q # r
        PROVE  Engaged(d, q)' => Engaged(d, q)
    BY <1>6, <2>1 DEF Engaged
  <2>2. \A d \in Execs : Engaged(d, r)' => d = nextExec
    BY <1>6, <1>15, NoExecFields DEF Engaged, Working
  <2>3. QED
    BY <1>2, <1>3, <1>7, <2>1, <2>2 DEF SingleInv
<1>17. ASSUME NEW q \in Runs, gate'[q] # "timed_wait"
       PROVE  UntimedRun(q)'
  <2>1. CASE q # r
    <3>1. UntimedRun(q)
      BY <1>3, <1>17, <2>1 DEF CancelInv
    <3>2. \A d \in Execs : exec'[d].run = q => exec'[d] = exec[d]
      BY <1>6, <2>1
    <3>3. QED
      BY <1>1, <1>2, <1>7, <2>1, <3>1, <3>2, OtherRunKept
  <2>2. CASE q = r
    <3>1. \A d \in Execs : exec'[d].run = r =>
            /\ exec'[d].kind = "run"
            /\ exec'[d].pc = "none" \/ (exec'[d].pc = "sent" /\ d = nextExec)
      BY <1>6, <1>15, NoExecFields
    <3>2. \A c, d \in Execs : RunMessage(c, q)' /\ RunMessage(d, q)' => c = d
      BY <2>2, <3>1 DEF RunMessage
    <3>3. ~hist'[r].resumed /\ ~hist'[r].cancelled
      BY <1>1, <1>7 DEF ExecInv
    <3>4. QED
      BY <1>2, <2>2, <3>1, <3>2, <3>3 DEF UntimedRun
  <2>3. QED
    BY <2>1, <2>2
<1>18. QED
  BY <1>10, <1>11, <1>13, <1>14, <1>16, <1>17 DEF CancelInv

(* An operator resumes a run at its gate. *)
LEMMA ResumeInv ==
  ASSUME FleetInv, NEW r \in Runs, ResumeRoute(r)
  PROVE  FleetInv'
<1> USE DEF FleetInv
<1>1. /\ status[r] = "paused_gate"
      /\ UNCHANGED <<index, gate, relabels, results, decision, members, bucket, aged,
                     unstable, changes>>
  BY DEF ResumeRoute, fleet
<1>2. /\ status' \in [Runs -> RunStatuses] /\ status'[r] = "running"
      /\ \A q \in Runs : q # r => status'[q] = status[q]
  BY DEF ResumeRoute, TypeOK, RunStatuses
<1>3. \/ /\ CanSend /\ exec' = Sent(r, "resume", "sent") /\ nextExec' = nextExec + 1
         /\ Note(r, "resumed") /\ UNCHANGED faults
      \/ /\ Fault /\ UNCHANGED <<exec, nextExec>>
         /\ hist' = [hist EXCEPT ![r].resumed = TRUE, ![r].lost = TRUE]
  BY DEF ResumeRoute
<1>4. /\ hist' \in [Runs -> HistRecords]
      /\ \A q \in Runs : /\ hist'[q].moved = hist[q].moved
                         /\ hist'[q].redelivered = hist[q].redelivered
                         /\ q # r => hist'[q].resumed = hist[q].resumed
                         /\ hist'[q].cancelled = hist[q].cancelled
      /\ hist'[r].resumed
  BY <1>3, NotesResumed, NotesUnsent
<1>5. HistKept /\ StatusKept
  BY <1>2, <1>4 DEF HistKept, StatusKept
<1>6. /\ exec' \in [Execs -> ExecRecords]
      /\ \A d \in Execs : exec'[d].at <= Cardinality(Members)
      /\ nextExec' \in 1 .. MaxExecs + 1 /\ nextExec <= nextExec'
      /\ \A d \in Execs :
           \/ exec'[d] = exec[d]
           \/ /\ d = nextExec /\ d < nextExec' /\ exec'[d].run = r
              /\ exec'[d].kind = "resume" /\ exec'[d].pc = "sent"
              /\ exec'[d].waves = <<>> /\ exec[d].pc = "none"
  <2>1. CASE CanSend /\ exec' = Sent(r, "resume", "sent") /\ nextExec' = nextExec + 1
    <3>1. PICK x \in Execs : /\ Sends(x, r, "resume", "sent")
                             /\ \A d \in Execs : d # x => exec'[d] = exec[d]
      BY <2>1, SendsOne
    <3>2. x = nextExec /\ x < nextExec' /\ nextExec <= nextExec'
      BY <3>1, ExecTypes DEF Sends, TypeOK
    <3>3. QED
      BY <3>1, <3>2, NoExecFields DEF Sends
  <2>2. CASE UNCHANGED <<exec, nextExec>>
    BY <2>2 DEF TypeOK
  <2>3. QED
    BY <1>3, <2>1, <2>2
<1>7. TypeOK'
  <2>1. faults' = faults \/ (faults < MaxFaults /\ faults' = faults + 1)
    BY <1>3 DEF Fault
  <2>2. faults' \in 0 .. MaxFaults
    BY <2>1, FleetAssumption DEF TypeOK
  <2>3. QED
    BY <1>1, <1>2, <1>4, <1>6, <2>2 DEF TypeOK
<1>8. ExecInv'
  <2>1. nextExec' \in Nat /\ Len(<<>>) <= Cardinality(Members)
    BY <1>6, UsedFinite
  <2>2. QED
    BY <1>1, <1>2, <1>4, <1>5, <1>6, <2>1, ExecKept
<1>9. \A d \in Execs : exec'[d].pc \in Working => exec'[d] = exec[d]
  BY <1>6 DEF Working
<1>10. WavesInv'
  BY <1>1, <1>2, <1>5, <1>9, WavesKept
<1>11. ProgressInv'
  <2>1. \A q \in Runs, m \in Members : Settled(q, m) => Settled(q, m)'
    BY <1>1 DEF Settled
  <2>2. \A d \in Execs : exec'[d].pc \in {"top", "wave"} => exec'[d] = exec[d]
    BY <1>9 DEF Working
  <2>3. QED
    BY <1>1, <1>2, <1>5, <2>1, <2>2, ProgressKept
<1>12. SingleInv'
  <2>1. \A d \in Execs, q \in Runs : Engaged(d, q)' => Engaged(d, q) \/ (d = nextExec /\ q = r)
    BY <1>6 DEF Engaged
  <2>2. SUFFICES ASSUME NEW q \in Runs, ~hist'[q].redelivered,
                        ~(hist'[q].resumed /\ gate'[q] = "timed_wait")
                 PROVE  /\ \A c, d \in Execs : Engaged(c, q)' /\ Engaged(d, q)' => c = d
                        /\ status'[q] = "paused_gate" /\ gate'[q] # "timed_wait"
                             => \A d \in Execs : ~Engaged(d, q)'
    BY DEF SingleInv
  <2>3. /\ \A c, d \in Execs : Engaged(c, q) /\ Engaged(d, q) => c = d
        /\ status[q] = "paused_gate" /\ gate[q] # "timed_wait"
             => \A d \in Execs : ~Engaged(d, q)
    BY <1>1, <1>5, <2>2 DEF SingleInv, HistKept
  <2>4. CASE q = r
    <3>1. gate[r] # "timed_wait"
      BY <1>1, <1>4, <2>2, <2>4
    <3>2. QED
      BY <1>1, <1>2, <2>1, <2>3, <2>4, <3>1
  <2>5. CASE q # r
    BY <1>1, <1>2, <2>1, <2>3, <2>5
  <2>6. QED
    BY <2>4, <2>5
<1>13. ASSUME NEW q \in Runs, gate[q] # "timed_wait"
       PROVE  UntimedRun(q)'
  <2>1. UntimedRun(q)
    BY <1>13 DEF CancelInv
  <2>2. CASE q # r
    <3>1. \A d \in Execs : exec'[d].run = q => exec'[d] = exec[d]
      BY <1>6, <2>2
    <3>2. QED
      BY <1>1, <1>2, <1>4, <2>1, <2>2, <3>1, OtherRunKept
  <2>3. CASE q = r
    <3>1. \A d \in Execs : exec'[d].run = r =>
            /\ exec'[d].kind = "resume" => exec'[d].pc = "sent"
            /\ exec'[d].pc \notin Working \cup {"timer"}
      BY <1>1, <1>6, <2>1, <2>3 DEF UntimedRun, Working
    <3>2. \A d \in Execs : RunMessage(d, q)' => RunMessage(d, q)
      BY <1>6 DEF RunMessage
    <3>3. \A c, d \in Execs : RunMessage(c, q)' /\ RunMessage(d, q)' => c = d
      BY <2>1, <3>2 DEF UntimedRun
    <3>4. decision' # "resolved"
      BY <1>1, <2>1, <2>3 DEF UntimedRun
    <3>5. QED
      BY <1>2, <1>4, <2>3, <3>1, <3>3, <3>4 DEF UntimedRun, Working
  <2>4. QED
    BY <2>2, <2>3
<1>14. QED
  BY <1>1, <1>7, <1>8, <1>10, <1>11, <1>12, <1>13 DEF CancelInv

(* An operator cancels a run. *)
LEMMA CancelRouteInv ==
  ASSUME FleetInv, NEW r \in Runs, Cancel(r)
  PROVE  FleetInv'
<1> USE DEF FleetInv
<1>1. UNCHANGED <<index, gate, relabels, results, decision, members, bucket, aged,
                  unstable, changes, faults, exec, nextExec>>
  BY DEF Cancel, fleet
<1>2. /\ status' \in [Runs -> RunStatuses] /\ status'[r] = "cancelled"
      /\ \A q \in Runs : q # r => status'[q] = status[q]
  BY DEF Cancel, TypeOK, RunStatuses
<1>3. PICK b \in BOOLEAN :
        b = ~\E e \in Execs : exec[e].run = r /\ exec[e].pc = "loaded"
  OBVIOUS
<1>4. /\ hist' \in [Runs -> HistRecords]
      /\ \A q \in Runs : /\ hist'[q].moved = hist[q].moved
                         /\ hist'[q].redelivered = hist[q].redelivered
                         /\ hist'[q].resumed = hist[q].resumed
                         /\ q # r => hist'[q].cancelled = hist[q].cancelled
      /\ hist'[r].cancelled = b
  <2>1. hist' = [hist EXCEPT ![r].cancelled = b]
    BY <1>3 DEF Cancel
  <2>2. QED
    BY <2>1, NotesCancelled
<1>5. HistKept /\ StatusKept
  BY <1>2, <1>4 DEF HistKept, StatusKept
<1>6. TypeOK'
  BY <1>1, <1>2, <1>4 DEF TypeOK
<1>7. ExecInv'
  <2>1. nextExec' \in Nat /\ nextExec <= nextExec'
    BY <1>1 DEF TypeOK
  <2>2. QED
    BY <1>1, <1>2, <1>4, <1>5, <2>1, ExecKept
<1>8. WavesInv'
  BY <1>1, <1>2, <1>5, WavesKept
<1>9. ProgressInv'
  <2>1. \A q \in Runs, m \in Members : Settled(q, m) => Settled(q, m)'
    BY <1>1 DEF Settled
  <2>2. QED
    BY <1>1, <1>2, <1>5, <2>1, ProgressKept
<1>10. SingleInv'
  <2>1. \A d \in Execs, q \in Runs : Engaged(d, q)' => Engaged(d, q)
    BY <1>1 DEF Engaged
  <2>2. QED
    BY <1>1, <1>2, <1>5, <2>1, SingleKept
<1>11. ASSUME NEW q \in Runs, gate[q] # "timed_wait"
       PROVE  UntimedRun(q)'
  <2>1. UntimedRun(q)
    BY <1>11 DEF CancelInv
  <2>2. CASE q # r
    BY <1>1, <1>2, <1>4, <2>1, <2>2, OtherRunKept
  <2>3. CASE q = r
    <3>1. \A c, d \in Execs : RunMessage(c, q)' /\ RunMessage(d, q)' => c = d
      BY <1>1, <2>1 DEF UntimedRun, RunMessage
    <3>2. hist'[r].cancelled => \A d \in Execs : exec[d].run = r => exec[d].pc # "loaded"
      BY <1>3, <1>4
    <3>3. QED
      BY <1>1, <1>2, <1>4, <2>1, <2>3, <3>1, <3>2 DEF UntimedRun
  <2>4. QED
    BY <2>2, <2>3
<1>12. QED
  BY <1>1, <1>6, <1>7, <1>8, <1>9, <1>10, <1>11 DEF CancelInv


(* Init states of the program have the invariant. *)
LEMMA InitInv ==
  ASSUME Init
  PROVE  FleetInv
<1>1. /\ status = [r \in Runs |-> "none"] /\ index = [r \in Runs |-> 0]
      /\ exec = [e \in Execs |-> NoExec] /\ hist = [r \in Runs |-> NoHist]
      /\ nextExec = 1 /\ faults = 0 /\ changes = 0
  BY DEF Init
<1>2. NoHist \in HistRecords /\ ~NoHist.resumed /\ ~NoHist.cancelled
  BY DEF NoHist, HistRecords
<1>3. Cardinality(Members) \in Nat
  BY FleetAssumption, FS_CardinalityType
<1>4. exec \in [Execs -> ExecRecords] /\ \A e \in Execs : exec[e] = NoExec
  BY <1>1, NoExecFields
<1>5. TypeOK
  <2>1. /\ status \in [Runs -> RunStatuses]
        /\ gate \in [Runs -> {"manual", "health_stable", "timed_wait"}]
        /\ relabels \in [Runs -> BOOLEAN]
        /\ results \in [Runs -> [Members -> Results]]
        /\ decision \in {"resolved", "consumed", "superseded"}
        /\ members \subseteq Members /\ unstable \subseteq Members
        /\ bucket \in [Members -> Buckets]
    BY FleetAssumption DEF Init, RunStatuses, Results
  <2>2. aged \in BOOLEAN
    BY DEF Init
  <2>3. index \in [Runs -> 0 .. Cardinality(Members)]
    BY <1>1, <1>3
  <2>4. /\ nextExec \in 1 .. MaxExecs + 1 /\ faults \in 0 .. MaxFaults
        /\ changes \in 0 .. MaxChanges
    BY <1>1, FleetAssumption
  <2>5. hist \in [Runs -> HistRecords]
    BY <1>1, <1>2
  <2>6. \A e \in Execs : exec[e].at <= Cardinality(Members)
    BY <1>3, <1>4, NoExecFields
  <2>7. QED
    BY <1>4, <2>1, <2>2, <2>3, <2>4, <2>5, <2>6 DEF TypeOK
<1>6. /\ \A e \in Execs : exec[e].pc = "none" /\ exec[e].kind = "run" /\ exec[e].waves = <<>>
      /\ \A r \in Runs : /\ status[r] = "none" /\ index[r] = 0
                         /\ ~hist[r].resumed /\ ~hist[r].cancelled
  BY <1>1, <1>2, <1>4, NoExecFields
<1>7. ExecInv
  BY <1>3, <1>4, <1>6 DEF ExecInv
<1>8. WavesInv
  BY <1>6 DEF WavesInv, Working
<1>9. ProgressInv
  <2>1. \A i \in DOMAIN Waves : i > 0
    BY DEF Waves
  <2>2. \A r \in Runs : \A i \in DOMAIN Waves : ~(i <= index[r])
    BY <1>6, <2>1 DEF Waves
  <2>3. QED
    BY <1>6, <2>2 DEF ProgressInv, DoneUpTo
<1>10. SingleInv
  BY <1>6 DEF SingleInv, Engaged, Working
<1>11. CancelInv
  BY <1>6 DEF CancelInv, UntimedRun, RunMessage, Working
<1>12. QED
  BY <1>5, <1>7, <1>8, <1>9, <1>10, <1>11 DEF FleetInv

(* Requests, steps of executors, faults, and changes of the inventory. *)
LEMMA StepInv ==
  ASSUME FleetInv, [Next]_vars
  PROVE  FleetInv'
<1>1. ASSUME NEW r \in Runs, Start(r) \/ ResumeRoute(r) \/ Cancel(r)
      PROVE  FleetInv'
  BY <1>1, StartInv, ResumeInv, CancelRouteInv
<1>2. ASSUME Supersede
      PROVE  FleetInv'
  BY <1>2, OutsideInv DEF Supersede, fleet, FleetInv, TypeOK
<1>3. ASSUME NEW e \in Execs, Executor(e)
      PROVE  FleetInv'
  <2>1. CASE Elapse(e)
    <3>1. /\ exec[e].pc = "delayed" /\ Goto(e, "sent")
          /\ UNCHANGED <<rows, fleet, nextExec, faults, hist>>
      BY <2>1 DEF Elapse
    <3>2. TypeOK
      BY DEF FleetInv
    <3>3. /\ Changes(e) /\ exec'[e].kind = exec[e].kind /\ exec'[e].pc = "sent"
          /\ exec'[e].waves = exec[e].waves
      BY <3>1, <3>2, Goes
    <3>4. hist' \in [Runs -> HistRecords] /\ faults' \in 0 .. MaxFaults
      BY <3>1, <3>2 DEF TypeOK
    <3>5. QED
      BY <3>1, <3>3, <3>4, SentAgainInv
  <2>2. CASE Load(e)
    BY <2>2, LoadInv
  <2>3. CASE Refuse(e) \/ StopCancelled(e) \/ Ack(e)
    <3>1. /\ exec[e].pc # "none" /\ exec' = Ended(e)
          /\ UNCHANGED <<rows, fleet, nextExec, faults, hist>>
      BY <2>3 DEF Refuse, StopCancelled, Ack
    <3>2. UNCHANGED <<status, index, gate, relabels, results, decision>>
      BY <3>1 DEF rows
    <3>3. hist' \in [Runs -> HistRecords] /\ faults' \in 0 .. MaxFaults
      BY <3>1 DEF FleetInv, TypeOK
    <3>4. QED
      BY <3>1, <3>2, <3>3, EndedInv
  <2>4. CASE FailStale(e)
    <3>1. /\ exec[e].pc = "stale" /\ exec' = Ended(e)
          /\ status' = [status EXCEPT ![exec[e].run] = "failed"]
          /\ UNCHANGED <<index, gate, relabels, results, decision, fleet, nextExec,
                         faults, hist>>
      BY <2>4 DEF FailStale
    <3>2. hist' \in [Runs -> HistRecords] /\ faults' \in 0 .. MaxFaults
      BY <3>1 DEF FleetInv, TypeOK
    <3>3. QED
      BY <3>1, <3>2, EndedInv
  <2>5. CASE Begin(e)
    BY <2>5, BeginInv
  <2>6. CASE StartWave(e)
    BY <2>6, StartWaveInv
  <2>7. CASE \E m \in Members : Act(e, m)
    BY <2>7, ActInv
  <2>8. CASE PassGate(e)
    BY <2>8, PassGateInv
  <2>9. CASE Pause(e)
    BY <2>9, PauseInv
  <2>10. CASE SendTimer(e)
    BY <2>10, SendTimerInv
  <2>11. CASE Complete(e)
    BY <2>11, CompleteInv
  <2>12. CASE WavePruned(e)
    BY <2>12, WavePrunedInv
  <2>13. QED
    BY <1>3, <2>1, <2>2, <2>3, <2>4, <2>5, <2>6, <2>7, <2>8, <2>9, <2>10, <2>11, <2>12
       DEF Executor
<1>4. ASSUME NEW e \in Execs, Raise(e)
      PROVE  FleetInv'
  <2>1. /\ Fault /\ exec' = Ended(e)
        /\ \/ /\ exec[e].pc \in {"top", "wave", "timer"}
              /\ status' = [status EXCEPT ![exec[e].run] = "failed"]
              /\ UNCHANGED hist
           \/ /\ exec[e].pc \in {"loaded", "stale", "top", "wave", "timer"}
              /\ Note(exec[e].run, "lost") /\ UNCHANGED status
        /\ UNCHANGED <<index, gate, relabels, results, decision, fleet, nextExec>>
    BY <1>4 DEF Raise
  <2>2. TypeOK
    BY DEF FleetInv
  <2>3. faults' \in 0 .. MaxFaults
    <3>1. faults < MaxFaults /\ faults' = faults + 1
      BY <2>1 DEF Fault
    <3>2. QED
      BY <2>2, <3>1, FleetAssumption DEF TypeOK
  <2>4. /\ hist' \in [Runs -> HistRecords]
        /\ \A q \in Runs : /\ hist'[q].moved = hist[q].moved
                           /\ hist'[q].redelivered = hist[q].redelivered
                           /\ hist'[q].resumed = hist[q].resumed
                           /\ hist'[q].cancelled = hist[q].cancelled
    <3>1. CASE UNCHANGED hist
      BY <2>2, <3>1 DEF TypeOK
    <3>2. CASE Note(exec[e].run, "lost")
      BY <2>2, <3>2, ExecTypes, NotesLost
    <3>3. QED
      BY <2>1, <3>1, <3>2
  <2>5. /\ exec[e].pc # "none" /\ exec' = Ended(e)
        /\ \/ status' = status
           \/ /\ exec[e].pc \in {"stale", "top", "wave", "timer"}
              /\ status' = [status EXCEPT ![exec[e].run] = "failed"]
        /\ UNCHANGED <<index, gate, relabels, results, decision, fleet, nextExec>>
    BY <2>1
  <2>6. QED
    BY <2>3, <2>4, <2>5, EndedInv
<1>5. ASSUME NEW e \in Execs, Crash(e)
      PROVE  FleetInv'
  <2>1. /\ exec[e].pc \notin {"none", "delayed", "sent", "done"} /\ Fault
        /\ exec' = [exec EXCEPT ![e] = MessageOf(exec[e].run, exec[e].kind, "sent")]
        /\ Note(exec[e].run, "redelivered")
        /\ UNCHANGED <<rows, fleet, nextExec>>
    BY <1>5 DEF Crash, MessageOf
  <2>2. TypeOK
    BY DEF FleetInv
  <2>3. faults' \in 0 .. MaxFaults
    <3>1. faults < MaxFaults /\ faults' = faults + 1
      BY <2>1 DEF Fault
    <3>2. QED
      BY <2>2, <3>1, FleetAssumption DEF TypeOK
  <2>4. /\ Changes(e) /\ exec'[e].kind = exec[e].kind /\ exec'[e].pc = "sent"
        /\ exec'[e].waves = <<>>
    BY <2>1, <2>2, Redelivers
  <2>5. PICK r \in Runs : r = exec[e].run
    BY <2>2, ExecTypes
  <2>6. /\ hist' \in [Runs -> HistRecords] /\ hist'[r].redelivered
        /\ \A q \in Runs : /\ hist'[q].moved = hist[q].moved
                           /\ hist[q].redelivered => hist'[q].redelivered
                           /\ hist'[q].resumed = hist[q].resumed
                           /\ hist'[q].cancelled = hist[q].cancelled
    BY <2>1, <2>2, <2>5, NotesRedelivered
  <2>7. QED
    BY <2>1, <2>3, <2>4, <2>5, <2>6, SentAgainInv
<1>6. Change => changes' \in 0 .. MaxChanges
  <2>1. ASSUME changes < MaxChanges, changes' = changes + 1
        PROVE  changes' \in 0 .. MaxChanges
    BY <2>1, FleetAssumption DEF FleetInv, TypeOK
  <2>2. QED
    BY <2>1 DEF Change
<1>7. ASSUME Age
      PROVE  FleetInv'
  <2>1. /\ UNCHANGED <<rows, members, bucket, unstable, exec, nextExec, faults, hist>>
        /\ Change
    BY <1>7 DEF Age
  <2>2. UNCHANGED <<status, index, gate, relabels, results, decision>>
    BY <2>1 DEF rows
  <2>3. aged' \in BOOLEAN
    BY <1>7 DEF Age
  <2>4. unstable' \subseteq Members
    BY <2>1 DEF FleetInv, TypeOK
  <2>5. QED
    BY <1>6, <2>1, <2>2, <2>3, <2>4, OutsideInv
<1>8. ASSUME NEW m \in Members, Prune(m)
      PROVE  FleetInv'
  <2>1. /\ members' \subseteq Members /\ bucket' \in [Members -> Buckets]
        /\ changes' \in 0 .. MaxChanges
    BY <1>6, <1>8 DEF Prune, FleetInv, TypeOK
  <2>2. /\ NoteMoved
        /\ UNCHANGED <<rows, aged, unstable, exec, nextExec, faults>>
    BY <1>8 DEF Prune
  <2>3. QED
    BY <2>1, <2>2, MovedInv
<1>9. ASSUME NEW m \in Members, Move(m)
      PROVE  FleetInv'
  <2>1. PICK b \in Buckets : bucket' = [bucket EXCEPT ![m] = b]
    BY <1>9 DEF Move
  <2>2. /\ NoteMoved /\ Change
        /\ UNCHANGED <<rows, aged, members, unstable, exec, nextExec, faults>>
    BY <1>9 DEF Move
  <2>3. /\ members' \subseteq Members /\ bucket' \in [Members -> Buckets]
        /\ changes' \in 0 .. MaxChanges
    BY <1>6, <2>1, <2>2 DEF FleetInv, TypeOK
  <2>4. QED
    BY <2>2, <2>3, MovedInv
<1>10. ASSUME NEW m \in Members, Sicken(m)
       PROVE  FleetInv'
  <2>1. /\ UNCHANGED <<rows, aged, members, bucket, exec, nextExec, faults, hist>>
        /\ Change /\ unstable' = unstable \cup {m}
    BY <1>10 DEF Sicken
  <2>2. UNCHANGED <<status, index, gate, relabels, results, decision>>
    BY <2>1 DEF rows
  <2>3. aged' \in BOOLEAN
    BY <2>1 DEF FleetInv, TypeOK
  <2>4. unstable' \subseteq Members
    BY <2>1 DEF FleetInv, TypeOK
  <2>5. QED
    BY <1>6, <2>1, <2>2, <2>3, <2>4, OutsideInv
<1>11. ASSUME UNCHANGED vars
       PROVE  FleetInv'
  <2>1. /\ UNCHANGED <<status, index, gate, relabels, results, decision, members,
                       bucket, exec, nextExec, faults, hist>>
        /\ UNCHANGED <<aged, unstable, changes>>
    BY <1>11 DEF vars, rows, fleet
  <2>2. /\ aged' \in BOOLEAN /\ unstable' \subseteq Members
        /\ changes' \in 0 .. MaxChanges
    BY <2>1 DEF FleetInv, TypeOK
  <2>3. QED
    BY <2>1, <2>2, OutsideInv
<1>12. ASSUME NEW e \in Execs, Redeliver(e)
       PROVE  FleetInv'
  BY <1>12, RedeliverInv
<1>13. QED
  BY <1>1, <1>2, <1>3, <1>4, <1>5, <1>7, <1>8, <1>9, <1>10, <1>11, <1>12 DEF Next

-----------------------------------------------------------------------------
(* The theorems *)

(* FleetInv holds of every behaviour, whatever the fleet, the number of   *)
(* runs and messages and the faults (services/fleet_bulkop_service.py).   *)
THEOREM FleetInvariant == Spec => []FleetInv
<1>1. Init => FleetInv
  BY InitInv
<1>2. FleetInv /\ [Next]_vars => FleetInv'
  BY StepInv
<1>3. QED
  BY <1>1, <1>2, PTL DEF Spec

(* The rows, messages and executors stay in their types. *)
THEOREM TypeCorrect == Spec => []TypeOK
<1>1. FleetInv => TypeOK
  BY DEF FleetInv
<1>2. QED
  BY <1>1, FleetInvariant, PTL

(* No executor, resumed, redelivered or racing with another one, acts on  *)
(* a wave while an earlier one has members without a result.              *)
THEOREM WavesInOrderSafety == Spec => []WavesInOrder
<1>1. FleetInv => WavesInOrder
  <2>1. SUFFICES ASSUME FleetInv, NEW e \in Execs, exec[e].pc = "wave",
                        ~hist[exec[e].run].moved, NEW i \in 1 .. exec[e].at,
                        NEW m \in exec[e].waves[i]
                 PROVE  Settled(exec[e].run, m)
    BY DEF WavesInOrder
  <2>2. /\ exec[e].run \in Runs /\ exec[e].at \in Nat
        /\ exec[e].waves \in Seq(SUBSET Members) /\ exec[e].at < Len(exec[e].waves)
    BY <2>1, ExecTypes DEF FleetInv, ExecInv
  <2>3. i \in DOMAIN exec[e].waves /\ i <= exec[e].at
    BY <2>2
  <2>4. DoneUpTo(exec[e].run, exec[e].waves, exec[e].at)
    BY <2>1, <2>2 DEF FleetInv, ProgressInv
  <2>5. QED
    BY <2>3, <2>4 DEF DoneUpTo
<1>2. QED
  BY <1>1, FleetInvariant, PTL

(* The status guards are as good as a lock, but for redelivery and for a  *)
(* hand on a timed gate.                                                  *)
THEOREM OneExecutorSafety == Spec => []OneExecutor
<1>1. FleetInv => OneExecutor
  <2>1. \A e \in Execs, r \in Runs : Acting(e, r) => Engaged(e, r)
    BY DEF Acting, Engaged, Working
  <2>2. QED
    BY <2>1 DEF FleetInv, SingleInv, OneExecutor
<1>2. QED
  BY <1>1, FleetInvariant, PTL

(* Completed means that every member of the decision has its result. *)
THEOREM CompletedCoversSafety == Spec => []CompletedCovers
<1>1. FleetInv => CompletedCovers
  BY DEF FleetInv, ProgressInv, CompletedCovers
<1>2. QED
  BY <1>1, FleetInvariant, PTL

(* Only the top of the loop starts a wave, and it has looked at the status. *)
LEMMA OnlyStartWave ==
  ASSUME FleetInv, [Next]_vars, NEW e \in Execs, exec[e].pc = "top", exec'[e].pc = "wave"
  PROVE  status[exec[e].run] # "cancelled"
<1> USE DEF FleetInv
<1>1. CASE \E r \in Runs : Start(r) \/ ResumeRoute(r) \/ Cancel(r)
  <2>1. PICK r \in Runs : Start(r) \/ ResumeRoute(r) \/ Cancel(r)
    BY <1>1
  <2>2. \/ UNCHANGED exec
        \/ \E k \in {"run", "resume"} : CanSend /\ exec' = Sent(r, k, "sent")
                                          /\ nextExec' = nextExec + 1
    BY <2>1 DEF Start, ResumeRoute, Cancel
  <2>3. ASSUME NEW k \in {"run", "resume"}, CanSend, exec' = Sent(r, k, "sent"),
               nextExec' = nextExec + 1
        PROVE  exec'[e] = exec[e] \/ exec'[e].pc = "sent"
    BY <2>3, SendsOne DEF Sends
  <2>4. QED
    BY <2>2, <2>3
<1>2. CASE Supersede \/ Age \/ (\E m \in Members : Prune(m) \/ Move(m) \/ Sicken(m))
           \/ UNCHANGED vars
  <2>1. exec' = exec
    BY <1>2 DEF Supersede, Age, Prune, Move, Sicken, vars
  <2>2. QED
    BY <2>1
<1>3. ASSUME NEW d \in Execs, Executor(d) \/ Raise(d) \/ Crash(d) \/ Redeliver(d)
      PROVE  status[exec[e].run] # "cancelled"
  <2>1. CASE StartWave(d)
    <3>1. Changes(d)
      BY <2>1, StartsWave
    <3>2. d = e
      BY <3>1 DEF Changes
    <3>3. QED
      BY <2>1, <3>2 DEF StartWave, CancelSeen
  <2>2. CASE Elapse(d) \/ Pause(d) \/ Complete(d)
    <3>1. PICK pc \in {"sent", "timer", "ending"} : Goto(d, pc)
      BY <2>2 DEF Elapse, Pause, Complete
    <3>2. Changes(d) /\ exec'[d].pc = pc
      BY <3>1, Goes
    <3>3. QED
      BY <3>1, <3>2 DEF Changes
  <2>3. CASE exec' = Ended(d)
    <3>1. Changes(d) /\ exec'[d].pc = "done"
      BY <2>3, Ends
    <3>2. QED
      BY <3>1 DEF Changes
  <2>4. CASE Load(d)
    <3>1. Changes(d) /\ exec'[d].pc \in {"stale", "loaded"}
      BY <2>4, Loads
    <3>2. QED
      BY <3>1 DEF Changes
  <2>5. CASE Begin(d)
    <3>1. Changes(d) /\ exec'[d].pc = "top"
      BY <2>5, Begins
    <3>2. QED
      BY <3>1 DEF Changes
  <2>6. CASE \E m \in Members : Act(d, m)
    <3>1. Changes(d) /\ exec[d].pc = "wave"
      BY <2>6, Acts
    <3>2. QED
      BY <3>1 DEF Changes
  <2>7. CASE PassGate(d)
    <3>1. Changes(d) /\ exec'[d].pc = "top"
      BY <2>7, PassesGate
    <3>2. QED
      BY <3>1 DEF Changes
  <2>8. CASE SendTimer(d)
    <3>1. PICK x \in Execs :
            /\ Sends(x, exec[d].run, "resume", "delayed")
            /\ \A c \in Execs : c \notin {d, x} => exec'[c] = exec[c]
            /\ exec'[d].pc = "ending"
      BY <2>8, SendsTimer
    <3>2. QED
      BY <3>1 DEF Sends
  <2>9. CASE Crash(d)
    <3>1. exec' = [exec EXCEPT ![d] = MessageOf(exec[d].run, exec[d].kind, "sent")]
      BY <2>9 DEF Crash, MessageOf
    <3>2. Changes(d) /\ exec'[d].pc = "sent"
      BY <3>1, Redelivers
    <3>3. QED
      BY <3>2 DEF Changes
  <2>10. CASE Refuse(d) \/ FailStale(d) \/ WavePruned(d) \/ StopCancelled(d) \/ Ack(d)
              \/ Raise(d)
    <3>1. exec' = Ended(d)
      BY <2>10 DEF Refuse, FailStale, WavePruned, StopCancelled, Ack, Raise
    <3>2. QED
      BY <2>3, <3>1
  <2>11. CASE Redeliver(d)
    <3>1. PICK x \in Execs : /\ Sends(x, exec[d].run, "resume", "delayed")
                             /\ \A c \in Execs : c # x => exec'[c] = exec[c]
      BY <2>11, ExecTypes, SendsOne DEF Redeliver
    <3>2. QED
      BY <3>1 DEF Sends
  <2>12. QED
    BY <1>3, <2>1, <2>2, <2>4, <2>5, <2>6, <2>7, <2>8, <2>9, <2>10, <2>11 DEF Executor
<1>4. QED
  BY <1>1, <1>2, <1>3 DEF Next

(* A cancellation that no executor was too early to see stops the run. *)
THEOREM CancelStopsSafety == Spec => CancelStops
<1>1. FleetInv /\ [Next]_vars =>
        [\A r \in Runs : hist[r].cancelled /\ gate[r] # "timed_wait" => ~WaveStarts(r)]_vars
  <2>1. SUFFICES ASSUME FleetInv, [Next]_vars, NEW r \in Runs, hist[r].cancelled,
                        gate[r] # "timed_wait", NEW e \in Execs, exec[e].run = r,
                        exec[e].pc = "top", exec'[e].pc = "wave"
                 PROVE  FALSE
    BY DEF WaveStarts
  <2>2. status[r] # "cancelled"
    BY <2>1, OnlyStartWave
  <2>3. status[r] = "cancelled"
    BY <2>1 DEF FleetInv, CancelInv, UntimedRun
  <2>4. QED
    BY <2>2, <2>3
<1>2. QED
  BY <1>1, FleetInvariant, PTL DEF Spec, CancelStops

=============================================================================
