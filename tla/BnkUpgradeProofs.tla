--------------------------- MODULE BnkUpgradeProofs ---------------------------
(***************************************************************************)
(* Proofs about BnkUpgrade, for every number of upgrades, steps, messages  *)
(* and faults.                                                             *)
(***************************************************************************)
EXTENDS BnkUpgrade, TLAPS

(* What requests own is spelled out everywhere. *)
USE DEF requests

(* The record of a message that was not sent. *)
LEMMA NoExecFields ==
  /\ NoExec \in ExecRecords /\ NoExec.pc = "none" /\ NoExec.kind = "execute"
  /\ NoExec.fence = 0 /\ NoExec.at = 0 /\ NoExec.u \in Upgrades
  BY UpgradeAssumption DEF NoExec, ExecRecords, Locked

(* What the type invariant says of a task and of an upgrade. *)
LEMMA ExecTypes ==
  ASSUME TypeOK, NEW e \in Execs
  PROVE  /\ exec[e].u \in Upgrades /\ exec[e].kind \in {"execute", "rollback"}
         /\ exec[e].pc \in Locked \cup Handlers \cup {"none", "sent", "done"}
         /\ exec[e].fence \in Nat /\ exec[e].fence <= fence[exec[e].u]
         /\ exec[e].at \in Nat /\ exec[e].at \in 0 .. Steps
         /\ e \in Nat /\ e > 0 /\ e <= MaxExecs
  BY UpgradeAssumption DEF TypeOK, ExecRecords, Execs

(* What the type invariant says of an upgrade row and its history. *)
LEMMA UpgradeTypes ==
  ASSUME TypeOK, NEW u \in Upgrades
  PROVE  /\ status[u] \in Statuses /\ step[u] \in Nat /\ step[u] <= Steps
         /\ fence[u] \in Nat /\ target[u] \in Nat /\ target[u] <= Len(revs)
         /\ hist[u].from \in Nat /\ hist[u].from > 0 /\ hist[u].from <= Len(revs)
         /\ hist[u].done \subseteq 1 .. Steps /\ hist[u].cut \subseteq 1 .. Steps
         /\ Len(revs) \in Nat /\ Steps \in Nat /\ HelmStep \in Nat /\ HelmStep > 0
         /\ HelmStep <= Steps
  BY UpgradeAssumption DEF TypeOK, HistRecords

(* A task that does something was sent. *)
LEMMA WasSent ==
  ASSUME TypeOK, MessageInv, NEW e \in Execs, exec[e].pc # "none"
  PROVE  e < nextExec
<1>1. ~(e >= nextExec)
  BY NoExecFields DEF MessageInv
<1>2. e \in Nat /\ nextExec \in Nat
  BY ExecTypes DEF TypeOK
<1>3. QED
  BY <1>1, <1>2

(* One task at a time has the current token of an upgrade. *)
LEMMA OneHolder ==
  ASSUME FenceInv, NEW d \in Execs, NEW e \in Execs, Holds(d), Holds(e),
         exec[d].u = exec[e].u
  PROVE  d = e
  BY DEF FenceInv, Holds, Fenced

-----------------------------------------------------------------------------
(* What a step that changes little preserves *)

(* Only task e changes, and stays a task of its upgrade. *)
Changes(e) ==
  /\ exec' \in [Execs -> ExecRecords]
  /\ \A d \in Execs : d # e => exec'[d] = exec[d]

(* Rows only go forward. *)
RowsKept ==
  \A u \in Upgrades :
    /\ (status[u] = "none") = (status'[u] = "none")
    /\ target[u] # 0 => target'[u] # 0
    /\ step[u] <= step'[u] /\ step'[u] \in Nat
    /\ status'[u] = "none" => target'[u] = target[u] /\ step'[u] = step[u]

(* History is not forgotten, and tasks do not see how rows were planned. *)
HistKept ==
  \A u \in Upgrades : /\ Flagged(u) => Flagged(u)'
                      /\ hist[u].done \subseteq hist'[u].done
                      /\ hist[u].cut \subseteq hist'[u].cut
                      /\ hist'[u].beside = hist[u].beside

(* What tasks are about is kept when each of them stays, ends, or is about a
   planned upgrade. *)
LEMMA MessageKept ==
  ASSUME TypeOK, MessageInv, PlanningInv, RowsKept, UNCHANGED <<planning, old>>,
         nextExec' \in Nat, nextExec <= nextExec',
         \A e \in Execs :
           \/ exec'[e] = exec[e]
           \/ e < nextExec' /\ exec'[e].pc = "done"
           \/ /\ e < nextExec' /\ exec'[e].pc # "none"
              /\ status'[exec'[e].u] # "none"
              /\ exec'[e].kind = "rollback" => target'[exec'[e].u] # 0
              /\ exec'[e].pc \in ExecutePCs => exec'[e].kind = "execute"
              /\ exec'[e].pc \in RollbackPCs => exec'[e].kind = "rollback"
              /\ exec'[e].pc \in Working => exec'[e].at \in 1 .. step'[exec'[e].u]
  PROVE  MessageInv' /\ PlanningInv'
<1>1. ASSUME NEW e \in Execs, e >= nextExec' \/ exec'[e].pc = "none"
      PROVE  exec'[e] = NoExec
  <2>1. exec'[e] = exec[e]
    BY <1>1, ExecTypes
  <2>2. e >= nextExec \/ exec[e].pc = "none"
    BY <1>1, <2>1, ExecTypes DEF TypeOK
  <2>3. QED
    BY <2>1, <2>2 DEF MessageInv
<1>2. ASSUME NEW u \in Upgrades, status'[u] = "none"
      PROVE  target'[u] = 0 /\ step'[u] = 0
  BY <1>2 DEF MessageInv, RowsKept
<1>3. ASSUME NEW e \in Execs, exec'[e].pc \notin {"none", "done"}
      PROVE  /\ status'[exec'[e].u] # "none"
             /\ exec'[e].kind = "rollback" => target'[exec'[e].u] # 0
  BY <1>3, ExecTypes DEF MessageInv, RowsKept
<1>4. ASSUME NEW e \in Execs
      PROVE  /\ exec'[e].pc \in ExecutePCs => exec'[e].kind = "execute"
             /\ exec'[e].pc \in RollbackPCs => exec'[e].kind = "rollback"
  BY DEF MessageInv, ExecutePCs, RollbackPCs, Working
<1>5. ASSUME NEW e \in Execs, exec'[e].pc \in Working
      PROVE  exec'[e].at \in 1 .. step'[exec'[e].u]
  <2>1. CASE exec'[e] = exec[e]
    <3>1. exec[e].at \in 1 .. step[exec[e].u] /\ exec[e].u \in Upgrades
      BY <1>5, <2>1, ExecTypes DEF MessageInv
    <3>2. /\ step[exec[e].u] \in Nat /\ step'[exec[e].u] \in Nat
          /\ step[exec[e].u] <= step'[exec[e].u]
      BY <3>1, UpgradeTypes DEF RowsKept
    <3>3. QED
      BY <2>1, <3>1, <3>2
  <2>2. CASE exec'[e] # exec[e]
    BY <1>5, <2>2 DEF Working
  <2>3. QED
    BY <2>1, <2>2
<1>6. PlanningInv'
  <2>1. \A u \in Upgrades : old[u] # 0 => old[u] \in Upgrades
    BY DEF TypeOK
  <2>2. QED
    BY <2>1 DEF PlanningInv, RowsKept
<1>7. QED
  BY <1>1, <1>2, <1>3, <1>4, <1>5, <1>6 DEF MessageInv

(* Nobody takes the lock. *)
LEMMA FenceKept ==
  ASSUME FenceInv,
         \A e \in Execs :
           \/ exec'[e].pc \notin Locked /\ exec'[e].fence = 0
           \/ /\ exec'[e].pc \in Locked => exec[e].pc \in Locked
              /\ exec'[e].u = exec[e].u /\ exec'[e].fence = exec[e].fence
  PROVE  FenceInv'
  BY DEF FenceInv

(* The holder leaves the status as it says, and nobody else writes it. *)
LEMMA StatusKept ==
  ASSUME TypeOK, StatusInv, HistKept,
         \A u \in Upgrades : Flagged(u)' => status'[u] \notin {"none", "ready"},
         \A e \in Execs : Holds(e)' /\ ~Flagged(exec[e].u)' =>
           \/ HolderStatus(e, status[exec[e].u])'
           \/ /\ exec'[e] = exec[e] /\ Holds(e)
              /\ status'[exec[e].u] = status[exec[e].u]
  PROVE  StatusInv'
<1>1. ASSUME NEW e \in Execs, Holds(e)', ~Flagged(exec[e].u)'
      PROVE  HolderStatus(e, status[exec[e].u])'
  <2>1. CASE /\ exec'[e] = exec[e] /\ Holds(e)
             /\ status'[exec[e].u] = status[exec[e].u]
    <3>1. ~Flagged(exec[e].u)
      <4>1. PICK u \in Upgrades : u = exec[e].u
        BY ExecTypes
      <4>2. ~Flagged(u)'
        BY <1>1, <2>1, <4>1 DEF Flagged
      <4>3. QED
        BY <4>1, <4>2 DEF HistKept
    <3>2. HolderStatus(e, status[exec[e].u])
      BY <2>1, <3>1 DEF StatusInv
    <3>3. QED
      BY <2>1, <3>2 DEF HolderStatus, At
  <2>2. QED
    BY <1>1, <2>1
<1>2. QED
  BY <1>1 DEF StatusInv

(* No upgrade is opened that was not, unless somebody wrote without the lock. *)
LEMMA OpenKept ==
  ASSUME TypeOK, OpenInv, HistKept, UNCHANGED <<planning, old>>,
         \A u \in Upgrades : status'[u] \in Open => status[u] \in Open \/ Flagged(u)'
  PROVE  OpenInv'
<1>1. planning \subseteq Upgrades /\ \A u \in Upgrades : Excused(u) => Excused(u)'
  BY DEF TypeOK, HistKept, Excused
<1>2. \A u \in Upgrades : status'[u] \in Open => status[u] \in Open \/ Excused(u)'
  BY DEF Excused
<1>3. \A u \in planning : ~hist'[u].beside => ~hist[u].beside
  BY <1>1 DEF HistKept
<1>4. QED
  BY <1>1, <1>2, <1>3 DEF OpenInv

(* The holder of the lock goes on with its step, or its work is accounted for. *)
Accounted(e) ==
  \/ /\ exec'[e].u = exec[e].u /\ exec'[e].at = exec[e].at
     /\ exec'[e].pc \in Working /\ Holds(e)'
  \/ exec[e].at \in hist'[exec[e].u].done \cup hist'[exec[e].u].cut

(* The steps below current_step stay accounted for while the row does not
   move. *)
LEMMA CoveredKept ==
  ASSUME TypeOK, HistKept, NEW u \in Upgrades, Covered(u), step'[u] = step[u],
         \A e \in Execs : exec[e].u = u /\ Holds(e) /\ exec[e].pc \in Working =>
           Accounted(e)
  PROVE  Covered(u)'
<1>1. ASSUME NEW s \in 1 .. step[u],
             s \notin hist'[u].done \cup hist'[u].cut
      PROVE  \E e \in Execs : exec'[e].u = u /\ Holds(e)' /\ exec'[e].pc \in Working
                               /\ exec'[e].at = s
  <2>1. s \notin hist[u].done \cup hist[u].cut
    BY <1>1 DEF HistKept
  <2>2. PICK e \in Execs : exec[e].u = u /\ Holds(e) /\ exec[e].pc \in Working
                            /\ exec[e].at = s
    BY <2>1 DEF Covered
  <2>3. QED
    BY <1>1, <2>2 DEF Accounted
<1>2. QED
  BY <1>1 DEF Covered

(* The account of the steps is kept by a step that moves no ongoing upgrade. *)
LEMMA StepsKept ==
  ASSUME TypeOK, StepsInv, HistKept,
         \A u \in Upgrades :
           /\ Ongoing(u)' => Ongoing(u) /\ step'[u] = step[u]
           /\ status'[u] = "completed" =>
                \/ status[u] = "completed"
                \/ 1 .. Steps \subseteq hist'[u].done \cup hist'[u].cut,
         \A u \in Upgrades, e \in Execs :
           Ongoing(u)' /\ exec[e].u = u /\ Holds(e) /\ exec[e].pc \in Working =>
             Accounted(e),
         \A e \in Execs : exec'[e].pc \in Working /\ ~Fenced(e)' =>
           \/ /\ exec'[e].u = exec[e].u /\ exec'[e].at = exec[e].at
              /\ exec[e].pc \in Working /\ ~Fenced(e)
           \/ exec'[e].at \in hist'[exec'[e].u].cut
  PROVE  StepsInv'
<1>1. ASSUME NEW u \in Upgrades, Ongoing(u)'
      PROVE  Covered(u)'
  <2>1. Covered(u) /\ step'[u] = step[u]
    BY <1>1 DEF StepsInv
  <2>2. ASSUME NEW e \in Execs, exec[e].u = u, Holds(e), exec[e].pc \in Working
        PROVE  Accounted(e)
    BY <1>1, <2>2
  <2>3. QED
    BY <2>1, <2>2, CoveredKept
<1>2. CompletedDidSteps'
  <2>1. ASSUME NEW u \in Upgrades, status'[u] = "completed"
        PROVE  1 .. Steps \subseteq hist'[u].done \cup hist'[u].cut
    BY <2>1 DEF StepsInv, CompletedDidSteps, HistKept
  <2>2. QED
    BY <2>1 DEF CompletedDidSteps
<1>3. ASSUME NEW e \in Execs, exec'[e].pc \in Working, ~Fenced(e)'
      PROVE  exec'[e].at \in hist'[exec'[e].u].cut
  BY <1>3, ExecTypes DEF StepsInv, HistKept
<1>4. QED
  BY <1>1, <1>2, <1>3 DEF StepsInv

(* The history of helm stays, and nobody comes to restored. *)
LEMMA RestoreKept ==
  ASSUME TypeOK, RestoreInv, HistKept, UNCHANGED <<revs, target>>,
         \A u \in Upgrades : /\ hist'[u].from = hist[u].from
                             /\ hist'[u].late = hist[u].late
                             /\ step[u] <= step'[u] /\ step'[u] \in Nat,
         \A e \in Execs : exec'[e].pc = "restored" /\ Holds(e)' =>
           exec[e].pc = "restored" /\ Holds(e) /\ exec'[e].u = exec[e].u
  PROVE  RestoreInv'
<1>1. SUFFICES ASSUME NEW u \in Upgrades
      PROVE  /\ hist'[u].late => step'[u] >= HelmStep
             /\ ~Others(u)' =>
                  /\ step'[u] < HelmStep =>
                       \A i \in hist'[u].from .. Len(revs') : revs'[i].version = Before(u)'
                  /\ target'[u] # 0 /\ ~hist'[u].late => revs'[target'[u]].version = Before(u)'
                  /\ \A e \in Execs :
                       /\ exec'[e].u = u /\ exec'[e].pc = "restored" /\ Holds(e)'
                       /\ ~hist'[u].late /\ HelmStep \notin hist'[u].cut
                       => Version' = Before(u)'
  BY DEF RestoreInv
<1>2. Before(u)' = Before(u) /\ Others(u)' = Others(u) /\ Version' = Version
  BY DEF Before, Others, Version
<1>3. /\ step[u] \in Nat /\ HelmStep \in Nat /\ step[u] <= step'[u] /\ step'[u] \in Nat
      /\ hist[u].cut \subseteq hist'[u].cut
  BY UpgradeTypes DEF HistKept
<1>4. /\ hist[u].late => step[u] >= HelmStep
      /\ ~Others(u) =>
           /\ step[u] < HelmStep =>
                \A i \in hist[u].from .. Len(revs) : revs[i].version = Before(u)
           /\ target[u] # 0 /\ ~hist[u].late => revs[target[u]].version = Before(u)
           /\ \A e \in Execs :
                /\ exec[e].u = u /\ exec[e].pc = "restored" /\ Holds(e)
                /\ ~hist[u].late /\ HelmStep \notin hist[u].cut
                => Version = Before(u)
  BY DEF RestoreInv
<1>5. hist'[u].late => step'[u] >= HelmStep
  BY <1>3, <1>4
<1>6. step'[u] < HelmStep => step[u] < HelmStep
  BY <1>3
<1>7. QED
  BY <1>2, <1>3, <1>4, <1>5, <1>6

-----------------------------------------------------------------------------
(* How the steps change the tasks *)

PCs == Locked \cup Handlers \cup {"none", "sent", "done"}

(* A task that goes on. *)
LEMMA Goes ==
  ASSUME TypeOK, NEW e \in Execs, NEW pc \in PCs, Goto(e, pc)
  PROVE  /\ Changes(e) /\ exec'[e].kind = exec[e].kind /\ exec'[e].pc = pc
         /\ exec'[e].u = exec[e].u /\ exec'[e].fence = exec[e].fence
         /\ exec'[e].at = exec[e].at
  BY DEF TypeOK, ExecRecords, Goto, Changes, PCs

(* The records that tasks and messages are set to. *)
EndedTask == [NoExec EXCEPT !.pc = "done"]
MessageOf(u, kind) == [NoExec EXCEPT !.u = u, !.kind = kind, !.pc = "sent"]

(* The fields of a task that has ended. *)
LEMMA EndedFields ==
  /\ EndedTask \in ExecRecords /\ EndedTask.pc = "done" /\ EndedTask.fence = 0
  /\ EndedTask.u \in Upgrades
  BY NoExecFields DEF EndedTask, ExecRecords

(* The fields of a message that has been sent. *)
LEMMA MessageFields ==
  ASSUME NEW u \in Upgrades, NEW kind \in {"execute", "rollback"}
  PROVE  /\ MessageOf(u, kind) \in ExecRecords /\ MessageOf(u, kind).pc = "sent"
         /\ MessageOf(u, kind).fence = 0 /\ MessageOf(u, kind).u = u
         /\ MessageOf(u, kind).kind = kind
  BY NoExecFields DEF MessageOf, ExecRecords

(* A task that returns. *)
LEMMA Ends ==
  ASSUME TypeOK, NEW e \in Execs, End(e)
  PROVE  /\ Changes(e) /\ exec'[e].pc = "done" /\ exec'[e].fence = 0
         /\ exec'[e].u \in Upgrades
<1>1. exec' = [exec EXCEPT ![e] = EndedTask]
  BY DEF End, EndedTask
<1>2. /\ exec' \in [Execs -> ExecRecords] /\ exec'[e] = EndedTask
      /\ \A d \in Execs : d # e => exec'[d] = exec[d]
  BY <1>1, EndedFields DEF TypeOK
<1>3. QED
  BY <1>2, EndedFields DEF Changes

(* A task whose worker dies. *)
LEMMA Redelivers ==
  ASSUME TypeOK, NEW e \in Execs,
         exec' = [exec EXCEPT ![e] = MessageOf(exec[e].u, exec[e].kind)]
  PROVE  /\ Changes(e) /\ exec'[e].pc = "sent" /\ exec'[e].fence = 0
         /\ exec'[e].u = exec[e].u /\ exec'[e].kind = exec[e].kind
<1>1. PICK x \in ExecRecords :
        /\ x = MessageOf(exec[e].u, exec[e].kind) /\ x.pc = "sent" /\ x.fence = 0
        /\ x.u = exec[e].u /\ x.kind = exec[e].kind
  BY MessageFields, ExecTypes
<1>2. /\ exec' \in [Execs -> ExecRecords] /\ exec'[e] = x
      /\ \A d \in Execs : d # e => exec'[d] = exec[d]
  BY <1>1 DEF TypeOK
<1>3. QED
  BY <1>1, <1>2 DEF Changes

(* A message is sent. *)
LEMMA SendsOne ==
  ASSUME TypeOK, MessageInv, NEW u \in Upgrades, NEW kind \in {"execute", "rollback"},
         Send(u, kind)
  PROVE  \E x \in Execs :
           /\ Changes(x) /\ x = nextExec /\ nextExec' = nextExec + 1
           /\ nextExec' \in 1 .. MaxExecs + 1 /\ exec[x] = NoExec
           /\ exec'[x].u = u /\ exec'[x].kind = kind /\ exec'[x].pc = "sent"
           /\ exec'[x].fence = 0
<1>1. PICK y \in ExecRecords :
        /\ y = MessageOf(u, kind) /\ y.pc = "sent" /\ y.fence = 0
        /\ y.u = u /\ y.kind = kind
  BY MessageFields
<1>2. nextExec <= MaxExecs /\ nextExec' = nextExec + 1
  BY DEF Send
<1>3. PICK x \in Execs : x = nextExec
  BY <1>2, UpgradeAssumption DEF TypeOK, Execs
<1>4. exec' = [exec EXCEPT ![x] = y]
  BY <1>1, <1>3 DEF Send, MessageOf
<1>5. /\ exec' \in [Execs -> ExecRecords] /\ exec'[x] = y
      /\ \A d \in Execs : d # x => exec'[d] = exec[d]
  BY <1>4 DEF TypeOK
<1>6. nextExec' \in 1 .. MaxExecs + 1 /\ exec[x] = NoExec
  BY <1>2, <1>3, UpgradeAssumption DEF TypeOK, MessageInv, Execs
<1>7. QED
  BY <1>1, <1>2, <1>3, <1>5, <1>6 DEF Changes

(* Tasks that stay keep the lock that they have. *)
LEMMA SameHolder ==
  ASSUME UNCHANGED fence, NEW d \in Execs, exec'[d] = exec[d]
  PROVE  /\ Holds(d)' = Holds(d) /\ Fenced(d)' = Fenced(d)
         /\ \A u \in Upgrades : Executes(d, u)' = Executes(d, u)
  BY DEF Holds, Fenced, Executes

-----------------------------------------------------------------------------
(* Every step preserves the invariant *)

(* A task leaves the code that the lock is about: it fails, finishes, dies *)
(* or has lost the lock, and may write the status that this leaves.        *)
LEMMA LeaveInv ==
  ASSUME UpgradeInv, NEW e \in Execs, NEW u \in Upgrades, u = exec[e].u,
         exec[e].pc \notin {"none", "done"}, Changes(e),
         exec'[e].pc \in Handlers \cup {"done", "release", "sent"},
         exec'[e].pc # "done" => exec'[e].u = u /\ exec'[e].kind = exec[e].kind,
         exec'[e].pc = "release" => exec[e].pc \in Locked,
         \/ exec'[e].pc # "release" /\ exec'[e].fence = 0
         \/ exec'[e].u = u /\ exec'[e].fence = exec[e].fence,
         UNCHANGED <<step, target, fence, revs, requests>>,
         faults' \in 0 .. MaxFaults, live' \in [Upgrades -> BOOLEAN],
         hist' \in [Upgrades -> HistRecords],
         \A v \in Upgrades :
           /\ hist'[v].from = hist[v].from /\ hist'[v].late = hist[v].late
           /\ hist'[v].done = hist[v].done /\ hist[v].cut \subseteq hist'[v].cut
           /\ hist'[v].raced = hist[v].raced /\ hist'[v].beside = hist[v].beside
           /\ hist[v].unfenced => hist'[v].unfenced
           /\ v # u => status'[v] = status[v] /\ hist'[v].unfenced = hist[v].unfenced,
         status' \in [Upgrades -> Statuses],
         \/ status'[u] = status[u] /\ hist'[u].unfenced = hist[u].unfenced
         \/ /\ status'[u] \in {"failed", "completed", "rolled_back"}
            /\ \/ hist'[u].unfenced
               \/ \A d \in Execs : d # e /\ exec[d].u = u => ~Holds(d),
         status'[u] = "completed" =>
           \/ status[u] = "completed"
           \/ 1 .. Steps \subseteq hist'[u].done \cup hist'[u].cut,
         exec[e].pc \in Working /\ Holds(e) =>
           exec[e].at \in hist'[u].cut \/ (status'[u] = "failed")
  PROVE  UpgradeInv'
<1> USE DEF UpgradeInv
<1>1. /\ exec' \in [Execs -> ExecRecords]
      /\ \A d \in Execs : d # e => exec'[d] = exec[d]
  BY DEF Changes
<1>2. TypeOK'
  <2>1. exec'[e].fence <= fence[exec'[e].u]
    <3>1. exec'[e].u \in Upgrades
      BY <1>1 DEF ExecRecords
    <3>2. fence[exec'[e].u] \in Nat
      BY <3>1, UpgradeTypes
    <3>3. QED
      BY <3>2, ExecTypes
  <2>2. QED
    BY <1>1, <2>1, ExecTypes DEF TypeOK
<1>3. HistKept
  BY DEF HistKept, Flagged
<1>4. status[u] # "none" /\ status'[u] # "none"
  BY DEF MessageInv
<1>5. RowsKept
  BY <1>4, UpgradeTypes DEF RowsKept
<1>6. MessageInv' /\ PlanningInv'
  <2>1. e < nextExec
    BY WasSent
  <2>2. nextExec' \in Nat /\ nextExec <= nextExec'
    BY DEF TypeOK
  <2>3. exec[e].kind = "rollback" => target[u] # 0
    BY DEF MessageInv
  <2>4. exec'[e].pc \notin ExecutePCs \cup RollbackPCs \cup Working /\ exec'[e].pc # "none"
    BY DEF ExecutePCs, RollbackPCs, Working, Handlers
  <2>5. QED
    BY <1>1, <1>4, <1>5, <2>1, <2>2, <2>3, <2>4, MessageKept
<1>7. FenceInv'
  <2>1. exec'[e].pc \in Locked => exec'[e].pc = "release"
    BY DEF Locked, Handlers
  <2>2. QED
    BY <1>1, <2>1, FenceKept
<1>8. \A d \in Execs : d # e => /\ Holds(d)' = Holds(d) /\ Fenced(d)' = Fenced(d)
                                /\ \A v \in Upgrades : Executes(d, v)' = Executes(d, v)
  BY <1>1, SameHolder
<1>9. StatusInv'
  <2>1. \A v \in Upgrades : Flagged(v)' => status'[v] \notin {"none", "ready"}
    <3>1. ASSUME NEW v \in Upgrades, Flagged(v)'
          PROVE  \/ Flagged(v) /\ status'[v] = status[v]
                 \/ status'[v] \in {"failed", "completed", "rolled_back"}
      BY <3>1 DEF Flagged
    <3>2. QED
      BY <3>1 DEF StatusInv
  <2>2. ASSUME NEW d \in Execs, Holds(d)', ~Flagged(exec[d].u)'
        PROVE  \/ HolderStatus(d, status[exec[d].u])'
               \/ /\ exec'[d] = exec[d] /\ Holds(d)
                  /\ status'[exec[d].u] = status[exec[d].u]
    <3>1. CASE d = e
      BY <3>1 DEF HolderStatus, At, ExecutePCs, RollbackPCs, Working, Handlers
    <3>2. CASE d # e
      <4>1. exec'[d] = exec[d] /\ Holds(d) /\ exec[d].u \in Upgrades
        BY <1>1, <1>8, <2>2, <3>2, ExecTypes
      <4>2. CASE exec[d].u # u
        BY <4>1, <4>2
      <4>3. CASE exec[d].u = u
        <5>1. ~hist'[u].unfenced
          BY <2>2, <4>1, <4>3 DEF Flagged
        <5>2. QED
          BY <3>2, <4>1, <4>3, <5>1
      <4>4. QED
        BY <4>2, <4>3
    <3>3. QED
      BY <3>1, <3>2
  <2>3. QED
    BY <1>3, <2>1, <2>2, StatusKept
<1>10. OpenInv'
  BY <1>3, OpenKept DEF Open
<1>11. StepsInv'
  <2>1. ASSUME NEW v \in Upgrades, Ongoing(v)'
        PROVE  Ongoing(v)
    <3>1. ~Executes(e, v)'
      BY DEF Executes, ExecutePCs, Working, Handlers
    <3>2. status'[v] \in Open => status[v] \in Open
      BY DEF Open
    <3>3. QED
      BY <1>8, <2>1, <3>1, <3>2 DEF Ongoing
  <2>2. ASSUME NEW v \in Upgrades, NEW d \in Execs, Ongoing(v)', exec[d].u = v,
               Holds(d), exec[d].pc \in Working
        PROVE  Accounted(d)
    <3>1. CASE d # e
      BY <1>1, <1>8, <2>2, <3>1 DEF Accounted
    <3>2. CASE d = e
      <4>1. CASE exec[e].at \in hist'[u].cut
        BY <3>2, <4>1 DEF Accounted
      <4>2. CASE status'[u] = "failed"
        <5>1. PICK c \in Execs : Executes(c, u)'
          BY <2>2, <3>2, <4>2 DEF Ongoing, Open
        <5>2. c # e
          BY <5>1 DEF Executes, ExecutePCs, Working, Handlers
        <5>3. Holds(c) /\ exec[c].u = u
          BY <1>8, <5>1, <5>2 DEF Executes
        <5>4. QED
          BY <2>2, <3>2, <5>2, <5>3, OneHolder
      <4>3. QED
        BY <2>2, <3>2, <4>1, <4>2
    <3>3. QED
      BY <3>1, <3>2
  <2>3. \A d \in Execs : exec'[d].pc \in Working /\ ~Fenced(d)' =>
           /\ exec'[d].u = exec[d].u /\ exec'[d].at = exec[d].at
           /\ exec[d].pc \in Working /\ ~Fenced(d)
    BY <1>1, <1>8 DEF Working, Handlers
  <2>4. \A v \in Upgrades : status'[v] = "completed" =>
           \/ status[v] = "completed"
           \/ 1 .. Steps \subseteq hist'[v].done \cup hist'[v].cut
    OBVIOUS
  <2>5. QED
    BY <1>3, <2>1, <2>2, <2>3, <2>4, StepsKept
<1>12. RestoreInv'
  <2>1. \A d \in Execs : exec'[d].pc = "restored" /\ Holds(d)' =>
           exec[d].pc = "restored" /\ Holds(d) /\ exec'[d].u = exec[d].u
    BY <1>1, <1>8 DEF Handlers
  <2>2. QED
    BY <1>3, <2>1, UpgradeTypes, RestoreKept
<1>13. QED
  BY <1>2, <1>6, <1>7, <1>9, <1>10, <1>11, <1>12

(* What releasing the lock leaves of it. *)
LEMMA UnlockedType ==
  ASSUME TypeOK, NEW e \in Execs
  PROVE  Unlocked(e) \in [Upgrades -> BOOLEAN]
  BY ExecTypes DEF TypeOK, Unlocked

(* The task gives up, or its attempt is over, and the history stays. *)
LEMMA QuietInv ==
  ASSUME UpgradeInv, NEW e \in Execs, NEW u \in Upgrades, u = exec[e].u,
         exec[e].pc \notin {"none", "done"}, Changes(e),
         exec'[e].pc \in Handlers \cup {"done", "release"},
         exec'[e].pc # "done" => exec'[e].u = u /\ exec'[e].kind = exec[e].kind,
         exec'[e].pc = "release" => exec[e].pc \in Locked,
         \/ exec'[e].pc # "release" /\ exec'[e].fence = 0
         \/ exec'[e].u = u /\ exec'[e].fence = exec[e].fence,
         UNCHANGED <<step, target, fence, revs, requests, faults, hist>>,
         live' \in [Upgrades -> BOOLEAN],
         NEW s \in Statuses, status' = [status EXCEPT ![u] = s],
         \/ s = status[u]
         \/ s \in {"failed", "completed", "rolled_back"} /\ Holds(e),
         s = "completed" =>
           \/ status[u] = "completed"
           \/ 1 .. Steps \subseteq hist[u].done \cup hist[u].cut,
         exec[e].pc \in Working /\ Holds(e) => s = "failed"
  PROVE  UpgradeInv'
<1>1. /\ status' \in [Upgrades -> Statuses] /\ status'[u] = s
      /\ \A v \in Upgrades : v # u => status'[v] = status[v]
  BY DEF UpgradeInv, TypeOK
<1>2. hist' \in [Upgrades -> HistRecords] /\ faults' \in 0 .. MaxFaults
  BY DEF UpgradeInv, TypeOK
<1>3. \A v \in Upgrades :
        /\ hist'[v].from = hist[v].from /\ hist'[v].late = hist[v].late
        /\ hist'[v].done = hist[v].done /\ hist[v].cut \subseteq hist'[v].cut
        /\ hist'[v].raced = hist[v].raced /\ hist'[v].beside = hist[v].beside
        /\ hist[v].unfenced => hist'[v].unfenced
        /\ v # u => status'[v] = status[v] /\ hist'[v].unfenced = hist[v].unfenced
  BY <1>1
<1>4. \/ status'[u] = status[u] /\ hist'[u].unfenced = hist[u].unfenced
      \/ /\ status'[u] \in {"failed", "completed", "rolled_back"}
         /\ \/ hist'[u].unfenced
            \/ \A d \in Execs : d # e /\ exec[d].u = u => ~Holds(d)
  <2>1. Holds(e) => \A d \in Execs : d # e /\ exec[d].u = u => ~Holds(d)
    BY OneHolder DEF UpgradeInv
  <2>2. QED
    BY <1>1, <2>1
<1>5. status'[u] = "completed" =>
        \/ status[u] = "completed"
        \/ 1 .. Steps \subseteq hist'[u].done \cup hist'[u].cut
  BY <1>1
<1>6. exec[e].pc \in Working /\ Holds(e) =>
        exec[e].at \in hist'[u].cut \/ (status'[u] = "failed")
  BY <1>1
<1>7. QED
  BY <1>1, <1>2, <1>3, <1>4, <1>5, <1>6, LeaveInv

(* The task waits in vain for the lock, or finds that it has lost it. *)
LEMMA LosesInv ==
  ASSUME UpgradeInv, NEW e \in Execs, GiveUp(e) \/ Lose(e)
  PROVE  UpgradeInv'
<1> USE DEF UpgradeInv
<1>1. PICK u \in Upgrades : u = exec[e].u
  BY ExecTypes
<1>2. /\ Goto(e, "unlocked") /\ UNCHANGED <<row, revs, requests, faults, hist>>
      /\ exec[e].pc \in {"sent"} \/ ~Fenced(e)
      /\ exec[e].pc \notin {"none", "done"}
  BY DEF GiveUp, Lose
<1>3. /\ Changes(e) /\ exec'[e].kind = exec[e].kind /\ exec'[e].pc = "unlocked"
      /\ exec'[e].u = u /\ exec'[e].fence = exec[e].fence
  BY <1>1, <1>2, Goes DEF PCs, Handlers
<1>4. exec'[e].pc \in Handlers
  BY <1>3 DEF Handlers
<1>5. PICK s \in Statuses : s = status[u]
  BY UpgradeTypes
<1>6. status' = [status EXCEPT ![u] = s] /\ live' \in [Upgrades -> BOOLEAN]
  BY <1>2, <1>5 DEF row, TypeOK
<1>7. ~(exec[e].pc \in Working /\ Holds(e))
  BY <1>2 DEF Working, Holds
<1>8. s = "completed" => status[u] = "completed"
  BY <1>5
<1>9. UNCHANGED <<step, target, fence, revs, requests, faults, hist>>
  BY <1>2 DEF row
<1>10. QED
  BY <1>1, <1>2, <1>3, <1>4, <1>5, <1>6, <1>7, <1>8, <1>9, QuietInv

(* The end of the task, or of the service call that refuses the status, and *)
(* the look at the status in the handler.                                    *)
LEMMA ReleaseInv ==
  ASSUME UpgradeInv, NEW e \in Execs, Release(e) \/ Refuse(e) \/ Handle(e)
  PROVE  UpgradeInv'
<1> USE DEF UpgradeInv
<1>1. PICK u \in Upgrades : u = exec[e].u
  BY ExecTypes
<1>2. /\ exec[e].pc \in {"release", "refused", "raised"}
      /\ End(e) \/ \E pc \in {"raised", "marking"} : Goto(e, pc)
      /\ UNCHANGED <<status, step, target, fence, revs, requests, faults, hist>>
  BY DEF Release, Refuse, Handle, row
<1>3. /\ Changes(e) /\ exec'[e].pc \in {"done", "raised", "marking"}
      /\ exec'[e].pc = "done" => exec'[e].fence = 0
      /\ exec'[e].pc # "done" => /\ exec'[e].u = u /\ exec'[e].kind = exec[e].kind
                                 /\ exec'[e].fence = exec[e].fence
  <2>1. CASE End(e)
    BY <2>1, Ends
  <2>2. ASSUME NEW pc \in {"raised", "marking"}, Goto(e, pc)
        PROVE  /\ Changes(e) /\ exec'[e].pc = pc /\ exec'[e].u = u
               /\ exec'[e].kind = exec[e].kind /\ exec'[e].fence = exec[e].fence
    BY <1>1, <2>2, Goes DEF PCs, Handlers
  <2>3. QED
    BY <1>2, <2>1, <2>2
<1>4. exec'[e].pc \in Handlers \cup {"done"} /\ exec'[e].pc # "release"
  BY <1>3 DEF Handlers
<1>5. PICK s \in Statuses : s = status[u]
  BY UpgradeTypes
<1>6. status' = [status EXCEPT ![u] = s] /\ live' \in [Upgrades -> BOOLEAN]
  BY <1>2, <1>5, UnlockedType DEF TypeOK, Release, Refuse, Handle, row
<1>7. ~(exec[e].pc \in Working /\ Holds(e)) /\ exec[e].pc \notin {"none", "done"}
  BY <1>2 DEF Working
<1>8. s = "completed" => status[u] = "completed"
  BY <1>5
<1>9. QED
  BY <1>1, <1>2, <1>3, <1>4, <1>5, <1>6, <1>7, <1>8, QuietInv

(* Nothing is left to do when the holder has no step before it. *)
LEMMA AllSteps ==
  ASSUME UpgradeInv, NEW e \in Execs, exec[e].pc = "loop", Fenced(e),
         step[exec[e].u] = Steps
  PROVE  1 .. Steps \subseteq hist[exec[e].u].done \cup hist[exec[e].u].cut
<1> USE DEF UpgradeInv
<1>1. PICK u \in Upgrades : u = exec[e].u
  BY ExecTypes
<1>2. Holds(e) /\ Executes(e, u)
  BY <1>1 DEF Holds, Executes, ExecutePCs, Locked, MessageInv
<1>3. Covered(u)
  BY <1>2 DEF StepsInv, Ongoing
<1>4. \A d \in Execs : exec[d].u = u /\ Holds(d) => d = e
  BY <1>1, <1>2, OneHolder
<1>5. QED
  BY <1>1, <1>3, <1>4 DEF Covered, Working

(* The holder writes its result. *)
LEMMA ResultInv ==
  ASSUME UpgradeInv, NEW e \in Execs,
         FailStep(e) \/ Finish(e) \/ FinishRollback(e) \/ FailRollback(e)
  PROVE  UpgradeInv'
<1> USE DEF UpgradeInv
<1>1. PICK u \in Upgrades : u = exec[e].u
  BY ExecTypes
<1>2. PICK s \in {"failed", "completed", "rolled_back"} :
        /\ status' = [status EXCEPT ![u] = s]
        /\ s = "completed" => exec[e].pc = "loop" /\ Fenced(e) /\ step[u] = Steps
        /\ exec[e].pc \in Working => s = "failed"
  BY <1>1 DEF FailStep, Finish, FinishRollback, FailRollback, SetStatus, Working
<1>3. /\ Goto(e, "release") /\ Fenced(e)
      /\ exec[e].pc \in {"failing", "loop", "restored", "stuck"}
      /\ UNCHANGED <<step, target, fence, live, revs, requests, faults, hist>>
  BY DEF FailStep, Finish, FinishRollback, FailRollback
<1>4. /\ Changes(e) /\ exec'[e].kind = exec[e].kind /\ exec'[e].pc = "release"
      /\ exec'[e].u = u /\ exec'[e].fence = exec[e].fence
  BY <1>1, <1>3, Goes DEF PCs, Locked
<1>5. exec'[e].pc \in Handlers \cup {"done", "release"}
  BY <1>4
<1>6. Holds(e) /\ exec[e].pc \in Locked /\ exec[e].pc \notin {"none", "done"}
  BY <1>3 DEF Holds, Locked
<1>7. s = "completed" => 1 .. Steps \subseteq hist[u].done \cup hist[u].cut
  BY <1>1, <1>2, AllSteps
<1>8. s \in Statuses /\ live' \in [Upgrades -> BOOLEAN]
  BY <1>3 DEF Statuses, TypeOK
<1>9. QED
  BY <1>1, <1>2, <1>3, <1>4, <1>5, <1>6, <1>7, <1>8, QuietInv

(* What the history has of an upgrade whose task ends, apart from how. *)
Stays(v) ==
  /\ hist'[v].from = hist[v].from /\ hist'[v].late = hist[v].late
  /\ hist'[v].done = hist[v].done
  /\ hist'[v].raced = hist[v].raced /\ hist'[v].beside = hist[v].beside

(* The history of an upgrade that was marked without the lock. *)
LEMMA Marks ==
  ASSUME TypeOK, NEW u \in Upgrades, NEW b \in BOOLEAN, hist[u].unfenced => b,
         hist' = [hist EXCEPT ![u].unfenced = b]
  PROVE  /\ hist' \in [Upgrades -> HistRecords] /\ hist'[u].unfenced = b
         /\ \A v \in Upgrades :
              /\ Stays(v) /\ hist[v].cut \subseteq hist'[v].cut
              /\ hist[v].unfenced => hist'[v].unfenced
              /\ v # u => hist'[v].unfenced = hist[v].unfenced
  BY ZenonT(60) DEF TypeOK, HistRecords, Stays

(* The history of an upgrade whose task could not write its end. *)
LEMMA Abandons ==
  ASSUME TypeOK, NEW u \in Upgrades, NEW abandoned \in BOOLEAN,
         hist' = [hist EXCEPT ![u].abandoned = abandoned]
  PROVE  /\ hist' \in [Upgrades -> HistRecords]
         /\ \A v \in Upgrades :
              /\ Stays(v) /\ hist[v].cut \subseteq hist'[v].cut
              /\ hist'[v].unfenced = hist[v].unfenced
  BY ZenonT(60) DEF TypeOK, HistRecords, Stays

(* The history of an upgrade whose task lost its step. *)
LEMMA CutsOnly ==
  ASSUME TypeOK, NEW u \in Upgrades, NEW cut \in SUBSET (1 .. Steps),
         hist[u].cut \subseteq cut, hist' = [hist EXCEPT ![u].cut = cut]
  PROVE  /\ hist' \in [Upgrades -> HistRecords] /\ hist'[u].cut = cut
         /\ \A v \in Upgrades :
              /\ Stays(v) /\ hist[v].cut \subseteq hist'[v].cut
              /\ hist'[v].unfenced = hist[v].unfenced
  BY ZenonT(60) DEF TypeOK, HistRecords, Stays

(* The step that a task works on is counted as cut short. *)
LEMMA CutSet ==
  ASSUME UpgradeInv, NEW e \in Execs, NEW u \in Upgrades, u = exec[e].u
  PROVE  \E cut \in SUBSET (1 .. Steps) :
           /\ cut = IF exec[e].pc \in Working THEN hist[u].cut \cup {exec[e].at}
                    ELSE hist[u].cut
           /\ hist[u].cut \subseteq cut
           /\ exec[e].pc \in Working => exec[e].at \in cut
<1> USE DEF UpgradeInv
<1>1. PICK cut : cut = IF exec[e].pc \in Working THEN hist[u].cut \cup {exec[e].at}
                       ELSE hist[u].cut
  OBVIOUS
<1>2. exec[e].pc \in Working => exec[e].at \in 1 .. Steps
  BY ExecTypes, UpgradeTypes DEF MessageInv
<1>3. cut \in SUBSET (1 .. Steps)
  BY <1>1, <1>2, UpgradeTypes
<1>4. QED
  BY <1>1, <1>3

(* A fault is counted. *)
LEMMA FaultCount ==
  ASSUME TypeOK, Fault
  PROVE  faults' \in 0 .. MaxFaults
  BY UpgradeAssumption DEF TypeOK, Fault

(* The task ends and writes no status. *)
LEMMA SilentInv ==
  ASSUME UpgradeInv, NEW e \in Execs, NEW u \in Upgrades, u = exec[e].u,
         exec[e].pc \notin {"none", "done"}, Changes(e),
         exec'[e].pc \in Handlers \cup {"done", "sent"},
         exec'[e].pc # "done" => exec'[e].u = u /\ exec'[e].kind = exec[e].kind,
         \/ exec'[e].fence = 0
         \/ exec'[e].u = u /\ exec'[e].fence = exec[e].fence,
         UNCHANGED <<status, step, target, fence, revs, requests>>,
         faults' \in 0 .. MaxFaults, live' \in [Upgrades -> BOOLEAN],
         hist' \in [Upgrades -> HistRecords],
         \A v \in Upgrades :
           /\ Stays(v) /\ hist[v].cut \subseteq hist'[v].cut
           /\ hist'[v].unfenced = hist[v].unfenced,
         exec[e].pc \in Working => exec[e].at \in hist'[u].cut
  PROVE  UpgradeInv'
<1>1. status' \in [Upgrades -> Statuses] /\ exec'[e].pc # "release"
  BY DEF UpgradeInv, TypeOK, Handlers
<1>2. \A v \in Upgrades :
        /\ hist'[v].from = hist[v].from /\ hist'[v].late = hist[v].late
        /\ hist'[v].done = hist[v].done
        /\ hist'[v].raced = hist[v].raced /\ hist'[v].beside = hist[v].beside
  BY DEF Stays
<1>3. status'[u] = "completed" => status[u] = "completed"
  OBVIOUS
<1>4. QED
  BY <1>1, <1>2, <1>3, LeaveInv

(* The task ends and marks its upgrade failed, which is noted unless no other *)
(* task can hold the lock.                                                    *)
LEMMA MarkInv ==
  ASSUME UpgradeInv, NEW e \in Execs, NEW u \in Upgrades, u = exec[e].u,
         exec[e].pc \in Handlers, End(e), NEW b \in BOOLEAN, hist[u].unfenced => b,
         \/ b
         \/ \A d \in Execs : d # e /\ exec[d].u = u => ~Holds(d),
         status' = [status EXCEPT ![u] = "failed"],
         hist' = [hist EXCEPT ![u].unfenced = b],
         UNCHANGED <<step, target, fence, live, revs, requests, faults>>
  PROVE  UpgradeInv'
<1> USE DEF UpgradeInv
<1>1. /\ Changes(e) /\ exec'[e].pc = "done" /\ exec'[e].fence = 0
  BY Ends
<1>2. /\ status' \in [Upgrades -> Statuses] /\ status'[u] = "failed"
      /\ \A v \in Upgrades : v # u => status'[v] = status[v]
  BY DEF TypeOK, Statuses
<1>3. /\ hist' \in [Upgrades -> HistRecords] /\ hist'[u].unfenced = b
      /\ \A v \in Upgrades :
           /\ Stays(v) /\ hist[v].cut \subseteq hist'[v].cut
           /\ hist[v].unfenced => hist'[v].unfenced
           /\ v # u => hist'[v].unfenced = hist[v].unfenced
  BY Marks
<1>4. \A v \in Upgrades :
        /\ hist'[v].from = hist[v].from /\ hist'[v].late = hist[v].late
        /\ hist'[v].done = hist[v].done
        /\ hist'[v].raced = hist[v].raced /\ hist'[v].beside = hist[v].beside
  BY <1>3 DEF Stays
<1>5. faults' \in 0 .. MaxFaults /\ live' \in [Upgrades -> BOOLEAN]
  BY DEF TypeOK
<1>6. exec[e].pc \notin Working /\ exec[e].pc \notin {"none", "done"}
  BY DEF Working, Handlers
<1>7. QED
  BY <1>1, <1>2, <1>3, <1>4, <1>5, <1>6, LeaveInv

(* The task ends in a handler whose write fails. *)
LEMMA AbandonInv ==
  ASSUME UpgradeInv, NEW e \in Execs, NEW u \in Upgrades, u = exec[e].u,
         exec[e].pc \in Handlers, End(e), faults' \in 0 .. MaxFaults,
         hist' = [hist EXCEPT ![u].abandoned = TRUE],
         UNCHANGED <<status, step, target, fence, live, revs, requests>>
  PROVE  UpgradeInv'
<1> USE DEF UpgradeInv
<1>1. /\ Changes(e) /\ exec'[e].pc = "done" /\ exec'[e].fence = 0
  BY Ends
<1>2. /\ hist' \in [Upgrades -> HistRecords]
      /\ \A v \in Upgrades :
           /\ Stays(v) /\ hist[v].cut \subseteq hist'[v].cut
           /\ hist'[v].unfenced = hist[v].unfenced
  BY Abandons
<1>3. live' \in [Upgrades -> BOOLEAN]
  BY DEF TypeOK
<1>4. exec[e].pc \notin Working /\ exec[e].pc \notin {"none", "done"}
  BY DEF Working, Handlers
<1>5. QED
  BY <1>1, <1>2, <1>3, <1>4, SilentInv

(* The failure handlers that write without the fence. *)
LEMMA FailUnfencedInv ==
  ASSUME UpgradeInv, NEW e \in Execs, FailUnfenced(e)
  PROVE  UpgradeInv'
<1>1. PICK u \in Upgrades : u = exec[e].u
  BY ExecTypes DEF UpgradeInv
<1>2. /\ exec[e].pc \in Handlers /\ End(e)
      /\ UNCHANGED <<step, target, fence, live, revs, requests>>
  BY DEF FailUnfenced, Handlers
<1>3. CASE /\ SetStatus(e, "failed") /\ UNCHANGED faults
           /\ hist' = [hist EXCEPT ![u].unfenced = TRUE]
  <2>1. status' = [status EXCEPT ![u] = "failed"]
    BY <1>1, <1>3 DEF SetStatus
  <2>2. QED
    BY <1>1, <1>2, <1>3, <2>1, MarkInv
<1>4. CASE /\ UNCHANGED status /\ Fault
           /\ hist' = [hist EXCEPT ![u].abandoned = TRUE]
  <2>1. faults' \in 0 .. MaxFaults
    BY <1>4, FaultCount DEF UpgradeInv
  <2>2. QED
    BY <1>1, <1>2, <1>4, <2>1, AbandonInv
<1>5. QED
  BY <1>1, <1>3, <1>4 DEF FailUnfenced

(* The handler of the other exceptions marks failed what is in progress. *)
LEMMA MarkFailedInv ==
  ASSUME UpgradeInv, NEW e \in Execs, MarkFailed(e)
  PROVE  UpgradeInv'
<1>1. PICK u \in Upgrades : u = exec[e].u
  BY ExecTypes DEF UpgradeInv
<1> DEFINE owned == Fenced(e) /\ exec[e].fence > 0 /\ status[u] = "in_progress"
<1>2. /\ exec[e].pc \in Handlers /\ End(e)
      /\ UNCHANGED <<step, target, fence, live, revs, requests, faults>>
  BY DEF MarkFailed, Handlers
<1>3. CASE /\ SetStatus(e, "failed")
           /\ hist' = [hist EXCEPT ![u].unfenced = @ \/ ~owned]
  <2>1. PICK b \in BOOLEAN : b = (hist[u].unfenced \/ ~owned)
    <3>1. hist[u].unfenced \in BOOLEAN
      BY DEF UpgradeInv, TypeOK, HistRecords
    <3>2. QED
      BY <3>1, Zenon
  <2>2. hist' = [hist EXCEPT ![u].unfenced = b] /\ (hist[u].unfenced => b)
    BY <1>3, <2>1
  <2>3. owned => \A d \in Execs : d # e /\ exec[d].u = u => ~Holds(d)
    BY <1>1 DEF UpgradeInv, FenceInv, Holds, Fenced
  <2>4. \/ b
        \/ \A d \in Execs : d # e /\ exec[d].u = u => ~Holds(d)
    BY <2>1, <2>3, Zenon
  <2>5. status' = [status EXCEPT ![u] = "failed"]
    BY <1>1, <1>3 DEF SetStatus
  <2>6. QED
    BY <1>1, <1>2, <2>2, <2>4, <2>5, MarkInv
<1>4. CASE UNCHANGED status /\ hist' = [hist EXCEPT ![u].abandoned = TRUE]
  <2>1. faults' \in 0 .. MaxFaults
    BY <1>2 DEF UpgradeInv, TypeOK
  <2>2. QED
    BY <1>1, <1>2, <1>4, <2>1, AbandonInv
<1>5. QED
  BY <1>1, <1>3, <1>4 DEF MarkFailed

(* An exception takes an execute task to its handler. *)
LEMMA RaiseInv ==
  ASSUME UpgradeInv, NEW e \in Execs, Raise(e)
  PROVE  UpgradeInv'
<1> USE DEF UpgradeInv
<1>1. PICK u \in Upgrades : u = exec[e].u
  BY ExecTypes
<1>2. /\ exec[e].pc \notin {"none", "done"} /\ Fault /\ live' = Unlocked(e)
      /\ UNCHANGED <<status, step, target, fence, revs, requests>>
  BY DEF Raise
<1>3. PICK pc \in {"raised", "marking"} : Goto(e, pc)
  BY DEF Raise
<1>4. /\ Changes(e) /\ exec'[e].pc \in Handlers /\ exec'[e].u = u
      /\ exec'[e].kind = exec[e].kind /\ exec'[e].fence = exec[e].fence
  BY <1>1, <1>3, Goes DEF PCs, Handlers
<1>5. faults' \in 0 .. MaxFaults /\ live' \in [Upgrades -> BOOLEAN]
  BY <1>2, FaultCount, UnlockedType
<1>6. PICK cut \in SUBSET (1 .. Steps) :
        /\ cut = IF exec[e].pc \in Working THEN hist[u].cut \cup {exec[e].at}
                 ELSE hist[u].cut
        /\ hist[u].cut \subseteq cut
        /\ exec[e].pc \in Working => exec[e].at \in cut
  BY <1>1, CutSet
<1>7. hist' = [hist EXCEPT ![u].cut = cut]
  BY <1>1, <1>6 DEF Raise
<1>8. /\ hist' \in [Upgrades -> HistRecords] /\ hist'[u].cut = cut
      /\ \A v \in Upgrades :
           /\ Stays(v) /\ hist[v].cut \subseteq hist'[v].cut
           /\ hist'[v].unfenced = hist[v].unfenced
  <2>1. TypeOK
    OBVIOUS
  <2>2. hist[u].cut \subseteq cut
    BY <1>6
  <2>3. QED
    BY <1>7, <2>1, <2>2, CutsOnly, Zenon
<1>9. QED
  BY <1>1, <1>2, <1>4, <1>5, <1>6, <1>8, SilentInv

(* An exception ends a rollback task. *)
LEMMA RaiseRollbackInv ==
  ASSUME UpgradeInv, NEW e \in Execs, RaiseRollback(e)
  PROVE  UpgradeInv'
<1> USE DEF UpgradeInv
<1>1. PICK u \in Upgrades : u = exec[e].u
  BY ExecTypes
<1>2. /\ exec[e].pc \in {"sent", "begin"} \cup RollbackPCs
      /\ Fault /\ live' = Unlocked(e) /\ End(e)
      /\ UNCHANGED <<status, step, target, fence, revs, requests>>
  BY DEF RaiseRollback
<1>3. exec[e].pc \notin Working /\ exec[e].pc \notin {"none", "done"}
  BY <1>2 DEF Working, RollbackPCs
<1>4. Changes(e) /\ exec'[e].pc = "done" /\ exec'[e].fence = 0
  BY <1>2, Ends
<1>5. faults' \in 0 .. MaxFaults /\ live' \in [Upgrades -> BOOLEAN]
  BY <1>2, FaultCount, UnlockedType
<1>6. PICK b \in BOOLEAN : b = (hist[u].abandoned \/ exec[e].pc \in RollbackPCs)
  BY DEF TypeOK, HistRecords
<1>7. hist' = [hist EXCEPT ![u].abandoned = b]
  BY <1>1, <1>6 DEF RaiseRollback
<1>8. /\ hist' \in [Upgrades -> HistRecords]
      /\ \A v \in Upgrades :
           /\ Stays(v) /\ hist[v].cut \subseteq hist'[v].cut
           /\ hist'[v].unfenced = hist[v].unfenced
  BY <1>7, Abandons
<1>9. QED
  BY <1>1, <1>2, <1>3, <1>4, <1>5, <1>8, SilentInv

(* A worker dies and its message is delivered again. *)
LEMMA CrashInv ==
  ASSUME UpgradeInv, NEW e \in Execs, Crash(e)
  PROVE  UpgradeInv'
<1> USE DEF UpgradeInv
<1>1. PICK u \in Upgrades : u = exec[e].u
  BY ExecTypes
<1>2. /\ exec[e].pc \notin {"none", "done"} /\ Fault /\ live' = Unlocked(e)
      /\ UNCHANGED <<status, step, target, fence, revs, requests>>
  BY DEF Crash, Locked, Handlers
<1>3. exec' = [exec EXCEPT ![e] = MessageOf(exec[e].u, exec[e].kind)]
  BY DEF Crash, MessageOf
<1>4. /\ Changes(e) /\ exec'[e].pc = "sent" /\ exec'[e].fence = 0
      /\ exec'[e].u = u /\ exec'[e].kind = exec[e].kind
  BY <1>1, <1>3, Redelivers
<1>5. faults' \in 0 .. MaxFaults /\ live' \in [Upgrades -> BOOLEAN]
  BY <1>2, FaultCount, UnlockedType
<1>6. PICK cut \in SUBSET (1 .. Steps) :
        /\ cut = IF exec[e].pc \in Working THEN hist[u].cut \cup {exec[e].at}
                 ELSE hist[u].cut
        /\ hist[u].cut \subseteq cut
        /\ exec[e].pc \in Working => exec[e].at \in cut
  BY <1>1, CutSet
<1>7. PICK b \in BOOLEAN :
        b = (hist[u].abandoned \/ (/\ exec[e].kind = "rollback"
                                   /\ exec[e].pc \in RollbackPCs \cup Handlers))
  BY DEF TypeOK, HistRecords
<1>8. hist' = [hist EXCEPT ![u].cut = cut, ![u].abandoned = b]
  BY <1>1, <1>6, <1>7 DEF Crash
<1>9. /\ hist' \in [Upgrades -> HistRecords] /\ hist'[u].cut = cut
      /\ \A v \in Upgrades :
           /\ Stays(v) /\ hist[v].cut \subseteq hist'[v].cut
           /\ hist'[v].unfenced = hist[v].unfenced
  <2>1. hist[u] \in HistRecords /\ hist \in [Upgrades -> HistRecords]
    BY DEF TypeOK
  <2>2. /\ hist'[u] = [hist[u] EXCEPT !.cut = cut, !.abandoned = b]
        /\ \A v \in Upgrades : v # u => hist'[v] = hist[v]
    BY <1>8, <2>1
  <2>3. /\ hist'[u] \in HistRecords /\ hist'[u].cut = cut /\ Stays(u)
        /\ hist'[u].unfenced = hist[u].unfenced
    BY <2>1, <2>2, ZenonT(60) DEF HistRecords, Stays
  <2>4. \A v \in Upgrades : v # u => Stays(v)
    BY <2>2 DEF Stays
  <2>5. hist' \in [Upgrades -> HistRecords]
    <3>1. PICK x \in HistRecords : x = hist'[u]
      BY <2>3
    <3>2. hist' = [hist EXCEPT ![u] = x]
      BY <1>8, <2>1, <2>2, <3>1
    <3>3. QED
      BY <2>1, <3>2
  <2>6. QED
    BY <1>6, <2>2, <2>3, <2>4, <2>5
<1>10. QED
  BY <1>1, <1>2, <1>4, <1>5, <1>6, <1>9, SilentInv

(* The lease lapses or recovers, or nothing happens. *)
LEMMA LeaseInv ==
  ASSUME UpgradeInv, live' \in [Upgrades -> BOOLEAN], faults' \in 0 .. MaxFaults,
         UNCHANGED <<status, step, target, fence, revs, exec, requests, hist>>
  PROVE  UpgradeInv'
<1> USE DEF UpgradeInv
<1>1. TypeOK'
  BY DEF TypeOK
<1>2. MessageInv' /\ FenceInv' /\ OpenInv' /\ PlanningInv'
  BY DEF MessageInv, FenceInv, OpenInv, PlanningInv, Excused, Flagged
<1>3. /\ \A e \in Execs : Holds(e)' = Holds(e) /\ Fenced(e)' = Fenced(e)
      /\ \A u \in Upgrades : Flagged(u)' = Flagged(u)
  BY DEF Holds, Fenced, Flagged
<1>4. StatusInv'
  BY <1>3, ExecTypes DEF StatusInv, HolderStatus, At
<1>5. \A u \in Upgrades : Ongoing(u)' = Ongoing(u) /\ Covered(u)' = Covered(u)
  BY <1>3 DEF Ongoing, Executes, Covered
<1>6. StepsInv'
  BY <1>3, <1>5 DEF StepsInv, CompletedDidSteps
<1>7. RestoreInv'
  BY <1>3 DEF RestoreInv, Others, Before, Version
<1>8. QED
  BY <1>1, <1>2, <1>4, <1>6, <1>7

(* A lease runs out under its holder, or is found again. *)
LEMMA LapseInv ==
  ASSUME UpgradeInv, NEW e \in Execs, Lapse(e) \/ Recover(e)
  PROVE  UpgradeInv'
<1>1. TypeOK /\ exec[e].u \in Upgrades
  BY ExecTypes DEF UpgradeInv
<1>2. live' \in [Upgrades -> BOOLEAN] /\ faults' \in 0 .. MaxFaults
  BY <1>1, FaultCount DEF TypeOK, Lapse, Recover
<1>3. QED
  BY <1>2, LeaseInv DEF Lapse, Recover

-----------------------------------------------------------------------------
(* Requests *)

(* What a request leaves of an upgrade: as it was, cancelled, or planned. *)
Kept(w) ==
  /\ status'[w] = status[w]
  /\ hist'[w].from = hist[w].from /\ hist'[w].late = hist[w].late
  /\ hist'[w].unfenced = hist[w].unfenced /\ hist'[w].raced = hist[w].raced
Cancels(w) ==
  /\ status[w] # "none" /\ status'[w] = "cancelled"
  /\ hist'[w].from = hist[w].from /\ hist'[w].late = hist[w].late
  /\ hist'[w].unfenced = hist[w].unfenced
  /\ hist[w].raced => hist'[w].raced
  /\ Raced(w) => hist'[w].raced
Plans(w) ==
  /\ status[w] = "none" /\ status'[w] \in {"ready", "failed"}
  /\ hist'[w].from = Len(revs) /\ hist'[w].late = hist[w].late
  /\ hist'[w].unfenced = hist[w].unfenced /\ hist'[w].raced = hist[w].raced

(* A request that cancels or plans and touches nothing that tasks own. *)
LEMMA RequestInv ==
  ASSUME UpgradeInv, status' \in [Upgrades -> Statuses],
         hist' \in [Upgrades -> HistRecords],
         planning' \subseteq Upgrades, old' \in [Upgrades -> {0} \cup Upgrades],
         \A w \in Upgrades : Kept(w) \/ Cancels(w) \/ Plans(w),
         \A w \in Upgrades : hist'[w].done = hist[w].done /\ hist'[w].cut = hist[w].cut,
         OpenInv', PlanningInv',
         UNCHANGED <<step, target, fence, live, revs, exec, nextExec, faults>>
  PROVE  UpgradeInv'
<1> USE DEF UpgradeInv
<1>1. \A w \in Upgrades : hist'[w].from \in 1 .. Len(revs)
  BY UpgradeTypes DEF Kept, Cancels, Plans
<1>2. TypeOK'
  BY <1>1 DEF TypeOK
<1>3. \A w \in Upgrades : Flagged(w) => Flagged(w)' /\ ~Plans(w)
  BY DEF StatusInv, Flagged, Kept, Cancels, Plans
<1>4. MessageInv' /\ PlanningInv'
  <2>1. \A w \in Upgrades : status'[w] = "none" => status[w] = "none"
    BY DEF Kept, Cancels, Plans
  <2>2. \A w \in Upgrades : status[w] # "none" => status'[w] # "none"
    BY DEF Kept, Cancels, Plans
  <2>3. QED
    BY <2>1, <2>2, ExecTypes DEF MessageInv
<1>5. FenceInv'
  BY DEF FenceInv
<1>6. \A e \in Execs : /\ Holds(e)' = Holds(e) /\ Fenced(e)' = Fenced(e)
                       /\ \A w \in Upgrades : Executes(e, w)' = Executes(e, w)
  BY SameHolder
<1>7. \A e \in Execs : exec[e].pc \notin {"none", "done"} => ~Plans(exec[e].u)
  BY DEF MessageInv, Plans
<1>8. StatusInv'
  <2>1. ASSUME NEW w \in Upgrades, Flagged(w)'
        PROVE  status'[w] \notin {"none", "ready"}
    <3>1. CASE Flagged(w)
      BY <1>3, <3>1 DEF StatusInv, Kept, Cancels
    <3>2. CASE ~Flagged(w)
      BY <2>1, <3>2 DEF Flagged, Kept, Cancels, Plans
    <3>3. QED
      BY <3>1, <3>2
  <2>2. ASSUME NEW e \in Execs, Holds(e), ~Flagged(exec[e].u)'
        PROVE  HolderStatus(e, status[exec[e].u])'
    <3>1. PICK w \in Upgrades : w = exec[e].u
      BY ExecTypes
    <3>2. ~Flagged(w)' /\ ~Flagged(w)
      BY <1>3, <2>2, <3>1
    <3>3. HolderStatus(e, status[w])
      BY <2>2, <3>1, <3>2 DEF StatusInv
    <3>4. ~Plans(w)
      BY <1>7, <2>2, <3>1 DEF Holds, Locked
    <3>5. CASE Kept(w)
      BY <3>1, <3>3, <3>5 DEF Kept, HolderStatus, At
    <3>6. CASE Cancels(w)
      <4>1. ~At(e, "execute", "begin") /\ status[w] \in {"ready", "cancelled"}
        BY <3>1, <3>2, <3>6 DEF Cancels, Flagged, Raced
      <4>2. HolderStatus(e, "cancelled")
        BY <3>3, <4>1 DEF HolderStatus
      <4>3. QED
        BY <3>1, <3>6, <4>2 DEF Cancels, HolderStatus, At
    <3>7. QED
      BY <3>4, <3>5, <3>6
  <2>3. QED
    BY <1>6, <2>1, <2>2 DEF StatusInv
<1>9. StepsInv'
  <2>1. \A w \in Upgrades : Covered(w)' = Covered(w)
    BY <1>6 DEF Covered
  <2>2. ASSUME NEW w \in Upgrades, Ongoing(w)'
        PROVE  Covered(w)
    <3>1. CASE Plans(w)
      BY <3>1 DEF Plans, MessageInv, Covered
    <3>2. CASE ~Plans(w)
      BY <1>6, <2>2, <3>2 DEF Ongoing, Kept, Cancels, Open, StepsInv
    <3>3. QED
      BY <3>1, <3>2
  <2>3. CompletedDidSteps'
    BY DEF StepsInv, CompletedDidSteps, Kept, Cancels, Plans
  <2>4. QED
    BY <1>6, <2>1, <2>2, <2>3, ExecTypes DEF StepsInv
<1>10. RestoreInv'
  <2>1. ASSUME NEW u \in Upgrades
        PROVE  /\ hist'[u].late => step'[u] >= HelmStep
               /\ ~Others(u)' =>
                    /\ step'[u] < HelmStep =>
                         \A i \in hist'[u].from .. Len(revs') : revs'[i].version = Before(u)'
                    /\ target'[u] # 0 /\ ~hist'[u].late => revs'[target'[u]].version = Before(u)'
                    /\ \A e \in Execs :
                         /\ exec'[e].u = u /\ exec'[e].pc = "restored" /\ Holds(e)'
                         /\ ~hist'[u].late /\ HelmStep \notin hist'[u].cut
                         => Version' = Before(u)'
    <3>1. hist'[u].late = hist[u].late
      BY DEF Kept, Cancels, Plans
    <3>2. CASE Plans(u)
      <4>1. hist'[u].from = Len(revs) /\ Len(revs) \in Nat /\ Len(revs') = Len(revs)
        BY <3>2, UpgradeTypes DEF Plans
      <4>2. \A i \in hist'[u].from .. Len(revs') : revs'[i].version = Before(u)'
        BY <4>1 DEF Before
      <4>3. target'[u] = 0
        BY <3>2 DEF Plans, MessageInv
      <4>4. \A e \in Execs : exec'[e].pc = "restored" => exec'[e].u # u
        BY <1>7, <3>2
      <4>5. hist'[u].late => step'[u] >= HelmStep
        BY <3>1 DEF RestoreInv
      <4>6. QED
        BY <4>2, <4>3, <4>4, <4>5
    <3>3. CASE ~Plans(u)
      <4>1. hist'[u].from = hist[u].from
        BY <3>3 DEF Kept, Cancels
      <4>2. Before(u)' = Before(u) /\ Others(u)' = Others(u) /\ Version' = Version
        BY <4>1 DEF Before, Others, Version
      <4>3. QED
        BY <1>6, <3>1, <4>1, <4>2 DEF RestoreInv
    <3>4. QED
      BY <3>2, <3>3
  <2>2. QED
    BY <2>1 DEF RestoreInv
<1>11. QED
  BY <1>2, <1>4, <1>5, <1>8, <1>9, <1>10

(* What a request sees of the open upgrades stays so when it only goes on, or *)
(* ends, and they stay as they are.                                          *)
LEMMA OpenSame ==
  ASSUME UpgradeInv, NEW u \in Upgrades, status[u] = "none", UNCHANGED status,
         planning' \subseteq Upgrades, \A w \in planning' : w = u \/ w \in planning,
         \A w \in Upgrades : w # u => hist'[w] = hist[w] /\ old'[w] = old[w],
         u \in planning' /\ ~hist'[u].beside =>
           \A v \in Upgrades : status[v] \in Open => v = old'[u] \/ Excused(v)
  PROVE  OpenInv'
<1>1. \A v \in Upgrades : status[v] \in Open => v # u /\ Excused(v)' = Excused(v)
  BY DEF Open, Excused, Flagged
<1>2. ASSUME NEW v \in Upgrades, NEW w \in Upgrades, v # w,
             status'[v] \in Open, status'[w] \in Open
      PROVE  Excused(v)' \/ Excused(w)'
  BY <1>1, <1>2 DEF UpgradeInv, OpenInv
<1>3. ASSUME NEW w \in planning', ~hist'[w].beside, NEW v \in Upgrades, status'[v] \in Open
      PROVE  v = old'[w] \/ Excused(v)'
  <2>1. CASE w = u
    BY <1>1, <1>3, <2>1
  <2>2. CASE w # u
    <3>1. w \in planning /\ ~hist[w].beside /\ old'[w] = old[w]
      BY <1>3, <2>2
    <3>2. QED
      BY <1>1, <1>3, <3>1 DEF UpgradeInv, OpenInv
  <2>3. QED
    BY <2>1, <2>2
<1>4. QED
  BY <1>2, <1>3 DEF OpenInv

(* A plan is cancelled by its user. *)
LEMMA CancelInv ==
  ASSUME UpgradeInv, NEW u \in Upgrades, Cancel(u)
  PROVE  UpgradeInv'
<1> USE DEF UpgradeInv
<1>1. PICK b \in BOOLEAN : b = (hist[u].raced \/ Raced(u))
  BY DEF TypeOK, HistRecords, Raced
<1>2. hist' = [hist EXCEPT ![u].raced = b] /\ (Raced(u) => b) /\ (hist[u].raced => b)
  BY <1>1 DEF Cancel
<1>3. /\ hist' \in [Upgrades -> HistRecords] /\ hist'[u].raced = b
      /\ hist'[u].from = hist[u].from /\ hist'[u].late = hist[u].late
      /\ hist'[u].unfenced = hist[u].unfenced /\ hist'[u].done = hist[u].done
      /\ hist'[u].cut = hist[u].cut /\ hist'[u].beside = hist[u].beside
      /\ \A w \in Upgrades : w # u => hist'[w] = hist[w]
  BY <1>2, ZenonT(60) DEF TypeOK, HistRecords
<1>4. /\ status[u] = "ready" /\ status'[u] = "cancelled"
      /\ status' \in [Upgrades -> Statuses]
      /\ \A w \in Upgrades : w # u => status'[w] = status[w]
  BY DEF Cancel, TypeOK, Statuses
<1>5. \A w \in Upgrades : Kept(w) \/ Cancels(w)
  BY <1>2, <1>3, <1>4 DEF Kept, Cancels
<1>6. \A w \in Upgrades : hist'[w].done = hist[w].done /\ hist'[w].cut = hist[w].cut
  BY <1>3
<1>7. UNCHANGED <<step, target, fence, live, revs, exec, requests, faults>>
  BY DEF Cancel
<1>8. HistKept
  BY <1>2, <1>3 DEF HistKept, Flagged
<1>9. OpenInv'
  BY <1>4, <1>7, <1>8, OpenKept DEF Open
<1>10. PlanningInv'
  <2>1. \A w \in Upgrades : old[w] # 0 => old[w] \in Upgrades
    BY DEF TypeOK
  <2>2. QED
    BY <1>4, <1>7, <2>1 DEF PlanningInv
<1>11. planning' \subseteq Upgrades /\ old' \in [Upgrades -> {0} \cup Upgrades]
  BY <1>7 DEF TypeOK
<1>12. QED
  BY <1>3, <1>4, <1>5, <1>6, <1>7, <1>9, <1>10, <1>11, RequestInv

(* A request looks at the open upgrades. *)
LEMMA PlanCheckInv ==
  ASSUME UpgradeInv, NEW u \in Upgrades, PlanCheck(u)
  PROVE  UpgradeInv'
<1> USE DEF UpgradeInv
<1>1. /\ status[u] = "none" /\ u \notin planning /\ planning' = planning \cup {u}
      /\ UNCHANGED <<status, step, target, fence, live, revs, exec, nextExec, faults>>
  BY DEF PlanCheck, Unplanned, row
<1>2. old[u] = 0 /\ planning' \subseteq Upgrades
  BY <1>1 DEF PlanningInv, TypeOK
<1>3. \A w \in Upgrades : old[w] # 0 => old[w] \in Upgrades
  BY DEF TypeOK
<1>4. CASE OpenRows = {} /\ UNCHANGED <<old, hist>>
  <2>1. \A v \in Upgrades : status[v] \notin Open
    BY <1>4 DEF OpenRows, Open, Executing
  <2>2. OpenInv'
    BY <1>1, <1>2, <1>4, <2>1, OpenSame
  <2>3. PlanningInv'
    BY <1>1, <1>2, <1>4 DEF PlanningInv
  <2>4. /\ \A w \in Upgrades : Kept(w)
        /\ \A w \in Upgrades : hist'[w].done = hist[w].done /\ hist'[w].cut = hist[w].cut
    BY <1>1, <1>4 DEF Kept
  <2>5. /\ status' \in [Upgrades -> Statuses] /\ hist' \in [Upgrades -> HistRecords]
        /\ old' \in [Upgrades -> {0} \cup Upgrades]
    BY <1>1, <1>4 DEF TypeOK
  <2>6. QED
    BY <1>1, <1>2, <2>2, <2>3, <2>4, <2>5, RequestInv
<1>5. ASSUME NEW v \in OpenRows, status[v] = "ready", old' = [old EXCEPT ![u] = v],
             hist' = [hist EXCEPT ![u].beside = hist[v].beside]
      PROVE  UpgradeInv'
  <2>1. v \in Upgrades /\ status[v] \in Open
    BY <1>5 DEF OpenRows, Open
  <2>2. /\ old' \in [Upgrades -> {0} \cup Upgrades] /\ old'[u] = v
        /\ \A w \in Upgrades : w # u => old'[w] = old[w]
    BY <1>5, <2>1 DEF TypeOK
  <2>3. PICK b \in BOOLEAN : b = hist[v].beside
    BY <2>1 DEF TypeOK, HistRecords
  <2>4. hist' = [hist EXCEPT ![u].beside = b]
    BY <1>5, <2>3
  <2>5. /\ hist' \in [Upgrades -> HistRecords] /\ hist'[u].beside = b
        /\ hist'[u].from = hist[u].from /\ hist'[u].late = hist[u].late
        /\ hist'[u].unfenced = hist[u].unfenced /\ hist'[u].raced = hist[u].raced
        /\ hist'[u].done = hist[u].done /\ hist'[u].cut = hist[u].cut
        /\ \A w \in Upgrades : w # u => hist'[w] = hist[w]
    BY <2>4, ZenonT(60) DEF TypeOK, HistRecords
  <2>6. ~hist'[u].beside => \A w \in Upgrades : status[w] \in Open => w = v \/ Excused(w)
    <3>1. ~hist'[u].beside => ~Excused(v)
      BY <1>5, <2>1, <2>3, <2>5 DEF StatusInv, Excused
    <3>2. QED
      BY <2>1, <3>1 DEF OpenInv
  <2>7. OpenInv'
    BY <1>1, <1>2, <2>2, <2>5, <2>6, OpenSame
  <2>8. PlanningInv'
    BY <1>1, <1>3, <1>5, <2>1, <2>2 DEF PlanningInv
  <2>9. /\ \A w \in Upgrades : Kept(w)
        /\ \A w \in Upgrades : hist'[w].done = hist[w].done /\ hist'[w].cut = hist[w].cut
    BY <1>1, <2>5 DEF Kept
  <2>10. status' \in [Upgrades -> Statuses]
    BY <1>1 DEF TypeOK
  <2>11. QED
    BY <1>1, <1>2, <2>2, <2>5, <2>7, <2>8, <2>9, <2>10, RequestInv
<1>6. QED
  BY <1>4, <1>5 DEF PlanCheck

(* The scan of a request fails. *)
LEMMA PlanAbortedInv ==
  ASSUME UpgradeInv, NEW u \in Upgrades, PlanAborted(u)
  PROVE  UpgradeInv'
<1> USE DEF UpgradeInv
<1>1. /\ status[u] = "none" /\ planning' = planning \ {u} /\ planning' \subseteq Upgrades
      /\ old' = [old EXCEPT ![u] = 0] /\ hist' = [hist EXCEPT ![u].beside = FALSE]
      /\ UNCHANGED <<status, step, target, fence, live, revs, exec, nextExec, faults>>
  BY DEF PlanAborted, PlanningInv, TypeOK, row
<1>2. /\ old' \in [Upgrades -> {0} \cup Upgrades] /\ old'[u] = 0
      /\ \A w \in Upgrades : w # u => old'[w] = old[w]
      /\ \A w \in Upgrades : old[w] # 0 => old[w] \in Upgrades
  BY <1>1 DEF TypeOK
<1>3. /\ hist' \in [Upgrades -> HistRecords]
      /\ hist'[u].from = hist[u].from /\ hist'[u].late = hist[u].late
      /\ hist'[u].unfenced = hist[u].unfenced /\ hist'[u].raced = hist[u].raced
      /\ hist'[u].done = hist[u].done /\ hist'[u].cut = hist[u].cut
      /\ \A w \in Upgrades : w # u => hist'[w] = hist[w]
  BY <1>1, ZenonT(60) DEF TypeOK, HistRecords
<1>4. OpenInv'
  BY <1>1, <1>2, <1>3, OpenSame
<1>5. PlanningInv'
  BY <1>1, <1>2 DEF PlanningInv
<1>6. /\ \A w \in Upgrades : Kept(w)
      /\ \A w \in Upgrades : hist'[w].done = hist[w].done /\ hist'[w].cut = hist[w].cut
  BY <1>1, <1>3 DEF Kept
<1>7. status' \in [Upgrades -> Statuses]
  BY <1>1 DEF TypeOK
<1>8. QED
  BY <1>1, <1>2, <1>3, <1>4, <1>5, <1>6, <1>7, RequestInv

(* The rows and the history that a plan commits. *)
Committed(u, s) ==
  /\ status' = [v \in Upgrades |-> IF v = u THEN s
                                  ELSE IF v = old[u] THEN "cancelled" ELSE status[v]]
  /\ hist' = [v \in Upgrades |-> [hist[v] EXCEPT
                !.from = IF v = u THEN Len(revs) ELSE @,
                !.raced = @ \/ (v = old[u] /\ Raced(v)),
                !.beside = @ \/ (s = "ready" /\ v \in planning \ {u})]]

(* The history of one of them. *)
LEMMA PlanHist ==
  ASSUME UpgradeInv, NEW u \in Upgrades, NEW s \in {"ready", "failed"},
         Committed(u, s), NEW v \in Upgrades
  PROVE  /\ hist'[v] \in HistRecords
         /\ hist'[v].from = IF v = u THEN Len(revs) ELSE hist[v].from
         /\ hist'[v].late = hist[v].late /\ hist'[v].unfenced = hist[v].unfenced
         /\ hist'[v].done = hist[v].done /\ hist'[v].cut = hist[v].cut
         /\ v # old[u] => hist'[v].raced = hist[v].raced
         /\ hist[v].raced => hist'[v].raced
         /\ v = old[u] /\ Raced(v) => hist'[v].raced
         /\ hist[v].beside => hist'[v].beside
         /\ s = "ready" /\ v \in planning \ {u} => hist'[v].beside
<1>1. hist[v] \in HistRecords /\ Len(revs) \in Nat
  BY UpgradeTypes DEF UpgradeInv, TypeOK
<1>2. hist[v].raced \in BOOLEAN /\ hist[v].beside \in BOOLEAN /\ hist[v].from \in Nat
  BY <1>1 DEF HistRecords
<1>3. PICK n \in Nat : n = IF v = u THEN Len(revs) ELSE hist[v].from
  BY <1>1, <1>2
<1>4. PICK raced \in BOOLEAN : raced = (hist[v].raced \/ (v = old[u] /\ Raced(v)))
  BY <1>2, Zenon
<1>5. PICK beside \in BOOLEAN :
        beside = (hist[v].beside \/ (s = "ready" /\ v \in planning \ {u}))
  BY <1>2, Zenon
<1>6. hist'[v] = [hist[v] EXCEPT !.from = n, !.raced = raced, !.beside = beside]
  BY <1>3, <1>4, <1>5 DEF Committed
<1>7. /\ hist'[v] \in HistRecords /\ hist'[v].from = n
      /\ hist'[v].late = hist[v].late /\ hist'[v].unfenced = hist[v].unfenced
      /\ hist'[v].done = hist[v].done /\ hist'[v].cut = hist[v].cut
      /\ hist'[v].raced = raced /\ hist'[v].beside = beside
  BY <1>1, <1>6, ZenonT(60) DEF HistRecords
<1>8. v # old[u] => raced = hist[v].raced
  BY <1>2, <1>4
<1>9. QED
  BY <1>3, <1>4, <1>5, <1>7, <1>8

(* A plan is made, and what it replaces is cancelled. *)
LEMMA PlanInv ==
  ASSUME UpgradeInv, NEW u \in Upgrades, Plan(u)
  PROVE  UpgradeInv'
<1> USE DEF UpgradeInv
<1>1. PICK s \in {"ready", "failed"} : Committed(u, s)
  BY DEF Plan, Committed
<1>2. /\ u \in planning /\ status[u] = "none"
      /\ planning' = planning \ {u} /\ planning' \subseteq Upgrades
      /\ old' = [old EXCEPT ![u] = 0]
      /\ UNCHANGED <<step, target, fence, live, revs, exec, nextExec, faults>>
  BY DEF Plan, PlanningInv, TypeOK
<1>3. /\ old' \in [Upgrades -> {0} \cup Upgrades] /\ old'[u] = 0
      /\ \A w \in Upgrades : w # u => old'[w] = old[w]
      /\ \A w \in Upgrades : old[w] # 0 => old[w] \in Upgrades
  BY <1>2 DEF TypeOK
<1>4. \A w \in Upgrades : w = old[u] => w # u /\ status[w] # "none"
  BY <1>2, UpgradeAssumption DEF PlanningInv
<1>5. /\ status' \in [Upgrades -> Statuses] /\ status'[u] = s
      /\ \A w \in Upgrades : w = old[u] => status'[w] = "cancelled"
      /\ \A w \in Upgrades : w \notin {u, old[u]} => status'[w] = status[w]
  BY <1>1, <1>4 DEF Committed, TypeOK, Statuses
<1>6. \A v \in Upgrades :
        /\ hist'[v] \in HistRecords
        /\ hist'[v].from = IF v = u THEN Len(revs) ELSE hist[v].from
        /\ hist'[v].late = hist[v].late /\ hist'[v].unfenced = hist[v].unfenced
        /\ hist'[v].done = hist[v].done /\ hist'[v].cut = hist[v].cut
        /\ v # old[u] => hist'[v].raced = hist[v].raced
        /\ hist[v].raced => hist'[v].raced
        /\ v = old[u] /\ Raced(v) => hist'[v].raced
        /\ hist[v].beside => hist'[v].beside
        /\ s = "ready" /\ v \in planning \ {u} => hist'[v].beside
  BY <1>1, PlanHist
<1>7. hist' \in [Upgrades -> HistRecords]
  <2>1. PICK f : hist' = [v \in Upgrades |-> f[v]]
    <3>1. hist' = [v \in Upgrades |-> hist'[v]]
      BY <1>1 DEF Committed
    <3>2. QED
      BY <3>1
  <2>2. QED
    BY <1>6, <2>1
<1>8. /\ Plans(u)
      /\ \A w \in Upgrades : w = old[u] => Cancels(w)
      /\ \A w \in Upgrades : w \notin {u, old[u]} => Kept(w)
  <2>1. Plans(u)
    BY <1>2, <1>4, <1>5, <1>6 DEF Plans
  <2>2. \A w \in Upgrades : w = old[u] => Cancels(w)
    BY <1>4, <1>5, <1>6 DEF Cancels
  <2>3. \A w \in Upgrades : w \notin {u, old[u]} => Kept(w)
    BY <1>5, <1>6 DEF Kept
  <2>4. QED
    BY <2>1, <2>2, <2>3
<1>9. \A v \in Upgrades : Excused(v) => Excused(v)'
  BY <1>6 DEF Excused, Flagged
<1>10. \A v \in Upgrades : v # u /\ status'[v] \in Open => status[v] \in Open /\ v # old[u]
  BY <1>5 DEF Open
<1>11. OpenInv'
  <2>1. ASSUME NEW v \in Upgrades, v # u, status'[u] \in Open, status'[v] \in Open
        PROVE  Excused(u)' \/ Excused(v)'
    <3>1. CASE hist[u].beside
      BY <1>6, <3>1 DEF Excused
    <3>2. CASE ~hist[u].beside
      BY <1>2, <1>9, <1>10, <2>1, <3>2 DEF OpenInv
    <3>3. QED
      BY <3>1, <3>2
  <2>2. ASSUME NEW v \in Upgrades, NEW w \in Upgrades, v # w,
               status'[v] \in Open, status'[w] \in Open
        PROVE  Excused(v)' \/ Excused(w)'
    <3>1. CASE v = u \/ w = u
      BY <2>1, <2>2, <3>1
    <3>2. CASE v # u /\ w # u
      BY <1>9, <1>10, <2>2, <3>2 DEF OpenInv
    <3>3. QED
      BY <3>1, <3>2
  <2>3. ASSUME NEW w \in planning', ~hist'[w].beside, NEW v \in Upgrades,
               status'[v] \in Open
        PROVE  v = old'[w] \/ Excused(v)'
    <3>1. w \in Upgrades /\ w \in planning \ {u} /\ ~hist[w].beside /\ s # "ready"
      BY <1>2, <1>6, <2>3
    <3>2. v # u
      BY <1>5, <2>3, <3>1 DEF Open
    <3>3. v = old[w] \/ Excused(v)
      BY <1>10, <2>3, <3>1, <3>2 DEF OpenInv
    <3>4. QED
      BY <1>3, <1>9, <3>1, <3>3
  <2>4. QED
    BY <2>2, <2>3 DEF OpenInv
<1>12. PlanningInv'
  <2>1. \A w \in Upgrades : status[w] # "none" => status'[w] # "none"
    BY <1>5
  <2>2. \A w \in Upgrades : w \in planning' => status'[w] = "none"
    BY <1>2, <1>4, <1>5 DEF PlanningInv
  <2>3. QED
    BY <1>2, <1>3, <2>1, <2>2 DEF PlanningInv
<1>13. \A w \in Upgrades : Kept(w) \/ Cancels(w) \/ Plans(w)
  BY <1>8
<1>14. QED
  BY <1>2, <1>3, <1>5, <1>6, <1>7, <1>11, <1>12, <1>13, RequestInv

(* A message is sent: nothing else changes, and no task holds a lock of it. *)
LEMMA RoutesInv ==
  ASSUME UpgradeInv, NEW u \in Upgrades, ExecuteRoute(u) \/ RollbackRoute(u)
  PROVE  UpgradeInv'
<1> USE DEF UpgradeInv
<1>1. PICK kind \in {"execute", "rollback"} :
        /\ Send(u, kind) /\ status[u] # "none"
        /\ kind = "rollback" => target[u] # 0
  BY DEF ExecuteRoute, RollbackRoute, RollbackAllowed
<1>2. UNCHANGED <<status, step, target, fence, live, revs, faults, planning, old, hist>>
  BY DEF ExecuteRoute, RollbackRoute, row
<1>3. PICK x \in Execs :
        /\ Changes(x) /\ x = nextExec /\ nextExec' = nextExec + 1
        /\ nextExec' \in 1 .. MaxExecs + 1 /\ exec[x] = NoExec
        /\ exec'[x].u = u /\ exec'[x].kind = kind /\ exec'[x].pc = "sent"
        /\ exec'[x].fence = 0
  BY <1>1, SendsOne
<1>4. /\ exec' \in [Execs -> ExecRecords] /\ exec[x].pc = "none"
      /\ \A d \in Execs : d # x => exec'[d] = exec[d]
  BY <1>3, NoExecFields DEF Changes
<1>5. TypeOK'
  <2>1. \A d \in Execs : exec'[d].fence <= fence[exec'[d].u]
    <3>1. 0 <= fence[u]
      BY UpgradeTypes
    <3>2. QED
      BY <1>3, <1>4, <3>1, ExecTypes
  <2>2. QED
    BY <1>2, <1>3, <1>4, <2>1 DEF TypeOK
<1>6. HistKept
  BY <1>2 DEF HistKept, Flagged
<1>7. RowsKept
  BY <1>2, UpgradeTypes DEF RowsKept
<1>8. MessageInv' /\ PlanningInv'
  <2>1. nextExec' \in Nat /\ nextExec <= nextExec' /\ x < nextExec'
    BY <1>3 DEF TypeOK
  <2>2. exec'[x].pc \notin ExecutePCs \cup RollbackPCs \cup Working
    BY <1>3 DEF ExecutePCs, RollbackPCs, Working
  <2>3. QED
    BY <1>1, <1>2, <1>3, <1>4, <1>7, <2>1, <2>2, MessageKept
<1>9. FenceInv'
  BY <1>3, <1>4, FenceKept DEF Locked
<1>10. /\ \A d \in Execs : d # x => /\ Holds(d)' = Holds(d) /\ Fenced(d)' = Fenced(d)
                                   /\ \A v \in Upgrades : Executes(d, v)' = Executes(d, v)
       /\ ~Holds(x)' /\ ~Holds(x)
  BY <1>2, <1>3, <1>4, SameHolder DEF Holds, Locked
<1>11. StatusInv'
  <2>1. \A v \in Upgrades : Flagged(v)' => status'[v] \notin {"none", "ready"}
    BY <1>2 DEF StatusInv, Flagged
  <2>2. QED
    BY <1>2, <1>4, <1>6, <1>10, <2>1, StatusKept
<1>12. OpenInv'
  BY <1>2, <1>6, OpenKept
<1>13. StepsInv'
  <2>1. ASSUME NEW v \in Upgrades, Ongoing(v)'
        PROVE  Ongoing(v)
    BY <1>2, <1>10, <2>1 DEF Ongoing, Executes
  <2>2. \A d \in Execs : Holds(d) => Accounted(d) \/ exec[d].pc \notin Working
    BY <1>4, <1>10 DEF Accounted
  <2>3. \A d \in Execs : exec'[d].pc \in Working /\ ~Fenced(d)' =>
           /\ exec'[d].u = exec[d].u /\ exec'[d].at = exec[d].at
           /\ exec[d].pc \in Working /\ ~Fenced(d)
    BY <1>3, <1>4, <1>10 DEF Working
  <2>4. QED
    BY <1>2, <1>6, <2>1, <2>2, <2>3, StepsKept
<1>14. RestoreInv'
  <2>1. \A d \in Execs : exec'[d].pc = "restored" /\ Holds(d)' =>
           exec[d].pc = "restored" /\ Holds(d) /\ exec'[d].u = exec[d].u
    BY <1>3, <1>4, <1>10
  <2>2. QED
    BY <1>2, <1>6, <2>1, UpgradeTypes, RestoreKept
<1>15. QED
  BY <1>5, <1>8, <1>9, <1>11, <1>12, <1>13, <1>14

-----------------------------------------------------------------------------
(* The service calls *)

(* The next holder: earlier tokens are void, and what their tasks were       *)
(* working on is accounted for as cut.                                       *)
LEMMA AcquireInv ==
  ASSUME UpgradeInv, NEW e \in Execs, Acquire(e)
  PROVE  UpgradeInv'
<1> USE DEF UpgradeInv
<1>1. PICK u \in Upgrades : u = exec[e].u
  BY ExecTypes
<1> DEFINE held == {x \in Execs : exec[x].u = u /\ Fenced(x) /\ exec[x].pc \in Working}
           C == {exec[d].at : d \in held}
<1>2. /\ exec[e].pc = "sent"
      /\ UNCHANGED <<status, step, target, revs, requests, faults>>
  BY DEF Acquire
<1>3. /\ fence' = [fence EXCEPT ![u] = @ + 1] /\ live' = [live EXCEPT ![u] = TRUE]
      /\ hist' = [hist EXCEPT ![u].cut = @ \cup C]
  BY <1>1 DEF Acquire
<1>4. PICK n \in Nat : n = fence[u] + 1
  BY UpgradeTypes
<1>5. PICK pc \in {"begin", "refused"} :
        /\ exec' = [exec EXCEPT ![e].pc = pc, ![e].fence = n]
        /\ pc = "begin" => Admitted(e)
  BY <1>1, <1>4 DEF Acquire
<1>6. /\ exec' \in [Execs -> ExecRecords] /\ exec'[e].pc = pc /\ exec'[e].fence = n
      /\ exec'[e].u = u /\ exec'[e].kind = exec[e].kind
      /\ \A d \in Execs : d # e => exec'[d] = exec[d]
  BY <1>1, <1>5, ZenonT(60) DEF TypeOK, ExecRecords, Locked
<1>7. /\ fence' \in [Upgrades -> Nat] /\ fence'[u] = n /\ live' \in [Upgrades -> BOOLEAN]
      /\ \A v \in Upgrades : v # u => fence'[v] = fence[v]
  BY <1>3, <1>4 DEF TypeOK
<1>8. C \subseteq 1 .. Steps
  <2>1. \A d \in held : exec[d].at \in 1 .. Steps
    BY ExecTypes, UpgradeTypes DEF MessageInv
  <2>2. QED
    BY <2>1
<1>9. /\ hist' \in [Upgrades -> HistRecords] /\ hist'[u].cut = hist[u].cut \cup C
      /\ \A v \in Upgrades :
           /\ hist'[v].from = hist[v].from /\ hist'[v].late = hist[v].late
           /\ hist'[v].done = hist[v].done
           /\ hist'[v].raced = hist[v].raced /\ hist'[v].beside = hist[v].beside
           /\ hist'[v].unfenced = hist[v].unfenced
           /\ v # u => hist'[v] = hist[v]
  <2>1. PICK c \in SUBSET (1 .. Steps) : c = hist[u].cut \cup C
    BY <1>8, UpgradeTypes
  <2>2. hist' = [hist EXCEPT ![u].cut = c]
    BY <1>3, <2>1
  <2>3. /\ hist' \in [Upgrades -> HistRecords] /\ hist'[u].cut = c
        /\ \A v \in Upgrades : Stays(v) /\ hist'[v].unfenced = hist[v].unfenced
    BY <2>1, <2>2, CutsOnly
  <2>4. \A v \in Upgrades : v # u => hist'[v] = hist[v]
    BY <2>2 DEF TypeOK
  <2>5. QED
    BY <2>1, <2>3, <2>4 DEF Stays
<1>10. \A d \in Execs : d # e =>
         /\ exec[d].u = u => ~Fenced(d)'
         /\ exec[d].u # u => Fenced(d)' = Fenced(d) /\ Holds(d)' = Holds(d)
  <2>1. ASSUME NEW d \in Execs, d # e, exec[d].u = u
        PROVE  ~Fenced(d)'
    <3>1. exec[d].fence <= fence[u] /\ exec[d].fence \in Nat /\ fence[u] \in Nat
      BY <2>1, ExecTypes, UpgradeTypes
    <3>2. exec'[d].fence # n
      BY <1>4, <1>6, <2>1, <3>1
    <3>3. QED
      BY <1>6, <1>7, <2>1, <3>2 DEF Fenced
  <2>2. ASSUME NEW d \in Execs, d # e, exec[d].u # u
        PROVE  Fenced(d)' = Fenced(d) /\ Holds(d)' = Holds(d)
    BY <1>6, <1>7, <2>2, ExecTypes DEF Fenced, Holds
  <2>3. QED
    BY <2>1, <2>2
<1>11. Fenced(e)'
  BY <1>6, <1>7 DEF Fenced
<1>12. TypeOK'
  <2>1. ASSUME NEW d \in Execs
        PROVE  exec'[d].fence <= fence'[exec'[d].u]
    <3>1. CASE d = e
      BY <1>6, <1>7, <3>1
    <3>2. CASE d # e
      <4>1. exec'[d] = exec[d] /\ exec[d].fence <= fence[exec[d].u]
            /\ exec[d].fence \in Nat /\ exec[d].u \in Upgrades
        BY <1>6, <3>2, ExecTypes
      <4>2. CASE exec[d].u = u
        <5>1. fence[u] \in Nat /\ fence'[u] = fence[u] + 1
          BY <1>4, <1>7, UpgradeTypes
        <5>2. QED
          BY <4>1, <4>2, <5>1
      <4>3. CASE exec[d].u # u
        BY <1>7, <4>1, <4>3
      <4>4. QED
        BY <4>2, <4>3
    <3>3. QED
      BY <3>1, <3>2
  <2>2. \A v \in Upgrades : hist'[v].from \in 1 .. Len(revs)
    BY <1>9, UpgradeTypes
  <2>3. QED
    BY <1>2, <1>6, <1>7, <1>9, <2>1, <2>2 DEF TypeOK
<1>13. HistKept
  BY <1>9 DEF HistKept, Flagged
<1>14. MessageInv' /\ PlanningInv'
  <2>1. RowsKept
    BY <1>2, UpgradeTypes DEF RowsKept
  <2>2. nextExec' \in Nat /\ nextExec <= nextExec' /\ e < nextExec'
    BY <1>2, WasSent DEF TypeOK
  <2>3. status[u] # "none" /\ (exec[e].kind = "rollback" => target[u] # 0)
    BY <1>1, <1>2 DEF MessageInv
  <2>4. exec'[e].pc \notin ExecutePCs \cup RollbackPCs \cup Working /\ exec'[e].pc # "none"
    BY <1>6 DEF ExecutePCs, RollbackPCs, Working
  <2>5. QED
    BY <1>2, <1>6, <2>1, <2>2, <2>3, <2>4, MessageKept
<1>15. FenceInv'
  <2>1. \A d \in Execs : exec'[d].pc \in Locked => exec'[d].fence > 0
    BY <1>4, <1>6, UpgradeTypes DEF FenceInv
  <2>2. \A d \in Execs : d # e /\ exec'[d].u = u => exec'[d].fence # n
    BY <1>6, <1>7, <1>10 DEF Fenced
  <2>3. ASSUME NEW c \in Execs, NEW d \in Execs, exec'[c].u = exec'[d].u,
               exec'[c].fence = exec'[d].fence, exec'[d].fence > 0
        PROVE  c = d
    <3>1. CASE c = e \/ d = e
      BY <1>6, <2>2, <2>3, <3>1
    <3>2. CASE c # e /\ d # e
      BY <1>6, <2>3, <3>2 DEF FenceInv
    <3>3. QED
      BY <3>1, <3>2
  <2>4. QED
    BY <2>1, <2>3 DEF FenceInv
<1>16. pc = "begin" =>
         /\ exec[e].kind = "execute" => status[u] \in Open
         /\ exec[e].kind # "execute" => status[u] \in {"failed", "in_progress"}
  BY <1>1, <1>5 DEF Admitted, RollbackAllowed, Open
<1>17. StatusInv'
  <2>1. \A v \in Upgrades : Flagged(v)' => status'[v] \notin {"none", "ready"}
    BY <1>2, <1>9 DEF StatusInv, Flagged
  <2>2. HolderStatus(e, status[exec[e].u])'
    BY <1>2, <1>6, <1>16 DEF HolderStatus, At, ExecutePCs, RollbackPCs, Working
  <2>3. \A d \in Execs : Holds(d)' /\ d # e => Holds(d) /\ exec'[d] = exec[d]
    BY <1>6, <1>10 DEF Holds
  <2>4. QED
    BY <1>2, <1>13, <2>1, <2>2, <2>3, StatusKept
<1>18. OpenInv'
  BY <1>2, <1>13, OpenKept
<1>19. StepsInv'
  <2>1. ASSUME NEW v \in Upgrades, Ongoing(v)'
        PROVE  Ongoing(v)
    <3>1. CASE status[v] \in Open
      BY <3>1 DEF Ongoing
    <3>2. CASE status[v] \notin Open
      <4>1. PICK d \in Execs : Executes(d, v)'
        BY <1>2, <2>1, <3>2 DEF Ongoing
      <4>2. d # e
        BY <1>6, <1>16, <3>2, <4>1 DEF Executes, ExecutePCs, Working
      <4>3. Executes(d, v)
        BY <1>6, <1>10, <4>1, <4>2 DEF Executes, Holds
      <4>4. QED
        BY <4>3 DEF Ongoing
    <3>3. QED
      BY <3>1, <3>2
  <2>2. ASSUME NEW d \in Execs, Holds(d), exec[d].pc \in Working
        PROVE  Accounted(d)
    <3>1. d # e
      BY <1>2, <2>2 DEF Working
    <3>2. CASE exec[d].u = u
      <4>1. exec[d].at \in C
        BY <2>2, <3>2 DEF Holds
      <4>2. QED
        BY <1>9, <3>2, <4>1 DEF Accounted
    <3>3. CASE exec[d].u # u
      BY <1>6, <1>10, <2>2, <3>1, <3>3 DEF Accounted
    <3>4. QED
      BY <3>2, <3>3
  <2>3. ASSUME NEW d \in Execs, exec'[d].pc \in Working, ~Fenced(d)'
        PROVE  \/ /\ exec'[d].u = exec[d].u /\ exec'[d].at = exec[d].at
                  /\ exec[d].pc \in Working /\ ~Fenced(d)
               \/ exec'[d].at \in hist'[exec'[d].u].cut
    <3>1. d # e /\ exec'[d] = exec[d]
      BY <1>6, <1>11, <2>3
    <3>2. CASE Fenced(d)
      <4>1. exec[d].u = u
        BY <1>10, <2>3, <3>1, <3>2
      <4>2. exec[d].at \in C
        BY <2>3, <3>1, <3>2, <4>1
      <4>3. QED
        BY <1>9, <3>1, <4>1, <4>2
    <3>3. CASE ~Fenced(d)
      BY <2>3, <3>1, <3>3
    <3>4. QED
      BY <3>2, <3>3
  <2>4. \A v \in Upgrades : step'[v] = step[v] /\ status'[v] = status[v]
    BY <1>2
  <2>5. QED
    BY <1>13, <2>1, <2>2, <2>3, <2>4, StepsKept
<1>20. RestoreInv'
  <2>1. \A d \in Execs : exec'[d].pc = "restored" /\ Holds(d)' =>
           exec[d].pc = "restored" /\ Holds(d) /\ exec'[d].u = exec[d].u
    BY <1>6, <1>10 DEF Holds
  <2>2. QED
    BY <1>2, <1>9, <1>13, <2>1, UpgradeTypes, RestoreKept
<1>21. QED
  BY <1>12, <1>14, <1>15, <1>17, <1>18, <1>19, <1>20

(* A task goes on with the token that it has. *)
LEMMA GoesOn ==
  ASSUME UpgradeInv, NEW e \in Execs, exec[e].pc \in Locked, Changes(e),
         exec'[e].pc \in Locked, exec'[e].u = exec[e].u,
         exec'[e].fence = exec[e].fence, UNCHANGED fence
  PROVE  /\ FenceInv'
         /\ \A d \in Execs :
              /\ Holds(d)' = Holds(d) /\ Fenced(d)' = Fenced(d)
              /\ exec'[d].u = exec[d].u /\ exec'[d].fence <= fence[exec[d].u]
         /\ \A d \in Execs, v \in Upgrades : d # e => Executes(d, v)' = Executes(d, v)
<1>1. \A d \in Execs : exec'[d].u = exec[d].u /\ exec'[d].fence = exec[d].fence
                       /\ (d # e => exec'[d] = exec[d])
  BY DEF Changes
<1>2. FenceInv'
  BY <1>1, FenceKept DEF UpgradeInv
<1>3. \A d \in Execs :
        /\ Holds(d)' = Holds(d) /\ Fenced(d)' = Fenced(d)
        /\ exec'[d].u = exec[d].u /\ exec'[d].fence <= fence[exec[d].u]
  BY <1>1, ExecTypes DEF UpgradeInv, Holds, Fenced
<1>4. \A d \in Execs, v \in Upgrades : d # e => Executes(d, v)' = Executes(d, v)
  BY <1>1, SameHolder
<1>5. QED
  BY <1>2, <1>3, <1>4

(* The holder begins: its status is the one that it writes. *)
LEMMA BeginInv ==
  ASSUME UpgradeInv, NEW e \in Execs, NEW u \in Upgrades, u = exec[e].u,
         exec[e].pc = "begin", Fenced(e), NEW s \in Executing,
         status' = [status EXCEPT ![u] = s],
         \/ /\ s = "in_progress" /\ exec[e].kind = "execute" /\ Goto(e, "loop")
         \/ /\ s = "rolling_back" /\ exec[e].kind = "rollback" /\ Goto(e, "helm"),
         target' \in [Upgrades -> Nat], hist' \in [Upgrades -> HistRecords],
         \A v \in Upgrades :
           /\ target'[v] <= Len(revs) /\ (target[v] # 0 => target'[v] # 0)
           /\ v # u => target'[v] = target[v] /\ hist'[v] = hist[v]
           /\ hist'[v].from = hist[v].from /\ hist'[v].done = hist[v].done
           /\ hist'[v].cut = hist[v].cut
           /\ hist'[v].raced = hist[v].raced /\ hist'[v].beside = hist[v].beside
           /\ hist'[v].unfenced = hist[v].unfenced,
         UNCHANGED <<step, fence, live, revs, requests, faults>>
  PROVE  /\ TypeOK' /\ MessageInv' /\ PlanningInv' /\ FenceInv'
         /\ StatusInv' /\ OpenInv' /\ StepsInv'
         /\ HistKept
         /\ \A d \in Execs : Holds(d)' = Holds(d) /\ exec'[d].u = exec[d].u
         /\ \A d \in Execs : exec'[d].pc = "restored" => exec[d].pc = "restored"
<1> USE DEF UpgradeInv
<1>1. /\ Changes(e) /\ exec'[e].kind = exec[e].kind /\ exec'[e].u = u
      /\ exec'[e].fence = exec[e].fence
      /\ exec'[e].pc = IF exec[e].kind = "execute" THEN "loop" ELSE "helm"
      /\ s = IF exec[e].kind = "execute" THEN "in_progress" ELSE "rolling_back"
      /\ exec[e].kind \in {"execute", "rollback"}
  BY Goes DEF PCs, Locked
<1>2. exec[e].pc \in Locked /\ exec'[e].pc \in Locked /\ Holds(e)
  BY <1>1 DEF Locked, Holds
<1>3. /\ FenceInv'
      /\ \A d \in Execs :
           /\ Holds(d)' = Holds(d) /\ Fenced(d)' = Fenced(d)
           /\ exec'[d].u = exec[d].u /\ exec'[d].fence <= fence[exec[d].u]
      /\ \A d \in Execs, v \in Upgrades : d # e => Executes(d, v)' = Executes(d, v)
  BY <1>1, <1>2, GoesOn
<1>4. /\ exec' \in [Execs -> ExecRecords]
      /\ \A d \in Execs : d # e => exec'[d] = exec[d]
  BY <1>1 DEF Changes
<1>5. /\ status' \in [Upgrades -> Statuses] /\ status'[u] = s /\ s # "none" /\ s # "ready"
      /\ s # "completed"
      /\ \A v \in Upgrades : v # u => status'[v] = status[v]
  BY DEF TypeOK, Statuses, Executing
<1>6. TypeOK'
  <2>1. \A v \in Upgrades : hist'[v].from \in 1 .. Len(revs)
    BY UpgradeTypes
  <2>2. QED
    BY <1>3, <1>4, <1>5, <2>1 DEF TypeOK
<1>7. HistKept
  BY DEF HistKept, Flagged
<1>8. MessageInv' /\ PlanningInv'
  <2>1. RowsKept
    <3>1. status[u] # "none"
      BY DEF MessageInv
    <3>2. QED
      BY <1>5, <3>1, UpgradeTypes DEF RowsKept
  <2>2. nextExec' \in Nat /\ nextExec <= nextExec' /\ e < nextExec'
    BY <1>2, WasSent DEF TypeOK, Locked
  <2>3. exec[e].kind = "rollback" => target'[u] # 0
    BY DEF MessageInv
  <2>4. /\ exec'[e].pc \notin Working /\ exec'[e].pc # "none"
        /\ exec'[e].pc \in ExecutePCs => exec'[e].kind = "execute"
        /\ exec'[e].pc \in RollbackPCs => exec'[e].kind = "rollback"
    BY <1>1 DEF ExecutePCs, RollbackPCs, Working
  <2>5. QED
    BY <1>1, <1>4, <1>5, <2>1, <2>2, <2>3, <2>4, MessageKept
<1>9. StatusInv'
  <2>1. \A v \in Upgrades : Flagged(v)' => status'[v] \notin {"none", "ready"}
    BY <1>5 DEF StatusInv, Flagged
  <2>2. HolderStatus(e, status[exec[e].u])'
    BY <1>1, <1>5 DEF HolderStatus, At, ExecutePCs, RollbackPCs, Working
  <2>3. \A d \in Execs : Holds(d)' /\ d # e =>
          Holds(d) /\ exec'[d] = exec[d] /\ status'[exec[d].u] = status[exec[d].u]
    BY <1>2, <1>3, <1>4, <1>5, OneHolder, ExecTypes
  <2>4. QED
    BY <1>7, <2>1, <2>2, <2>3, StatusKept
<1>10. OpenInv'
  <2>1. s \in Open => status[u] \in Open \/ Flagged(u)
    BY <1>1, <1>2 DEF StatusInv, HolderStatus, At, Open
  <2>2. QED
    BY <1>5, <1>7, <2>1, OpenKept DEF HistKept
<1>11. StepsInv'
  <2>1. ASSUME NEW v \in Upgrades, Ongoing(v)'
        PROVE  Ongoing(v)
    <3>1. CASE v = u /\ exec[e].kind = "execute"
      BY <1>2, <3>1 DEF Ongoing, Executes
    <3>2. CASE v = u /\ exec[e].kind # "execute"
      <4>1. status'[v] \notin Open /\ ~Executes(e, v)'
        BY <1>1, <1>5, <3>2 DEF Open, Executes, ExecutePCs, Working
      <4>2. QED
        BY <1>3, <2>1, <4>1 DEF Ongoing
    <3>3. CASE v # u
      <4>1. ~Executes(e, v)'
        BY <1>1, <3>3 DEF Executes
      <4>2. QED
        BY <1>3, <1>5, <2>1, <3>3, <4>1 DEF Ongoing
    <3>4. QED
      BY <3>1, <3>2, <3>3
  <2>2. \A d \in Execs : Holds(d) /\ exec[d].pc \in Working => Accounted(d)
    BY <1>3, <1>4 DEF Accounted, Working
  <2>3. \A d \in Execs : exec'[d].pc \in Working /\ ~Fenced(d)' =>
           /\ exec'[d].u = exec[d].u /\ exec'[d].at = exec[d].at
           /\ exec[d].pc \in Working /\ ~Fenced(d)
    BY <1>1, <1>3, <1>4 DEF Working
  <2>4. \A v \in Upgrades : status'[v] = "completed" => status[v] = "completed"
    BY <1>5
  <2>5. \A v \in Upgrades : step'[v] = step[v]
    OBVIOUS
  <2>6. QED
    BY <1>7, <2>1, <2>2, <2>3, <2>4, <2>5, StepsKept
<1>12. \A d \in Execs : exec'[d].pc = "restored" => exec[d].pc = "restored"
  BY <1>1, <1>4
<1>13. QED
  BY <1>3, <1>6, <1>7, <1>8, <1>9, <1>10, <1>11, <1>12

(* A rollback task takes its lease and its row. *)
LEMMA BeginRollbackInv ==
  ASSUME UpgradeInv, NEW e \in Execs, BeginRollback(e)
  PROVE  UpgradeInv'
<1> USE DEF UpgradeInv
<1>1. PICK u \in Upgrades : u = exec[e].u
  BY ExecTypes
<1>2. /\ exec[e].pc = "begin" /\ exec[e].kind = "rollback" /\ Fenced(e)
      /\ status' = [status EXCEPT ![u] = "rolling_back"] /\ Goto(e, "helm")
      /\ UNCHANGED <<step, target, fence, live, revs, requests, faults, hist>>
  BY <1>1 DEF BeginRollback, At, SetStatus
<1>3. target' \in [Upgrades -> Nat] /\ hist' \in [Upgrades -> HistRecords]
  BY <1>2 DEF TypeOK
<1>4. \A v \in Upgrades : target'[v] <= Len(revs)
  BY <1>2, UpgradeTypes
<1>5. "rolling_back" \in Executing
  BY DEF Executing
<1>6. /\ TypeOK' /\ MessageInv' /\ PlanningInv' /\ FenceInv'
      /\ StatusInv' /\ OpenInv' /\ StepsInv'
      /\ HistKept
      /\ \A d \in Execs : Holds(d)' = Holds(d) /\ exec'[d].u = exec[d].u
      /\ \A d \in Execs : exec'[d].pc = "restored" => exec[d].pc = "restored"
  BY <1>1, <1>2, <1>3, <1>4, <1>5, BeginInv
<1>7. RestoreInv'
  BY <1>2, <1>6, UpgradeTypes, RestoreKept
<1>8. QED
  BY <1>6, <1>7

(* An execute task takes its lease and its row. *)
LEMMA BeginExecuteInv ==
  ASSUME UpgradeInv, NEW e \in Execs, BeginExecute(e)
  PROVE  UpgradeInv'
<1> USE DEF UpgradeInv
<1>1. PICK u \in Upgrades : u = exec[e].u
  BY ExecTypes
<1>2. /\ exec[e].pc = "begin" /\ exec[e].kind = "execute" /\ Fenced(e)
      /\ status' = [status EXCEPT ![u] = "in_progress"] /\ Goto(e, "loop")
      /\ UNCHANGED <<step, fence, live, revs, requests, faults>>
  BY <1>1 DEF BeginExecute, At, SetStatus
<1>3. "in_progress" \in Executing
  BY DEF Executing
<1>4. CASE UNCHANGED <<target, hist>>
  <2>1. target' \in [Upgrades -> Nat] /\ hist' \in [Upgrades -> HistRecords]
    BY <1>4 DEF TypeOK
  <2>2. \A v \in Upgrades : target'[v] <= Len(revs)
    BY <1>4, UpgradeTypes
  <2>3. /\ TypeOK' /\ MessageInv' /\ PlanningInv' /\ FenceInv'
        /\ StatusInv' /\ OpenInv' /\ StepsInv'
        /\ HistKept
        /\ \A d \in Execs : Holds(d)' = Holds(d) /\ exec'[d].u = exec[d].u
        /\ \A d \in Execs : exec'[d].pc = "restored" => exec[d].pc = "restored"
    BY <1>1, <1>2, <1>3, <1>4, <2>1, <2>2, BeginInv
  <2>4. RestoreInv'
    BY <1>2, <1>4, <2>3, UpgradeTypes, RestoreKept
  <2>5. QED
    BY <2>3, <2>4
<1>5. CASE /\ target' = [target EXCEPT ![u] = Len(revs)]
           /\ hist' = [hist EXCEPT ![u].late = @ \/ step[u] >= HelmStep]
  <2>1. /\ target' \in [Upgrades -> Nat] /\ target'[u] = Len(revs)
        /\ \A v \in Upgrades : v # u => target'[v] = target[v]
    BY <1>5, UpgradeTypes DEF TypeOK
  <2>2. PICK b \in BOOLEAN : b = (hist[u].late \/ step[u] >= HelmStep)
    BY DEF TypeOK, HistRecords
  <2>3. hist' = [hist EXCEPT ![u].late = b]
    BY <1>5, <2>2
  <2>4. /\ hist' \in [Upgrades -> HistRecords] /\ hist'[u].late = b
        /\ \A v \in Upgrades :
             /\ v # u => hist'[v] = hist[v]
             /\ hist'[v].from = hist[v].from /\ hist'[v].done = hist[v].done
             /\ hist'[v].cut = hist[v].cut /\ hist'[v].raced = hist[v].raced
             /\ hist'[v].unfenced = hist[v].unfenced /\ hist'[v].beside = hist[v].beside
    <3>1. /\ hist' \in [Upgrades -> HistRecords] /\ hist'[u].late = b
          /\ \A v \in Upgrades : v # u => hist'[v] = hist[v]
      BY <2>3, ZenonT(60) DEF TypeOK, HistRecords
    <3>2. /\ hist'[u].from = hist[u].from /\ hist'[u].done = hist[u].done
          /\ hist'[u].cut = hist[u].cut /\ hist'[u].raced = hist[u].raced
          /\ hist'[u].unfenced = hist[u].unfenced /\ hist'[u].beside = hist[u].beside
      BY <2>3, ZenonT(60) DEF TypeOK, HistRecords
    <3>3. QED
      BY <3>1, <3>2
  <2>5. \A v \in Upgrades : target'[v] <= Len(revs) /\ (target[v] # 0 => target'[v] # 0)
    BY <2>1, UpgradeTypes
  <2>6. /\ TypeOK' /\ MessageInv' /\ PlanningInv' /\ FenceInv'
        /\ StatusInv' /\ OpenInv' /\ StepsInv'
        /\ HistKept
        /\ \A d \in Execs : Holds(d)' = Holds(d) /\ exec'[d].u = exec[d].u
        /\ \A d \in Execs : exec'[d].pc = "restored" => exec[d].pc = "restored"
    <3>1. \A v \in Upgrades :
            /\ target'[v] <= Len(revs) /\ (target[v] # 0 => target'[v] # 0)
            /\ v # u => target'[v] = target[v] /\ hist'[v] = hist[v]
            /\ hist'[v].from = hist[v].from /\ hist'[v].done = hist[v].done
            /\ hist'[v].cut = hist[v].cut
            /\ hist'[v].raced = hist[v].raced /\ hist'[v].beside = hist[v].beside
            /\ hist'[v].unfenced = hist[v].unfenced
      BY <2>1, <2>4, <2>5
    <3>2. QED
      BY <1>1, <1>2, <1>3, <2>1, <2>4, <3>1, BeginInv, ZenonT(60)
  <2>7. RestoreInv'
    <3>1. ASSUME NEW v \in Upgrades
          PROVE  /\ hist'[v].late => step'[v] >= HelmStep
                 /\ ~Others(v)' =>
                      /\ step'[v] < HelmStep =>
                           \A i \in hist'[v].from .. Len(revs') :
                             revs'[i].version = Before(v)'
                      /\ target'[v] # 0 /\ ~hist'[v].late =>
                           revs'[target'[v]].version = Before(v)'
                      /\ \A d \in Execs :
                           /\ exec'[d].u = v /\ exec'[d].pc = "restored" /\ Holds(d)'
                           /\ ~hist'[v].late /\ HelmStep \notin hist'[v].cut
                           => Version' = Before(v)'
      <4>1. Before(v)' = Before(v) /\ Others(v)' = Others(v) /\ Version' = Version
        BY <1>2, <2>4 DEF Before, Others, Version
      <4>2. CASE v # u
        BY <1>2, <2>1, <2>4, <2>6, <4>1, <4>2, ZenonT(60) DEF RestoreInv
      <4>3. CASE v = u
        <5>1. hist'[u].late => step[u] >= HelmStep
          BY <2>2, <2>4 DEF RestoreInv
        <5>2. ~hist'[u].late => step[u] < HelmStep
          <6>1. ~hist'[u].late => ~(step[u] >= HelmStep)
            BY <2>2, <2>4, Zenon
          <6>2. step[u] \in Nat /\ HelmStep \in Nat
            BY UpgradeTypes
          <6>3. QED
            BY <6>1, <6>2
        <5>3. ~Others(u) /\ step[u] < HelmStep =>
                 \A i \in hist[u].from .. Len(revs) : revs[i].version = Before(u)
          BY DEF RestoreInv
        <5>4. Len(revs) \in hist[u].from .. Len(revs)
          BY UpgradeTypes
        <5>5. ~Others(u) /\ ~hist'[u].late => revs[Len(revs)].version = Before(u)
          BY <5>2, <5>3, <5>4
        <5>6. \A d \in Execs : ~(exec'[d].u = u /\ exec'[d].pc = "restored" /\ Holds(d)')
          <6>1. ASSUME NEW d \in Execs, exec'[d].u = u, exec'[d].pc = "restored", Holds(d)'
                PROVE  FALSE
            <7>1. Holds(d) /\ Holds(e) /\ exec[d].u = exec[e].u /\ exec[d].pc = "restored"
              BY <1>1, <1>2, <2>6, <6>1 DEF Holds, Locked
            <7>2. QED
              BY <1>2, <7>1, OneHolder
          <6>2. QED
            BY <6>1
        <5>7. QED
          BY <1>2, <2>1, <2>4, <4>1, <4>3, <5>1, <5>3, <5>5, <5>6
      <4>4. QED
        BY <4>2, <4>3
    <3>2. QED
      BY <3>1 DEF RestoreInv
  <2>8. QED
    BY <2>6, <2>7
<1>6. QED
  BY <1>1, <1>4, <1>5 DEF BeginExecute

(* The number of a step is committed before the step is done. *)
LEMMA BeginStepInv ==
  ASSUME UpgradeInv, NEW e \in Execs, BeginStep(e)
  PROVE  UpgradeInv'
<1> USE DEF UpgradeInv
<1>1. PICK u \in Upgrades : u = exec[e].u
  BY ExecTypes
<1>2. /\ exec[e].pc = "loop" /\ Fenced(e) /\ step[u] < Steps
      /\ UNCHANGED <<status, target, fence, live, revs, requests, faults, hist>>
  BY <1>1 DEF BeginStep
<1>3. PICK n \in 1 .. Steps : n = step[u] + 1
  BY <1>2, UpgradeTypes
<1>4. step' = [step EXCEPT ![u] = n] /\ exec' = [exec EXCEPT ![e].pc = "step", ![e].at = n]
  BY <1>1, <1>3 DEF BeginStep
<1>5. /\ step' \in [Upgrades -> 0 .. Steps] /\ step'[u] = n
      /\ \A v \in Upgrades : v # u => step'[v] = step[v]
  BY <1>4, UpgradeAssumption DEF TypeOK
<1>6. /\ exec' \in [Execs -> ExecRecords] /\ exec'[e].pc = "step" /\ exec'[e].at = n
      /\ exec'[e].u = u /\ exec'[e].kind = exec[e].kind /\ exec'[e].fence = exec[e].fence
      /\ \A d \in Execs : d # e => exec'[d] = exec[d]
  <2>1. n \in 0 .. Steps
    BY UpgradeAssumption
  <2>2. QED
    BY <1>1, <1>4, <2>1 DEF TypeOK, ExecRecords, Locked
<1>7. Changes(e) /\ exec[e].pc \in Locked /\ exec'[e].pc \in Locked /\ Holds(e)
  BY <1>2, <1>6 DEF Changes, Locked, Holds
<1>8. /\ FenceInv'
      /\ \A d \in Execs :
           /\ Holds(d)' = Holds(d) /\ Fenced(d)' = Fenced(d)
           /\ exec'[d].u = exec[d].u /\ exec'[d].fence <= fence[exec[d].u]
      /\ \A d \in Execs, v \in Upgrades : d # e => Executes(d, v)' = Executes(d, v)
  BY <1>1, <1>2, <1>6, <1>7, GoesOn
<1>9. TypeOK'
  BY <1>2, <1>5, <1>6, <1>8 DEF TypeOK
<1>10. HistKept
  BY <1>2 DEF HistKept, Flagged
<1>11. \A v \in Upgrades : step[v] <= step'[v] /\ step'[v] \in Nat
  BY <1>3, <1>5, UpgradeTypes
<1>12. MessageInv' /\ PlanningInv'
  <2>1. status[u] # "none" /\ exec[e].kind = "execute"
    BY <1>1, <1>2 DEF MessageInv, ExecutePCs
  <2>2. RowsKept
    BY <1>2, <1>5, <1>11, <2>1 DEF RowsKept
  <2>3. nextExec' \in Nat /\ nextExec <= nextExec' /\ e < nextExec'
    BY <1>2, WasSent DEF TypeOK
  <2>4. exec'[e].at \in 1 .. step'[u]
    BY <1>3, <1>5, <1>6, UpgradeTypes
  <2>5. exec'[e].pc \notin RollbackPCs
    BY <1>6 DEF RollbackPCs
  <2>6. QED
    BY <1>2, <1>6, <2>1, <2>2, <2>3, <2>4, <2>5, MessageKept
<1>13. StatusInv'
  <2>1. \A v \in Upgrades : Flagged(v)' => status'[v] \notin {"none", "ready"}
    BY <1>2 DEF StatusInv, Flagged
  <2>2. Flagged(u) \/ HolderStatus(e, status[u])
    BY <1>1, <1>7 DEF StatusInv
  <2>3. ~Flagged(exec[e].u)' => HolderStatus(e, status[exec[e].u])'
    BY <1>2, <1>6, <2>2 DEF HolderStatus, At, ExecutePCs, RollbackPCs, Working, Flagged
  <2>4. QED
    BY <1>2, <1>6, <1>8, <1>10, <2>1, <2>3, StatusKept
<1>14. OpenInv'
  BY <1>2, <1>10, OpenKept
<1>15. StepsInv'
  <2>1. ASSUME NEW v \in Upgrades, Ongoing(v)'
        PROVE  Covered(v)'
    <3>1. Covered(v)
      <4>1. Executes(e, v)' => Executes(e, v)
        BY <1>2, <1>6, <1>7, <1>1 DEF Executes, ExecutePCs, Working
      <4>2. Ongoing(v)
        BY <1>2, <1>8, <2>1, <4>1 DEF Ongoing
      <4>3. QED
        BY <4>2 DEF StepsInv
    <3>2. CASE v # u
      <4>1. \A d \in Execs : exec[d].u = v /\ Holds(d) /\ exec[d].pc \in Working =>
              Accounted(d)
        BY <1>1, <1>6, <1>8, <3>2 DEF Accounted
      <4>2. QED
        BY <1>5, <1>10, <3>1, <3>2, <4>1, CoveredKept
    <3>3. CASE v = u
      <4>1. ASSUME NEW s \in 1 .. step'[u]
            PROVE  \/ s \in hist'[u].done \cup hist'[u].cut
                   \/ \E d \in Execs : exec'[d].u = u /\ Holds(d)'
                                        /\ exec'[d].pc \in Working /\ exec'[d].at = s
        <5>1. CASE s = n
          BY <1>6, <1>7, <1>8, <5>1 DEF Working
        <5>2. CASE s # n
          <6>1. s \in 1 .. step[u]
            BY <1>3, <1>5, <5>2, UpgradeTypes
          <6>2. \A d \in Execs : exec[d].u = u /\ Holds(d) => exec[d].pc \notin Working
            BY <1>1, <1>2, <1>7, OneHolder DEF Working
          <6>3. QED
            BY <1>2, <3>1, <3>3, <6>1, <6>2 DEF Covered
        <5>3. QED
          BY <5>1, <5>2
      <4>2. QED
        BY <3>3, <4>1 DEF Covered
    <3>4. QED
      BY <3>2, <3>3
  <2>2. CompletedDidSteps'
    BY <1>2 DEF StepsInv, CompletedDidSteps
  <2>3. \A d \in Execs : exec'[d].pc \in Working /\ ~Fenced(d)' =>
           exec'[d].at \in hist'[exec'[d].u].cut
    BY <1>2, <1>6, <1>7, <1>8 DEF StepsInv, Holds
  <2>4. QED
    BY <2>1, <2>2, <2>3 DEF StepsInv
<1>16. RestoreInv'
  <2>1. \A d \in Execs : exec'[d].pc = "restored" /\ Holds(d)' =>
           exec[d].pc = "restored" /\ Holds(d) /\ exec'[d].u = exec[d].u
    BY <1>6, <1>8
  <2>2. QED
    BY <1>2, <1>10, <1>11, <2>1, RestoreKept
<1>17. QED
  BY <1>8, <1>9, <1>12, <1>13, <1>14, <1>15, <1>16

-----------------------------------------------------------------------------
(* Helm's history *)

(* helm appends a revision. *)
LEMMA Appends ==
  ASSUME TypeOK, NEW u \in Upgrades, NEW version \in {0} \cup Upgrades,
         revs' = Revised(u, version)
  PROVE  /\ revs' \in Seq(Revisions) /\ Len(revs') = Len(revs) + 1 /\ Len(revs) \in Nat
         /\ \A i \in 1 .. Len(revs) : revs'[i] = revs[i]
         /\ revs'[Len(revs')].version = version /\ revs'[Len(revs')].by = u
<1>1. PICK r \in Revisions : r = [version |-> version, by |-> u]
  BY DEF Revisions
<1>2. revs \in Seq(Revisions) /\ revs' = Append(revs, r)
  BY <1>1 DEF TypeOK, Revised
<1>3. /\ revs' \in Seq(Revisions) /\ Len(revs') = Len(revs) + 1 /\ Len(revs) \in Nat
      /\ \A i \in 1 .. Len(revs) : revs'[i] = revs[i]
      /\ revs'[Len(revs) + 1] = r
  BY <1>2
<1>4. QED
  BY <1>1, <1>3

(* An upgrade has helm append a revision, and is right about its version as *)
(* far as its own rollback is concerned.                                    *)
LEMMA RestoreAppended ==
  ASSUME TypeOK, RestoreInv, NEW u \in Upgrades, NEW version \in {0} \cup Upgrades,
         revs' = Revised(u, version), UNCHANGED <<step, target>>,
         \A v \in Upgrades : /\ hist'[v].from = hist[v].from
                             /\ hist'[v].late = hist[v].late
                             /\ hist'[v].cut = hist[v].cut,
         step[u] < HelmStep => version = Before(u) \/ Others(u),
         \A e \in Execs : exec'[e].u = u /\ exec'[e].pc = "restored" /\ Holds(e)' =>
           \/ version = Before(u) \/ Others(u) \/ hist[u].late
           \/ HelmStep \in hist[u].cut
  PROVE  RestoreInv'
<1>1. SUFFICES ASSUME NEW v \in Upgrades
      PROVE  /\ hist'[v].late => step'[v] >= HelmStep
             /\ ~Others(v)' =>
                  /\ step'[v] < HelmStep =>
                       \A i \in hist'[v].from .. Len(revs') : revs'[i].version = Before(v)'
                  /\ target'[v] # 0 /\ ~hist'[v].late => revs'[target'[v]].version = Before(v)'
                  /\ \A e \in Execs :
                       /\ exec'[e].u = v /\ exec'[e].pc = "restored" /\ Holds(e)'
                       /\ ~hist'[v].late /\ HelmStep \notin hist'[v].cut
                       => Version' = Before(v)'
  BY DEF RestoreInv
<1>2. PICK n \in Nat : n = Len(revs)
  BY UpgradeTypes
<1>3. /\ Len(revs') = n + 1 /\ \A i \in 1 .. n : revs'[i] = revs[i]
      /\ revs'[n + 1].version = version /\ revs'[n + 1].by = u
  BY <1>2, Appends
<1>4. PICK f \in 1 .. n : f = hist[v].from /\ f = hist'[v].from
  BY <1>2, UpgradeTypes
<1>5. Before(v)' = Before(v) /\ Before(v) = revs[f].version
  BY <1>3, <1>4 DEF Before
<1>6. Others(v) => Others(v)'
  <2>1. ASSUME NEW i \in f + 1 .. n, revs[i].by # v, revs[i].version # Before(v)
        PROVE  Others(v)'
    <3>1. i \in f + 1 .. n + 1 /\ i \in 1 .. n
      BY <1>4
    <3>2. revs'[i].by # v /\ revs'[i].version # Before(v)'
      BY <1>3, <1>5, <2>1, <3>1
    <3>3. QED
      BY <1>3, <1>4, <3>1, <3>2 DEF Others
  <2>2. QED
    BY <1>2, <1>4, <2>1 DEF Others
<1>7. ~Others(v)' /\ v # u => version = Before(v)
  <2>1. n + 1 \in f + 1 .. n + 1
    BY <1>4
  <2>2. QED
    BY <1>3, <1>4, <1>5, <2>1 DEF Others
<1>8. Version' = version
  BY <1>3 DEF Version
<1>9. hist'[v].late => step'[v] >= HelmStep
  BY DEF RestoreInv
<1>10. ASSUME ~Others(v)', step[v] < HelmStep, NEW i \in f .. n + 1
       PROVE  revs'[i].version = Before(v)
  <2>1. CASE i = n + 1
    BY <1>3, <1>6, <1>7, <1>10, <2>1
  <2>2. CASE i # n + 1
    <3>1. i \in 1 .. n /\ i \in f .. n
      BY <1>4, <2>2
    <3>2. revs[i].version = Before(v)
      BY <1>2, <1>4, <1>6, <1>10, <3>1 DEF RestoreInv
    <3>3. QED
      BY <1>3, <3>1, <3>2
  <2>3. QED
    BY <2>1, <2>2
<1>11. ASSUME ~Others(v)', target[v] # 0, ~hist'[v].late
       PROVE  revs'[target[v]].version = Before(v)
  <2>1. target[v] \in 1 .. n
    BY <1>2, <1>11, UpgradeTypes
  <2>2. revs[target[v]].version = Before(v)
    BY <1>6, <1>11 DEF RestoreInv
  <2>3. QED
    BY <1>3, <2>1, <2>2
<1>12. ASSUME ~Others(v)', NEW e \in Execs, exec'[e].u = v, exec'[e].pc = "restored",
              Holds(e)', ~hist'[v].late, HelmStep \notin hist'[v].cut
       PROVE  Version' = Before(v)
  <2>1. CASE v # u
    BY <1>7, <1>8, <1>12, <2>1
  <2>2. CASE v = u
    BY <1>6, <1>8, <1>12, <2>2
  <2>3. QED
    BY <2>1, <2>2
<1>13. QED
  BY <1>3, <1>4, <1>5, <1>9, <1>10, <1>11, <1>12

(* The work of a step or a rollback is done, or has failed. No row changes. *)
LEMMA EffectInv ==
  ASSUME UpgradeInv, NEW e \in Execs, NEW u \in Upgrades, u = exec[e].u, Changes(e),
         \/ exec[e].pc = "step" /\ exec'[e].pc \in {"loop", "failing"}
         \/ exec[e].pc = "helm" /\ exec'[e].pc \in {"restored", "stuck"},
         exec'[e].u = u, exec'[e].kind = exec[e].kind, exec'[e].fence = exec[e].fence,
         exec'[e].pc = "failing" => exec'[e].at = exec[e].at,
         exec'[e].pc = "loop" => exec[e].at \in hist'[u].done,
         UNCHANGED <<row, requests, faults>>, hist' \in [Upgrades -> HistRecords],
         \A v \in Upgrades :
           /\ hist'[v].from = hist[v].from /\ hist'[v].late = hist[v].late
           /\ hist[v].done \subseteq hist'[v].done /\ hist'[v].cut = hist[v].cut
           /\ hist'[v].raced = hist[v].raced /\ hist'[v].beside = hist[v].beside
           /\ hist'[v].unfenced = hist[v].unfenced,
         revs' \in Seq(Revisions), Len(revs') \in Nat, Len(revs) <= Len(revs'),
         RestoreInv'
  PROVE  UpgradeInv'
<1> USE DEF UpgradeInv
<1>1. UNCHANGED <<status, step, target, fence, live>>
  BY DEF row
<1>2. /\ exec' \in [Execs -> ExecRecords]
      /\ \A d \in Execs : d # e => exec'[d] = exec[d]
  BY DEF Changes
<1>3. exec[e].pc \in Locked /\ exec'[e].pc \in Locked
  BY DEF Locked
<1>4. /\ FenceInv'
      /\ \A d \in Execs :
           /\ Holds(d)' = Holds(d) /\ Fenced(d)' = Fenced(d)
           /\ exec'[d].u = exec[d].u /\ exec'[d].fence <= fence[exec[d].u]
      /\ \A d \in Execs, v \in Upgrades : d # e => Executes(d, v)' = Executes(d, v)
  BY <1>1, <1>3, GoesOn
<1>5. TypeOK'
  <2>1. \A v \in Upgrades : target'[v] <= Len(revs') /\ hist'[v].from \in 1 .. Len(revs')
    BY <1>1, UpgradeTypes
  <2>2. QED
    BY <1>1, <1>2, <1>4, <2>1 DEF TypeOK
<1>6. HistKept
  BY DEF HistKept, Flagged
<1>7. MessageInv' /\ PlanningInv'
  <2>1. RowsKept
    BY <1>1, UpgradeTypes DEF RowsKept
  <2>2. nextExec' \in Nat /\ nextExec <= nextExec' /\ e < nextExec'
    BY WasSent DEF TypeOK
  <2>3. status[u] # "none" /\ (exec[e].kind = "rollback" => target[u] # 0)
    BY DEF MessageInv
  <2>4. /\ exec'[e].pc \in ExecutePCs => exec'[e].kind = "execute"
        /\ exec'[e].pc \in RollbackPCs => exec'[e].kind = "rollback"
        /\ exec'[e].pc # "none"
    BY DEF MessageInv, ExecutePCs, RollbackPCs, Working
  <2>5. exec'[e].pc \in Working => exec'[e].at \in 1 .. step'[u]
    BY <1>1 DEF MessageInv, Working
  <2>6. QED
    BY <1>1, <1>2, <2>1, <2>2, <2>3, <2>4, <2>5, MessageKept
<1>8. StatusInv'
  <2>1. \A v \in Upgrades : Flagged(v)' => status'[v] \notin {"none", "ready"}
    BY <1>1 DEF StatusInv, Flagged
  <2>2. ASSUME Holds(e), ~Flagged(exec[e].u)'
        PROVE  HolderStatus(e, status[exec[e].u])'
    <3>1. ~Flagged(u)
      BY <2>2 DEF Flagged
    <3>2. HolderStatus(e, status[u])
      BY <2>2, <3>1 DEF StatusInv
    <3>3. QED
      BY <1>1, <3>2 DEF HolderStatus, At, ExecutePCs, RollbackPCs, Working
  <2>3. QED
    BY <1>1, <1>2, <1>4, <1>6, <2>1, <2>2, StatusKept
<1>9. OpenInv'
  BY <1>1, <1>6, OpenKept
<1>10. StepsInv'
  <2>1. ASSUME NEW v \in Upgrades, Ongoing(v)'
        PROVE  Ongoing(v)
    <3>1. Executes(e, v)' => Executes(e, v)
      BY <1>4 DEF Executes, ExecutePCs, Working
    <3>2. QED
      BY <1>1, <1>4, <2>1, <3>1 DEF Ongoing
  <2>2. ASSUME NEW d \in Execs, Holds(d), exec[d].pc \in Working
        PROVE  Accounted(d)
    <3>1. CASE d # e
      BY <1>2, <1>4, <2>2, <3>1 DEF Accounted
    <3>2. CASE d = e
      BY <1>4, <2>2, <3>2 DEF Accounted, Working
    <3>3. QED
      BY <3>1, <3>2
  <2>3. \A d \in Execs : exec'[d].pc \in Working /\ ~Fenced(d)' =>
           /\ exec'[d].u = exec[d].u /\ exec'[d].at = exec[d].at
           /\ exec[d].pc \in Working /\ ~Fenced(d)
    BY <1>2, <1>4 DEF Working
  <2>4. QED
    BY <1>1, <1>6, <2>1, <2>2, <2>3, StepsKept
<1>11. QED
  BY <1>4, <1>5, <1>7, <1>8, <1>9, <1>10

(* The holder alone can have restored the release, so a helm step that comes *)
(* after it is that of a task that lost the lock.                            *)
LEMMA WorkInv ==
  ASSUME UpgradeInv, NEW e \in Execs, Work(e)
  PROVE  UpgradeInv'
<1> USE DEF UpgradeInv
<1>1. PICK u \in Upgrades : u = exec[e].u
  BY ExecTypes
<1>2. exec[e].pc = "step" /\ UNCHANGED <<row, requests, faults>>
  BY DEF Work
<1>3. UNCHANGED <<status, step, target, fence>>
  BY <1>2 DEF row
<1>4. /\ exec[e].at \in 1 .. Steps /\ exec[e].at \in 1 .. step[u]
      /\ step[u] \in Nat /\ HelmStep \in Nat
  BY <1>1, <1>2, UpgradeTypes DEF MessageInv, Working
<1>5. /\ Changes(e) /\ exec'[e].u = u /\ exec'[e].kind = exec[e].kind
      /\ exec'[e].fence = exec[e].fence /\ exec'[e].pc \in {"loop", "failing"}
      /\ exec'[e].pc = "failing" => exec'[e].at = exec[e].at
      /\ hist' \in [Upgrades -> HistRecords]
      /\ exec'[e].pc = "loop" => exec[e].at \in hist'[u].done
      /\ \A v \in Upgrades :
           /\ hist'[v].from = hist[v].from /\ hist'[v].late = hist[v].late
           /\ hist[v].done \subseteq hist'[v].done /\ hist'[v].cut = hist[v].cut
           /\ hist'[v].raced = hist[v].raced /\ hist'[v].beside = hist[v].beside
           /\ hist'[v].unfenced = hist[v].unfenced
  <2>1. CASE /\ exec' = [exec EXCEPT ![e].pc = "loop", ![e].at = 0]
             /\ hist' = [hist EXCEPT ![u].done = @ \cup {exec[e].at}]
    <3>1. /\ exec' \in [Execs -> ExecRecords] /\ exec'[e].pc = "loop"
          /\ exec'[e].u = u /\ exec'[e].kind = exec[e].kind
          /\ exec'[e].fence = exec[e].fence
          /\ \A d \in Execs : d # e => exec'[d] = exec[d]
      <4>1. 0 \in 0 .. Steps
        BY UpgradeAssumption
      <4>2. PICK r \in ExecRecords : r = [exec[e] EXCEPT !.pc = "loop", !.at = 0]
        <5>1. exec[e] \in ExecRecords
          BY DEF TypeOK
        <5>2. QED
          BY <4>1, <5>1 DEF ExecRecords, Locked
      <4>3. exec' = [exec EXCEPT ![e] = r]
        BY <2>1, <4>2
      <4>4. /\ exec' \in [Execs -> ExecRecords] /\ exec'[e] = r
            /\ \A d \in Execs : d # e => exec'[d] = exec[d]
        BY <4>3 DEF TypeOK
      <4>5. /\ r.pc = "loop" /\ r.u = exec[e].u /\ r.kind = exec[e].kind
            /\ r.fence = exec[e].fence
        BY <4>2 DEF TypeOK, ExecRecords
      <4>6. QED
        BY <1>1, <4>4, <4>5
    <3>2. PICK c \in SUBSET (1 .. Steps) : c = hist[u].done \cup {exec[e].at}
      BY <1>4, UpgradeTypes
    <3>3. hist' = [hist EXCEPT ![u].done = c]
      BY <2>1, <3>2
    <3>4. /\ hist' \in [Upgrades -> HistRecords] /\ hist'[u].done = c
          /\ \A v \in Upgrades :
               /\ hist'[v].from = hist[v].from /\ hist'[v].late = hist[v].late
               /\ v # u => hist'[v].done = hist[v].done
               /\ hist'[v].cut = hist[v].cut
               /\ hist'[v].raced = hist[v].raced /\ hist'[v].beside = hist[v].beside
               /\ hist'[v].unfenced = hist[v].unfenced
      <4>a. PICK h \in HistRecords : h = [hist[u] EXCEPT !.done = c]
        <5>1. [hist[u] EXCEPT !.done = c] \in HistRecords
          <6>1. hist[u] \in HistRecords
            BY DEF TypeOK
          <6>2. QED
            BY <6>1, ZenonT(60) DEF HistRecords
        <5>2. QED
          BY <5>1, Zenon
      <4>b. hist' = [hist EXCEPT ![u] = h]
        BY <3>3, <4>a
      <4>c. /\ hist' \in [Upgrades -> HistRecords] /\ hist'[u] = h
            /\ \A v \in Upgrades : v # u => hist'[v] = hist[v]
        BY <4>b, Zenon DEF TypeOK
      <4>d. h.done = c
        <5>1. hist[u] \in HistRecords
          BY DEF TypeOK
        <5>2. QED
          BY <4>a, <5>1, Zenon DEF HistRecords
      <4>1. /\ hist' \in [Upgrades -> HistRecords] /\ hist'[u].done = c
            /\ \A v \in Upgrades : v # u => hist'[v] = hist[v]
        BY <4>c, <4>d
      <4>2. /\ hist'[u].from = hist[u].from /\ hist'[u].late = hist[u].late
            /\ hist'[u].cut = hist[u].cut
            /\ hist'[u].raced = hist[u].raced /\ hist'[u].beside = hist[u].beside
            /\ hist'[u].unfenced = hist[u].unfenced
        BY <3>3, ZenonT(60) DEF TypeOK, HistRecords
      <4>3. QED
        BY <4>1, <4>2
    <3>5. exec[e].at \in hist'[u].done
          /\ \A v \in Upgrades : hist[v].done \subseteq hist'[v].done
      BY <3>2, <3>4
    <3>6. QED
      BY <3>1, <3>4, <3>5 DEF Changes
  <2>2. CASE Goto(e, "failing") /\ UNCHANGED hist
    <3>1. /\ Changes(e) /\ exec'[e].kind = exec[e].kind /\ exec'[e].pc = "failing"
          /\ exec'[e].u = u /\ exec'[e].fence = exec[e].fence
          /\ exec'[e].at = exec[e].at
      BY <1>1, <2>2, Goes DEF PCs, Locked
    <3>2. hist' \in [Upgrades -> HistRecords]
      BY <2>2 DEF TypeOK
    <3>3. QED
      BY <2>2, <3>1, <3>2
  <2>3. QED
    BY <1>1, <2>1, <2>2 DEF Work
<1>6. \A d \in Execs : d # e => exec'[d] = exec[d]
  BY <1>5 DEF Changes
<1>7. \A d \in Execs : exec'[d].pc = "restored" /\ Holds(d)' =>
         d # e /\ exec[d].pc = "restored" /\ Holds(d) /\ exec'[d].u = exec[d].u
  BY <1>3, <1>5, <1>6, SameHolder
<1>8. revs' = revs \/ (exec[e].at = HelmStep /\ revs' = Revised(u, u))
  BY <1>1 DEF Work
<1>9. CASE revs' = revs
  <2>1. HistKept
    BY <1>5 DEF HistKept, Flagged
  <2>2. RestoreInv'
    BY <1>3, <1>5, <1>7, <1>9, <2>1, UpgradeTypes, RestoreKept
  <2>3. revs' \in Seq(Revisions) /\ Len(revs') \in Nat /\ Len(revs) <= Len(revs')
    BY <1>9, UpgradeTypes DEF TypeOK
  <2>4. QED
    BY <1>1, <1>2, <1>5, <2>2, <2>3, EffectInv
<1>10. CASE exec[e].at = HelmStep /\ revs' = Revised(u, u)
  <2>1. u \in {0} \cup Upgrades
    OBVIOUS
  <2>2. ~(step[u] < HelmStep)
    BY <1>4, <1>10
  <2>3. ASSUME NEW d \in Execs, exec'[d].u = u, exec'[d].pc = "restored", Holds(d)'
        PROVE  HelmStep \in hist[u].cut
    <3>1. d # e /\ Holds(d) /\ exec[d].u = u
      BY <1>7, <2>3
    <3>2. ~Holds(e)
      BY <1>1, <3>1, OneHolder
    <3>3. ~Fenced(e)
      BY <1>2, <3>2 DEF Holds, Locked
    <3>4. QED
      BY <1>1, <1>2, <1>10, <3>3 DEF StepsInv, Working
  <2>4. RestoreInv'
    BY <1>3, <1>5, <1>10, <2>1, <2>2, <2>3, RestoreAppended
  <2>5. revs' \in Seq(Revisions) /\ Len(revs') = Len(revs) + 1 /\ Len(revs) \in Nat
    BY <1>10, <2>1, Appends
  <2>6. Len(revs') \in Nat /\ Len(revs) <= Len(revs')
    BY <2>5
  <2>7. QED
    BY <1>1, <1>2, <1>5, <2>4, <2>5, <2>6, EffectInv
<1>11. QED
  BY <1>8, <1>9, <1>10

(* helm rollback adds the revision that the target named. *)
LEMMA HelmRollbackInv ==
  ASSUME UpgradeInv, NEW e \in Execs, HelmRollback(e)
  PROVE  UpgradeInv'
<1> USE DEF UpgradeInv
<1>1. PICK u \in Upgrades : u = exec[e].u
  BY ExecTypes
<1>2. exec[e].pc = "helm" /\ UNCHANGED <<row, requests, faults, hist>>
  BY DEF HelmRollback
<1>3. UNCHANGED <<status, step, target, fence>>
  BY <1>2 DEF row
<1>4. /\ Changes(e) /\ exec'[e].u = u /\ exec'[e].kind = exec[e].kind
      /\ exec'[e].fence = exec[e].fence /\ exec'[e].pc \in {"restored", "stuck"}
      /\ revs' = revs \/ revs' = Revised(u, revs[target[u]].version)
      /\ exec'[e].pc = "restored" => revs' = Revised(u, revs[target[u]].version)
  <2>1. PICK pc \in {"restored", "stuck"} :
          /\ Goto(e, pc)
          /\ revs' = revs \/ revs' = Revised(u, revs[target[u]].version)
          /\ pc = "restored" => revs' = Revised(u, revs[target[u]].version)
    BY <1>1 DEF HelmRollback
  <2>2. QED
    BY <1>1, <2>1, Goes DEF PCs, Locked
<1>5. hist' \in [Upgrades -> HistRecords]
  BY <1>2 DEF TypeOK
<1>6. \A d \in Execs : d # e => exec'[d] = exec[d] /\ Holds(d)' = Holds(d)
  BY <1>3, <1>4, SameHolder DEF Changes
<1>7. CASE exec'[e].pc = "stuck" /\ revs' = revs
  <2>1. HistKept
    BY <1>2 DEF HistKept, Flagged
  <2>2. \A d \in Execs : exec'[d].pc = "restored" /\ Holds(d)' =>
           exec[d].pc = "restored" /\ Holds(d) /\ exec'[d].u = exec[d].u
    BY <1>6, <1>7
  <2>3. RestoreInv'
    BY <1>2, <1>3, <1>7, <2>1, <2>2, UpgradeTypes, RestoreKept
  <2>4. revs' \in Seq(Revisions) /\ Len(revs') \in Nat /\ Len(revs) <= Len(revs')
    BY <1>7, UpgradeTypes DEF TypeOK
  <2>5. QED
    BY <1>1, <1>2, <1>4, <1>5, <1>7, <2>3, <2>4, EffectInv
<1>8. CASE revs' = Revised(u, revs[target[u]].version)
  <2>1. target[u] # 0
    BY <1>1, <1>2 DEF MessageInv, RollbackPCs
  <2>2. PICK version \in {0} \cup Upgrades : version = revs[target[u]].version
    <3>1. target[u] \in 1 .. Len(revs) /\ revs \in Seq(Revisions)
      BY <2>1, UpgradeTypes DEF TypeOK
    <3>2. revs[target[u]] \in Revisions
      BY <3>1
    <3>3. QED
      BY <3>2 DEF Revisions
  <2>3. revs' = Revised(u, version)
    BY <1>8, <2>2
  <2>4. version = Before(u) \/ Others(u) \/ hist[u].late
    BY <2>1, <2>2 DEF RestoreInv
  <2>5. step[u] < HelmStep => ~hist[u].late
    <3>1. hist[u].late => step[u] >= HelmStep
      BY DEF RestoreInv
    <3>2. step[u] \in Nat /\ HelmStep \in Nat
      BY UpgradeTypes
    <3>3. step[u] < HelmStep => ~(step[u] >= HelmStep)
      BY <3>2
    <3>4. QED
      BY <3>1, <3>3
  <2>6. step[u] < HelmStep => version = Before(u) \/ Others(u)
    BY <2>4, <2>5
  <2>7. RestoreInv'
    BY <1>2, <1>3, <2>3, <2>4, <2>6, RestoreAppended
  <2>8. revs' \in Seq(Revisions) /\ Len(revs') = Len(revs) + 1 /\ Len(revs) \in Nat
    BY <2>3, Appends
  <2>9. Len(revs') \in Nat /\ Len(revs) <= Len(revs')
    BY <2>8
  <2>10. QED
    BY <1>1, <1>2, <1>4, <1>5, <2>7, <2>8, <2>9, EffectInv
<1>9. QED
  BY <1>4, <1>7, <1>8

-----------------------------------------------------------------------------
(* The theorems *)

(* Before the first plan there is nothing to account for. *)
LEMMA InitInv == Init => UpgradeInv
<1> SUFFICES ASSUME Init PROVE UpgradeInv
  OBVIOUS
<1>1. /\ \A u \in Upgrades : /\ status[u] = "none" /\ step[u] = 0 /\ target[u] = 0
                             /\ fence[u] = 0 /\ hist[u] = NoHist
      /\ \A e \in Execs : exec[e] = NoExec /\ exec[e].pc = "none" /\ exec[e].u \in Upgrades
  BY NoExecFields DEF Init
<1>2. /\ NoHist \in HistRecords /\ NoHist.from = 1 /\ NoHist.late = FALSE
      /\ NoHist.unfenced = FALSE /\ NoHist.raced = FALSE /\ NoHist.beside = FALSE
  BY DEF NoHist, HistRecords
<1>3. revs \in Seq(Revisions) /\ Len(revs) = 1
  BY DEF Init, Revisions
<1>4. /\ 0 \in 0 .. Steps /\ 1 \in 1 .. MaxExecs + 1 /\ 0 \in 0 .. MaxFaults
      /\ HelmStep \in Nat /\ HelmStep > 0
  BY UpgradeAssumption
<1>5. TypeOK
  <2>1. /\ status \in [Upgrades -> Statuses] /\ step \in [Upgrades -> 0 .. Steps]
        /\ target \in [Upgrades -> Nat] /\ fence \in [Upgrades -> Nat]
        /\ live \in [Upgrades -> BOOLEAN]
        /\ nextExec \in 1 .. MaxExecs + 1 /\ faults \in 0 .. MaxFaults
        /\ planning \subseteq Upgrades /\ old \in [Upgrades -> {0} \cup Upgrades]
    BY <1>4 DEF Init, Statuses
  <2>2. exec \in [Execs -> ExecRecords] /\ hist \in [Upgrades -> HistRecords]
    BY <1>2, NoExecFields DEF Init
  <2>3. \A u \in Upgrades : target[u] <= Len(revs) /\ hist[u].from \in 1 .. Len(revs)
    BY <1>1, <1>2, <1>3
  <2>4. \A e \in Execs : exec[e].fence <= fence[exec[e].u]
    BY <1>1, NoExecFields
  <2>5. QED
    BY <1>3, <2>1, <2>2, <2>3, <2>4 DEF TypeOK
<1>6. MessageInv /\ FenceInv
  BY <1>1, NoExecFields DEF MessageInv, FenceInv, Locked, ExecutePCs, RollbackPCs, Working
<1>7. (\A e \in Execs : ~Holds(e)) /\ (\A u \in Upgrades : ~Flagged(u))
  BY <1>1, <1>2 DEF Holds, Locked, Flagged
<1>8. StatusInv /\ OpenInv /\ PlanningInv
  BY <1>1, <1>7 DEF StatusInv, OpenInv, Open, PlanningInv, Init
<1>9. StepsInv
  BY <1>1, <1>7 DEF StepsInv, Ongoing, Executes, Open, CompletedDidSteps, Working
<1>10. RestoreInv
  <2>1. ASSUME NEW u \in Upgrades, NEW i \in hist[u].from .. Len(revs)
        PROVE  revs[i].version = Before(u)
    BY <1>1, <1>2, <1>3 DEF Before
  <2>2. QED
    BY <1>1, <1>2, <1>4, <1>7, <2>1 DEF RestoreInv
<1>11. QED
  BY <1>5, <1>6, <1>8, <1>9, <1>10 DEF UpgradeInv

(* Every step of the system, and every step that changes nothing. *)
LEMMA StepInv == UpgradeInv /\ [Next]_vars => UpgradeInv'
<1> SUFFICES ASSUME UpgradeInv, [Next]_vars PROVE UpgradeInv'
  OBVIOUS
<1>1. ASSUME NEW u \in Upgrades,
             \/ PlanCheck(u) \/ Plan(u) \/ PlanAborted(u)
             \/ ExecuteRoute(u) \/ RollbackRoute(u) \/ Cancel(u)
      PROVE  UpgradeInv'
  BY <1>1, PlanCheckInv, PlanInv, PlanAbortedInv, RoutesInv, CancelInv
<1>2. ASSUME NEW e \in Execs, Worker(e)
      PROVE  UpgradeInv'
  BY <1>2, AcquireInv, LosesInv, FailUnfencedInv, MarkFailedInv, ReleaseInv, BeginExecuteInv,
     BeginStepInv, WorkInv, ResultInv, BeginRollbackInv, HelmRollbackInv DEF Worker
<1>3. ASSUME NEW e \in Execs,
             Raise(e) \/ RaiseRollback(e) \/ Crash(e) \/ Lapse(e) \/ Recover(e)
      PROVE  UpgradeInv'
  BY <1>3, RaiseInv, RaiseRollbackInv, CrashInv, LapseInv
<1>4. CASE UNCHANGED vars
  BY <1>4, LeaseInv DEF vars, row, UpgradeInv, TypeOK
<1>5. QED
  BY <1>1, <1>2, <1>3, <1>4 DEF Next

(* The inductive invariant, for every number of upgrades, steps, messages and *)
(* faults.                                                                   *)
THEOREM UpgradeInvariant == Spec => []UpgradeInv
  BY InitInv, StepInv, PTL DEF Spec

(* Type correctness: current_step stays within the plan, a saved revision is *)
(* one that helm has, no task's token is newer than that of the lock.        *)
THEOREM TypeCorrect == Spec => []TypeOK
<1>1. UpgradeInv => TypeOK
  BY DEF UpgradeInv
<1>2. QED
  BY <1>1, UpgradeInvariant, PTL

(* An upgrade that reports completed has done every step of its plan, apart  *)
(* from those whose worker died, lost its lease or was not able to write the *)
(* failure (execute_upgrade commits current_step before the work).           *)
THEOREM CompletedDidStepsSafety == Spec => []CompletedDidSteps
<1>1. UpgradeInv => CompletedDidSteps
  BY DEF UpgradeInv, StepsInv
<1>2. QED
  BY <1>1, UpgradeInvariant, PTL

(* Two upgrades of a cluster are not both in progress, unless one was written *)
(* without the lock, cancelled under a task that was about to begin or had    *)
(* begun, or planned on a look at the open upgrades that another plan had     *)
(* made stale (create_upgrade).                                               *)
THEOREM OneInProgressSafety == Spec => []OneInProgress
<1>1. UpgradeInv => OneInProgress
  BY DEF UpgradeInv, OpenInv, Open, OneInProgress, Excused, Flagged
<1>2. QED
  BY <1>1, UpgradeInvariant, PTL

(* Who writes a status: a request, or the handler of an exception on what is *)
(* in progress, a task without the lock, a request that a task has overtaken, *)
(* or the holder of the lock.                                                *)
ByRequest(u) ==
  /\ status[u] \in {"none", "ready", "in_progress"}
  /\ status'[u] \in {"ready", "failed", "cancelled"}
ByHolder(e, u) ==
  /\ exec[e].u = u /\ Holds(e)
  /\ hist'[u].unfenced = hist[u].unfenced /\ hist'[u].raced = hist[u].raced
  /\ \/ exec[e].pc = "begin" /\ status'[u] \in Executing
     \/ exec[e].pc \in {"loop", "failing", "stuck"} /\ status'[u] \in {"completed", "failed"}
     \/ exec[e].pc = "restored" /\ status'[u] = "rolled_back"

(* Who may write the status of an upgrade row. *)
LEMMA Writes ==
  ASSUME UpgradeInv, Next, NEW u \in Upgrades, status'[u] # status[u]
  PROVE  \/ ByRequest(u)
         \/ status'[u] = "failed" /\ hist'[u].unfenced
         \/ status'[u] = "cancelled" /\ hist'[u].raced
         \/ \E e \in Execs : ByHolder(e, u)
<1> USE DEF UpgradeInv
<1>1. \A e \in Execs : exec[e].u \in Upgrades
  BY ExecTypes
<1>2. ASSUME NEW v \in Upgrades, Plan(v)
      PROVE  ByRequest(u) \/ (status'[u] = "cancelled" /\ hist'[u].raced)
  <2>1. PICK s \in {"ready", "failed"} : Committed(v, s)
    BY <1>2 DEF Plan, Committed
  <2>2. CASE u = v
    BY <1>2, <2>1, <2>2 DEF Plan, Committed, ByRequest, PlanningInv
  <2>3. CASE u # v
    <3>1. u = old[v] /\ status'[u] = "cancelled"
      BY <2>1, <2>3 DEF Committed
    <3>2. Raced(u) => hist'[u].raced
      BY <2>1, <3>1, PlanHist
    <3>3. ~Raced(u) => status[u] = "ready"
      BY <3>1 DEF Raced
    <3>4. QED
      BY <3>1, <3>2, <3>3 DEF ByRequest
  <2>4. QED
    BY <2>2, <2>3
<1>3. ASSUME NEW v \in Upgrades, Cancel(v)
      PROVE  ByRequest(u)
  BY <1>3 DEF Cancel, ByRequest, TypeOK
<1>4. ASSUME NEW v \in Upgrades,
             PlanCheck(v) \/ PlanAborted(v) \/ ExecuteRoute(v) \/ RollbackRoute(v)
      PROVE  FALSE
  BY <1>4 DEF PlanCheck, PlanAborted, ExecuteRoute, RollbackRoute, row
<1>5. ASSUME NEW e \in Execs, Acquire(e) \/ GiveUp(e) \/ Lose(e) \/ Release(e)
                             \/ Refuse(e) \/ Handle(e)
                             \/ BeginStep(e) \/ Work(e) \/ HelmRollback(e)
                             \/ Raise(e) \/ RaiseRollback(e)
                             \/ Crash(e) \/ Lapse(e) \/ Recover(e)
      PROVE  FALSE
  BY <1>5 DEF Acquire, GiveUp, Lose, Release, Refuse, Handle, BeginStep, Work,
              HelmRollback, Raise, RaiseRollback, Crash, Lapse, Recover, row
<1>6. ASSUME NEW e \in Execs, FailUnfenced(e)
      PROVE  status'[u] = "failed" /\ hist'[u].unfenced
  <2>1. exec[e].u = u
    BY <1>1, <1>6 DEF FailUnfenced, SetStatus, TypeOK
  <2>2. QED
    BY <1>6, <2>1 DEF FailUnfenced, SetStatus, TypeOK, HistRecords
<1>7. ASSUME NEW e \in Execs, MarkFailed(e)
      PROVE  ByRequest(u) \/ (status'[u] = "failed" /\ hist'[u].unfenced)
  <2>1. exec[e].u = u /\ status'[u] = "failed"
    BY <1>1, <1>7 DEF MarkFailed, SetStatus, TypeOK
  <2>2. CASE status[u] = "in_progress"
    BY <2>1, <2>2 DEF ByRequest
  <2>3. CASE status[u] # "in_progress"
    <3>1. hist' = [hist EXCEPT ![u].unfenced =
            @ \/ ~(Fenced(e) /\ exec[e].fence > 0 /\ status[u] = "in_progress")]
      BY <1>7, <2>1 DEF MarkFailed
    <3>2. hist'[u].unfenced =
            (hist[u].unfenced \/ ~(Fenced(e) /\ exec[e].fence > 0 /\ status[u] = "in_progress"))
      BY <3>1 DEF TypeOK, HistRecords
    <3>3. QED
      BY <2>1, <2>3, <3>2, Zenon
  <2>4. QED
    BY <2>2, <2>3
<1>8. ASSUME NEW e \in Execs, FailStep(e) \/ Finish(e) \/ FinishRollback(e) \/ FailRollback(e)
      PROVE  ByHolder(e, u)
  <2>1. /\ UNCHANGED hist /\ Fenced(e)
        /\ exec[e].pc \in {"loop", "failing", "restored", "stuck"}
    BY <1>8 DEF FailStep, Finish, FinishRollback, FailRollback
  <2>2. exec[e].u = u
    BY <1>1, <1>8 DEF FailStep, Finish, FinishRollback, FailRollback, SetStatus, TypeOK
  <2>3. /\ exec[e].pc \in {"loop", "failing", "stuck"} => status'[u] \in {"completed", "failed"}
        /\ exec[e].pc = "restored" => status'[u] = "rolled_back"
    BY <1>8, <2>2 DEF FailStep, Finish, FinishRollback, FailRollback, SetStatus, TypeOK
  <2>4. QED
    BY <2>1, <2>2, <2>3 DEF ByHolder, Holds, Locked
<1>9. ASSUME NEW e \in Execs, BeginExecute(e) \/ BeginRollback(e)
      PROVE  ByHolder(e, u)
  <2>1. Fenced(e) /\ exec[e].pc = "begin"
    BY <1>9 DEF BeginExecute, BeginRollback, At
  <2>2. exec[e].u = u /\ status'[u] \in Executing
    BY <1>1, <1>9 DEF BeginExecute, BeginRollback, SetStatus, TypeOK, Executing
  <2>3. hist'[u].unfenced = hist[u].unfenced /\ hist'[u].raced = hist[u].raced
    BY <1>9, <2>2 DEF BeginExecute, BeginRollback, TypeOK, HistRecords
  <2>4. QED
    BY <2>1, <2>2, <2>3 DEF ByHolder, Holds, Locked
<1>10. QED
  BY <1>2, <1>3, <1>4, <1>5, <1>6, <1>7, <1>8, <1>9 DEF Next, Worker

(* A rollback that reports success has put back the version from before the  *)
(* upgrade, with the exceptions that the property names (rollback).          *)
THEOREM RollbackRestoresSafety == Spec => RollbackRestores
<1> DEFINE Restores ==
      \A u \in Upgrades :
        status[u] # "rolled_back" /\ status'[u] = "rolled_back" =>
          \/ Version = Before(u)
          \/ Others(u) \/ hist[u].late \/ HelmStep \in hist[u].cut
<1>1. UpgradeInv /\ [Next]_vars => [Restores]_vars
  <2>1. SUFFICES ASSUME UpgradeInv, Next, NEW u \in Upgrades,
                        status[u] # "rolled_back", status'[u] = "rolled_back"
                 PROVE  \/ Version = Before(u)
                        \/ Others(u) \/ hist[u].late \/ HelmStep \in hist[u].cut
    OBVIOUS
  <2>2. PICK e \in Execs : ByHolder(e, u)
    BY <2>1, Writes DEF ByRequest
  <2>3. exec[e].u = u /\ Holds(e) /\ exec[e].pc = "restored"
    BY <2>1, <2>2 DEF ByHolder, Executing
  <2>4. QED
    BY <2>1, <2>3 DEF UpgradeInv, RestoreInv
<1>2. QED
  BY <1>1, UpgradeInvariant, PTL DEF Spec, RollbackRestores

(* What has completed, was rolled back or cancelled stays so, unless a task   *)
(* without the lock writes (the handlers of bnk_upgrade_tasks), one that was   *)
(* about to begin has missed the cancellation, or the cancellation (of         *)
(* create_upgrade) has missed that a task had begun.                           *)
THEOREM EndsAreFinalSafety == Spec => EndsAreFinal
<1> DEFINE Final ==
      \A u \in Upgrades :
        status[u] \in {"completed", "rolled_back", "cancelled"} =>
          status'[u] = status[u] \/ hist'[u].unfenced \/ hist'[u].raced
<1>1. UpgradeInv /\ [Next]_vars => [Final]_vars
  <2>1. SUFFICES ASSUME UpgradeInv, Next, NEW u \in Upgrades,
                        status[u] \in {"completed", "rolled_back", "cancelled"},
                        status'[u] # status[u]
                 PROVE  hist'[u].unfenced \/ hist'[u].raced
    OBVIOUS
  <2>2. ASSUME NEW e \in Execs, ByHolder(e, u)
        PROVE  hist'[u].unfenced \/ hist'[u].raced
    <3>1. /\ exec[e].u = u /\ Holds(e)
          /\ hist'[u].unfenced = hist[u].unfenced /\ hist'[u].raced = hist[u].raced
          /\ exec[e].pc \in {"begin", "loop", "failing", "stuck", "restored"}
          /\ exec[e].kind \in {"execute", "rollback"}
      BY <2>1, <2>2, ExecTypes DEF ByHolder, UpgradeInv
    <3>2. ~HolderStatus(e, status[u])
      BY <2>1, <3>1 DEF HolderStatus, At, Open, ExecutePCs, RollbackPCs, Working
    <3>3. Flagged(u)
      BY <2>1, <3>1, <3>2 DEF UpgradeInv, StatusInv
    <3>4. QED
      BY <3>1, <3>3 DEF Flagged
  <2>3. QED
    BY <2>1, <2>2, Writes DEF ByRequest
<1>2. QED
  BY <1>1, UpgradeInvariant, PTL DEF Spec, EndsAreFinal

=============================================================================
