------------------------- MODULE StepContainersProofs -------------------------
(***************************************************************************)
(* Proofs about StepContainers, for every set of tasks, modules and        *)
(* workers and every number of containers, faults and cancels.             *)
(***************************************************************************)
EXTENDS StepContainers, TLAPS

(* What the type invariant says of a task and of a container. *)
LEMMA TaskTypes ==
  ASSUME TypeOK, NEW t \in Tasks
  PROVE  /\ pc[t] \in Running \cup {"none", "queued", "over"} /\ on[t] \in Workers
         /\ rows[t] \subseteq Boxes /\ cur[t] \in Boxes \cup {0}
         /\ ModuleOf[t] \in Modules
  BY StepAssumption DEF TypeOK

(* What the type invariant says of a container. *)
LEMMA BoxTypes ==
  ASSUME TypeOK, NEW c \in Boxes
  PROVE  /\ box[c].task \in Tasks /\ c \in Nat /\ c > 0 /\ c <= MaxBoxes
         /\ box[c].state \in {"none", "coming", "running", "exited", "gone"}
         /\ nextBox \in Nat
  BY StepAssumption DEF TypeOK, BoxRecords, Boxes

(* A container that a listing shows was created. *)
LEMMA PresentBoxes ==
  ASSUME TypeOK, BoxInv, NEW c \in Present
  PROVE  c \in Boxes /\ c < nextBox
<1>1. c \in Boxes /\ box[c].state # "none"
  BY DEF Present
<1>2. ~(c >= nextBox)
  BY <1>1 DEF BoxInv
<1>3. QED
  BY <1>1, <1>2, BoxTypes

-----------------------------------------------------------------------------
(* What a step that changes little preserves *)

(* Containers stop and are removed; none comes. *)
Fades ==
  \A c \in Boxes :
    \/ box'[c] = box[c]
    \/ box[c].state \in {"running", "exited"} /\ box'[c].state = "gone"
    \/ box[c].state = "running" /\ box'[c].state = "exited" /\ box'[c].task = box[c].task

(* After such a step what runs was running, what is listed was listed. *)
LEMMA Faded ==
  ASSUME TypeOK, Fades
  PROVE  /\ \A c \in Alive' : c \in Alive /\ c \in Boxes /\ box'[c] = box[c]
         /\ \A c \in Present' : c \in Present /\ c \in Boxes /\ box'[c].task = box[c].task
         /\ \A c \in Boxes : box'[c].state = "none" <=> box[c].state = "none"
         /\ \A c \in Boxes : box'[c].state = "coming" <=> box[c].state = "coming"
  BY DEF Fades, Alive, Present

(* The numbering and the labels are kept when nobody gets a new container. *)
LEMMA BoxKept ==
  ASSUME TypeOK, BoxInv, Fades, nextBox' = nextBox,
         \A t \in Tasks :
           /\ cur'[t] = 0 \/ (cur'[t] = cur[t] /\ pc'[t] \in {"polling", "cleanup"})
           /\ pc'[t] = "polling" => pc[t] = "polling" /\ cur'[t] = cur[t],
         \A t \in Tasks : \A c \in rows'[t] : c < nextBox,
         \A c \in reaper'.ids : c < nextBox,
         \A c \in hist'.atCancel : c \in hist.atCancel \/ c \in Present
  PROVE  BoxInv'
<1>1. \A c \in Boxes : box'[c].state = "none" <=> c >= nextBox'
  BY Faded DEF BoxInv
<1>2. ASSUME NEW t \in Tasks, cur'[t] # 0
      PROVE  /\ cur'[t] < nextBox' /\ pc'[t] \in {"polling", "cleanup"}
             /\ box'[cur'[t]].state = "gone" \/ box'[cur'[t]].task = t
  <2>1. cur'[t] = cur[t] /\ cur[t] \in Boxes /\ cur[t] < nextBox
        /\ (box[cur[t]].state = "gone" \/ box[cur[t]].task = t)
    BY <1>2, TaskTypes DEF BoxInv
  <2>2. box'[cur[t]].state = "gone" \/ box'[cur[t]].task = t
    BY <2>1 DEF Fades
  <2>3. QED
    BY <1>2, <2>1, <2>2
<1>3. ASSUME NEW t \in Tasks, pc'[t] = "polling"
      PROVE  cur'[t] # 0 /\ box'[cur'[t]].state # "coming"
  <2>1. cur'[t] = cur[t] /\ cur[t] # 0 /\ cur[t] \in Boxes /\ box[cur[t]].state # "coming"
    BY <1>3, TaskTypes DEF BoxInv
  <2>2. QED
    BY <2>1, Faded
<1>4. ASSUME NEW c \in hist'.atCancel
      PROVE  box'[c].state \notin {"none", "coming"}
  <2>1. c \in Boxes /\ box[c].state \notin {"none", "coming"}
    BY <1>4 DEF BoxInv, Present, TypeOK
  <2>2. QED
    BY <2>1, Faded
<1>5. QED
  BY <1>1, <1>2, <1>3, <1>4 DEF BoxInv

(* Nobody begins to poll, and what is chosen for removal nobody polls. *)
Polled(t) == pc[t] = "polling" /\ cur[t] \in Present /\ t \notin hist.unseen

(* What is chosen for removal stays spared when nobody begins to poll. *)
LEMMA SpareKept ==
  ASSUME TypeOK, SpareInv, Fades,
         \A t \in Tasks : pc'[t] = "polling" =>
           /\ pc[t] = "polling" /\ cur'[t] = cur[t]
           /\ t \in hist.unseen => t \in hist'.unseen,
         \A u \in Tasks : pc'[u] = "sweeping" =>
           \/ pc[u] = "sweeping" /\ rows'[u] \subseteq rows[u]
           \/ \A t \in Tasks : Polled(t) => cur[t] \notin rows'[u],
         reaper'.pc = "reaping" =>
           \/ reaper.pc = "reaping" /\ reaper'.ids \subseteq reaper.ids
           \/ \A t \in Tasks : Polled(t) => cur[t] \notin reaper'.ids
  PROVE  SpareInv'
<1>1. ASSUME NEW t \in Tasks, pc'[t] = "polling", cur'[t] \in Present',
             t \notin hist'.unseen
      PROVE  Polled(t) /\ cur'[t] = cur[t]
  BY <1>1, Faded DEF Polled
<1>2. ASSUME NEW t \in Tasks, Polled(t), NEW u \in Tasks, pc'[u] = "sweeping"
      PROVE  cur[t] \notin rows'[u]
  BY <1>2 DEF SpareInv, Polled
<1>3. ASSUME NEW t \in Tasks, Polled(t), reaper'.pc = "reaping"
      PROVE  cur[t] \notin reaper'.ids
  BY <1>3 DEF SpareInv, Polled
<1>4. QED
  BY <1>1, <1>2, <1>3 DEF SpareInv

(* What a task may have, given where it is. *)
Known(t, c) ==
  /\ pc[t] # "create"
  /\ pc[t] \in {"listed", "sweeping"} => c \in rows[t]
  /\ pc[t] \in {"polling", "cleanup"} => c = cur[t]

(* A task still knows its containers when it stays where it is or Known
   holds. *)
LEMMA SweepKept ==
  ASSUME TypeOK, SweepInv, OneBoxPerTask, Fades, hist.unswept \subseteq hist'.unswept,
         \A t \in Tasks, c \in Alive' :
           box[c].task = t /\ c \in Alive /\ t \notin hist'.unswept =>
             \/ pc'[t] = pc[t] /\ rows'[t] = rows[t] /\ cur'[t] = cur[t]
             \/ Known(t, c)'
  PROVE  SweepInv' /\ OneBoxPerTask'
<1>1. ASSUME NEW t \in Tasks, NEW c \in Alive', box'[c].task = t, t \notin hist'.unswept
      PROVE  Known(t, c)'
  <2>1. c \in Alive /\ box[c].task = t /\ t \notin hist.unswept
    BY <1>1, Faded
  <2>2. Known(t, c)
    BY <2>1 DEF SweepInv, Known
  <2>3. QED
    BY <1>1, <2>1, <2>2 DEF Known
<1>2. SweepInv'
  BY <1>1 DEF SweepInv, Known
<1>3. OneBoxPerTask'
  <2>1. ASSUME NEW c \in Alive', NEW d \in Alive', c # d, box'[c].task = box'[d].task
        PROVE  box'[c].task \in hist'.unswept
    BY <2>1, Faded DEF OneBoxPerTask
  <2>2. QED
    BY <2>1 DEF OneBoxPerTask
<1>4. QED
  BY <1>2, <1>3

(* What a cancel has to kill does not grow while containers only fade. *)
LEMMA KillKept ==
  ASSUME TypeOK, KillInv, Fades, cancel' = cancel, killing' = killing,
         hist'.atCancel = hist.atCancel, hist'.missed = hist.missed
  PROVE  KillInv'
<1>1. \A c \in hist'.atCancel \cap Alive' : c \in hist.atCancel \cap Alive
                                           /\ box'[c] = box[c]
  BY Faded
<1>2. QED
  BY <1>1 DEF KillInv

(* What the record of a task is to say. *)
Recorded(t) ==
  /\ pc[t] \in Running /\ t \notin hist.unseen => entries[on[t]][t] > 0
  /\ \A w \in Workers :
       entries[w][t] <= IF pc[t] \in {"none", "queued"} THEN faults ELSE faults + 1

(* The records stay right for the tasks that stay where they are. *)
LEMMA RecordKept ==
  ASSUME TypeOK, RecordInv, faults' \in Nat, faults <= faults',
         \A t \in Tasks :
           \/ /\ pc'[t] = pc[t] /\ on'[t] = on[t]
              /\ \A w \in Workers : entries'[w][t] = entries[w][t]
              /\ t \in hist.unseen => t \in hist'.unseen
           \/ Recorded(t)'
  PROVE  RecordInv'
<1>1. ASSUME NEW t \in Tasks, pc'[t] = pc[t], on'[t] = on[t],
             \A w \in Workers : entries'[w][t] = entries[w][t],
             t \in hist.unseen => t \in hist'.unseen
      PROVE  Recorded(t)'
  <2>1. Recorded(t)
    BY DEF RecordInv, Recorded
  <2>2. pc'[t] \in Running /\ t \notin hist'.unseen => entries'[on'[t]][t] > 0
    BY <1>1, <2>1, TaskTypes DEF Recorded
  <2>3. ASSUME NEW w \in Workers
        PROVE  entries'[w][t] <= IF pc'[t] \in {"none", "queued"} THEN faults' ELSE faults' + 1
    <3>1. entries[w][t] \in Nat /\ faults \in Nat
      BY DEF TypeOK
    <3>2. entries[w][t] <= IF pc[t] \in {"none", "queued"} THEN faults ELSE faults + 1
      BY <2>1 DEF Recorded
    <3>3. entries[w][t] <= IF pc[t] \in {"none", "queued"} THEN faults' ELSE faults' + 1
      BY <3>1, <3>2
    <3>4. QED
      BY <1>1, <3>3
  <2>4. QED
    BY <2>2, <2>3 DEF Recorded
<1>2. \A t \in Tasks : Recorded(t)'
  BY <1>1
<1>3. QED
  BY <1>2 DEF RecordInv, Recorded

(* Only the attempt of task t changes. *)
Alone(t) ==
  \A u \in Tasks : u # t =>
    /\ pc'[u] = pc[u] /\ on'[u] = on[u] /\ rows'[u] = rows[u] /\ cur'[u] = cur[u]
    /\ \A w \in Workers : entries'[w][u] = entries[w][u]
    /\ u \in hist'.unseen <=> u \in hist.unseen

(* A step of a task that creates no container. *)
LEMMA TaskInv ==
  ASSUME ContainerInv, TypeOK', NEW t \in Tasks, Alone(t), Fades, nextBox' = nextBox,
         cancel' = cancel, killing' = killing, reaper' = reaper,
         hist'.atCancel = hist.atCancel, hist'.missed = hist.missed,
         hist.unswept \subseteq hist'.unswept, faults <= faults',
         pc'[t] # "polling",
         cur'[t] = 0 \/ (cur'[t] = cur[t] /\ pc'[t] = "cleanup"),
         \A c \in rows'[t] : c < nextBox,
         pc'[t] = "sweeping" =>
           \/ pc[t] = "sweeping" /\ rows'[t] \subseteq rows[t]
           \/ \A u \in Tasks : Polled(u) => cur[u] \notin rows'[t],
         \A c \in Alive' : box[c].task = t /\ c \in Alive /\ t \notin hist'.unswept =>
           Known(t, c)',
         Recorded(t)'
  PROVE  ContainerInv'
<1> USE DEF ContainerInv
<1>1. \A u \in Tasks :
        /\ cur'[u] = 0 \/ (cur'[u] = cur[u] /\ pc'[u] \in {"polling", "cleanup"})
        /\ pc'[u] = "polling" => pc[u] = "polling" /\ cur'[u] = cur[u]
  BY DEF Alone, BoxInv
<1>2. \A u \in Tasks : \A c \in rows'[u] : c < nextBox
  BY DEF Alone, BoxInv
<1>3. \A c \in reaper'.ids : c < nextBox
  BY DEF BoxInv
<1>4. BoxInv'
  BY <1>1, <1>2, <1>3, BoxKept
<1>5. SpareInv'
  BY <1>1, SpareKept DEF Alone
<1>6. SweepInv' /\ OneBoxPerTask'
  BY SweepKept DEF Alone
<1>7. KillInv'
  BY KillKept
<1>8. RecordInv'
  <2>1. faults' \in Nat
    BY DEF TypeOK
  <2>2. QED
    BY <2>1, RecordKept DEF Alone
<1>9. QED
  BY <1>4, <1>5, <1>6, <1>7, <1>8

(* A step of the daemon, a worker's shutdown, a cancel or the reaper. *)
LEMMA EnvironmentInv ==
  ASSUME ContainerInv, TypeOK', Fades,
         UNCHANGED <<pc, on, rows, cur, nextBox>>, hist'.unseen = hist.unseen,
         hist.unswept \subseteq hist'.unswept, faults <= faults',
         \A c \in reaper'.ids : c < nextBox,
         reaper'.pc = "reaping" =>
           \/ reaper.pc = "reaping" /\ reaper'.ids \subseteq reaper.ids
           \/ \A t \in Tasks : Polled(t) => cur[t] \notin reaper'.ids,
         \A c \in hist'.atCancel : c \in hist.atCancel \/ c \in Present,
         \/ entries' = entries
         \/ \A t \in Tasks : Recorded(t)',
         KillInv'
  PROVE  ContainerInv'
<1> USE DEF ContainerInv
<1>1. \A t \in Tasks : cur[t] = 0 \/ pc[t] \in {"polling", "cleanup"}
  BY DEF BoxInv
<1>2. \A t \in Tasks : \A c \in rows'[t] : c < nextBox
  BY DEF BoxInv
<1>3. BoxInv'
  BY <1>1, <1>2, BoxKept
<1>4. SpareInv'
  BY SpareKept
<1>5. SweepInv' /\ OneBoxPerTask'
  BY SweepKept
<1>6. RecordInv'
  <2>1. faults' \in Nat
    BY DEF TypeOK
  <2>2. QED
    BY <2>1, RecordKept
<1>7. QED
  BY <1>3, <1>4, <1>5, <1>6

-----------------------------------------------------------------------------
(* How the steps change the state *)

(* There is a task for the label of a removed container. *)
LEMMA SomeTaskType == SomeTask \in Tasks
  BY StepAssumption DEF SomeTask

(* docker rm --force *)
LEMMA Removes ==
  ASSUME TypeOK, NEW c \in Boxes, box' = Removed(c)
  PROVE  /\ box' \in [Boxes -> BoxRecords] /\ Fades /\ c \notin Alive'
<1>1. PICK r \in BoxRecords : r.state = "gone" /\ r = [task |-> SomeTask, state |-> "gone"]
  BY SomeTaskType DEF BoxRecords
<1>2. box' = [box EXCEPT ![c] = IF @.state \in {"running", "exited"} THEN r ELSE @]
  BY <1>1 DEF Removed
<1>3. /\ box' \in [Boxes -> BoxRecords] /\ \A d \in Boxes : d # c => box'[d] = box[d]
      /\ box'[c] = IF box[c].state \in {"running", "exited"} THEN r ELSE box[c]
  BY <1>2 DEF TypeOK
<1>4. QED
  BY <1>1, <1>3 DEF Fades, Alive

(* Nothing happens to the containers. *)
LEMMA SameBoxes ==
  ASSUME TypeOK, box' = box
  PROVE  /\ box' \in [Boxes -> BoxRecords] /\ Fades /\ Alive' = Alive
  BY DEF TypeOK, Fades, Alive

(* A fault is counted. *)
LEMMA FaultCount ==
  ASSUME TypeOK, Fault \/ UNCHANGED faults
  PROVE  /\ faults' \in 0 .. MaxFaults /\ faults <= faults' /\ faults \in Nat
         /\ faults' \in Nat /\ (Fault => faults' = faults + 1)
  BY StepAssumption DEF TypeOK, Fault

(* A worker's record of a task changes. *)
LEMMA EntryWrite ==
  ASSUME TypeOK, NEW w \in Workers, NEW t \in Tasks, NEW n \in 0 .. MaxFaults + 1,
         entries' = [entries EXCEPT ![w][t] = n]
  PROVE  /\ entries' \in [Workers -> [Tasks -> 0 .. MaxFaults + 1]]
         /\ entries'[w][t] = n
         /\ \A x \in Workers : x # w => entries'[x][t] = entries[x][t]
         /\ \A x \in Workers, u \in Tasks : u # t => entries'[x][u] = entries[x][u]
  BY DEF TypeOK

(* The record of a task that goes on, or ends without a trace. *)
LEMMA RecordStays ==
  ASSUME ContainerInv, NEW t \in Tasks, entries' = entries, on'[t] = on[t],
         hist'.unseen = hist.unseen, faults' \in Nat, faults <= faults',
         pc'[t] \in Running => pc[t] \in Running,
         pc'[t] \in {"none", "queued"} =>
           pc[t] \in {"none", "queued"} \/ faults' = faults + 1
  PROVE  Recorded(t)'
<1> USE DEF ContainerInv
<1>1. Recorded(t)
  BY DEF RecordInv, Recorded
<1>2. pc'[t] \in Running /\ t \notin hist'.unseen => entries'[on'[t]][t] > 0
  BY <1>1 DEF Recorded
<1>3. ASSUME NEW w \in Workers
      PROVE  entries'[w][t] <= IF pc'[t] \in {"none", "queued"} THEN faults' ELSE faults' + 1
  <2>1. PICK n \in Nat : n = entries[w][t]
    BY DEF TypeOK
  <2>2. n <= (IF pc[t] \in {"none", "queued"} THEN faults ELSE faults + 1) /\ faults \in Nat
    BY <1>1, <2>1 DEF Recorded, TypeOK
  <2>3. n <= faults' + 1
    BY <2>2
  <2>4. pc'[t] \in {"none", "queued"} => n <= faults'
    BY <2>2
  <2>5. QED
    BY <2>1, <2>3, <2>4
<1>4. QED
  BY <1>2, <1>3 DEF Recorded

-----------------------------------------------------------------------------
(* Steps of a task *)

(* The fields of a function that changes at one task. *)
LEMMA GotoFields ==
  ASSUME TypeOK, NEW t \in Tasks, NEW to \in Running \cup {"none", "queued", "over"},
         Goto(t, to)
  PROVE  /\ pc' \in [Tasks -> Running \cup {"none", "queued", "over"}] /\ pc'[t] = to
         /\ \A u \in Tasks : u # t => pc'[u] = pc[u]
  BY DEF TypeOK, Goto

(* The listing of one task changes. *)
LEMMA RowsFields ==
  ASSUME TypeOK, NEW t \in Tasks, NEW x \in SUBSET Boxes, rows' = [rows EXCEPT ![t] = x]
  PROVE  /\ rows' \in [Tasks -> SUBSET Boxes] /\ rows'[t] = x
         /\ \A u \in Tasks : u # t => rows'[u] = rows[u]
  BY DEF TypeOK

(* The container of one task changes. *)
LEMMA CurFields ==
  ASSUME TypeOK, NEW t \in Tasks, NEW c \in Boxes \cup {0}, cur' = [cur EXCEPT ![t] = c]
  PROVE  /\ cur' \in [Tasks -> Boxes \cup {0}] /\ cur'[t] = c
         /\ \A u \in Tasks : u # t => cur'[u] = cur[u]
  BY DEF TypeOK

(* A row is created and its message is sent. *)
LEMMA SubmitInv ==
  ASSUME ContainerInv, NEW t \in Tasks, Submit(t)
  PROVE  ContainerInv'
<1> USE DEF ContainerInv
<1>1. /\ pc[t] = "none" /\ Goto(t, "queued") /\ row' = [row EXCEPT ![t] = TRUE]
      /\ UNCHANGED <<on, rows, cur, lease, entries, box, nextBox, revoking, cancel,
                     killing, cancels, reaper, faults, hist>>
  BY DEF Submit, daemon, request
<1>2. /\ pc' \in [Tasks -> Running \cup {"none", "queued", "over"}] /\ pc'[t] = "queued"
      /\ \A u \in Tasks : u # t => pc'[u] = pc[u]
  BY <1>1, GotoFields
<1>3. TypeOK'
  BY <1>1, <1>2 DEF TypeOK
<1>4. Fades
  BY <1>1, SameBoxes
<1>5. Recorded(t)'
  <2>1. /\ pc'[t] \notin Running /\ faults' \in Nat /\ faults <= faults'
        /\ pc[t] \in {"none", "queued"}
    BY <1>1, <1>2, FaultCount DEF Running, InLock
  <2>2. QED
    BY <1>1, <2>1, RecordStays
<1>6. Alone(t)
  BY <1>1, <1>2 DEF Alone
<1>7. cur[t] = 0 /\ \A c \in rows[t] : c < nextBox
  BY <1>1 DEF BoxInv
<1>8. faults <= faults'
  BY <1>1, FaultCount
<1>9. \A c : Known(t, c)'
  BY <1>2 DEF Known
<1>10. QED
  BY <1>1, <1>2, <1>3, <1>4, <1>5, <1>6, <1>7, <1>8, <1>9, TaskInv

(* A worker takes the message; Redis records the start, or does not. *)
LEMMA PrerunInv ==
  ASSUME ContainerInv, NEW t \in Tasks, NEW w \in Workers, NEW recorded \in BOOLEAN,
         Prerun(t, w, recorded)
  PROVE  ContainerInv'
<1> USE DEF ContainerInv
<1>1. /\ pc[t] = "queued" /\ Goto(t, "started") /\ on' = [on EXCEPT ![t] = w]
      /\ row' = [row EXCEPT ![t] = TRUE]
      /\ UNCHANGED <<rows, cur, lease, box, nextBox, revoking, cancel, killing,
                     cancels, reaper>>
  BY DEF Prerun, daemon, request
<1>2. /\ pc' \in [Tasks -> Running \cup {"none", "queued", "over"}] /\ pc'[t] = "started"
      /\ \A u \in Tasks : u # t => pc'[u] = pc[u]
  BY <1>1, GotoFields DEF Running
<1>3. /\ on' \in [Tasks -> Workers] /\ on'[t] = w /\ row' \in [Tasks -> BOOLEAN]
      /\ \A u \in Tasks : u # t => on'[u] = on[u]
  BY <1>1 DEF TypeOK
<1>4. Fades
  BY <1>1, SameBoxes
<1>5. cur[t] = 0 /\ \A c \in rows[t] : c < nextBox
  BY <1>1 DEF BoxInv
<1>6. \A c : Known(t, c)'
  BY <1>2 DEF Known
<1>7. \A x \in Workers : entries[x][t] <= faults /\ entries[x][t] \in Nat
                         /\ faults \in Nat /\ faults <= MaxFaults
  BY <1>1 DEF RecordInv, TypeOK
<1>8. CASE /\ entries' = [entries EXCEPT ![w][t] = @ + 1]
           /\ hist' = [hist EXCEPT !.unseen = @ \ {t}] /\ UNCHANGED faults
  <2>1. PICK n \in 0 .. MaxFaults + 1 : n = entries[w][t] + 1 /\ n > 0 /\ n <= faults + 1
    BY <1>7, StepAssumption
  <2>2. entries' = [entries EXCEPT ![w][t] = n]
    BY <1>8, <2>1
  <2>3. /\ entries' \in [Workers -> [Tasks -> 0 .. MaxFaults + 1]]
        /\ entries'[w][t] = n
        /\ \A x \in Workers : x # w => entries'[x][t] = entries[x][t]
        /\ \A x \in Workers, u \in Tasks : u # t => entries'[x][u] = entries[x][u]
    BY <2>2, EntryWrite
  <2>4. /\ hist' \in [unswept : SUBSET Tasks, unseen : SUBSET Tasks,
                      atCancel : SUBSET Boxes, missed : BOOLEAN]
        /\ hist'.unseen = hist.unseen \ {t} /\ hist'.unswept = hist.unswept
        /\ hist'.atCancel = hist.atCancel /\ hist'.missed = hist.missed
    BY <1>8 DEF TypeOK
  <2>5. TypeOK'
    BY <1>1, <1>2, <1>3, <1>8, <2>3, <2>4 DEF TypeOK
  <2>6. Recorded(t)'
    <3>1. \A x \in Workers : entries'[x][t] <= faults' + 1
      BY <1>7, <1>8, <2>1, <2>3
    <3>2. QED
      BY <1>2, <1>3, <2>1, <2>3, <3>1 DEF Recorded
  <2>7. Alone(t)
    BY <1>1, <1>2, <1>3, <2>3, <2>4 DEF Alone
  <2>8. faults <= faults'
    BY <1>8, FaultCount
  <2>9. QED
    BY <1>1, <1>2, <1>4, <1>5, <1>6, <2>4, <2>5, <2>6, <2>7, <2>8, TaskInv
<1>9. CASE /\ Fault /\ hist' = [hist EXCEPT !.unseen = @ \cup {t}] /\ UNCHANGED entries
  <2>1. /\ hist' \in [unswept : SUBSET Tasks, unseen : SUBSET Tasks,
                      atCancel : SUBSET Boxes, missed : BOOLEAN]
        /\ hist'.unseen = hist.unseen \cup {t} /\ hist'.unswept = hist.unswept
        /\ hist'.atCancel = hist.atCancel /\ hist'.missed = hist.missed
    BY <1>9 DEF TypeOK
  <2>2. faults' \in 0 .. MaxFaults /\ faults <= faults' /\ faults' \in Nat
    BY <1>9, FaultCount
  <2>3. TypeOK'
    BY <1>1, <1>2, <1>3, <1>9, <2>1, <2>2 DEF TypeOK
  <2>4. Recorded(t)'
    <3>1. \A x \in Workers : entries'[x][t] <= faults' + 1
      BY <1>7, <1>9, <2>2
    <3>2. QED
      BY <1>2, <2>1, <3>1 DEF Recorded
  <2>5. Alone(t)
    BY <1>1, <1>2, <1>3, <1>9, <2>1 DEF Alone
  <2>6. QED
    BY <1>1, <1>2, <1>4, <1>5, <1>6, <2>1, <2>2, <2>3, <2>4, <2>5, TaskInv
<1>10. QED
  BY <1>8, <1>9 DEF Prerun

(* The task goes somewhere where it has neither a listing nor a step. *)
LEMMA OutsideInv ==
  ASSUME ContainerInv, NEW t \in Tasks,
         NEW to \in {"locked", "started", "ending", "queued", "over"}, Goto(t, to),
         row' \in [Tasks -> BOOLEAN], lease' \in [Modules -> Tasks \cup {NoTask}],
         rows' = rows \/ rows' = [rows EXCEPT ![t] = {}],
         cur' = [cur EXCEPT ![t] = 0] \/ (cur' = cur /\ cur[t] = 0),
         UNCHANGED <<on, entries, nextBox, cancel, killing, cancels, reaper>>,
         revoking' \subseteq Tasks,
         Fades, box' \in [Boxes -> BoxRecords], Fault \/ UNCHANGED faults,
         hist' = hist \/ hist' = [hist EXCEPT !.unswept = @ \cup {t}],
         to \in Running => pc[t] \in Running,
         to = "queued" => Fault
  PROVE  ContainerInv'
<1> USE DEF ContainerInv
<1>1. /\ pc' \in [Tasks -> Running \cup {"none", "queued", "over"}] /\ pc'[t] = to
      /\ \A u \in Tasks : u # t => pc'[u] = pc[u]
  BY GotoFields DEF Running, InLock
<1>2. /\ rows' \in [Tasks -> SUBSET Boxes] /\ rows'[t] \subseteq rows[t]
      /\ \A u \in Tasks : u # t => rows'[u] = rows[u]
  BY DEF TypeOK
<1>3. /\ cur' \in [Tasks -> Boxes \cup {0}] /\ cur'[t] = 0
      /\ \A u \in Tasks : u # t => cur'[u] = cur[u]
  BY DEF TypeOK
<1>4. /\ faults' \in 0 .. MaxFaults /\ faults <= faults' /\ faults' \in Nat
      /\ Fault => faults' = faults + 1
  BY FaultCount
<1>5. /\ hist' \in [unswept : SUBSET Tasks, unseen : SUBSET Tasks,
                    atCancel : SUBSET Boxes, missed : BOOLEAN]
      /\ hist'.unseen = hist.unseen /\ hist.unswept \subseteq hist'.unswept
      /\ hist'.atCancel = hist.atCancel /\ hist'.missed = hist.missed
  <2>1. CASE hist' = hist
    BY <2>1 DEF TypeOK
  <2>2. CASE hist' = [hist EXCEPT !.unswept = @ \cup {t}]
    BY <2>2 DEF TypeOK
  <2>3. QED
    BY <2>1, <2>2
<1>6. TypeOK'
  BY <1>1, <1>2, <1>3, <1>4, <1>5 DEF TypeOK
<1>7. Recorded(t)'
  BY <1>1, <1>4, <1>5, RecordStays
<1>8. Alone(t)
  BY <1>1, <1>2, <1>3, <1>5 DEF Alone
<1>9. \A c \in rows'[t] : c < nextBox
  BY <1>2 DEF BoxInv
<1>10. \A c : Known(t, c)'
  BY <1>1 DEF Known
<1>11. QED
  BY <1>1, <1>3, <1>4, <1>5, <1>6, <1>7, <1>8, <1>9, <1>10, TaskInv

(* The task gets the module lock, or is refused. *)
LEMMA AcquireInv ==
  ASSUME ContainerInv, NEW t \in Tasks, Acquire(t) \/ Refused(t)
  PROVE  ContainerInv'
<1> USE DEF ContainerInv
<1>1. PICK to \in {"locked", "ending"} : Goto(t, to)
  BY DEF Acquire, Refused
<1>2. /\ pc[t] = "started"
      /\ UNCHANGED <<on, rows, cur, entries, box, nextBox, revoking, cancel, killing,
                     cancels, reaper, faults, hist>>
  BY DEF Acquire, Refused, daemon, request
<1>3. row' \in [Tasks -> BOOLEAN] /\ lease' \in [Modules -> Tasks \cup {NoTask}]
  <2>1. row' = [row EXCEPT ![t] = FALSE] \/ UNCHANGED row
    BY DEF Acquire, Refused
  <2>2. lease' = [lease EXCEPT ![ModuleOf[t]] = t] \/ UNCHANGED lease
    BY DEF Acquire, Refused
  <2>3. row' \in [Tasks -> BOOLEAN]
    BY <2>1 DEF TypeOK
  <2>4. lease' \in [Modules -> Tasks \cup {NoTask}]
    BY <2>2, TaskTypes DEF TypeOK
  <2>5. QED
    BY <2>3, <2>4
<1>4. Fades /\ box' \in [Boxes -> BoxRecords] /\ revoking' \subseteq Tasks
  BY <1>2, SameBoxes DEF TypeOK
<1>5. cur[t] = 0 /\ pc[t] \in Running
  BY <1>2 DEF BoxInv, Running
<1>6. QED
  BY <1>1, <1>2, <1>3, <1>4, <1>5, OutsideInv

(* The worker process dies, or a revoke kills it. *)
LEMMA DieInv ==
  ASSUME ContainerInv, NEW t \in Tasks, Die(t) \/ Revoked(t)
  PROVE  ContainerInv'
<1> USE DEF ContainerInv
<1>1. PICK to \in {"queued", "over"} :
        Goto(t, to) /\ (to = "queued" => Fault) /\ (Fault \/ UNCHANGED faults)
  BY DEF Die, Revoked
<1>2. /\ rows' = [rows EXCEPT ![t] = {}] /\ cur' = [cur EXCEPT ![t] = 0]
      /\ UNCHANGED <<on, row, lease, entries, box, nextBox, cancel, killing, cancels,
                     reaper, hist>>
  BY DEF Die, Revoked, daemon, request
<1>3. /\ row' \in [Tasks -> BOOLEAN] /\ lease' \in [Modules -> Tasks \cup {NoTask}]
      /\ revoking' \subseteq Tasks
  BY DEF Die, Revoked, request, TypeOK
<1>4. Fades /\ box' \in [Boxes -> BoxRecords]
  BY <1>2, SameBoxes
<1>5. to \notin Running
  BY DEF Running, InLock
<1>6. QED
  BY <1>1, <1>2, <1>3, <1>4, <1>5, OutsideInv

(* The finally block of a step. *)
LEMMA CleanupInv ==
  ASSUME ContainerInv, NEW t \in Tasks, NEW last \in BOOLEAN, Cleanup(t, last)
  PROVE  ContainerInv'
<1> USE DEF ContainerInv
<1>1. /\ pc[t] = "cleanup" /\ cur' = [cur EXCEPT ![t] = 0]
      /\ UNCHANGED <<on, rows, entries, nextBox, revoking, cancel, killing, cancels, reaper>>
  BY DEF Cleanup, request
<1>2. PICK to \in {"locked", "ending"} : Goto(t, to)
  BY DEF Cleanup
<1>3. row' \in [Tasks -> BOOLEAN] /\ lease' \in [Modules -> Tasks \cup {NoTask}]
  <2>1. row' = [row EXCEPT ![t] = FALSE] \/ UNCHANGED row
    BY DEF Cleanup
  <2>2. \/ lease' = [lease EXCEPT ![ModuleOf[t]] = IF @ = t THEN NoTask ELSE @]
        \/ UNCHANGED lease
    BY DEF Cleanup
  <2>3. row' \in [Tasks -> BOOLEAN]
    BY <2>1 DEF TypeOK
  <2>4. lease' \in [Modules -> Tasks \cup {NoTask}]
    BY <2>2, TaskTypes DEF TypeOK
  <2>5. QED
    BY <2>3, <2>4
<1>4. Fades /\ box' \in [Boxes -> BoxRecords]
  <2>1. box' = box \/ (cur[t] \in Boxes /\ box' = Removed(cur[t]))
    BY TaskTypes DEF Cleanup
  <2>2. QED
    BY <2>1, SameBoxes, Removes
<1>5. /\ Fault \/ UNCHANGED faults
      /\ hist' = hist \/ hist' = [hist EXCEPT !.unswept = @ \cup {t}]
  BY DEF Cleanup
<1>6. pc[t] \in Running /\ revoking' \subseteq Tasks
  BY <1>1 DEF Running, InLock, TypeOK
<1>7. QED
  BY <1>1, <1>2, <1>3, <1>4, <1>5, <1>6, OutsideInv

(* The task that ends leaves one member of its worker's set less. *)
LEMMA PostrunInv ==
  ASSUME ContainerInv, NEW t \in Tasks, Postrun(t)
  PROVE  ContainerInv'
<1> USE DEF ContainerInv
<1>1. /\ pc[t] = "ending" /\ Goto(t, "over")
      /\ UNCHANGED <<on, row, rows, cur, lease, box, nextBox, revoking, cancel, killing,
                     cancels, reaper, hist>>
  BY DEF Postrun, daemon, request
<1>2. /\ row' \in [Tasks -> BOOLEAN] /\ lease' \in [Modules -> Tasks \cup {NoTask}]
      /\ revoking' \subseteq Tasks
  BY <1>1 DEF TypeOK
<1>3. Fades /\ box' \in [Boxes -> BoxRecords] /\ cur[t] = 0
  BY <1>1, SameBoxes DEF BoxInv
<1>4. CASE UNCHANGED entries /\ Fault
  <2>1. "over" \notin Running
    BY DEF Running, InLock
  <2>2. QED
    BY <1>1, <1>2, <1>3, <1>4, <2>1, OutsideInv
<1>5. CASE /\ entries' = [entries EXCEPT ![on[t]][t] = IF @ > 0 THEN @ - 1 ELSE 0]
           /\ UNCHANGED faults
  <2>1. PICK w \in Workers : w = on[t]
    BY TaskTypes
  <2>2. /\ \A x \in Workers : entries[x][t] <= faults + 1 /\ entries[x][t] \in Nat
        /\ faults \in Nat /\ faults <= MaxFaults /\ MaxFaults \in Nat
    BY <1>1, StepAssumption, SMTT(30) DEF RecordInv, TypeOK
  <2>3. PICK n \in 0 .. MaxFaults + 1 :
          n = (IF entries[w][t] > 0 THEN entries[w][t] - 1 ELSE 0) /\ n <= faults + 1
    BY <2>2
  <2>4. entries' = [entries EXCEPT ![w][t] = n]
    BY <1>5, <2>1, <2>3
  <2>5. /\ entries' \in [Workers -> [Tasks -> 0 .. MaxFaults + 1]]
        /\ entries'[w][t] = n
        /\ \A x \in Workers : x # w => entries'[x][t] = entries[x][t]
        /\ \A x \in Workers, u \in Tasks : u # t => entries'[x][u] = entries[x][u]
    BY <2>4, EntryWrite
  <2>6. /\ pc' \in [Tasks -> Running \cup {"none", "queued", "over"}] /\ pc'[t] = "over"
        /\ \A u \in Tasks : u # t => pc'[u] = pc[u]
    BY <1>1, GotoFields
  <2>7. TypeOK'
    BY <1>1, <1>5, <2>5, <2>6 DEF TypeOK
  <2>8. Recorded(t)'
    <3>1. \A x \in Workers : entries'[x][t] <= faults' + 1
      BY <1>5, <2>2, <2>3, <2>5
    <3>2. pc'[t] \notin Running
      BY <2>6 DEF Running, InLock
    <3>3. QED
      BY <2>6, <3>1, <3>2 DEF Recorded
  <2>9. Alone(t)
    BY <1>1, <2>5, <2>6 DEF Alone
  <2>10. faults <= faults' /\ \A c \in rows'[t] : c < nextBox
    BY <1>1, <1>5, <2>2 DEF BoxInv
  <2>11. \A c : Known(t, c)'
    BY <2>6 DEF Known
  <2>12. QED
    BY <1>1, <1>3, <2>6, <2>7, <2>8, <2>9, <2>10, <2>11, TaskInv
<1>6. QED
  BY <1>4, <1>5 DEF Postrun

HistType == [unswept : SUBSET Tasks, unseen : SUBSET Tasks,
             atCancel : SUBSET Boxes, missed : BOOLEAN]

(* Only what the task has listed changes, only its container, only which      *)
(* tasks have a predecessor left.                                             *)
Lists(t) == /\ rows' \in [Tasks -> SUBSET Boxes]
            /\ \A u \in Tasks : u # t => rows'[u] = rows[u]
Runs(t) == /\ cur' \in [Tasks -> Boxes \cup {0}]
           /\ \A u \in Tasks : u # t => cur'[u] = cur[u]
Misses == /\ hist' \in HistType /\ hist.unswept \subseteq hist'.unswept
          /\ hist'.unseen = hist.unseen /\ hist'.atCancel = hist.atCancel
          /\ hist'.missed = hist.missed

(* The history notes tasks with a predecessor left. *)
LEMMA Missed ==
  ASSUME TypeOK, NEW h \in SUBSET Tasks, hist' = [hist EXCEPT !.unswept = @ \cup h]
  PROVE  Misses /\ hist'.unswept = hist.unswept \cup h
  BY DEF TypeOK, Misses, HistType

(* The history stays as it is. *)
LEMMA NothingMissed ==
  ASSUME TypeOK, hist' = hist
  PROVE  Misses
  BY DEF TypeOK, Misses, HistType

(* The task goes on within its sweep or its step. *)
LEMMA InsideInv ==
  ASSUME ContainerInv, NEW t \in Tasks, NEW to \in {"listed", "sweeping", "create", "cleanup"},
         Goto(t, to), pc[t] \in Running, Lists(t), \A c \in rows'[t] : c < nextBox,
         Runs(t), cur'[t] = 0 \/ (cur'[t] = cur[t] /\ to = "cleanup"),
         UNCHANGED <<on, row, lease, entries, nextBox, request, reaper>>,
         Fades, box' \in [Boxes -> BoxRecords], Fault \/ UNCHANGED faults, Misses,
         to = "sweeping" =>
           \/ pc[t] = "sweeping" /\ rows'[t] \subseteq rows[t]
           \/ \A u \in Tasks : Polled(u) => cur[u] \notin rows'[t],
         \A c \in Alive' : box[c].task = t /\ c \in Alive /\ t \notin hist'.unswept =>
           /\ to # "create"
           /\ to \in {"listed", "sweeping"} => c \in rows'[t]
           /\ to = "cleanup" => c = cur'[t]
  PROVE  ContainerInv'
<1> USE DEF ContainerInv
<1>1. /\ pc' \in [Tasks -> Running \cup {"none", "queued", "over"}] /\ pc'[t] = to
      /\ \A u \in Tasks : u # t => pc'[u] = pc[u]
  BY GotoFields DEF Running, InLock
<1>2. /\ faults' \in 0 .. MaxFaults /\ faults <= faults' /\ faults' \in Nat
  BY FaultCount
<1>3. /\ UNCHANGED <<revoking, cancel, killing, cancels>> /\ hist' \in HistType
      /\ rows' \in [Tasks -> SUBSET Boxes] /\ cur' \in [Tasks -> Boxes \cup {0}]
  BY DEF request, Misses, Lists, Runs
<1>4. TypeOK'
  BY <1>1, <1>2, <1>3 DEF TypeOK, HistType
<1>5. Recorded(t)'
  BY <1>1, <1>2, RecordStays DEF Misses
<1>6. Alone(t)
  BY <1>1 DEF Alone, Lists, Runs, Misses
<1>7. \A c \in Alive' : box[c].task = t /\ c \in Alive /\ t \notin hist'.unswept => Known(t, c)'
  BY <1>1 DEF Known
<1>8. /\ hist.unswept \subseteq hist'.unswept /\ hist'.atCancel = hist.atCancel
      /\ hist'.missed = hist.missed
  BY DEF Misses
<1>9. QED
  BY <1>1, <1>2, <1>3, <1>4, <1>5, <1>6, <1>7, <1>8, TaskInv

(* The sweep lists the containers of the workspace. *)
LEMMA SweepListInv ==
  ASSUME ContainerInv, NEW t \in Tasks, SweepList(t)
  PROVE  ContainerInv'
<1> USE DEF ContainerInv
<1>1. /\ pc[t] = "locked"
      /\ UNCHANGED <<on, row, cur, lease, entries, box, nextBox, request, reaper>>
  BY DEF SweepList, daemon
<1>2. cur'[t] = 0 /\ pc[t] \in Running /\ Runs(t)
  BY <1>1 DEF BoxInv, Running, InLock, Runs, TypeOK
<1>3. Fades /\ box' \in [Boxes -> BoxRecords] /\ Alive' = Alive
  BY <1>1, SameBoxes
<1>4. CASE /\ rows' = [rows EXCEPT ![t] = Present]
           /\ Goto(t, IF Present = {} THEN "create" ELSE "listed")
           /\ UNCHANGED <<faults, hist>>
  <2>1. PICK to \in {"create", "listed"} : to = IF Present = {} THEN "create" ELSE "listed"
    OBVIOUS
  <2>2. Goto(t, to) /\ Misses
    BY <1>4, <2>1, NothingMissed
  <2>3. Present \in SUBSET Boxes /\ \A c \in Present : c < nextBox
    BY PresentBoxes
  <2>4. Lists(t) /\ rows'[t] = Present
    BY <1>4, <2>3, RowsFields DEF Lists
  <2>5. \A c \in Alive : c \in Present
    BY DEF Alive, Present
  <2>6. \A c \in Alive : to = "listed"
    BY <2>1, <2>5
  <2>7. QED
    BY <1>1, <1>2, <1>3, <1>4, <2>2, <2>3, <2>4, <2>5, <2>6, InsideInv
<1>5. CASE /\ Fault /\ Goto(t, "create") /\ hist' = [hist EXCEPT !.unswept = @ \cup {t}]
           /\ UNCHANGED rows
  <2>1. Lists(t) /\ \A c \in rows'[t] : c < nextBox
    BY <1>5 DEF BoxInv, Lists, TypeOK
  <2>2. Misses /\ t \in hist'.unswept
    BY <1>5, Missed
  <2>3. QED
    BY <1>1, <1>2, <1>3, <1>5, <2>1, <2>2, InsideInv
<1>6. QED
  BY <1>4, <1>5 DEF SweepList

(* A recorded attempt is not taken for an orphan. *)
LEMMA PolledLive ==
  ASSUME ContainerInv, NEW t \in Tasks, Polled(t)
  PROVE  t \in LiveIds /\ box[cur[t]].task = t /\ pc[t] = "polling"
<1>1. pc[t] = "polling" /\ pc[t] \in Running /\ t \notin hist.unseen /\ on[t] \in Workers
  BY TaskTypes DEF ContainerInv, Polled, Running, InLock
<1>2. t \in LiveIds
  BY <1>1 DEF ContainerInv, RecordInv, LiveIds
<1>3. box[cur[t]].task = t
  BY <1>1 DEF ContainerInv, BoxInv, Polled, Present
<1>4. QED
  BY <1>1, <1>2, <1>3

(* The sweep reads the live ids and chooses what to remove. *)
LEMMA SweepLiveInv ==
  ASSUME ContainerInv, NEW t \in Tasks, SweepLive(t)
  PROVE  ContainerInv'
<1> USE DEF ContainerInv
<1>1. /\ pc[t] = "listed"
      /\ UNCHANGED <<on, row, cur, lease, entries, box, nextBox, request, reaper>>
  BY DEF SweepLive, daemon
<1>2. cur'[t] = 0 /\ pc[t] \in Running /\ Runs(t)
  BY <1>1 DEF BoxInv, Running, InLock, Runs, TypeOK
<1>3. Fades /\ box' \in [Boxes -> BoxRecords] /\ Alive' = Alive /\ rows[t] \subseteq Boxes
  BY <1>1, SameBoxes, TaskTypes
<1>4. PICK live \in {LiveIds, {}} :
       /\ live = {} /\ LiveIds # {} => Fault
       /\ live = LiveIds => UNCHANGED faults
       /\ \/ /\ live # {}
             /\ rows' = [rows EXCEPT ![t] = Predecessors(t, live)]
             /\ Goto(t, IF rows'[t] = {} THEN "create" ELSE "sweeping")
             /\ UNCHANGED hist
          \/ /\ live = {}
             /\ rows' = [rows EXCEPT ![t] = {}]
             /\ Goto(t, "create")
             /\ hist' = [hist EXCEPT !.unswept = @ \cup {t}]
  BY DEF SweepLive
<1>5. Fault \/ UNCHANGED faults
  BY <1>4
<1>6. CASE /\ live # {}
           /\ rows' = [rows EXCEPT ![t] = Predecessors(t, live)]
           /\ Goto(t, IF rows'[t] = {} THEN "create" ELSE "sweeping")
           /\ UNCHANGED hist
  <2>1. PICK x \in SUBSET Boxes : x = Predecessors(t, live) /\ x \subseteq rows[t]
    BY <1>3 DEF Predecessors
  <2>2. Lists(t) /\ rows'[t] = x
    BY <1>6, <2>1, RowsFields DEF Lists
  <2>3. PICK to \in {"create", "sweeping"} : to = IF x = {} THEN "create" ELSE "sweeping"
    OBVIOUS
  <2>4. Goto(t, to) /\ Misses
    BY <1>6, <2>2, <2>3, NothingMissed
  <2>5. \A c \in x : c < nextBox
    BY <2>1 DEF BoxInv
  <2>6. ASSUME NEW u \in Tasks, Polled(u)
        PROVE  cur[u] \notin x
    <3>1. u \in LiveIds /\ box[cur[u]].task = u /\ u # t
      BY <1>1, <2>6, PolledLive
    <3>2. QED
      BY <1>6, <2>1, <3>1 DEF Predecessors
  <2>7. ASSUME NEW c \in Alive', box[c].task = t, c \in Alive, t \notin hist'.unswept
        PROVE  c \in x
    <3>1. c \in rows[t]
      BY <1>1, <1>6, <2>7 DEF SweepInv
    <3>2. QED
      BY <2>1, <2>7, <3>1 DEF Predecessors
  <2>8. \A c \in Alive' : box[c].task = t /\ c \in Alive /\ t \notin hist'.unswept =>
          to = "sweeping" /\ c \in rows'[t]
    BY <2>2, <2>3, <2>7
  <2>9. QED
    BY <1>1, <1>2, <1>3, <1>5, <2>2, <2>4, <2>5, <2>6, <2>8, InsideInv
<1>7. CASE /\ rows' = [rows EXCEPT ![t] = {}]
           /\ Goto(t, "create")
           /\ hist' = [hist EXCEPT !.unswept = @ \cup {t}]
  <2>1. Lists(t) /\ rows'[t] = {}
    BY <1>7, RowsFields DEF Lists
  <2>2. Misses /\ t \in hist'.unswept
    BY <1>7, Missed, ZenonT(60)
  <2>3. QED
    BY <1>1, <1>2, <1>3, <1>5, <1>7, <2>1, <2>2, InsideInv
<1>8. QED
  BY <1>4, <1>6, <1>7

(* The sweep removes one container, or fails to. *)
LEMMA SweepRowInv ==
  ASSUME ContainerInv, NEW t \in Tasks, SweepRow(t)
  PROVE  ContainerInv'
<1> USE DEF ContainerInv
<1>1. /\ pc[t] = "sweeping" /\ Goto(t, IF rows'[t] = {} THEN "create" ELSE "sweeping")
      /\ UNCHANGED <<on, row, cur, lease, entries, nextBox, request, reaper>>
  BY DEF SweepRow
<1>2. cur'[t] = 0 /\ pc[t] \in Running /\ Runs(t)
  BY <1>1 DEF BoxInv, Running, InLock, Runs, TypeOK
<1>3. PICK c \in rows[t] :
       \/ /\ box' = Removed(c)
          /\ rows' = [rows EXCEPT ![t] = @ \ {c}]
          /\ UNCHANGED <<faults, hist>>
       \/ /\ Fault
          /\ \E left \in {{c}, rows[t]} :
               /\ rows' = [rows EXCEPT ![t] = @ \ left]
               /\ hist' = [hist EXCEPT !.unswept =
                             @ \cup {box[x].task : x \in left}]
          /\ UNCHANGED box
  BY DEF SweepRow
<1>4. c \in Boxes /\ rows[t] \subseteq Boxes
  BY <1>3, TaskTypes
<1>5. PICK to \in {"create", "sweeping"} : to = IF rows'[t] = {} THEN "create" ELSE "sweeping"
  OBVIOUS
<1>6. Goto(t, to)
  BY <1>1, <1>5
<1>7. \A d \in Alive : box[d].task = t /\ t \notin hist.unswept => d \in rows[t]
  BY <1>1 DEF SweepInv
<1>8. ASSUME Lists(t), rows'[t] \subseteq rows[t], Fades,
             box' \in [Boxes -> BoxRecords], Misses, Fault \/ UNCHANGED faults,
             \A d \in Alive' : box[d].task = t /\ d \in Alive /\ t \notin hist'.unswept
                              => d \in rows'[t]
      PROVE  ContainerInv'
  <2>1. \A d \in rows'[t] : d < nextBox
    BY <1>8 DEF BoxInv
  <2>2. \A d \in Alive' : box[d].task = t /\ d \in Alive /\ t \notin hist'.unswept
                         => to = "sweeping"
    BY <1>5, <1>8
  <2>3. QED
    BY <1>1, <1>2, <1>6, <1>8, <2>1, <2>2, InsideInv
<1>9. CASE /\ box' = Removed(c) /\ rows' = [rows EXCEPT ![t] = @ \ {c}]
           /\ UNCHANGED <<faults, hist>>
  <2>1. Lists(t) /\ rows'[t] = rows[t] \ {c}
    BY <1>4, <1>9 DEF Lists, TypeOK
  <2>2. Fades /\ box' \in [Boxes -> BoxRecords] /\ c \notin Alive' /\ Misses
    BY <1>4, <1>9, Removes, NothingMissed
  <2>3. QED
    BY <1>7, <1>8, <1>9, <2>1, <2>2
<1>10. ASSUME NEW left \in {{c}, rows[t]}, Fault, UNCHANGED box,
              rows' = [rows EXCEPT ![t] = @ \ left],
              hist' = [hist EXCEPT !.unswept = @ \cup {box[x].task : x \in left}]
       PROVE  ContainerInv'
  <2>1. Lists(t) /\ rows'[t] = rows[t] \ left
    BY <1>4, <1>10 DEF Lists, TypeOK
  <2>2. Fades /\ box' \in [Boxes -> BoxRecords]
    BY <1>10, SameBoxes
  <2>3. PICK h : h = {box[x].task : x \in left}
    OBVIOUS
  <2>4. h \in SUBSET Tasks
    BY <1>4, <2>3, BoxTypes
  <2>5. Misses /\ hist'.unswept = hist.unswept \cup h
    BY <1>10, <2>3, <2>4, Missed
  <2>6. ASSUME NEW d \in Alive, box[d].task = t, t \notin hist'.unswept
        PROVE  d \in rows'[t]
    <3>1. d \in rows[t] /\ d \notin left
      BY <1>7, <2>3, <2>5, <2>6
    <3>2. QED
      BY <2>1, <3>1
  <2>7. QED
    BY <1>8, <1>10, <2>1, <2>2, <2>5, <2>6, SameBoxes
<1>11. QED
  BY <1>3, <1>9, <1>10

(* The step ends: not created, exited, killed or given up. *)
LEMMA LeavesStepInv ==
  ASSUME ContainerInv, NEW t \in Tasks,
         CreateFails(t) \/ Poll(t) \/ \E killed \in BOOLEAN : GiveUp(t, killed)
  PROVE  ContainerInv'
<1> USE DEF ContainerInv
<1>1. /\ pc[t] \in {"create", "polling"} /\ Goto(t, "cleanup")
      /\ UNCHANGED <<on, row, rows, lease, entries, nextBox, request, reaper, hist>>
  BY DEF CreateFails, Poll, GiveUp, daemon
<1>2. Lists(t) /\ (\A c \in rows'[t] : c < nextBox) /\ Misses /\ pc[t] \in Running
  BY <1>1, NothingMissed DEF Lists, TypeOK, BoxInv, Running, InLock
<1>3. /\ Runs(t) /\ (cur'[t] = 0 \/ cur'[t] = cur[t])
      /\ pc[t] = "create" \/ cur'[t] = cur[t]
  <2>1. \/ pc[t] = "create" /\ cur' = [cur EXCEPT ![t] = 0]
        \/ cur' = cur
    BY DEF CreateFails, Poll, GiveUp
  <2>2. QED
    BY <2>1, CurFields DEF Runs, TypeOK
<1>4. Fades /\ box' \in [Boxes -> BoxRecords] /\ (Fault \/ UNCHANGED faults)
  <2>1. CASE box' = box
    BY <2>1, SameBoxes DEF CreateFails, Poll, GiveUp
  <2>2. CASE /\ pc[t] = "polling" /\ UNCHANGED faults
             /\ box' = [box EXCEPT ![cur[t]].state = IF @ = "running" THEN "exited" ELSE @]
    <3>1. PICK c \in Boxes : c = cur[t]
      BY <2>2, TaskTypes DEF BoxInv
    <3>2. PICK s : s = IF box[c].state = "running" THEN "exited" ELSE box[c].state
      OBVIOUS
    <3>3. box' = [box EXCEPT ![c].state = s]
      BY <2>2, <3>1, <3>2
    <3>4. s \in {"none", "coming", "running", "exited", "gone"}
      BY <3>2, BoxTypes
    <3>5. /\ box' \in [Boxes -> BoxRecords] /\ box'[c].state = s
          /\ box'[c].task = box[c].task /\ (s = box[c].state => box'[c] = box[c])
          /\ \A d \in Boxes : d # c => box'[d] = box[d]
      BY <3>3, <3>4, ZenonT(60) DEF TypeOK, BoxRecords
    <3>6. QED
      BY <2>2, <3>2, <3>5 DEF Fades
  <2>3. QED
    BY <2>1, <2>2 DEF CreateFails, Poll, GiveUp, daemon
<1>5. ASSUME NEW c \in Alive', box[c].task = t, c \in Alive, t \notin hist'.unswept
      PROVE  c = cur'[t]
  BY <1>1, <1>3, <1>5 DEF SweepInv
<1>6. PICK to \in {"listed", "sweeping", "create", "cleanup"} : to = "cleanup"
  OBVIOUS
<1>7. Goto(t, to)
  BY <1>1, <1>6
<1>8. \A c \in Alive' : box[c].task = t /\ c \in Alive /\ t \notin hist'.unswept =>
        /\ to # "create"
        /\ to \in {"listed", "sweeping"} => c \in rows'[t]
        /\ to = "cleanup" => c = cur'[t]
  BY <1>5, <1>6
<1>9. UNCHANGED <<on, row, lease, entries, nextBox, request, reaper>>
  BY <1>1
<1>10. QED
  BY <1>2, <1>3, <1>4, <1>6, <1>7, <1>8, <1>9, InsideInv


(* A container comes: it has a new number, or its label is in the record of   *)
(* what was not swept. Everything that was chosen before is older.            *)
LEMMA CreateInv ==
  ASSUME ContainerInv, NEW t \in Tasks, Create(t)
  PROVE  ContainerInv'
<1> USE DEF ContainerInv
<1>1. PICK n \in Boxes : n = nextBox
  BY DEF Create, TypeOK, Boxes
<1>2. /\ pc[t] = "create" /\ nextBox' = n + 1 /\ cur' = [cur EXCEPT ![t] = n]
      /\ UNCHANGED <<on, row, rows, lease, entries, revoking, cancel, killing, cancels,
                     reaper, hist>>
  BY <1>1 DEF Create, request
<1>3. PICK s \in {"running", "coming"}, to \in {"polling", "cleanup"} :
        /\ box' = [box EXCEPT ![n] = [task |-> t, state |-> s]] /\ Goto(t, to)
        /\ s = "running" <=> to = "polling"
        /\ Fault \/ UNCHANGED faults
  <2>1. CASE /\ box' = [box EXCEPT ![nextBox] = [task |-> t, state |-> "running"]]
             /\ Goto(t, "polling")
             /\ UNCHANGED faults
    BY <1>1, <2>1
  <2>2. CASE /\ Fault
             /\ box' = [box EXCEPT ![nextBox] = [task |-> t, state |-> "coming"]]
             /\ Goto(t, "cleanup")
    BY <1>1, <2>2
  <2>3. QED
    BY <2>1, <2>2 DEF Create
<1>4. PICK r \in BoxRecords : r = [task |-> t, state |-> s] /\ r.task = t /\ r.state = s
  <2>1. s \in {"none", "coming", "running", "exited", "gone"}
    OBVIOUS
  <2>2. [task |-> t, state |-> s] \in BoxRecords
    BY <2>1 DEF BoxRecords
  <2>3. QED
    BY <2>2
<1>5. /\ box' \in [Boxes -> BoxRecords] /\ box'[n].task = t /\ box'[n].state = s
      /\ \A c \in Boxes : c # n => box'[c] = box[c]
  BY <1>3, <1>4 DEF TypeOK
<1>6. /\ pc' \in [Tasks -> Running \cup {"none", "queued", "over"}] /\ pc'[t] = to
      /\ \A u \in Tasks : u # t => pc'[u] = pc[u]
  BY <1>3, GotoFields DEF Running, InLock
<1>7. /\ cur' \in [Tasks -> Boxes \cup {0}] /\ cur'[t] = n
      /\ \A u \in Tasks : u # t => cur'[u] = cur[u]
  BY <1>2, CurFields
<1>8. /\ faults' \in 0 .. MaxFaults /\ faults <= faults' /\ faults' \in Nat
  BY <1>3, FaultCount
<1>9. n \in Nat /\ n > 0 /\ nextBox' \in 1 .. MaxBoxes + 1
  BY <1>1, <1>2, StepAssumption DEF Boxes
<1>10. TypeOK'
  BY <1>2, <1>5, <1>6, <1>7, <1>8, <1>9 DEF TypeOK
<1>11. \A c \in Boxes : c \in Nat /\ (c >= n /\ c # n <=> c >= n + 1)
  BY <1>9 DEF Boxes
<1>12. /\ n \notin hist.atCancel /\ n \notin reaper.ids /\ \A u \in Tasks : n \notin rows[u]
       /\ \A u \in Tasks : u # t => cur'[u] # n
  <2>1. box[n].state = "none" /\ ~(n < nextBox) /\ n # 0
    BY <1>1, <1>9 DEF BoxInv
  <2>2. \A u \in Tasks : cur[u] # n
    BY <2>1 DEF BoxInv
  <2>3. QED
    BY <1>7, <2>1, <2>2 DEF BoxInv
<1>13. BoxInv'
  <2>1. \A c \in Boxes : box'[c].state = "none" <=> c >= nextBox'
    BY <1>1, <1>2, <1>3, <1>5, <1>11 DEF BoxInv
  <2>2. ASSUME NEW u \in Tasks, cur'[u] # 0
        PROVE  /\ cur'[u] < nextBox' /\ pc'[u] \in {"polling", "cleanup"}
               /\ box'[cur'[u]].state = "gone" \/ box'[cur'[u]].task = u
    <3>1. CASE u = t
      BY <3>1, <1>2, <1>5, <1>6, <1>7, <1>9
    <3>2. CASE u # t
      <4>1. cur'[u] = cur[u] /\ cur[u] \in Boxes /\ cur[u] # n /\ cur[u] < n
        <5>1. cur'[u] = cur[u] /\ cur[u] # 0 /\ cur[u] # n
          BY <2>2, <3>2, <1>7, <1>12
        <5>2. cur[u] \in Boxes
          BY <5>1, TaskTypes
        <5>3. cur[u] < nextBox
          BY <5>1 DEF BoxInv
        <5>4. QED
          BY <1>1, <5>1, <5>2, <5>3
      <4>2. cur[u] < n + 1
        <5>1. PICK k \in Nat : k = cur[u]
          BY <4>1, <1>11
        <5>2. k < n
          BY <4>1, <5>1
        <5>3. k < n + 1
          BY <5>2, <1>9
        <5>4. QED
          BY <5>1, <5>3
      <4>3. QED
        BY <2>2, <3>2, <4>1, <4>2, <1>2, <1>5, <1>6 DEF BoxInv
    <3>3. QED
      BY <3>1, <3>2
  <2>3. ASSUME NEW u \in Tasks, pc'[u] = "polling"
        PROVE  cur'[u] # 0 /\ box'[cur'[u]].state # "coming"
    <3>1. CASE u = t
      BY <3>1, <2>3, <1>3, <1>5, <1>6, <1>7, <1>9, BoxTypes
    <3>2. CASE u # t
      BY <2>3, <3>2, <1>5, <1>6, <1>7, <1>12, TaskTypes DEF BoxInv
    <3>3. QED
      BY <3>1, <3>2
  <2>4. ASSUME NEW u \in Tasks, NEW c \in rows'[u]
        PROVE  c < nextBox'
    <3>1. c \in Boxes /\ c < n
      BY <2>4, <1>1, <1>2, TaskTypes DEF BoxInv
    <3>2. QED
      BY <3>1, <1>2, <1>9, <1>11
  <2>5. ASSUME NEW c \in reaper'.ids
        PROVE  c < nextBox'
    <3>1. c \in Boxes /\ c < n
      BY <2>5, <1>1, <1>2 DEF BoxInv, TypeOK
    <3>2. QED
      BY <3>1, <1>2, <1>9, <1>11
  <2>6. \A c \in hist'.atCancel : box'[c].state \notin {"none", "coming"}
    BY <1>2, <1>5, <1>12 DEF BoxInv, TypeOK
  <2>7. QED
    BY <2>1, <2>2, <2>3, <2>4, <2>5, <2>6 DEF BoxInv
<1>14. RecordInv'
  <2>1. Recorded(t)'
    <3>1. pc[t] \in Running /\ pc'[t] \notin {"none", "queued"}
      BY <1>2, <1>6 DEF Running, InLock
    <3>2. QED
      BY <3>1, <1>2, <1>8, RecordStays
  <2>2. QED
    BY <2>1, <1>2, <1>6, <1>8, RecordKept
<1>15. SpareInv'
  <2>1. ASSUME NEW u \in Tasks, pc'[u] = "polling", cur'[u] \in Present', u \notin hist'.unseen
        PROVE  /\ \A v \in Tasks : pc'[v] = "sweeping" => cur'[u] \notin rows'[v]
               /\ reaper'.pc = "reaping" => cur'[u] \notin reaper'.ids
    <3>1. CASE u = t
      BY <3>1, <1>2, <1>7, <1>12
    <3>2. CASE u # t
      <4>1. pc[u] = "polling" /\ cur'[u] = cur[u] /\ u \notin hist.unseen /\ cur[u] \in Present
        BY <2>1, <3>2, <1>2, <1>5, <1>6, <1>7, <1>12 DEF Present
      <4>2. \A v \in Tasks : pc'[v] = "sweeping" => pc[v] = "sweeping"
        BY <1>6
      <4>3. QED
        BY <4>1, <4>2, <1>2 DEF SpareInv
    <3>3. QED
      BY <3>1, <3>2
  <2>2. QED
    BY <2>1 DEF SpareInv
<1>16. \A c \in Alive' : c = n \/ (c \in Alive /\ c \in Boxes /\ box'[c] = box[c])
  BY <1>5 DEF Alive
<1>17. \A c \in Alive : box[c].task = t => t \in hist'.unswept
  BY <1>2 DEF SweepInv
<1>18. SweepInv'
  <2>1. ASSUME NEW u \in Tasks, NEW c \in Alive', box'[c].task = u, u \notin hist'.unswept
        PROVE  Known(u, c)'
    <3>1. CASE c = n
      BY <3>1, <2>1, <1>5, <1>6, <1>7 DEF Known
    <3>2. CASE c # n
      <4>1. c \in Alive /\ box[c].task = u /\ u # t
        BY <3>2, <2>1, <1>16, <1>17
      <4>2. QED
        BY <4>1, <2>1, <1>2, <1>6, <1>7 DEF SweepInv, Known
    <3>3. QED
      BY <3>1, <3>2
  <2>2. QED
    BY <2>1 DEF SweepInv, Known
<1>19. OneBoxPerTask'
  <2>1. ASSUME NEW c \in Alive', NEW d \in Alive', c # d, box'[c].task = box'[d].task
        PROVE  box'[c].task \in hist'.unswept
    BY <2>1, <1>2, <1>5, <1>16, <1>17 DEF OneBoxPerTask
  <2>2. QED
    BY <2>1 DEF OneBoxPerTask
<1>20. KillInv'
  <2>1. \A c \in hist'.atCancel \cap Alive' : c \in hist.atCancel \cap Alive
                                             /\ box'[c] = box[c]
    BY <1>2, <1>12, <1>16
  <2>2. QED
    BY <2>1, <1>2 DEF KillInv
<1>21. QED
  BY <1>10, <1>13, <1>14, <1>15, <1>18, <1>19, <1>20

-----------------------------------------------------------------------------
(* Steps of the daemon and of a worker that shuts down *)

(* The late container of a run call that timed out. *)
LEMMA ArriveInv ==
  ASSUME ContainerInv, NEW n \in Boxes, Arrive(n)
  PROVE  ContainerInv'
<1> USE DEF ContainerInv
<1>1. /\ box[n].state = "coming"
      /\ UNCHANGED <<pc, on, row, rows, cur, lease, entries, nextBox, revoking, cancel,
                     killing, cancels, reaper, faults>>
  BY DEF Arrive, attempt, request
<1>2. /\ box' \in [Boxes -> BoxRecords] /\ box'[n].task = box[n].task
      /\ box'[n].state = "running" /\ \A c \in Boxes : c # n => box'[c] = box[c]
  <2>1. box' = [box EXCEPT ![n].state = "running"]
    BY DEF Arrive
  <2>2. QED
    BY <2>1, ZenonT(60) DEF TypeOK, BoxRecords
<1>3. Misses /\ hist'.unswept = hist.unswept \cup {box[n].task}
  <2>1. PICK h \in SUBSET Tasks : h = {box[n].task}
    BY BoxTypes
  <2>2. QED
    BY <2>1, Missed DEF Arrive
<1>4. TypeOK'
  BY <1>1, <1>2, <1>3 DEF TypeOK, Misses, HistType
<1>5. n \notin hist.atCancel /\ \A t \in Tasks : pc[t] = "polling" => cur[t] # n
  BY <1>1 DEF BoxInv
<1>6. BoxInv'
  <2>1. \A c \in Boxes : box'[c].state = "none" <=> c >= nextBox'
    BY <1>1, <1>2 DEF BoxInv
  <2>2. ASSUME NEW t \in Tasks, cur'[t] # 0
        PROVE  /\ cur'[t] < nextBox' /\ pc'[t] \in {"polling", "cleanup"}
               /\ box'[cur'[t]].state = "gone" \/ box'[cur'[t]].task = t
    <3>1. cur[t] \in Boxes
      BY <2>2, <1>1, TaskTypes
    <3>2. QED
      BY <2>2, <3>1, <1>1, <1>2 DEF BoxInv
  <2>3. \A t \in Tasks : pc'[t] = "polling" => cur'[t] # 0 /\ box'[cur'[t]].state # "coming"
    BY <1>1, <1>2, <1>5, TaskTypes DEF BoxInv
  <2>4. \A c \in hist'.atCancel : box'[c].state \notin {"none", "coming"}
    BY <1>2, <1>3, <1>5 DEF BoxInv, TypeOK, Misses
  <2>5. QED
    BY <2>1, <2>2, <2>3, <2>4, <1>1 DEF BoxInv
<1>7. RecordInv'
  BY <1>1, <1>3 DEF RecordInv, Misses
<1>8. \A t \in Tasks : pc'[t] = "polling" /\ cur'[t] \in Present' => cur[t] \in Present
  BY <1>1, <1>2, <1>5 DEF Present
<1>9. SpareInv'
  BY <1>1, <1>3, <1>8 DEF SpareInv, Misses
<1>10. \A c \in Alive' : \/ box'[c].task \in hist'.unswept
                         \/ c \in Alive /\ c \in Boxes /\ box'[c] = box[c]
  BY <1>2, <1>3 DEF Alive
<1>11. SweepInv'
  <2>1. ASSUME NEW t \in Tasks, NEW c \in Alive', box'[c].task = t, t \notin hist'.unswept
        PROVE  Known(t, c)'
    <3>1. c \in Alive /\ box[c].task = t /\ t \notin hist.unswept
      BY <2>1, <1>3, <1>10
    <3>2. QED
      BY <3>1, <1>1 DEF SweepInv, Known
  <2>2. QED
    BY <2>1 DEF SweepInv, Known
<1>12. OneBoxPerTask'
  <2>1. ASSUME NEW c \in Alive', NEW d \in Alive', c # d, box'[c].task = box'[d].task
        PROVE  box'[c].task \in hist'.unswept
    BY <2>1, <1>3, <1>10 DEF OneBoxPerTask
  <2>2. QED
    BY <2>1 DEF OneBoxPerTask
<1>13. KillInv'
  <2>1. \A c \in hist'.atCancel \cap Alive' : c \in hist.atCancel \cap Alive
                                             /\ box'[c] = box[c]
    BY <1>2, <1>3, <1>5 DEF Misses, Alive
  <2>2. QED
    BY <2>1, <1>1, <1>3 DEF KillInv, Misses
<1>14. QED
  BY <1>4, <1>6, <1>7, <1>9, <1>11, <1>12, <1>13


(* A worker leaves Redis, and no task runs on it. *)
LEMMA ShutdownInv ==
  ASSUME ContainerInv, NEW w \in Workers, Shutdown(w)
  PROVE  ContainerInv'
<1> USE DEF ContainerInv
<1>1. /\ \A t \in Tasks : pc[t] \in Running => on[t] # w
      /\ UNCHANGED <<pc, on, row, rows, cur, lease, box, nextBox, revoking, cancel,
                     killing, cancels, reaper, faults, hist>>
  BY DEF Shutdown, attempt, daemon, request
<1>2. /\ entries' \in [Workers -> [Tasks -> 0 .. MaxFaults + 1]]
      /\ \A t \in Tasks : entries'[w][t] = 0
      /\ \A x \in Workers : x # w => entries'[x] = entries[x]
  <2>1. PICK z : z = [t \in Tasks |-> 0]
    OBVIOUS
  <2>2. z \in [Tasks -> 0 .. MaxFaults + 1] /\ \A t \in Tasks : z[t] = 0
    BY <2>1, StepAssumption
  <2>3. entries' = [entries EXCEPT ![w] = z]
    BY <2>1 DEF Shutdown
  <2>4. QED
    BY <2>2, <2>3 DEF TypeOK
<1>3. TypeOK'
  BY <1>1, <1>2 DEF TypeOK
<1>4. Fades
  BY <1>1, SameBoxes
<1>5. ASSUME NEW t \in Tasks
      PROVE  Recorded(t)'
  <2>1. Recorded(t)
    BY DEF RecordInv, Recorded
  <2>2. pc'[t] \in Running /\ t \notin hist'.unseen => entries'[on'[t]][t] > 0
    BY <1>1, <1>2, <2>1, TaskTypes DEF Recorded
  <2>3. ASSUME NEW x \in Workers
        PROVE  entries'[x][t] <= IF pc'[t] \in {"none", "queued"} THEN faults' ELSE faults' + 1
    <3>1. CASE x = w
      BY <1>1, <1>2, <3>1 DEF TypeOK
    <3>2. CASE x # w
      BY <1>1, <1>2, <2>1, <3>2 DEF Recorded
    <3>3. QED
      BY <3>1, <3>2
  <2>4. QED
    BY <2>2, <2>3 DEF Recorded
<1>6. KillInv'
  BY <1>1, <1>4, KillKept
<1>7. faults <= faults' /\ \A c \in reaper'.ids : c < nextBox
  BY <1>1, FaultCount DEF BoxInv
<1>8. QED
  BY <1>1, <1>3, <1>4, <1>5, <1>6, <1>7, EnvironmentInv

(* A container's process ends. *)
LEMMA ExitInv ==
  ASSUME ContainerInv, NEW n \in Boxes, Exit(n)
  PROVE  ContainerInv'
<1> USE DEF ContainerInv
<1>1. /\ box[n].state = "running"
      /\ UNCHANGED <<pc, on, row, rows, cur, lease, entries, nextBox, revoking, cancel,
                     killing, cancels, reaper, faults, hist>>
  BY DEF Exit, attempt, request
<1>2. /\ box' \in [Boxes -> BoxRecords] /\ box'[n].task = box[n].task
      /\ box'[n].state = "exited" /\ \A c \in Boxes : c # n => box'[c] = box[c]
  <2>1. box' = [box EXCEPT ![n].state = "exited"]
    BY DEF Exit
  <2>2. QED
    BY <2>1, ZenonT(60) DEF TypeOK, BoxRecords
<1>3. TypeOK'
  BY <1>1, <1>2 DEF TypeOK
<1>4. Fades
  BY <1>1, <1>2 DEF Fades
<1>5. KillInv'
  BY <1>1, <1>4, KillKept
<1>6. faults <= faults' /\ \A c \in reaper'.ids : c < nextBox
  BY <1>1, FaultCount DEF BoxInv
<1>7. QED
  BY <1>1, <1>3, <1>4, <1>5, <1>6, EnvironmentInv

-----------------------------------------------------------------------------
(* Steps of a cancel request *)

(* The request notes what its tasks have and leaves them all to the job. *)
LEMMA CancelInv ==
  ASSUME ContainerInv, NEW m \in Modules, Cancel(m)
  PROVE  ContainerInv'
<1> USE DEF ContainerInv
<1>1. PICK open \in SUBSET Tasks : open = {t \in Tasks : ModuleOf[t] = m /\ row[t]}
  OBVIOUS
<1>2. PICK listed \in SUBSET Boxes : /\ listed = {c \in Present : box[c].task \in open}
                                    /\ \A c \in listed : c \in Present /\ box[c].task \in open
  <2>1. PICK x : x = {c \in Present : box[c].task \in open}
    OBVIOUS
  <2>2. x \in SUBSET Boxes /\ \A c \in x : c \in Present /\ box[c].task \in open
    BY <2>1 DEF Present
  <2>3. QED
    BY <2>1, <2>2
<1>3. /\ cancels < MaxCancels /\ cancels' = cancels + 1 /\ revoking' = revoking \cup open
      /\ cancel' = [pc |-> "waiting", module |-> m, tasks |-> open] /\ killing' = open
      /\ hist' = [hist EXCEPT !.atCancel = listed, !.missed = FALSE]
      /\ UNCHANGED <<pc, on, row, rows, cur, lease, entries, box, nextBox, reaper, faults>>
  BY <1>1, <1>2 DEF Cancel, attempt, daemon
<1>4. /\ hist' \in HistType /\ hist'.unswept = hist.unswept /\ hist'.unseen = hist.unseen
      /\ hist'.atCancel = listed
  BY <1>3 DEF TypeOK, HistType
<1>5. /\ cancel' \in [pc : {"idle", "waiting", "confirmed", "unconfirmed"},
                      module : Modules, tasks : SUBSET Tasks]
      /\ cancel'.pc = "waiting"
  BY <1>3
<1>6. cancels' \in 0 .. MaxCancels
  BY <1>3, StepAssumption DEF TypeOK
<1>7. TypeOK'
  BY <1>3, <1>4, <1>5, <1>6 DEF TypeOK, HistType
<1>8. Fades
  BY <1>3, SameBoxes
<1>9. KillInv'
  BY <1>2, <1>3, <1>4, <1>5 DEF KillInv
<1>10. faults <= faults' /\ \A c \in reaper'.ids : c < nextBox
  BY <1>3, FaultCount DEF BoxInv
<1>11. QED
  BY <1>2, <1>3, <1>4, <1>7, <1>8, <1>9, <1>10, EnvironmentInv

(* The job kills what one task has, or the failure is on record. *)
LEMMA KillTaskInv ==
  ASSUME ContainerInv, NEW t \in Tasks, KillTask(t)
  PROVE  ContainerInv'
<1> USE DEF ContainerInv
<1>1. /\ killing' = killing \ {t}
      /\ UNCHANGED <<pc, on, row, rows, cur, lease, entries, nextBox, revoking, cancel,
                     cancels, reaper>>
  BY DEF KillTask, attempt
<1>2. PICK missed \in SUBSET {c \in Alive : box[c].task = t} :
       /\ missed # {} => Fault
       /\ missed = {} => UNCHANGED faults
       /\ box' = [c \in Boxes |->
                    IF box[c].task = t /\ c \in Alive \ missed
                    THEN [box[c] EXCEPT !.state = "exited"] ELSE box[c]]
       /\ hist' = [hist EXCEPT !.missed = @ \/ missed # {},
                             !.unswept = IF missed = {} THEN @ ELSE @ \cup {t}]
  BY DEF KillTask
<1>3. ASSUME NEW c \in Boxes
      PROVE  /\ box'[c] \in BoxRecords
             /\ \/ box'[c] = box[c] /\ ~(box[c].task = t /\ c \in Alive \ missed)
                \/ /\ box[c].state = "running" /\ box'[c].state = "exited"
                   /\ box'[c].task = box[c].task
  <2>1. box'[c] = IF box[c].task = t /\ c \in Alive \ missed
                  THEN [box[c] EXCEPT !.state = "exited"] ELSE box[c]
    BY <1>2
  <2>2. PICK b \in BoxRecords : b = box[c]
    BY DEF TypeOK
  <2>3. PICK x \in BoxRecords : /\ x = [b EXCEPT !.state = "exited"]
                               /\ x.state = "exited" /\ x.task = b.task
    <3>1. PICK y : y = [b EXCEPT !.state = "exited"]
      OBVIOUS
    <3>2. y \in BoxRecords /\ y.state = "exited" /\ y.task = b.task
      BY <3>1 DEF BoxRecords
    <3>3. QED
      BY <3>1, <3>2
  <2>4. CASE box[c].task = t /\ c \in Alive \ missed
    BY <2>1, <2>2, <2>3, <2>4 DEF Alive
  <2>5. CASE ~(box[c].task = t /\ c \in Alive \ missed)
    BY <2>1, <2>2, <2>5
  <2>6. QED
    BY <2>4, <2>5
<1>4. box' \in [Boxes -> BoxRecords]
  <2>1. box' = [c \in Boxes |-> box'[c]]
    BY <1>2
  <2>2. QED
    BY <2>1, <1>3
<1>5. Fades
  BY <1>3 DEF Fades
<1>6. /\ hist' \in HistType /\ hist.unswept \subseteq hist'.unswept
      /\ hist'.unseen = hist.unseen /\ hist'.atCancel = hist.atCancel
      /\ ~hist'.missed => ~hist.missed /\ missed = {}
  <2>1. PICK b \in BOOLEAN : b = (hist.missed \/ missed # {})
    OBVIOUS
  <2>2. PICK h \in SUBSET Tasks :
          /\ h = IF missed = {} THEN hist.unswept ELSE hist.unswept \cup {t}
          /\ hist.unswept \subseteq h
    <3>1. hist.unswept \in SUBSET Tasks /\ hist.unswept \cup {t} \in SUBSET Tasks
      BY DEF TypeOK
    <3>2. CASE missed = {}
      BY <3>1, <3>2
    <3>3. CASE missed # {}
      BY <3>1, <3>3
    <3>4. QED
      BY <3>2, <3>3
  <2>3. hist' = [hist EXCEPT !.missed = b, !.unswept = h]
    BY <1>2, <2>1, <2>2
  <2>4. /\ hist' \in HistType /\ hist'.unswept = h /\ hist'.unseen = hist.unseen
        /\ hist'.atCancel = hist.atCancel /\ hist'.missed = b
    BY <2>3 DEF TypeOK, HistType
  <2>5. ~b => ~hist.missed /\ missed = {}
    BY <2>1
  <2>6. ~hist'.missed => ~hist.missed /\ missed = {}
    BY <2>4, <2>5
  <2>7. QED
    BY <2>2, <2>4, <2>6
<1>7. /\ faults' \in 0 .. MaxFaults /\ faults <= faults' /\ faults' \in Nat
  BY <1>2, FaultCount
<1>8. TypeOK'
  BY <1>1, <1>4, <1>6, <1>7 DEF TypeOK, HistType
<1>9. KillInv'
  <2>1. cancel'.pc = "confirmed" => killing' = {}
    BY <1>1 DEF KillInv
  <2>2. ASSUME cancel'.pc \in {"waiting", "confirmed"}, ~hist'.missed,
               NEW c \in hist'.atCancel \cap Alive'
        PROVE  box'[c].task \in killing'
    <3>1. c \in hist.atCancel \cap Alive /\ c \in Boxes /\ box'[c] = box[c]
      BY <1>5, <1>6, <2>2, Faded
    <3>2. missed = {} /\ box[c].task \in killing
      BY <1>1, <1>6, <2>2, <3>1 DEF KillInv
    <3>3. box[c].task # t
      BY <1>3, <3>1, <3>2 DEF Alive
    <3>4. QED
      BY <1>1, <3>1, <3>2, <3>3
  <2>3. QED
    BY <2>1, <2>2 DEF KillInv
<1>10. \A c \in reaper'.ids : c < nextBox
  BY <1>1 DEF BoxInv
<1>11. QED
  BY <1>1, <1>5, <1>6, <1>7, <1>8, <1>9, <1>10, EnvironmentInv

(* The request moves on: its answer comes, or does not. *)
LEMMA CancelWaitsInv ==
  ASSUME ContainerInv, KillConfirmed \/ KillUnreachable \/ KillTimesOut \/ CancelEnds
  PROVE  ContainerInv'
<1> USE DEF ContainerInv
<1>1. UNCHANGED <<pc, on, rows, cur, entries, box, nextBox, revoking, cancels, reaper>>
  BY DEF KillConfirmed, KillUnreachable, KillTimesOut, CancelEnds, attempt, daemon
<1>2. Fades /\ Alive' = Alive /\ \A c \in reaper'.ids : c < nextBox
  BY <1>1, SameBoxes DEF BoxInv
<1>3. faults' \in 0 .. MaxFaults /\ faults <= faults'
  <2>1. Fault \/ UNCHANGED faults
    BY DEF KillConfirmed, KillUnreachable, KillTimesOut, CancelEnds
  <2>2. QED
    BY <2>1, FaultCount
<1>4. killing' \subseteq killing
  BY DEF KillConfirmed, KillUnreachable, KillTimesOut, CancelEnds
<1>5. CASE CancelEnds
  <2>1. /\ cancel' \in [pc : {"idle", "waiting", "confirmed", "unconfirmed"},
                        module : Modules, tasks : SUBSET Tasks]
        /\ cancel'.pc = "idle"
    <3>1. PICK m \in Modules : m = CHOOSE x \in Modules : TRUE
      BY StepAssumption
    <3>2. cancel' = [pc |-> "idle", module |-> m, tasks |-> {}]
      BY <1>5, <3>1 DEF CancelEnds, NoCancel
    <3>3. QED
      BY <3>2
  <2>2. /\ hist' \in HistType /\ hist'.unswept = hist.unswept /\ hist'.unseen = hist.unseen
        /\ hist'.atCancel = {}
    BY <1>5 DEF CancelEnds, TypeOK, HistType
  <2>3. row' \in [Tasks -> BOOLEAN]
    BY <1>5 DEF CancelEnds, TypeOK
  <2>4. lease' \in [Modules -> Tasks \cup {NoTask}]
    BY <1>5 DEF CancelEnds, TypeOK
  <2>5. TypeOK'
    BY <1>1, <1>3, <1>4, <2>1, <2>2, <2>3, <2>4 DEF TypeOK, HistType
  <2>6. KillInv'
    BY <2>1 DEF KillInv
  <2>7. QED
    BY <1>1, <1>2, <1>3, <2>2, <2>5, <2>6, EnvironmentInv
<1>6. CASE KillConfirmed \/ KillUnreachable \/ KillTimesOut
  <2>1. PICK p \in {"confirmed", "unconfirmed"} :
          /\ cancel.pc = "waiting" /\ cancel' = [cancel EXCEPT !.pc = p]
          /\ p = "confirmed" => killing = {} /\ killing' = killing
    BY <1>6 DEF KillConfirmed, KillUnreachable, KillTimesOut
  <2>2. /\ cancel' \in [pc : {"idle", "waiting", "confirmed", "unconfirmed"},
                        module : Modules, tasks : SUBSET Tasks]
        /\ cancel'.pc = p
    BY <2>1 DEF TypeOK
  <2>3. UNCHANGED <<row, lease, hist>>
    BY <1>6 DEF KillConfirmed, KillUnreachable, KillTimesOut, attempt
  <2>4. TypeOK'
    BY <1>1, <1>3, <1>4, <2>2, <2>3 DEF TypeOK
  <2>5. KillInv'
    BY <1>1, <1>2, <2>1, <2>2, <2>3 DEF KillInv
  <2>6. QED
    BY <1>1, <1>2, <1>3, <2>3, <2>4, <2>5, EnvironmentInv
<1>7. QED
  BY <1>5, <1>6

-----------------------------------------------------------------------------
(* Steps of the reaper *)

(* The reaper lists, then reads the live ids, then removes one by one. *)
LEMMA ReaperInv ==
  ASSUME ContainerInv, ReapList \/ ReapLive \/ Reap
  PROVE  ContainerInv'
<1> USE DEF ContainerInv
<1>1. /\ UNCHANGED <<pc, on, row, rows, cur, lease, entries, nextBox, revoking, cancel,
                     killing, cancels, hist>>
      /\ Fault \/ UNCHANGED faults
  BY DEF ReapList, ReapLive, Reap, attempt, daemon, request
<1>2. /\ faults' \in 0 .. MaxFaults /\ faults <= faults'
  BY <1>1, FaultCount
<1>3. ASSUME NEW p \in {"idle", "listed", "reaping"}, NEW ids \in SUBSET Boxes,
             reaper'.pc = p, reaper'.ids = ids, reaper' = [pc |-> p, ids |-> ids],
             Fades, box' \in [Boxes -> BoxRecords], \A c \in ids : c < nextBox,
             p = "reaping" =>
               \/ reaper.pc = "reaping" /\ ids \subseteq reaper.ids
               \/ \A t \in Tasks : Polled(t) => cur[t] \notin ids
      PROVE  ContainerInv'
  <2>1. TypeOK'
    BY <1>1, <1>2, <1>3 DEF TypeOK
  <2>2. KillInv'
    BY <1>1, <1>3, KillKept
  <2>3. QED
    BY <1>1, <1>2, <1>3, <2>1, <2>2, EnvironmentInv
<1>4. CASE ReapList
  <2>1. PICK ids \in SUBSET Boxes : ids = Present /\ \A c \in ids : c < nextBox
    BY PresentBoxes
  <2>2. reaper' = [pc |-> "listed", ids |-> ids] /\ reaper'.pc = "listed" /\ reaper'.ids = ids
    BY <1>4, <2>1 DEF ReapList, TypeOK
  <2>3. Fades /\ box' \in [Boxes -> BoxRecords]
    BY <1>4, SameBoxes DEF ReapList, daemon
  <2>4. QED
    BY <1>3, <2>1, <2>2, <2>3
<1>5. CASE ReapLive
  <2>1. Fades /\ box' \in [Boxes -> BoxRecords]
    BY <1>5, SameBoxes DEF ReapLive, daemon
  <2>2. PICK orphans \in SUBSET Boxes : /\ orphans = {c \in reaper.ids : box[c].task \notin LiveIds}
                                        /\ \A c \in orphans : c \in reaper.ids
                                                              /\ box[c].task \notin LiveIds
    <3>1. PICK x : x = {c \in reaper.ids : box[c].task \notin LiveIds}
      OBVIOUS
    <3>2. x \in SUBSET Boxes /\ \A c \in x : c \in reaper.ids /\ box[c].task \notin LiveIds
      BY <3>1 DEF TypeOK
    <3>3. QED
      BY <3>1, <3>2
  <2>3. /\ \A c \in orphans : c < nextBox
        /\ \A t \in Tasks : Polled(t) => cur[t] \notin orphans
    BY <2>2, PolledLive DEF BoxInv
  <2>4. PICK p \in {"idle", "reaping"} : p = IF orphans = {} THEN "idle" ELSE "reaping"
    OBVIOUS
  <2>5. CASE reaper' = [pc |-> IF orphans = {} THEN "idle" ELSE "reaping", ids |-> orphans]
    <3>1. reaper' = [pc |-> p, ids |-> orphans] /\ reaper'.pc = p /\ reaper'.ids = orphans
      BY <2>4, <2>5
    <3>2. QED
      BY <1>3, <2>1, <2>3, <3>1
  <2>6. CASE reaper' = [pc |-> "idle", ids |-> {}]
    <3>1. PICK none \in SUBSET Boxes : none = {}
      OBVIOUS
    <3>2. /\ reaper' = [pc |-> "idle", ids |-> none] /\ reaper'.pc = "idle"
          /\ reaper'.ids = none /\ \A c \in none : c < nextBox
      BY <2>6, <3>1
    <3>3. QED
      BY <1>3, <2>1, <3>2
  <2>7. QED
    BY <1>5, <2>2, <2>5, <2>6 DEF ReapLive
<1>6. CASE Reap
  <2>1. PICK c \in reaper.ids : \E done \in {{c}, reaper.ids} :
          /\ reaper' = [pc |-> IF reaper.ids = done THEN "idle" ELSE "reaping",
                        ids |-> reaper.ids \ done]
          /\ box' = Removed(c) \/ box' = box
    BY <1>6 DEF Reap
  <2> PICK done \in {{c}, reaper.ids} :
          /\ reaper' = [pc |-> IF reaper.ids = done THEN "idle" ELSE "reaping",
                        ids |-> reaper.ids \ done]
          /\ box' = Removed(c) \/ box' = box
    BY <2>1
  <2>2. c \in Boxes /\ reaper.ids \subseteq Boxes /\ reaper.pc = "reaping"
    BY <1>6, <2>1 DEF Reap, TypeOK
  <2>3. Fades /\ box' \in [Boxes -> BoxRecords]
    BY <2>2, Removes, SameBoxes
  <2>4. PICK p \in {"idle", "reaping"} : p = IF reaper.ids = done THEN "idle" ELSE "reaping"
    OBVIOUS
  <2>5. PICK ids \in SUBSET Boxes : ids = reaper.ids \ done /\ ids \subseteq reaper.ids
    BY <2>2
  <2>6. reaper' = [pc |-> p, ids |-> ids] /\ reaper'.pc = p /\ reaper'.ids = ids
    BY <2>4, <2>5
  <2>7. \A x \in ids : x < nextBox
    BY <2>5 DEF BoxInv
  <2>8. QED
    BY <1>3, <2>2, <2>3, <2>5, <2>6, <2>7
<1>7. QED
  BY <1>4, <1>5, <1>6


-----------------------------------------------------------------------------
(* The theorems *)

(* Before the first task there is no container. *)
LEMMA InitInv == Init => ContainerInv
<1> SUFFICES ASSUME Init PROVE ContainerInv
  OBVIOUS
<1>1. /\ \A t \in Tasks : pc[t] = "none" /\ rows[t] = {} /\ cur[t] = 0
      /\ \A w \in Workers, t \in Tasks : entries[w][t] = 0
      /\ \A c \in Boxes : box[c].state = "none"
      /\ nextBox = 1 /\ faults = 0 /\ reaper.pc = "idle" /\ reaper.ids = {}
      /\ cancel.pc = "idle" /\ hist.atCancel = {} /\ Alive = {}
  BY DEF Init, NoCancel, NoHist, Alive
<1>2. TypeOK
  <2>1. PICK m \in Modules : m = CHOOSE x \in Modules : TRUE
    BY StepAssumption
  <2>2. PICK w \in Workers : w = CHOOSE x \in Workers : TRUE
    BY StepAssumption
  <2>3. pc \in [Tasks -> Running \cup {"none", "queued", "over"}]
    BY DEF Init
  <2>4. on \in [Tasks -> Workers] /\ row \in [Tasks -> BOOLEAN] /\ rows \in [Tasks -> SUBSET Boxes]
    BY <2>2 DEF Init
  <2>5. cur \in [Tasks -> Boxes \cup {0}] /\ lease \in [Modules -> Tasks \cup {NoTask}]
    BY DEF Init
  <2>6. entries \in [Workers -> [Tasks -> 0 .. MaxFaults + 1]]
    BY StepAssumption DEF Init
  <2>7. box \in [Boxes -> BoxRecords]
    BY SomeTaskType DEF Init, BoxRecords
  <2>8. nextBox \in 1 .. MaxBoxes + 1 /\ faults \in 0 .. MaxFaults /\ cancels \in 0 .. MaxCancels
    BY StepAssumption DEF Init
  <2>9. /\ revoking \subseteq Tasks /\ killing \subseteq Tasks
        /\ cancel \in [pc : {"idle", "waiting", "confirmed", "unconfirmed"},
                       module : Modules, tasks : SUBSET Tasks]
    BY <2>1 DEF Init, NoCancel
  <2>10. /\ reaper \in [pc : {"idle", "listed", "reaping"}, ids : SUBSET Boxes]
         /\ hist \in [unswept : SUBSET Tasks, unseen : SUBSET Tasks,
                      atCancel : SUBSET Boxes, missed : BOOLEAN]
    BY DEF Init, NoHist
  <2>11. QED
    BY <2>3, <2>4, <2>5, <2>6, <2>7, <2>8, <2>9, <2>10 DEF TypeOK
<1>3. BoxInv
  <2>1. \A c \in Boxes : c >= nextBox
    BY <1>1 DEF Boxes
  <2>2. QED
    BY <1>1, <2>1 DEF BoxInv
<1>4. RecordInv
  BY <1>1, StepAssumption DEF RecordInv, Running, InLock
<1>5. SpareInv /\ OneBoxPerTask /\ SweepInv /\ KillInv
  BY <1>1 DEF SpareInv, OneBoxPerTask, SweepInv, KillInv
<1>6. QED
  BY <1>2, <1>3, <1>4, <1>5 DEF ContainerInv

(* Every step of the system, and every step that changes nothing. *)
LEMMA StepInv == ContainerInv /\ [Next]_vars => ContainerInv'
<1> SUFFICES ASSUME ContainerInv, [Next]_vars PROVE ContainerInv'
  OBVIOUS
<1>1. ASSUME NEW t \in Tasks, Step(t)
      PROVE  ContainerInv'
  <2>1. CASE Submit(t)
    BY <2>1, SubmitInv
  <2>2. CASE \E w \in Workers, recorded \in BOOLEAN : Prerun(t, w, recorded)
    BY <2>2, PrerunInv
  <2>3. CASE Acquire(t) \/ Refused(t)
    BY <2>3, AcquireInv
  <2>4. CASE SweepList(t)
    BY <2>4, SweepListInv
  <2>5. CASE SweepLive(t)
    BY <2>5, SweepLiveInv
  <2>6. CASE SweepRow(t)
    BY <2>6, SweepRowInv
  <2>7. CASE Create(t)
    BY <2>7, CreateInv
  <2>8. CASE CreateFails(t) \/ Poll(t) \/ \E killed \in BOOLEAN : GiveUp(t, killed)
    BY <2>8, LeavesStepInv
  <2>9. CASE \E last \in BOOLEAN : Cleanup(t, last)
    BY <2>9, CleanupInv
  <2>10. CASE Postrun(t)
    BY <2>10, PostrunInv
  <2>11. CASE Die(t) \/ Revoked(t)
    BY <2>11, DieInv
  <2>12. QED
    BY <1>1, <2>1, <2>2, <2>3, <2>4, <2>5, <2>6, <2>7, <2>8, <2>9, <2>10, <2>11 DEF Step
<1>2. ASSUME Canceller
      PROVE  ContainerInv'
  BY <1>2, CancelInv, KillTaskInv, CancelWaitsInv DEF Canceller
<1>3. ASSUME Reaper
      PROVE  ContainerInv'
  BY <1>3, ReaperInv DEF Reaper
<1>4. ASSUME NEW w \in Workers, Shutdown(w)
      PROVE  ContainerInv'
  BY <1>4, ShutdownInv
<1>5. ASSUME NEW c \in Boxes, Exit(c) \/ Arrive(c)
      PROVE  ContainerInv'
  BY <1>5, ExitInv, ArriveInv
<1>6. CASE UNCHANGED vars
  BY <1>6 DEF vars, attempt, daemon, request, ContainerInv, TypeOK, BoxInv, RecordInv,
              SpareInv, OneBoxPerTask, SweepInv, KillInv, Alive, Present
<1>7. QED
  BY <1>1, <1>2, <1>3, <1>4, <1>5, <1>6 DEF Next

(* The inductive invariant: containers are numbered as they are created, a    *)
(* recorded attempt is among the live ids, what is about to be removed nobody *)
(* polls, a task's containers are known to its sweep or are its step's, and   *)
(* what a cancel found is dead or left to its job.                            *)
THEOREM ContainerInvariant == Spec => []ContainerInv
<1>1. QED
  BY InitInv, StepInv, PTL DEF Spec

(* Every variable keeps its type: the bounds on the workers' sets included,   *)
(* one member per attempt that died unrecorded and one for the live one.      *)
THEOREM TypeCorrect == Spec => []TypeOK
<1>1. ContainerInv => TypeOK
  BY DEF ContainerInv
<1>2. QED
  BY <1>1, ContainerInvariant, PTL

(* Two containers of one task run at once only after a failed docker or Redis *)
(* call: the sweep of a redelivered task leaves no predecessor.               *)
THEOREM OneBoxSafety == Spec => []OneBoxPerTask
<1>1. ContainerInv => OneBoxPerTask
  BY DEF ContainerInv
<1>2. QED
  BY <1>1, ContainerInvariant, PTL

(* docker rm --force touches one container. *)
LEMMA RemovesOne ==
  ASSUME TypeOK, NEW d \in Boxes, NEW c \in Boxes, c # d, box' = Removed(d)
  PROVE  box'[c] = box[c]
  BY DEF Removed, TypeOK

(* A container that a recorded attempt polls is not removed. *)
LEMMA PolledStays ==
  ASSUME ContainerInv, Next, NEW t \in Tasks, pc[t] = "polling", t \notin hist.unseen,
         cur[t] \in Alive
  PROVE  box'[cur[t]].state # "gone"
<1> USE DEF ContainerInv
<1>1. PICK c \in Boxes : c = cur[t] /\ box[c].state = "running" /\ c \in Present
  BY DEF Alive, Present
<1>2. box[c].task = t /\ c < nextBox
  BY <1>1, TaskTypes, PresentBoxes DEF BoxInv
<1>3. SUFFICES box'[c].state # "gone"
  BY <1>1
<1>4. CASE box' = box
  BY <1>1, <1>4
<1>5. ASSUME NEW u \in Tasks, SweepRow(u)
      PROVE  box'[c].state # "gone"
  <2>1. pc[u] = "sweeping" /\ c \notin rows[u] /\ rows[u] \subseteq Boxes
    BY <1>1, <1>5, TaskTypes DEF SweepRow, SpareInv
  <2>2. box' = box \/ \E d \in rows[u] : box' = Removed(d)
    BY <1>5 DEF SweepRow
  <2>3. box'[c] = box[c]
    BY <2>1, <2>2, RemovesOne
  <2>4. QED
    BY <1>1, <2>3
<1>6. ASSUME NEW u \in Tasks, Create(u)
      PROVE  box'[c].state # "gone"
  <2>1. PICK n \in Boxes : n = nextBox
    BY <1>6 DEF Create, TypeOK, Boxes
  <2>2. c # n
    BY <1>2, <2>1, BoxTypes
  <2>3. PICK r : box' = [box EXCEPT ![n] = r]
    BY <1>6, <2>1 DEF Create
  <2>4. box'[c] = box[c]
    BY <2>2, <2>3 DEF TypeOK
  <2>5. QED
    BY <1>1, <2>4
<1>7. ASSUME NEW u \in Tasks, NEW killed \in BOOLEAN, GiveUp(u, killed)
      PROVE  box'[c].state # "gone"
  <2>1. PICK s : box' = box \/ (/\ box' = [box EXCEPT ![cur[u]].state = s]
                               /\ s = IF box[cur[u]].state = "running" THEN "exited"
                                      ELSE box[cur[u]].state)
    BY <1>7 DEF GiveUp
  <2>2. CASE box' # box /\ box' = [box EXCEPT ![cur[u]].state = s] /\ cur[u] = c
    <3>1. s = "exited"
      BY <1>1, <2>1, <2>2
    <3>2. box'[c].state = s
      BY <2>2 DEF TypeOK, BoxRecords
    <3>3. QED
      BY <3>1, <3>2
  <2>3. CASE box' = [box EXCEPT ![cur[u]].state = s] /\ cur[u] # c
    <3>1. box'[c] = box[c]
      BY <2>3 DEF TypeOK
    <3>2. QED
      BY <1>1, <3>1
  <2>4. QED
    BY <1>4, <2>1, <2>2, <2>3
<1>8. ASSUME NEW u \in Tasks, NEW last \in BOOLEAN, Cleanup(u, last)
      PROVE  box'[c].state # "gone"
  <2>1. pc[u] = "cleanup" /\ u # t
    BY <1>8 DEF Cleanup
  <2>2. cur[u] # c
    <3>1. SUFFICES ASSUME cur[u] = c PROVE FALSE
      OBVIOUS
    <3>2. cur[u] # 0
      BY <3>1, BoxTypes
    <3>3. box[c].state = "gone" \/ box[c].task = u
      BY <3>1, <3>2 DEF BoxInv
    <3>4. QED
      BY <1>1, <1>2, <2>1, <3>3
  <2>3. box' = box \/ (cur[u] \in Boxes /\ box' = Removed(cur[u]))
    BY <1>8, TaskTypes DEF Cleanup
  <2>4. box'[c] = box[c]
    BY <2>2, <2>3, RemovesOne
  <2>5. QED
    BY <1>1, <2>4
<1>9. ASSUME NEW d \in Boxes, Exit(d) \/ Arrive(d)
      PROVE  box'[c].state # "gone"
  <2>1. PICK s \in {"exited", "running"} : box' = [box EXCEPT ![d].state = s]
    BY <1>9 DEF Exit, Arrive
  <2>2. box'[c].state = IF c = d THEN s ELSE box[c].state
    BY <2>1 DEF TypeOK, BoxRecords
  <2>3. QED
    BY <1>1, <2>2
<1>10. ASSUME NEW u \in Tasks, KillTask(u)
       PROVE  box'[c].state # "gone"
  <2>1. PICK missed \in SUBSET {x \in Alive : box[x].task = u} :
          box' = [x \in Boxes |->
                    IF box[x].task = u /\ x \in Alive \ missed
                    THEN [box[x] EXCEPT !.state = "exited"] ELSE box[x]]
    BY <1>10 DEF KillTask
  <2>2. box'[c] = box[c] \/ box'[c] = [box[c] EXCEPT !.state = "exited"]
    BY <2>1
  <2>3. box[c] \in BoxRecords
    BY DEF TypeOK
  <2>4. QED
    BY <1>1, <2>2, <2>3 DEF BoxRecords
<1>11. ASSUME Reap
       PROVE  box'[c].state # "gone"
  <2>1. reaper.pc = "reaping" /\ c \notin reaper.ids /\ reaper.ids \subseteq Boxes
    BY <1>1, <1>11 DEF Reap, SpareInv, TypeOK
  <2>2. box' = box \/ \E d \in reaper.ids : box' = Removed(d)
    BY <1>11 DEF Reap
  <2>3. box'[c] = box[c]
    BY <2>1, <2>2, RemovesOne
  <2>4. QED
    BY <1>1, <2>3
<1>12. ASSUME NEW u \in Tasks, Step(u)
       PROVE  box'[c].state # "gone"
  <2>1. \/ box' = box \/ SweepRow(u) \/ Create(u)
        \/ \E killed \in BOOLEAN : GiveUp(u, killed)
        \/ \E last \in BOOLEAN : Cleanup(u, last)
    BY <1>12 DEF Step, Submit, Prerun, Acquire, Refused, SweepList, SweepLive, CreateFails,
                 Poll, Postrun, Die, Revoked, daemon
  <2>2. QED
    BY <2>1, <1>4, <1>5, <1>6, <1>7, <1>8
<1>13. ASSUME Canceller \/ Reaper \/ \E w \in Workers : Shutdown(w)
       PROVE  box' = box \/ Reap \/ \E u \in Tasks : KillTask(u)
  BY <1>13 DEF Canceller, Reaper, Shutdown, Cancel, KillConfirmed, KillUnreachable,
               KillTimesOut, CancelEnds, ReapList, ReapLive, daemon
<1>14. QED
  BY <1>4, <1>9, <1>10, <1>11, <1>12, <1>13 DEF Next

(* A sweep and the reaper never remove the container that a recorded attempt  *)
(* polls, however old the listing and the live ids are that they act on.      *)
THEOREM NoLiveStepRemovedSafety == Spec => NoLiveStepRemoved
<1>1. ContainerInv /\ [Next]_vars =>
        [\A t \in Tasks :
           (/\ pc[t] = "polling" /\ t \notin hist.unseen
            /\ cur[t] \in Alive)
           => box'[cur[t]].state # "gone"]_vars
  BY PolledStays
<1>2. QED
  BY <1>1, ContainerInvariant, PTL DEF Spec, NoLiveStepRemoved

(* Only the end of a cancel request makes it idle, and only a confirmed kill  *)
(* releases the lease.                                                        *)
LEMMA ReleaseStep ==
  ASSUME ContainerInv, Next, cancel.pc # "idle", cancel'.pc = "idle",
         lease'[cancel.module] # lease[cancel.module], ~hist.missed
  PROVE  hist.atCancel \cap Alive = {}
<1> USE DEF ContainerInv
<1>1. CancelEnds
  <2>1. ASSUME NEW t \in Tasks, Step(t)
        PROVE  cancel' = cancel
    BY <2>1 DEF Step, Submit, Prerun, Acquire, Refused, SweepList, SweepLive, SweepRow, Create,
                CreateFails, Poll, GiveUp, Cleanup, Postrun, Die, Revoked, request
  <2>2. ASSUME \/ \E w \in Workers : Shutdown(w)
               \/ \E c \in Boxes : Exit(c) \/ Arrive(c)
               \/ Reaper
               \/ \E t \in Tasks : KillTask(t)
        PROVE  cancel' = cancel
    BY <2>2 DEF Shutdown, Exit, Arrive, Reaper, ReapList, ReapLive, Reap, KillTask, request
  <2>3. ASSUME KillConfirmed \/ KillUnreachable \/ KillTimesOut
        PROVE  FALSE
    <3>1. PICK p \in {"confirmed", "unconfirmed"} : cancel' = [cancel EXCEPT !.pc = p]
      BY <2>3 DEF KillConfirmed, KillUnreachable, KillTimesOut
    <3>2. cancel'.pc = p
      BY <3>1 DEF TypeOK
    <3>3. QED
      BY <3>2
  <2>4. ASSUME NEW m \in Modules, Cancel(m)
        PROVE  FALSE
    BY <2>4 DEF Cancel
  <2>5. QED
    BY <2>1, <2>2, <2>3, <2>4 DEF Next, Canceller
<1>2. cancel.pc = "confirmed"
  BY <1>1 DEF CancelEnds
<1>3. QED
  BY <1>2 DEF KillInv

(* A cancel that drops the module's lease has stopped what its tasks had      *)
(* running when it began, unless a kill call failed.                          *)
THEOREM KillBeforeReleaseSafety == Spec => KillBeforeRelease
<1>1. ContainerInv /\ [Next]_vars =>
        [(cancel.pc # "idle" /\ cancel'.pc = "idle"
          /\ lease'[cancel.module] # lease[cancel.module] /\ ~hist.missed)
         => hist.atCancel \cap Alive = {}]_vars
  BY ReleaseStep
<1>2. QED
  BY <1>1, ContainerInvariant, PTL DEF Spec, KillBeforeRelease

=============================================================================
