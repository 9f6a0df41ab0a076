---------------------------- MODULE FencedLease ----------------------------
(***************************************************************************)
(* What services/entity_lock.py promises the tasks that use it, with no    *)
(* rows, clocks or threads: a lease that is handed from client to client   *)
(* under a growing epoch.                                                  *)
(*                                                                         *)
(*   - a healthy lease is never granted away: the next client is only      *)
(*     admitted when the present one has ended or lapsed;                  *)
(*   - only the client of the latest epoch writes the protected fields.    *)
(*                                                                         *)
(* EntityLock implements this module (EntityLock!Abstract!Spec).           *)
(***************************************************************************)
EXTENDS Integers

CONSTANT Clients

VARIABLES
  epoch,    \* how many times the lease has been granted
  grant,    \* grant[c]: the epoch client c was granted last, 0 for none
  healthy,  \* the lease of the present epoch is in use and has not lapsed
  register  \* the epoch of the last accepted write to the protected fields

vars == <<epoch, grant, healthy, register>>

Init ==
  /\ epoch = 0
  /\ grant = [c \in Clients |-> 0]
  /\ healthy = FALSE
  /\ register = 0

(* A client is admitted under a fresh epoch, never over a healthy lease. *)
Grant(c) ==
  /\ ~healthy
  /\ epoch' = epoch + 1
  /\ grant' = [grant EXCEPT ![c] = epoch + 1]
  /\ healthy' = TRUE
  /\ UNCHANGED register

(* The client ends its work, or it lapses: it misses too many heartbeats, it
   crashes, or an administrator takes the lock from it. *)
Lapse ==
  /\ healthy
  /\ healthy' = FALSE
  /\ UNCHANGED <<epoch, grant, register>>

(* A lapsed client that nobody has replaced renews its heartbeat in time. *)
Recover ==
  /\ ~healthy
  /\ epoch > 0
  /\ healthy' = TRUE
  /\ UNCHANGED <<epoch, grant, register>>

(* A write is accepted from the client of the latest epoch only. *)
Write(c) ==
  /\ epoch > 0
  /\ grant[c] = epoch
  /\ register' = epoch
  /\ UNCHANGED <<epoch, grant, healthy>>

Next ==
  \/ Lapse
  \/ Recover
  \/ \E c \in Clients : Grant(c) \/ Write(c)

Spec == Init /\ [][Next]_vars
=============================================================================
