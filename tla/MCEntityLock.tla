---------------------------- MODULE MCEntityLock ----------------------------
(* An instance of EntityLock for TLC: two deliveries of one task. *)
EXTENDS EntityLock

CONSTANTS e1, e2, t1

TwoExecs == {e1, e2}
OneTask == {t1}
TaskOfExec == [p \in Execs |-> t1]
=============================================================================
