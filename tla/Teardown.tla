------------------------------ MODULE Teardown ------------------------------
(***************************************************************************)
(* What the teardown of a stack or project promises, with no tasks,        *)
(* workers, messages or locks: resources go module by module, down the     *)
(* dependency graph, and nobody reports a module or the stack as gone      *)
(* while there is something left that somebody has to answer for.          *)
(*                                                                         *)
(* DestroyChain implements this module (DestroyChain!Abstract!Spec).       *)
(***************************************************************************)
CONSTANTS
  Modules,
  Deps,    \* Deps[m]: the modules m depends on
  Singly   \* modules that users may also have destroyed one by one

VARIABLES
  left,     \* the modules that may have resources
  excused,  \* the modules nobody answers for any more
  off,      \* the modules that are written off: their row says that there is
            \*   nothing to destroy, or it has been deleted
  closed    \* the stack reports to be destroyed, or has been deleted

vars == <<left, excused, off, closed>>

Owed == left \ excused

Init ==
  /\ left \subseteq Modules
  /\ excused \subseteq Modules
  /\ off = Modules \ left
  /\ closed = FALSE

(* Nothing that is owed depends on m, or a user asked for m alone. *)
InTurn(m) == m \in Singly \/ \A x \in Owed : m \notin Deps[x]

(* The resources of a module are destroyed. *)
Destroy(m) ==
  /\ m \in left
  /\ InTurn(m)
  /\ left' = left \ {m}
  /\ off' = off \cup {m}
  /\ UNCHANGED <<excused, closed>>

(* A user cancels the destroy of m: what is left of it nobody knows. *)
Interrupt(m) ==
  /\ excused' = excused \cup {m}
  /\ off' \in {off, off \cup {m}}
  /\ UNCHANGED <<left, closed>>

(* Rows and the stack say something else, never more than is true. *)
Report(ms, c) ==
  /\ ms \cap Owed = {}
  /\ c => Owed = {}
  /\ off' = ms
  /\ closed' = c
  /\ UNCHANGED <<left, excused>>

Next ==
  \/ \E m \in Modules : Destroy(m) \/ Interrupt(m)
  \/ \E ms \in SUBSET Modules, c \in BOOLEAN : Report(ms, c)

Spec == Init /\ [][Next]_vars
=============================================================================
