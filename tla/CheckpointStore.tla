--------------------------- MODULE CheckpointStore ---------------------------
(***************************************************************************)
(* What a run may rely on from its checkpoint directory, whatever crashes  *)
(* happen in between: a map from training steps to the generation of the   *)
(* state saved there, and the two pointers "last" and "best".              *)
(*                                                                         *)
(* A generation is the number of the save() call that produced the state,  *)
(* so two saves of one step are told apart.  The store never forgets the   *)
(* newest step it holds nor a step a pointer names.  CheckpointManager     *)
(* implements this module with directory renames, two kinds of pointer     *)
(* files and a retention pass.                                             *)
(***************************************************************************)
EXTENDS Integers

CONSTANTS
  Steps,      \* training steps a checkpoint can be taken at, numbers
  Gens,       \* generations: numbers of the save() calls
  Pointers,   \* names of the pointers
  None        \* no generation, no step; not a number

VARIABLES
  store,      \* generation recoverable for each step, or None
  pointer     \* step each pointer names, or None

vars == <<store, pointer>>

Held == {n \in Steps : store[n] # None}

TypeOK ==
  /\ store \in [Steps -> Gens \cup {None}]
  /\ pointer \in [Pointers -> Steps \cup {None}]

Init ==
  /\ store = [n \in Steps |-> None]
  /\ pointer = [k \in Pointers |-> None]

\* A save becomes the content of its step, in one piece and never older than
\* what it replaces.
Commit(n, g) ==
  /\ store[n] # None => store[n] < g
  /\ store' = [store EXCEPT ![n] = g]
  /\ UNCHANGED pointer

Point(k, n) ==
  /\ n \in Held
  /\ pointer' = [pointer EXCEPT ![k] = n]
  /\ UNCHANGED store

\* Retention drops a step only while a newer one is held, and never one a
\* pointer names.
Forget(n) ==
  /\ n \in Held
  /\ \A k \in Pointers : pointer[k] # n
  /\ \E m \in Held : m > n
  /\ store' = [store EXCEPT ![n] = None]
  /\ UNCHANGED pointer

Next ==
  \/ \E n \in Steps, g \in Gens : Commit(n, g)
  \/ \E n \in Steps, k \in Pointers : Point(k, n)
  \/ \E n \in Steps : Forget(n)

Spec == Init /\ [][Next]_vars

------------------------------------------------------------------------------
\* A pointer never names a step whose state cannot be recovered.
PointersHeld == \A k \in Pointers : pointer[k] # None => pointer[k] \in Held

==============================================================================
