------------------------------ MODULE TrainStep ------------------------------
(***************************************************************************)
(* What a gradient step may do with the batch it is given: add its         *)
(* gradient to those pending, complete a group of Accumulate of them and   *)
(* apply the group to the weights, or drop it together with what is        *)
(* pending.  A batch ends up in exactly one of the three sets, and the     *)
(* weights only ever move by whole groups.                                 *)
(*                                                                         *)
(* UpdateRule implements this module with forward passes, retries, skips   *)
(* and a restored snapshot; TrainLoop takes its steps from here.           *)
(***************************************************************************)
EXTENDS Integers, FiniteSets

CONSTANTS
  Batches,      \* identities of the batches a run may consume
  Accumulate    \* accumulate_grad_batches

VARIABLES
  applied,      \* batches whose gradients are in the weights
  pending,      \* batches whose gradients wait for the rest of their group
  dropped       \* batches given up: skipped, or pending when one was skipped

vars == <<applied, pending, dropped>>

Used == applied \cup pending \cup dropped

Init == applied = {} /\ pending = {} /\ dropped = {}

\* The effect of a step on the batch it is given, whether or not that batch was
\* used before; Next says that it was not.
Wait(b) ==
  /\ Cardinality(pending) + 1 < Accumulate
  /\ pending' = pending \cup {b}
  /\ UNCHANGED <<applied, dropped>>

Apply(b) ==
  /\ Cardinality(pending) + 1 = Accumulate
  /\ applied' = applied \cup pending \cup {b}
  /\ pending' = {}
  /\ UNCHANGED dropped

Drop(b) ==
  /\ dropped' = dropped \cup pending \cup {b}
  /\ pending' = {}
  /\ UNCHANGED applied

Next == \E b \in Batches \ Used : Wait(b) \/ Apply(b) \/ Drop(b)

Spec == Init /\ [][Next]_vars
==============================================================================
