----------------------------- MODULE MCRLTrainer -----------------------------
(***************************************************************************)
(* Instances of RLTrainer: rollouts of up to four episodes into a buffer   *)
(* of three, so that it drops one, is full, or ends on a smaller           *)
(* minibatch; two fits, so that the objective changes; a checkpoint that a *)
(* death returns to.                                                       *)
(***************************************************************************)
EXTENDS RLTrainer
==============================================================================
