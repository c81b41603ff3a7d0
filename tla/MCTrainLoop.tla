----------------------------- MODULE MCTrainLoop -----------------------------
(***************************************************************************)
(* Instances of TrainLoop: epochs of two batches and a run of four steps,  *)
(* so that a run crosses an epoch end, checkpoints fall off it, and the    *)
(* last step is no multiple of ckpt_every.                                 *)
(***************************************************************************)
EXTENDS TrainLoop
==============================================================================
