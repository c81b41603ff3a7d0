------------------------- MODULE MCCheckpointManager -------------------------
(***************************************************************************)
(* Instances of CheckpointManager for TLC: three steps, one component file *)
(* beside the manifest, four saves and two deaths of the process.          *)
(***************************************************************************)
EXTENDS CheckpointManager

==============================================================================
