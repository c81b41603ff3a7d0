--------------------------- MODULE MCDynamicArtifact ---------------------------
(***************************************************************************)
(* Instances of DynamicArtifact: a queue of two, every second step, steps  *)
(* enough to fill the queue behind a busy worker, and two fits.            *)
(***************************************************************************)
EXTENDS DynamicArtifact
===============================================================================
