---------------------------- MODULE MCArtifactStore ----------------------------
(***************************************************************************)
(* Instances of ArtifactStore: three samples in shards of two, so that a   *)
(* shard is flushed while another sample waits, two tensors, and three     *)
(* runs: one that dies, one that resumes, one over the sealed store.       *)
(***************************************************************************)
EXTENDS ArtifactStore, TLC

Alike == Permutations(Samples) \cup Permutations(Revisions)
===============================================================================
