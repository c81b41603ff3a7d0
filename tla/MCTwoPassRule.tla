---------------------------- MODULE MCTwoPassRule ----------------------------
(***************************************************************************)
(* Instances of TwoPassRule: six steps in windows of two, so that windows  *)
(* are completed, skipped in either half and crossed by steps that raise.  *)
(***************************************************************************)
EXTENDS TwoPassRule
==============================================================================
