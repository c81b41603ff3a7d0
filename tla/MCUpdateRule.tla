---------------------------- MODULE MCUpdateRule ----------------------------
(***************************************************************************)
(* Instances of UpdateRule: five steps in groups of two, with at most two  *)
(* replays a step, so that skips fall on both places of a group and a      *)
(* group straddles a skipped one.                                          *)
(***************************************************************************)
EXTENDS UpdateRule
=============================================================================
