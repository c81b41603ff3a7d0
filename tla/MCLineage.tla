------------------------------- MODULE MCLineage -------------------------------
(***************************************************************************)
(* Instances of Lineage: two versions and two rows, so that a version is   *)
(* recorded again while it has a row and after that row is gone; two days, *)
(* so that a row can be marked, waited for and swept; the policy of the    *)
(* command line, and one of each other kind.                               *)
(***************************************************************************)
EXTENDS Lineage

KeepLast == [last |-> 1, best |-> FALSE, ttl |-> 0]
KeepBest == [last |-> 1, best |-> TRUE, ttl |-> 0]
KeepYoung == [last |-> 0, best |-> FALSE, ttl |-> 1]
MCPolicies == {KeepLast, KeepBest, KeepYoung}
===============================================================================
