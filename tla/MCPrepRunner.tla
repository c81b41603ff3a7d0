---------------------------- MODULE MCPrepRunner ----------------------------
(* 1 -> 2, 1 -> 3, <<2, 3>> -> 4, with 2 and 4 materialised, in three      *)
(* recipes: the second changes the end (4), the third the load (1).  In    *)
(* the fourth 3 and 4 have one fingerprint and their inputs in two orders. *)
EXTENDS PrepRunner

Base == [inputs |-> <<<<>>, <<1>>, <<1>>, <<2, 3>>>>,
         conf   |-> <<"load", "store", "tok", "end">>,
         keeps  |-> {2, 4}, memmap |-> {4}]
Twins == [inputs |-> <<<<>>, <<1>>, <<1, 2>>, <<2, 1>>>>,
          conf   |-> <<"load", "store", "both", "both">>,
          keeps  |-> {2, 3, 4}, memmap |-> {}]
MCGraphs == {Base, Twins,
             [Base EXCEPT !.conf[4] = "end2"],
             [Base EXCEPT !.conf[1] = "load2"]}
==============================================================================
