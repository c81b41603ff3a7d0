---------------------------- MODULE MCDataPosition ----------------------------
(***************************************************************************)
(* Data modules of four and five samples in batches of two: an epoch ends  *)
(* on a full batch, on a short one, or with a sample dropped.  Every kind  *)
(* of sampler with zero to two batches prefetched; without seek() the      *)
(* resumable sampler is only precise when nothing is prefetched.           *)
(***************************************************************************)
EXTENDS DataPosition

Seeking == [size : {4, 5}, bs : {2}, dropLast : BOOLEAN, ahead : 0..2,
            counting : BOOLEAN, seeks : {TRUE}]
Stateful == [size : {4, 5}, bs : {2}, dropLast : BOOLEAN, ahead : {0},
             counting : {TRUE}, seeks : {FALSE}]
MCConfigs == Seeking \cup Stateful
===============================================================================
