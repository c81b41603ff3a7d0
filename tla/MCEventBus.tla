------------------------------ MODULE MCEventBus ------------------------------
(***************************************************************************)
(* Instances of EventBus: an ordinary, a critical and the isolation        *)
(* callback, with events enough for two failures, a success in between and *)
(* a quarantine.                                                           *)
(***************************************************************************)
EXTENDS EventBus
===============================================================================
