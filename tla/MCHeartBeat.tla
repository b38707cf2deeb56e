------------------------------ MODULE MCHeartBeat ------------------------------
(* Small instances of HeartBeat. *)
EXTENDS HeartBeat
================================================================================
