------------------------------- MODULE MCLogger -------------------------------
(* A small instance of Logger: two threads that log, and two sinks.           *)
EXTENDS Logger, TLC
================================================================================
