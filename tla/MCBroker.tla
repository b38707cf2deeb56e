------------------------------- MODULE MCBroker -------------------------------
(* A small instance of Broker: enough subscribers for entries before, at and  *)
(* after the iterator.                                                        *)
EXTENDS Broker, TLC
================================================================================
