---------------------------- MODULE MCMessageQueue ----------------------------
(* Small instances of MessageQueue: fewer blocks than messages, so that       *)
(* blocks are reused and the pool runs out, and more threads than messages    *)
(* queued, so that some of them sleep.                                        *)
EXTENDS MessageQueue
================================================================================
