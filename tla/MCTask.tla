-------------------------------- MODULE MCTask --------------------------------
(* Small instances of Task: a start, a stop, a restart, and messages that     *)
(* arrive before, during and after each of them, more of them than the queue  *)
(* has room for.                                                              *)
EXTENDS Task

(* OfType is SelectSeq, here for all queues of up to five messages. *)
ASSUME SelectionIsSelectSeq ==
  \A n \in 0 .. 5 : \A types \in [1 .. n -> {"StateMsg", "HeartbeatMsg"}] :
    LET q == [i \in 1 .. n |-> Msg("sender", types[i], i)]
    IN  \A type \in {"StateMsg", "HeartbeatMsg"} :
          OfType(q, type) = SelectSeq(q, LAMBDA m : m.type = type)
================================================================================
