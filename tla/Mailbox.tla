-------------------------------- MODULE Mailbox --------------------------------
(* The queue of a task as the rest of the system may see it: two queues,      *)
(* first in, first out, of which the one with the StateMsgs goes first. This  *)
(* is how StateManager and HeartBeat describe the tasks' queues.              *)
EXTENDS Integers, Sequences

CONSTANTS Commands, Beats, Size, Nothing

VARIABLES commands, beats,
          taken   \* the message being processed, or Nothing

vars == <<commands, beats, taken>>

Init == commands = <<>> /\ beats = <<>> /\ taken = Nothing

Put(m) ==
  /\ Len(commands) + Len(beats) < Size
  /\ \/ m \in Commands /\ commands' = Append(commands, m) /\ UNCHANGED <<beats, taken>>
     \/ m \in Beats /\ beats' = Append(beats, m) /\ UNCHANGED <<commands, taken>>

TakeCommand ==
  /\ taken = Nothing /\ commands # <<>>
  /\ taken' = Head(commands) /\ commands' = Tail(commands)
  /\ UNCHANGED beats

TakeBeat ==
  /\ taken = Nothing /\ commands = <<>> /\ beats # <<>>
  /\ taken' = Head(beats) /\ beats' = Tail(beats)
  /\ UNCHANGED commands

Finish == taken # Nothing /\ taken' = Nothing /\ UNCHANGED <<commands, beats>>

Next == (\E m \in Commands \cup Beats : Put(m)) \/ TakeCommand \/ TakeBeat \/ Finish

Spec == Init /\ [][Next]_vars
================================================================================
