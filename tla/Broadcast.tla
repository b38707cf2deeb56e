------------------------------ MODULE Broadcast ------------------------------
(* What the Broker promises: a message goes to everyone who is subscribed to  *)
(* its type, at once, so that all see the messages of a type in one order,    *)
(* each once, and nobody gets one from before it subscribed.                  *)
EXTENDS Naturals, Sequences

CONSTANTS Tasks, Types, Numbers

VARIABLES
  present,  \* the tasks that exist
  members,  \* who is subscribed to which type
  box       \* for each task and type, the messages it has still to take

vars == <<present, members, box>>

Init ==
  /\ present = Tasks
  /\ members = [y \in Types |-> {}]
  /\ box = [t \in Tasks |-> [y \in Types |-> <<>>]]

Subscribe(t, y) ==
  /\ t \in present
  /\ members' = [members EXCEPT ![y] = @ \cup {t}]
  /\ UNCHANGED <<present, box>>

Publish(y, n) ==
  /\ box' = [t \in Tasks |->
               IF t \in members[y] THEN [box[t] EXCEPT ![y] = Append(@, n)] ELSE box[t]]
  /\ UNCHANGED <<present, members>>

Take(t, y) ==
  /\ box[t][y] # <<>>
  /\ box' = [box EXCEPT ![t][y] = Tail(@)]
  /\ UNCHANGED <<present, members>>

Leave(t) ==
  /\ t \in present
  /\ present' = present \ {t}
  /\ members' = [y \in Types |-> members[y] \ {t}]
  /\ box' = [box EXCEPT ![t] = [y \in Types |-> <<>>]]

Next ==
  \/ \E t \in Tasks : Leave(t) \/ \E y \in Types : Subscribe(t, y) \/ Take(t, y)
  \/ \E y \in Types, n \in Numbers : Publish(y, n)

Spec == Init /\ [][Next]_vars
================================================================================
