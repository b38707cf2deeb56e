------------------------------- MODULE BlockPool -------------------------------
(* What MemoryPool promises its clients, with the free list hidden: every     *)
(* block is either lent to a client or not, allocate lends a block that is    *)
(* not lent, and it answers nullptr only when every block is lent.            *)
CONSTANTS Blocks, Threads, Null

VARIABLES
  lent,    \* the blocks the clients hold
  answer   \* answer[t]: what the last allocate called by thread t returned

vars == <<lent, answer>>

Init ==
  /\ lent = {}
  /\ answer = [t \in Threads |-> Null]

Allocate(t, b) ==
  /\ b \notin lent
  /\ lent' = lent \cup {b}
  /\ answer' = [answer EXCEPT ![t] = b]

AllocateFails(t) ==
  /\ lent = Blocks
  /\ answer' = [answer EXCEPT ![t] = Null]
  /\ UNCHANGED lent

Deallocate(b) ==
  /\ b \in lent
  /\ lent' = lent \ {b}
  /\ UNCHANGED answer

Next ==
  \/ \E t \in Threads : AllocateFails(t) \/ \E b \in Blocks : Allocate(t, b)
  \/ \E b \in Blocks : Deallocate(b)

Spec == Init /\ [][Next]_vars
================================================================================
