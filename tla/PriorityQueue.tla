----------------------------- MODULE PriorityQueue -----------------------------
(* What MessageQueue promises, with blocks, sequence numbers, locks and       *)
(* wake-ups hidden: messages leave by priority, those of one priority in      *)
(* order of arrival, each of them once, and an empty answer means that there  *)
(* was no message.                                                            *)
EXTENDS Integers

CONSTANTS Priorities, Consumers, Pollers, NullOpt, Pending

VARIABLES
  pending,   \* the messages queued: priority and number of arrival
  arrivals,  \* how many messages have arrived
  closed,    \* notify_shutdown was called
  result     \* what the last dequeue or try_dequeue of each thread returned

vars == <<pending, arrivals, closed, result>>

Callers == Consumers \cup Pollers

Init ==
  /\ pending = {}
  /\ arrivals = 0
  /\ closed = FALSE
  /\ result = [c \in Callers |-> Pending]

Put(prio) ==
  /\ pending' = pending \cup {[prio |-> prio, no |-> arrivals + 1]}
  /\ arrivals' = arrivals + 1
  /\ UNCHANGED <<closed, result>>

(* m goes before o: a higher priority, or the same one and an earlier arrival. *)
Before(m, o) == m.prio > o.prio \/ (m.prio = o.prio /\ m.no < o.no)

Take(c, m) ==
  /\ \A o \in pending : o = m \/ Before(m, o)
  /\ pending' = pending \ {m}
  /\ result' = [result EXCEPT ![c] = m]
  /\ UNCHANGED <<arrivals, closed>>

(* Only try_dequeue may come back empty while the queue is open. *)
TakeNothing(c) ==
  /\ pending = {}
  /\ c \in Consumers => closed
  /\ result' = [result EXCEPT ![c] = NullOpt]
  /\ UNCHANGED <<pending, arrivals, closed>>

Call(c) ==
  /\ result' = [result EXCEPT ![c] = Pending]
  /\ UNCHANGED <<pending, arrivals, closed>>

Close == closed' = TRUE /\ UNCHANGED <<pending, arrivals, result>>

(* The destructor drops what is left. *)
Drop == pending' = {} /\ UNCHANGED <<arrivals, closed, result>>

Next ==
  \/ \E prio \in Priorities : Put(prio)
  \/ \E c \in Callers : Call(c) \/ TakeNothing(c) \/ \E m \in pending : Take(c, m)
  \/ Close
  \/ Drop

Spec == Init /\ [][Next]_vars
================================================================================
