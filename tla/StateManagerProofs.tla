-------------------------- MODULE StateManagerProofs --------------------------
(* The invariants of StateManager for any number of tasks, users and calls.   *)
EXTENDS StateManager, TLAPS

(* Main is stopping the tasks, and its own STOPPED has not been published:    *)
(* each task goes to STOPPED on its own, some while still busy.               *)
Stopping == pc[Main] = "stopping" /\ Manager \in running

(* Where the life cycle is, and what the threads are doing there. *)
Lifecycle ==
  /\ phase = "off" =>
       /\ clean = {} /\ acks = <<>> /\ mark = NoTask /\ running = {}
       /\ \A u \in Users : pc[u] = "idle"
       /\ \A t \in Tasks : inbox[t] = <<>> /\ state[t] = "NOT_STARTED"
       /\ \A x \in Threads : thread[x] = "off"
       /\ \A t \in Registered : task_states[t] = "NOT_STARTED"
  /\ phase # "off" => Registered = Tasks
  /\ pc[Main] = "stopping" => phase = "closing"
  /\ phase = "closing" => pc[Main] \notin {"idle", "request"} /\ want[Main] = "STOPPED"
  /\ phase = "up" => Manager \in running
  /\ phase = "closing" /\ pc[Main] # "stopping" => Manager \in running
  /\ phase = "closing" /\ Manager \notin running => \A t \in Tasks : thread[t] = "off"
  /\ phase = "down" => \A x \in Threads : thread[x] = "off"
  /\ \A x \in running : thread[x] # "off"
  /\ \A u \in Users : pc[u] = "stopping" => u = Main
  /\ \A t \in Tasks : thread[t] = "busy" => ack[t] \in AllStates
  /\ mark # NoTask => mark \in Registered \cap marked

(* The task ends in s when it has worked off its queue. *)
EndsIn(t, s) == (IF inbox[t] = <<>> THEN state[t] ELSE inbox[t][Len(inbox[t])]) \in {s} \cup Marked[t]

(* The last acknowledgment of t in q says s, or there is none and record does *)
(* (or names a state of m instead).                                           *)
LastSays(q, record, m, t, s) ==
  /\ \A i \in 1 .. Len(q) : q[i].from = t /\ (\A j \in i + 1 .. Len(q) : q[j].from # t) => q[i].state = s
  /\ (\A i \in 1 .. Len(q) : q[i].from # t) => record \in {s} \cup m

(* A task with nothing more to do has said, or is about to say, where it is. *)
Reported(t) ==
  inbox[t] = <<>> =>
    IF thread[t] = "busy" THEN ack[t] = state[t] ELSE LastSays(acks, task_states[t], Marked[t], t, state[t])

(* All tasks will end in one state, and the records will agree, but for what  *)
(* marking a task may have left.                                              *)
Consistent ==
  ~Stopping =>
    /\ \E s \in AllStates : \A t \in Tasks : EndsIn(t, s)
    /\ \A t \in Registered : Reported(t)

(* The demand of a user that has the system for itself: before its StateMsg   *)
(* nothing is on its way, afterwards only what it asked for; a task that is   *)
(* not there yet has not sent anything, and its record is right or says ERROR *)
(* because it was marked before.                                              *)
Untouched ==
  /\ acks = <<>>
  /\ \A t \in Registered : inbox[t] = <<>> /\ thread[t] # "busy" /\ task_states[t] \in {state[t]} \cup Marked[t]

Under(u) ==
  \A t \in Registered :
    /\ \A i \in 1 .. Len(inbox[t]) : inbox[t][i] = want[u]
    /\ \/ state[t] = want[u]
       \/ /\ thread[t] # "busy" /\ task_states[t] \in {state[t]} \cup Marked[t]
          /\ \A i \in 1 .. Len(acks) : acks[i].from # t

(* Every task is in the state demanded, or the demand was for the ERROR that  *)
(* a mark has left in its record.                                             *)
Arrived(u) == \A t \in Registered : state[t] = want[u] \/ want[u] \in Marked[t]

Alone(u) ==
  /\ \A v \in Users \ {u} : pc[v] = "idle"
  /\ pc[u] # "request"
  /\ IF pc[u] \in {"demand", "demanded"} THEN Untouched ELSE Under(u)
  /\ pc[u] \in {"idle", "stopping"} /\ answer[u] => Arrived(u)

IInv ==
  /\ TypeOK /\ Lifecycle
  /\ Consistent /\ \A u \in clean : Alone(u)

(* What Append and Tail do, element by element. *)
LEMMA AppendFacts ==
  ASSUME NEW S, NEW q \in Seq(S), NEW x \in S
  PROVE  /\ Append(q, x) \in Seq(S) /\ Len(Append(q, x)) = Len(q) + 1 /\ Len(q) \in Nat
         /\ Append(q, x) # <<>>
         /\ \A i \in 1 .. Len(q) : Append(q, x)[i] = q[i]
         /\ Append(q, x)[Len(q) + 1] = x
  OBVIOUS

LEMMA TailFacts ==
  ASSUME NEW S, NEW q \in Seq(S), q # <<>>
  PROVE  /\ Tail(q) \in Seq(S) /\ Len(q) \in Nat \ {0} /\ Len(Tail(q)) = Len(q) - 1
         /\ \A i \in 1 .. Len(q) - 1 : Tail(q)[i] = q[i + 1]
         /\ Head(q) = q[1] /\ q[1] \in S
         /\ Tail(q) = <<>> => Len(q) = 1
  OBVIOUS

(* How the last word of a task changes when an acknowledgment comes or goes. *)
LEMMA LastSaysAppend ==
  ASSUME NEW R, NEW q \in Seq(R), NEW a \in R, NEW record, NEW m, NEW t, NEW s
  PROVE  /\ a.from = t => LastSays(Append(q, a), record, m, t, a.state)
         /\ a.from # t /\ LastSays(q, record, m, t, s) => LastSays(Append(q, a), record, m, t, s)
  <1> DEFINE p == Append(q, a)
  <1>1. /\ Len(p) = Len(q) + 1 /\ Len(q) \in Nat
        /\ \A i \in 1 .. Len(q) : p[i] = q[i]
        /\ p[Len(q) + 1] = a
    BY AppendFacts
  <1> HIDE DEF p
  <1>2. ASSUME a.from = t PROVE LastSays(p, record, m, t, a.state)
    <2>1. \A i \in 1 .. Len(p) : i = Len(q) + 1 \/ Len(q) + 1 \in i + 1 .. Len(p)
      BY <1>1
    <2>2. Len(q) + 1 \in 1 .. Len(p)
      BY <1>1
    <2> QED
      BY <1>1, <1>2, <2>1, <2>2 DEF LastSays
  <1>3. ASSUME a.from # t, LastSays(q, record, m, t, s) PROVE LastSays(p, record, m, t, s)
    <2>1. \A i \in 1 .. Len(p) : i = Len(q) + 1 \/ i \in 1 .. Len(q)
      BY <1>1
    <2>2. \A i \in 1 .. Len(q) : i \in 1 .. Len(p) /\ \A j \in i + 1 .. Len(q) : j \in 1 .. Len(q) /\ j \in i + 1 .. Len(p)
      BY <1>1
    <2> QED
      BY <1>1, <1>3, <2>1, <2>2 DEF LastSays
  <1> QED
    BY <1>2, <1>3 DEF p

LEMMA LastSaysTail ==
  ASSUME NEW R, NEW q \in Seq(R), q # <<>>, NEW record, NEW m, NEW t, NEW s,
         LastSays(q, record, m, t, s)
  PROVE  LastSays(Tail(q), IF Head(q).from = t THEN Head(q).state ELSE record, m, t, s)
  <1> DEFINE p == Tail(q)
  <1>1. /\ Len(q) \in Nat \ {0} /\ Len(p) = Len(q) - 1
        /\ \A i \in 1 .. Len(q) - 1 : p[i] = q[i + 1]
        /\ Head(q) = q[1]
    BY TailFacts
  <1> HIDE DEF p
  <1>2. ASSUME NEW i \in 1 .. Len(p), p[i].from = t, \A j \in i + 1 .. Len(p) : p[j].from # t
        PROVE  p[i].state = s
    <2>1. i + 1 \in 1 .. Len(q) /\ p[i] = q[i + 1]
      BY <1>1
    <2>2. ASSUME NEW j \in (i + 1) + 1 .. Len(q) PROVE q[j].from # t
      <3>1. j - 1 \in i + 1 .. Len(p) /\ p[j - 1] = q[(j - 1) + 1] /\ (j - 1) + 1 = j
        BY <1>1
      <3> QED
        BY <1>2, <3>1
    <2> QED
      BY <1>2, <2>1, <2>2 DEF LastSays
  <1>3. ASSUME \A i \in 1 .. Len(p) : p[i].from # t
        PROVE  (IF q[1].from = t THEN q[1].state ELSE record) \in {s} \cup m
    <2>1. \A j \in 1 + 1 .. Len(q) : j - 1 \in 1 .. Len(p) /\ p[j - 1] = q[(j - 1) + 1] /\ (j - 1) + 1 = j
      BY <1>1
    <2>2. \A j \in 1 + 1 .. Len(q) : q[j].from # t
      BY <1>3, <2>1
    <2>3. 1 \in 1 .. Len(q) /\ \A j \in 1 .. Len(q) : j = 1 \/ j \in 1 + 1 .. Len(q)
      BY <1>1
    <2> QED
      BY <2>2, <2>3 DEF LastSays
  <1> QED
    BY <1>1, <1>2, <1>3 DEF LastSays, p

LEMMA LastSaysEmpty ==
  ASSUME NEW record, NEW m, NEW t, NEW s
  PROVE  LastSays(<<>>, record, m, t, s) <=> record \in {s} \cup m
  BY DEF LastSays

(* What marking may have left of a task changes only when it is marked.       *)
LEMMA MarkedChanges ==
  /\ UNCHANGED marked => Marked' = Marked
  /\ \A t \in Tasks : MarkDeliver(t) =>
       Marked'[t] = {"ERROR"} /\ \A r \in Tasks \ {t} : Marked'[r] = Marked[r]
  BY DEF Marked, MarkDeliver

(* The states the code itself names are states. *)
LEMMA Named ==
  "NOT_STARTED" \in AllStates /\ "IDLE" \in AllStates /\ "STOPPED" \in AllStates
  /\ "ERROR" \in AllStates /\ States \subseteq AllStates
  BY DEF AllStates

(* Every step keeps the types. *)
LEMMA NextTypeOK == TypeOK /\ Lifecycle /\ [Next]_vars => TypeOK'
  <1> SUFFICES ASSUME TypeOK, Lifecycle, [Next]_vars PROVE TypeOK'
    OBVIOUS
  <1> USE ManagerAssumption, Named DEF records, mail, moves, life, user, marking, Threads, Registered
  <1>1. ASSUME NEW t \in Tasks, Take(t) PROVE TypeOK'
    <2>1. inbox[t] \in Seq(AllStates) /\ inbox[t] # <<>>
      BY <1>1, Zenon DEF TypeOK, Take
    <2>2. Head(inbox[t]) \in AllStates /\ Tail(inbox[t]) \in Seq(AllStates)
      BY ONLY <2>1, TailFacts, Zenon
    <2>3. /\ inbox' \in [Tasks -> Seq(AllStates)] /\ state' \in [Tasks -> AllStates]
          /\ ack' \in [Tasks -> AllStates \cup {NoAck}]
      BY <1>1, <2>2, Zenon DEF TypeOK, Take
    <2>4. window' \subseteq {x \in Threads : x \notin running /\ thread'[x] = "loop"}
      BY <1>1, Zenon DEF TypeOK, Take
    <2> QED
      BY <1>1, <2>3, <2>4, Zenon DEF TypeOK, Take
  <1>2. ASSUME NEW t \in Tasks, PublishAck(t) PROVE TypeOK'
    <2>1. [from |-> t, state |-> ack[t]] \in [from : Tasks, state : AllStates]
      BY <1>2, Zenon DEF Lifecycle, PublishAck
    <2>2. acks' \in Seq([from : Tasks, state : AllStates])
      BY <1>2, <2>1, AppendFacts, Zenon DEF TypeOK, PublishAck
    <2>3. window' \subseteq {x \in Threads : x \notin running /\ thread'[x] = "loop"}
      BY <1>2, Zenon DEF TypeOK, PublishAck
    <2> QED
      BY <1>2, <2>2, <2>3, Zenon DEF TypeOK, PublishAck
  <1>3. ASSUME NEW t \in Tasks, RegisterTask(t) PROVE TypeOK'
    BY <1>3, Zenon DEF TypeOK, RegisterTask
  <1>4. ASSUME NEW t \in Tasks, MarkDeliver(t) PROVE TypeOK'
    <2>1. Append(inbox[t], "ERROR") \in Seq(AllStates)
      BY AppendFacts DEF TypeOK
    <2>2. inbox' \in [Tasks -> Seq(AllStates)]
      BY <1>4, <2>1, Zenon DEF TypeOK, MarkDeliver
    <2> QED
      BY <1>4, <2>2 DEF TypeOK, MarkDeliver
  <1>5. CASE HandleAck
    <2>1. /\ Head(acks) \in [from : Tasks, state : AllStates]
          /\ Tail(acks) \in Seq([from : Tasks, state : AllStates])
      <3>1. acks \in Seq([from : Tasks, state : AllStates]) /\ acks # <<>>
        BY <1>5, Zenon DEF TypeOK, HandleAck
      <3> QED
        BY ONLY <3>1, TailFacts, Zenon
    <2>2. task_states' = [task_states EXCEPT ![Head(acks).from] = Head(acks).state]
      BY <1>5, Zenon DEF HandleAck, Recorded
    <2>3. DOMAIN task_states' = DOMAIN task_states /\ task_states' \in [Registered -> AllStates]
      BY <2>1, <2>2, Zenon DEF TypeOK
    <2>4. window' \subseteq {x \in Threads : x \notin running /\ thread'[x] = "loop"}
      BY <1>5, Zenon DEF TypeOK, HandleAck
    <2> QED
      BY <1>5, <2>1, <2>3, <2>4, Zenon DEF TypeOK, HandleAck
  <1>6. CASE Notify
    <2>1. window' \subseteq {x \in Threads : x \notin running /\ thread'[x] = "loop"}
      BY <1>6, Zenon DEF TypeOK, Notify
    <2>2. pc' = pc \/ \E u \in Users : pc' = [pc EXCEPT ![u] = "test"]
      BY <1>6, Zenon DEF Notify, Waiting
    <2> QED
      BY <1>6, <2>1, <2>2, Zenon DEF TypeOK, Notify
  <1>7. ASSUME NEW u \in Users, NEW s \in States, Request(u, s) \/ Demand(u, s) PROVE TypeOK'
    <2>1. /\ calls' \in 0 .. MaxCalls /\ want' \in [Users -> AllStates] /\ clean' \subseteq Users
      <3>1. calls' \in 0 .. MaxCalls
        BY <1>7 DEF TypeOK, Request, Demand
      <3>2. want' = [want EXCEPT ![u] = s] /\ (clean' = {u} \/ clean' = {})
        BY <1>7, Zenon DEF Request, Demand, Begin
      <3> QED
        BY <3>1, <3>2, Zenon DEF TypeOK
    <2>2. answer' \in [Users -> BOOLEAN]
      BY <1>7, Zenon DEF TypeOK, Request, Demand, Begin
    <2>3. pc' = [pc EXCEPT ![u] = "request"] \/ pc' = [pc EXCEPT ![u] = "demand"]
      BY <1>7, Zenon DEF Request, Demand, Begin, Goto
    <2> QED
      BY <1>7, <2>1, <2>2, <2>3, Zenon DEF TypeOK, Request, Demand
  <1>8. ASSUME NEW u \in Users, SetTarget(u) \/ TestTrue(u) \/ TestFalse(u) \/ Block(u) \/ Expired(u)
                                 \/ SpuriousWake(u) \/ Expire(u)
        PROVE  TypeOK'
    <2>1. target_state' \in AllStates
      BY <1>8 DEF TypeOK, SetTarget, TestTrue, TestFalse, Block, Expired, SpuriousWake, Expire, Return
    <2>2. \/ answer' = answer
          \/ answer' = [answer EXCEPT ![u] = TRUE]
          \/ answer' = [answer EXCEPT ![u] = all_tasks_in_state(want[u])]
      BY <1>8, Zenon DEF SetTarget, TestTrue, TestFalse, Block, Expired, SpuriousWake, Expire, Return
    <2>3. all_tasks_in_state(want[u]) \in BOOLEAN
      BY Zenon DEF all_tasks_in_state
    <2>4. answer' \in [Users -> BOOLEAN]
      BY <2>2, <2>3, Zenon DEF TypeOK
    <2>5. \E to \in {"demanded", "test", "block", "wait", "expired", "idle", "stopping"} :
            pc' = [pc EXCEPT ![u] = to]
      BY <1>8, Zenon DEF SetTarget, TestTrue, TestFalse, Block, Expired, SpuriousWake, Expire, Return, Goto
    <2>6. /\ pc' \in [Users -> {"idle", "request", "demand", "demanded",
                              "test", "block", "wait", "expired", "stopping"}]
      BY <2>5, Zenon DEF TypeOK
    <2>7. UNCHANGED <<task_states, mail, moves, life, thread, want, marking, calls, clean>>
      BY <1>8, Zenon DEF SetTarget, TestTrue, TestFalse, Block, Expired, SpuriousWake, Expire, Return
    <2> QED
      BY <2>1, <2>4, <2>6, <2>7, Zenon DEF TypeOK
  <1>9. ASSUME NEW u \in Users, Transition(u) PROVE TypeOK'
    <2>1. inbox' \in [Tasks -> Seq(AllStates)]
      BY <1>9, AppendFacts DEF TypeOK, Transition, DeliverToAll
    <2> QED
      BY <1>9, <2>1, Zenon DEF TypeOK, Transition, Goto
  <1>10. CASE Initialize
    <2>1. /\ calls' \in 0 .. MaxCalls /\ want' \in [Users -> AllStates] /\ clean' \subseteq Users
      BY <1>10 DEF TypeOK, Initialize, Begin
    <2>2. answer' \in [Users -> BOOLEAN]
      BY <1>10, Zenon DEF TypeOK, Initialize, Begin
    <2>3. running' = Threads /\ thread' = [x \in Threads |-> "loop"]
      BY <1>10, Zenon DEF TypeOK, Initialize
    <2>4. window' = {}
      BY <1>10, Zenon DEF Lifecycle, TypeOK, Initialize
    <2> QED
      BY <1>10, <2>1, <2>2, <2>3, <2>4, Zenon DEF TypeOK, Initialize, Begin, Goto
  <1>11. CASE Shutdown
    BY <1>11 DEF TypeOK, Shutdown, Begin, Goto
  <1>12. ASSUME NEW t \in Tasks, StopTask(t) PROVE TypeOK'
    <2>1. acks' \in Seq([from : Tasks, state : AllStates])
      <3>1. [from |-> t, state |-> "STOPPED"] \in [from : Tasks, state : AllStates]
        OBVIOUS
      <3> QED
        BY <1>12, <3>1, AppendFacts, Zenon DEF TypeOK, StopTask
    <2>2. window' \subseteq {x \in Threads : x \notin running' /\ thread'[x] = "loop"}
      BY <1>12, Zenon DEF TypeOK, StopTask, Halt
    <2> QED
      BY <1>12, <2>1, <2>2, Zenon DEF TypeOK, StopTask, Halt
  <1>13. CASE StopSelf
    <2>1. inbox' \in [Tasks -> Seq(AllStates)]
      BY <1>13, AppendFacts DEF TypeOK, StopSelf, DeliverToAll
    <2>2. window' \subseteq {x \in Threads : x \notin running' /\ thread'[x] = "loop"}
      BY <1>13, Zenon DEF TypeOK, StopSelf, Halt
    <2> QED
      BY <1>13, <2>1, <2>2, Zenon DEF TypeOK, StopSelf, Halt
  <1>14. ASSUME NEW x \in Threads, Join(x) PROVE TypeOK'
    BY <1>14, Zenon DEF TypeOK, Join
  <1>15. CASE MarkRecord
    BY <1>15, Zenon DEF TypeOK, MarkRecord
  <1>16. CASE UNCHANGED vars
    BY <1>16, Zenon DEF TypeOK, vars
  <1> QED
    BY <1>1, <1>2, <1>3, <1>4, <1>5, <1>6, <1>7, <1>8, <1>9, <1>10, <1>11, <1>12, <1>13, <1>14, <1>15, <1>16, Zenon
    DEF Next, TaskStep, ManagerStep, CallStep, StopStep

(* Every step keeps the life cycle. *)
LEMMA NextLifecycle == TypeOK /\ Lifecycle /\ [Next]_vars => Lifecycle'
  <1> SUFFICES ASSUME TypeOK, Lifecycle, [Next]_vars PROVE Lifecycle'
    OBVIOUS
  <1> USE ManagerAssumption, Named DEF records, mail, moves, life, user, marking, Threads, Registered
  <1>1. ASSUME NEW t \in Tasks, Take(t) PROVE Lifecycle'
    <2>1. inbox[t] \in Seq(AllStates) /\ inbox[t] # <<>>
      BY <1>1, Zenon DEF TypeOK, Take
    <2>2. Head(inbox[t]) \in AllStates
      BY ONLY <2>1, TailFacts, Zenon
    <2> QED
      BY <1>1, <2>2, Zenon DEF TypeOK, Lifecycle, Take
  <1>2. ASSUME NEW t \in Tasks, PublishAck(t) PROVE Lifecycle'
    BY <1>2, Zenon DEF TypeOK, Lifecycle, PublishAck
  <1>3. ASSUME NEW t \in Tasks, RegisterTask(t) PROVE Lifecycle'
    BY <1>3, Zenon DEF TypeOK, Lifecycle, RegisterTask
  <1>4. ASSUME NEW t \in Tasks, MarkDeliver(t) PROVE Lifecycle'
    BY <1>4, Zenon DEF TypeOK, Lifecycle, MarkDeliver
  <1>5. CASE HandleAck
    <2>1. DOMAIN task_states' = DOMAIN task_states
      BY <1>5, Zenon DEF HandleAck, Recorded
    <2>2. phase # "off"
      BY <1>5, Zenon DEF Lifecycle, HandleAck
    <2> QED
      BY <1>5, <2>1, <2>2, Zenon DEF TypeOK, Lifecycle, HandleAck
  <1>6. CASE Notify
    <2>1. pc' = pc \/ \E u \in Users : pc[u] = "wait" /\ pc' = [pc EXCEPT ![u] = "test"]
      BY <1>6, Zenon DEF Notify, Waiting
    <2>2. phase # "off"
      BY <1>6, Zenon DEF Lifecycle, Notify
    <2> QED
      BY <1>6, <2>1, <2>2 DEF TypeOK, Lifecycle, Notify
  <1>7. ASSUME NEW u \in Users, NEW s \in States, Request(u, s) \/ Demand(u, s) PROVE Lifecycle'
    BY <1>7 DEF TypeOK, Lifecycle, Request, Demand, Begin, Goto
  <1>8. ASSUME NEW u \in Users, SetTarget(u) \/ TestTrue(u) \/ TestFalse(u) \/ Block(u) \/ Expired(u)
                                 \/ SpuriousWake(u) \/ Expire(u)
        PROVE  Lifecycle'
    <2>1. UNCHANGED <<task_states, mail, moves, life, thread, want, marking, clean>>
      BY <1>8, Zenon DEF SetTarget, TestTrue, TestFalse, Block, Expired, SpuriousWake, Expire, Return
    <2>2. phase # "off"
      BY <1>8, Zenon DEF Lifecycle, SetTarget, TestTrue, TestFalse, Block, Expired, SpuriousWake, Expire, Return, Goto
    <2>3. /\ pc[u] \notin {"idle", "request", "stopping"}
          /\ \E to \in {"demanded", "test", "block", "wait", "expired",
                        IF u = Main /\ phase = "closing" THEN "stopping" ELSE "idle"} :
               pc' = [pc EXCEPT ![u] = to]
      BY <1>8, Zenon DEF SetTarget, TestTrue, TestFalse, Block, Expired, SpuriousWake, Expire, Return, Goto
    <2> QED
      BY <2>1, <2>2, <2>3 DEF TypeOK, Lifecycle
  <1>9. ASSUME NEW u \in Users, Transition(u) PROVE Lifecycle'
    BY <1>9 DEF TypeOK, Lifecycle, Transition, Goto
  <1>10. CASE Initialize
    <2>1. running' = Threads /\ thread' = [x \in Threads |-> "loop"]
      BY <1>10, Zenon DEF TypeOK, Initialize
    <2> QED
      BY <1>10, <2>1 DEF TypeOK, Lifecycle, Initialize, Begin, Goto
  <1>11. CASE Shutdown
    BY <1>11, Zenon DEF TypeOK, Lifecycle, Shutdown, Begin, Goto
  <1>12. ASSUME NEW t \in Tasks, StopTask(t) PROVE Lifecycle'
    BY <1>12, Zenon DEF TypeOK, Lifecycle, StopTask, Halt
  <1>13. CASE StopSelf
    BY <1>13, Zenon DEF TypeOK, Lifecycle, StopSelf, Halt
  <1>14. ASSUME NEW x \in Threads, Join(x) PROVE Lifecycle'
    BY <1>14 DEF TypeOK, Lifecycle, Join
  <1>15. CASE MarkRecord
    BY <1>15, Zenon DEF TypeOK, Lifecycle, MarkRecord
  <1>16. CASE UNCHANGED vars
    BY <1>16, Zenon DEF TypeOK, Lifecycle, vars
  <1> QED
    BY <1>1, <1>2, <1>3, <1>4, <1>5, <1>6, <1>7, <1>8, <1>9, <1>10, <1>11, <1>12, <1>13, <1>14, <1>15, <1>16, Zenon
    DEF Next, TaskStep, ManagerStep, CallStep, StopStep

(* The last message of a queue stays the last one when the first is taken,    *)
(* and a message that comes becomes the last.                                 *)
LEMMA LastOfTail ==
  ASSUME NEW S, NEW q \in Seq(S), q # <<>>
  PROVE  IF Tail(q) = <<>> THEN q[Len(q)] = Head(q) ELSE Tail(q)[Len(Tail(q))] = q[Len(q)]
  OBVIOUS

LEMMA LastOfAppend ==
  ASSUME NEW S, NEW q \in Seq(S), NEW x \in S
  PROVE  Append(q, x) # <<>> /\ Append(q, x)[Len(Append(q, x))] = x
  OBVIOUS

(* Every step keeps the agreement to come. *)
LEMMA NextConsistent == IInv /\ [Next]_vars => Consistent'
  <1> SUFFICES ASSUME IInv, [Next]_vars PROVE Consistent'
    OBVIOUS
  <1> USE ManagerAssumption, Named DEF records, mail, moves, life, user, marking, Threads, Registered
  <1>0. TypeOK /\ Lifecycle
    BY Zenon DEF IInv
  <1>m. UNCHANGED marked => Marked' = Marked
    BY MarkedChanges, Zenon
  <1>a. ASSUME ~Stopping
        PROVE  (\E s \in AllStates : \A t \in Tasks : EndsIn(t, s)) /\ \A t \in Registered : Reported(t)
    BY <1>a, Zenon DEF IInv, Consistent
  <1>b. ASSUME UNCHANGED <<inbox, state, acks, task_states, ack, marked>>, Stopping => Stopping',
               \A t \in Tasks : thread'[t] = thread[t]
        PROVE  Consistent'
    <2> SUFFICES ASSUME ~Stopping'
                 PROVE  /\ \E s \in AllStates : \A t \in Tasks : EndsIn(t, s)'
                        /\ \A t \in Registered : Reported(t)'
      BY <1>b, Zenon DEF Consistent
    <2>1. \A t \in Tasks, s \in AllStates : EndsIn(t, s) => EndsIn(t, s)'
      BY <1>b, <1>m, Zenon DEF EndsIn
    <2>2. ASSUME NEW t \in Registered, Reported(t) PROVE Reported(t)'
      BY <1>0, <1>b, <1>m, <2>2, Zenon DEF Reported, TypeOK, LastSays
    <2> QED
      BY <1>a, <1>b, <2>1, <2>2, Zenon
  <1>1. ASSUME NEW t \in Tasks, Take(t) PROVE Consistent'
    <2> SUFFICES ASSUME ~Stopping'
                 PROVE  /\ \E s \in AllStates : \A r \in Tasks : EndsIn(r, s)'
                        /\ \A r \in Registered : Reported(r)'
      BY <1>1, Zenon DEF Consistent, Take
    <2>1. Marked' = Marked /\ ~Stopping
      BY <1>1, <1>m, Zenon DEF Take, Stopping
    <2>2. inbox[t] \in Seq(AllStates) /\ inbox[t] # <<>>
      BY <1>0, <1>1, Zenon DEF TypeOK, Take
    <2>3. /\ inbox'[t] = Tail(inbox[t]) /\ state'[t] = Head(inbox[t]) /\ ack'[t] = state'[t]
          /\ thread'[t] = "busy"
          /\ \A r \in Tasks \ {t} : /\ inbox'[r] = inbox[r] /\ state'[r] = state[r]
                                    /\ ack'[r] = ack[r] /\ thread'[r] = thread[r]
          /\ UNCHANGED <<acks, task_states>>
      BY <1>0, <1>1, Zenon DEF TypeOK, Take
    <2>4. IF Tail(inbox[t]) = <<>> THEN inbox[t][Len(inbox[t])] = Head(inbox[t])
          ELSE Tail(inbox[t])[Len(Tail(inbox[t]))] = inbox[t][Len(inbox[t])]
      BY ONLY <2>2, LastOfTail, Zenon
    <2>5. ASSUME NEW s \in AllStates, NEW r \in Tasks, EndsIn(r, s) PROVE EndsIn(r, s)'
      <3>1. CASE r = t
        BY <2>1, <2>2, <2>3, <2>4, <2>5, <3>1, Zenon DEF EndsIn
      <3>2. CASE r # t
        BY <2>1, <2>3, <2>5, <3>2, Zenon DEF EndsIn
      <3> QED
        BY <3>1, <3>2, Zenon
    <2>6. ASSUME NEW r \in Registered, Reported(r) PROVE Reported(r)'
      <3>1. CASE r = t
        BY <2>3, <3>1, Zenon DEF Reported
      <3>2. CASE r # t
        BY <1>0, <2>1, <2>3, <2>6, <3>2, Zenon DEF Reported, TypeOK
      <3> QED
        BY <3>1, <3>2, Zenon
    <2>7. Registered' = Registered
      BY <2>3, Zenon
    <2> QED
      BY <1>a, <2>1, <2>5, <2>6, <2>7, Zenon
  <1>2. ASSUME NEW t \in Tasks, PublishAck(t) PROVE Consistent'
    <2> SUFFICES ASSUME ~Stopping'
                 PROVE  /\ \E s \in AllStates : \A r \in Tasks : EndsIn(r, s)'
                        /\ \A r \in Registered : Reported(r)'
      BY <1>2, Zenon DEF Consistent, PublishAck
    <2>1. Marked' = Marked /\ ~Stopping
      BY <1>2, <1>m, Zenon DEF PublishAck, Stopping
    <2> DEFINE a == [from |-> t, state |-> ack[t]]
    <2>2. a \in [from : Tasks, state : AllStates] /\ acks \in Seq([from : Tasks, state : AllStates])
      BY <1>0, <1>2, Zenon DEF Lifecycle, TypeOK, PublishAck
    <2>3. /\ acks' = Append(acks, a) /\ thread[t] = "busy" /\ thread'[t] = "loop"
          /\ \A r \in Tasks \ {t} : thread'[r] = thread[r] /\ ack'[r] = ack[r]
          /\ UNCHANGED <<inbox, state, task_states>>
      BY <1>0, <1>2, Zenon DEF TypeOK, PublishAck
    <2>4. a.from = t /\ a.state = ack[t]
      OBVIOUS
    <2> HIDE DEF a
    <2>5. ASSUME NEW r \in Registered, Reported(r), inbox[r] = <<>>
          PROVE  IF thread'[r] = "busy" THEN ack'[r] = state[r]
                 ELSE LastSays(acks', task_states[r], Marked[r], r, state[r])
      <3>1. CASE r = t
        <4>1. ack[t] = state[t]
          BY <2>3, <2>5, <3>1, Zenon DEF Reported
        <4>2. LastSays(Append(acks, a), task_states[r], Marked[r], t, a.state)
          BY <2>2, <2>4, LastSaysAppend, Zenon
        <4> QED
          BY <2>3, <2>4, <3>1, <4>1, <4>2, Zenon
      <3>2. CASE r # t
        <4>1. r \in Tasks /\ thread'[r] = thread[r] /\ ack'[r] = ack[r]
          BY <1>0, <2>3, <3>2, Zenon DEF TypeOK
        <4>2. LastSays(acks, task_states[r], Marked[r], r, state[r]) => LastSays(Append(acks, a), task_states[r], Marked[r], r, state[r])
          BY <2>2, <2>4, <3>2, LastSaysAppend, Zenon
        <4> QED
          BY <2>3, <2>5, <4>1, <4>2, Zenon DEF Reported
      <3> QED
        BY <3>1, <3>2, Zenon
    <2>6. \A s \in AllStates, r \in Tasks : EndsIn(r, s) => EndsIn(r, s)'
      BY <2>1, <2>3, Zenon DEF EndsIn
    <2>7. \A r \in Registered : Reported(r) => Reported(r)'
      BY <2>1, <2>3, <2>5, Zenon DEF Reported
    <2>8. Registered' = Registered
      BY <2>3, Zenon
    <2> QED
      BY <1>a, <2>1, <2>6, <2>7, <2>8, Zenon
  <1>3. ASSUME NEW t \in Tasks, RegisterTask(t) PROVE Consistent'
    <2> SUFFICES ASSUME ~Stopping'
                 PROVE  /\ \E s \in AllStates : \A r \in Tasks : EndsIn(r, s)'
                        /\ \A r \in Registered' : Reported(r)'
      BY Zenon DEF Consistent
    <2>1. /\ phase = "off" /\ acks' = <<>> /\ \A r \in Tasks : inbox'[r] = <<>> /\ state'[r] = "NOT_STARTED"
      BY <1>0, <1>3, Zenon DEF RegisterTask, Lifecycle
    <2>2. \A r \in Registered' : r \in Tasks /\ task_states'[r] = "NOT_STARTED" /\ thread'[r] = "off"
      BY <1>0, <1>3, <2>1 DEF RegisterTask, Lifecycle, TypeOK
    <2>3. \A r \in Tasks : EndsIn(r, "NOT_STARTED")'
      BY <2>1, Zenon DEF EndsIn
    <2>4. \A r \in Registered' : Reported(r)'
      BY <2>1, <2>2 DEF Reported, LastSays
    <2> QED
      BY <2>3, <2>4, Zenon
  <1>4. ASSUME NEW t \in Tasks, MarkDeliver(t) PROVE Consistent'
    <2> SUFFICES ASSUME ~Stopping'
                 PROVE  /\ \E s \in AllStates : \A r \in Tasks : EndsIn(r, s)'
                        /\ \A r \in Registered : Reported(r)'
      BY <1>4, Zenon DEF Consistent, MarkDeliver
    <2>1. ~Stopping /\ Marked'[t] = {"ERROR"} /\ \A r \in Tasks \ {t} : Marked'[r] = Marked[r]
      BY <1>4, MarkedChanges, Zenon DEF MarkDeliver, Stopping
    <2>2. inbox[t] \in Seq(AllStates) /\ inbox'[t] = Append(inbox[t], "ERROR")
      BY <1>0, <1>4, Zenon DEF TypeOK, MarkDeliver
    <2>3. inbox'[t] # <<>> /\ inbox'[t][Len(inbox'[t])] = "ERROR"
      BY <2>2, LastOfAppend
    <2>4. (\A r \in Tasks \ {t} : inbox'[r] = inbox[r]) /\ UNCHANGED <<state, acks, task_states, ack, thread>>
      BY <1>0, <1>4, Zenon DEF TypeOK, MarkDeliver
    <2>5. ASSUME NEW s \in AllStates, NEW r \in Tasks, EndsIn(r, s) PROVE EndsIn(r, s)'
      <3>1. CASE r = t
        BY <2>1, <2>3, <3>1, Zenon DEF EndsIn
      <3>2. CASE r # t
        <4>1. inbox'[r] = inbox[r] /\ state'[r] = state[r] /\ Marked'[r] = Marked[r]
          BY <2>1, <2>4, <3>2, Zenon
        <4> QED
          BY <2>5, <4>1, Zenon DEF EndsIn
      <3> QED
        BY <3>1, <3>2, Zenon
    <2>6. ASSUME NEW r \in Registered, Reported(r) PROVE Reported(r)'
      <3>1. CASE r = t
        BY <2>3, <3>1, Zenon DEF Reported
      <3>2. CASE r # t
        <4>1. r \in Tasks \ {t}
          BY <1>0, <3>2, Zenon DEF TypeOK
        <4> QED
          BY <2>1, <2>4, <2>6, <4>1, Zenon DEF Reported, LastSays
      <3> QED
        BY <3>1, <3>2, Zenon
    <2> QED
      BY <1>a, <2>1, <2>5, <2>6, Zenon
  <1>5. ASSUME MarkRecord PROVE Consistent'
    <2> SUFFICES ASSUME ~Stopping'
                 PROVE  /\ \E s \in AllStates : \A r \in Tasks : EndsIn(r, s)'
                        /\ \A r \in Registered : Reported(r)'
      BY <1>5, Zenon DEF Consistent, MarkRecord
    <2>1. ~Stopping /\ Marked' = Marked
      BY <1>5, <1>m, Zenon DEF MarkRecord, Stopping
    <2>2. mark \in Registered /\ "ERROR" \in Marked[mark]
      BY <1>0, <1>5, Zenon DEF MarkRecord, Lifecycle, Marked, TypeOK
    <2>3. /\ UNCHANGED <<inbox, state, acks, ack, thread>>
          /\ \A r \in Registered : task_states'[r] = IF r = mark THEN "ERROR" ELSE task_states[r]
      BY <1>0, <1>5, Zenon DEF TypeOK, MarkRecord
    <2>4. \A s \in AllStates, r \in Tasks : EndsIn(r, s) => EndsIn(r, s)'
      BY <2>1, <2>3, Zenon DEF EndsIn
    <2>5. ASSUME NEW r \in Registered, LastSays(acks, task_states[r], Marked[r], r, state[r])
          PROVE  LastSays(acks, task_states'[r], Marked[r], r, state[r])
      BY <2>2, <2>3, <2>5, Zenon DEF LastSays
    <2>6. ASSUME NEW r \in Registered, Reported(r) PROVE Reported(r)'
      BY <2>1, <2>3, <2>5, <2>6, Zenon DEF Reported
    <2> QED
      BY <1>a, <2>1, <2>4, <2>6, Zenon
  <1>6. ASSUME HandleAck PROVE Consistent'
    <2> SUFFICES ASSUME ~Stopping'
                 PROVE  /\ \E s \in AllStates : \A r \in Tasks : EndsIn(r, s)'
                        /\ \A r \in Registered : Reported(r)'
      BY <1>6, Zenon DEF Consistent, HandleAck, Recorded
    <2>1. Marked' = Marked /\ ~Stopping
      BY <1>6, <1>m, Zenon DEF HandleAck, Stopping
    <2>2. acks \in Seq([from : Tasks, state : AllStates]) /\ acks # <<>>
      BY <1>0, <1>6, Zenon DEF TypeOK, HandleAck
    <2>3. /\ acks' = Tail(acks)
          /\ \A r \in Registered :
               task_states'[r] = IF Head(acks).from = r THEN Head(acks).state ELSE task_states[r]
          /\ \A r \in Tasks : thread'[r] = thread[r]
          /\ UNCHANGED <<inbox, state, ack>>
      BY <1>0, <1>6, Zenon DEF TypeOK, HandleAck, Recorded
    <2>4. ASSUME NEW r \in Registered, LastSays(acks, task_states[r], Marked[r], r, state[r])
          PROVE  LastSays(acks', task_states'[r], Marked[r], r, state[r])
      <3>1. LastSays(Tail(acks), IF Head(acks).from = r THEN Head(acks).state ELSE task_states[r], Marked[r], r, state[r])
        BY ONLY <2>2, <2>4, LastSaysTail, Zenon
      <3> QED
        BY ONLY <2>3, <2>4, <3>1, Zenon
    <2>5. \A s \in AllStates, r \in Tasks : EndsIn(r, s) => EndsIn(r, s)'
      BY <2>1, <2>3, Zenon DEF EndsIn
    <2>6. ASSUME NEW r \in Registered, Reported(r) PROVE Reported(r)'
      BY <1>0, <2>1, <2>3, <2>4, <2>6, Zenon DEF Reported, TypeOK
    <2> QED
      BY <1>a, <2>1, <2>5, <2>6, Zenon
  <1>7. ASSUME NEW s \in AllStates, inbox' = DeliverToAll(s), UNCHANGED task_states PROVE Consistent'
    <2>1. ASSUME NEW t \in Tasks PROVE inbox'[t] # <<>> /\ inbox'[t][Len(inbox'[t])] = s
      <3>1. inbox[t] \in Seq(AllStates) /\ inbox'[t] = Append(inbox[t], s)
        BY <1>0, <1>7, Zenon DEF TypeOK, DeliverToAll
      <3> QED
        BY <3>1, LastOfAppend
    <2>2. \A t \in Tasks : EndsIn(t, s)'
      BY <2>1, Zenon DEF EndsIn
    <2>3. \A t \in Registered' : Reported(t)'
      BY <1>0, <1>7, <2>1, Zenon DEF Reported, TypeOK
    <2> QED
      BY <2>2, <2>3, Zenon DEF Consistent
  <1>8. ASSUME Notify PROVE Consistent'
    <2>1. \A t \in Tasks : thread'[t] = thread[t]
      BY <1>0, <1>8, Zenon DEF TypeOK, Notify
    <2>2. Stopping => Stopping'
      BY <1>0, <1>8 DEF TypeOK, Notify, Stopping, Waiting
    <2> QED
      BY <1>b, <1>8, <2>1, <2>2, Zenon DEF Notify
  <1>9. ASSUME NEW u \in Users, NEW s, Request(u, s) \/ Demand(u, s) PROVE Consistent'
    <2>1. Stopping => Stopping'
      BY <1>0, <1>9, Zenon DEF TypeOK, Request, Demand, Begin, Goto, Stopping
    <2> QED
      BY <1>b, <1>9, <2>1, Zenon DEF Request, Demand
  <1>10. ASSUME NEW u \in Users, CallStep(u) \/ SpuriousWake(u) \/ Expire(u) PROVE Consistent'
    <2>1. CASE Transition(u)
      <3>1. want[u] \in AllStates
        BY <1>0, Zenon DEF TypeOK
      <3> QED
        BY <1>7, <2>1, <3>1, Zenon DEF Transition
    <2>2. CASE ~Transition(u)
      <3>1. Stopping => Stopping'
        BY <1>0, <1>10, <2>2, Zenon DEF TypeOK, CallStep, SetTarget, TestTrue, TestFalse, Block, Expired,
             Return, SpuriousWake, Expire, Goto, Stopping
      <3>2. UNCHANGED <<inbox, state, acks, task_states, ack, thread, marked>>
        BY <1>10, <2>2, Zenon DEF CallStep, SetTarget, TestTrue, TestFalse, Block, Expired, Return, SpuriousWake, Expire
      <3> QED
        BY <1>b, <3>1, <3>2, Zenon
    <2> QED
      BY <2>1, <2>2, Zenon
  <1>11. ASSUME Initialize PROVE Consistent'
    <2> SUFFICES /\ \E s \in AllStates : \A r \in Tasks : EndsIn(r, s)'
                 /\ \A r \in Registered : Reported(r)'
      BY <1>11, Zenon DEF Consistent, Initialize
    <2>1. Marked' = Marked /\ ~Stopping /\ \A r \in Tasks : thread[r] = "off"
      BY <1>0, <1>11, <1>m, Zenon DEF Initialize, Lifecycle, Stopping
    <2>2. \A r \in Tasks : thread'[r] # "busy"
      BY <1>0, <1>11, <2>1, Zenon DEF Initialize, TypeOK
    <2>3. \A s \in AllStates, r \in Tasks : EndsIn(r, s) => EndsIn(r, s)'
      BY <1>11, <2>1, Zenon DEF EndsIn, Initialize
    <2>4. ASSUME NEW r \in Registered, Reported(r) PROVE Reported(r)'
      BY <1>0, <1>11, <2>1, <2>2, <2>4, Zenon DEF Reported, TypeOK, Initialize, LastSays
    <2> QED
      BY <1>a, <2>1, <2>3, <2>4, Zenon
  <1>12. ASSUME Shutdown PROVE Consistent'
    <2>1. Stopping => Stopping'
      BY <1>0, <1>12, Zenon DEF TypeOK, Shutdown, Begin, Goto, Stopping
    <2> QED
      BY <1>b, <1>12, <2>1, Zenon DEF Shutdown
  <1>13. ASSUME StopSelf PROVE Consistent'
    BY <1>7, <1>13, Zenon DEF StopSelf
  <1>14. ASSUME NEW t \in Tasks, StopTask(t) PROVE Consistent'
    <2>1. Stopping'
      BY <1>0, <1>14, Zenon DEF StopTask, Halt, Lifecycle, Stopping
    <2> QED
      BY <2>1 DEF Consistent
  <1>15. ASSUME NEW x \in Threads, Join(x) PROVE Consistent'
    <2> SUFFICES ASSUME ~Stopping'
                 PROVE  /\ \E s \in AllStates : \A r \in Tasks : EndsIn(r, s)'
                        /\ \A r \in Registered : Reported(r)'
      BY <1>15, Zenon DEF Consistent, Join
    <2>1. Marked' = Marked /\ ~Stopping
      BY <1>0, <1>15, <1>m, Zenon DEF TypeOK, Join, Stopping
    <2>2. \A r \in Tasks : thread'[r] = thread[r] \/ (thread'[r] # "busy" /\ thread[r] # "busy")
      BY <1>0, <1>15, Zenon DEF TypeOK, Join
    <2>3. \A s \in AllStates, r \in Tasks : EndsIn(r, s) => EndsIn(r, s)'
      BY <1>15, <2>1, Zenon DEF EndsIn, Join
    <2>4. ASSUME NEW r \in Registered, Reported(r) PROVE Reported(r)'
      BY <1>0, <1>15, <2>1, <2>2, <2>4, Zenon DEF Reported, TypeOK, Join, LastSays
    <2> QED
      BY <1>a, <2>1, <2>3, <2>4, Zenon
  <1>16. ASSUME UNCHANGED vars PROVE Consistent'
    BY <1>b, <1>16, Zenon DEF vars, Stopping
  <1> QED
    BY <1>1, <1>2, <1>3, <1>4, <1>5, <1>6, <1>8, <1>9, <1>10, <1>11, <1>12, <1>13, <1>14, <1>15, <1>16, Zenon
       DEF Next, TaskStep, ManagerStep, StopStep

(* Every step keeps a demand that has the system for itself on its way to     *)
(* what it asked for. To mark a task is one way to disturb it; what an        *)
(* earlier mark has left is not.                                              *)
LEMMA NextAlone == IInv /\ [Next]_vars => \A u \in clean' : Alone(u)'
  <1> SUFFICES ASSUME IInv, [Next]_vars, NEW u \in clean' PROVE Alone(u)'
    OBVIOUS
  <1> USE ManagerAssumption, Named DEF records, mail, moves, life, user, marking, Threads, Registered
  <1>0. TypeOK /\ Lifecycle
    BY Zenon DEF IInv
  <1>m. UNCHANGED marked => Marked' = Marked
    BY MarkedChanges, Zenon
  <1>a. ASSUME u \in clean PROVE u \in Users /\ Alone(u)
    BY <1>0, <1>a, Zenon DEF IInv, TypeOK
  <1>b. ASSUME u \in Users, Alone(u), UNCHANGED <<inbox, state, acks, task_states, want, marked>>,
               \A t \in Tasks : thread'[t] = "busy" => thread[t] = "busy"
        PROVE  Untouched => Untouched'
    BY <1>0, <1>b, <1>m, Zenon DEF Untouched, TypeOK
  <1>c. ASSUME u \in Users, Alone(u), UNCHANGED <<inbox, state, acks, task_states, want, marked>>,
               \A t \in Tasks : thread'[t] = "busy" => thread[t] = "busy"
        PROVE  Under(u) => Under(u)'
    BY <1>0, <1>c, <1>m DEF Under, TypeOK
  <1>1. ASSUME NEW t \in Tasks, Take(t) PROVE Alone(u)'
    <2>1. /\ u \in Users /\ Alone(u) /\ UNCHANGED <<pc, want, answer, acks, task_states>> /\ Marked' = Marked
          /\ t \in Registered /\ inbox[t] \in Seq(AllStates) /\ inbox[t] # <<>>
      BY <1>0, <1>1, <1>a, <1>m, Zenon DEF Take, TypeOK, Lifecycle
    <2>2. /\ inbox'[t] = Tail(inbox[t]) /\ state'[t] = Head(inbox[t])
          /\ \A r \in Tasks \ {t} : inbox'[r] = inbox[r] /\ state'[r] = state[r] /\ thread'[r] = thread[r]
      BY <1>0, <1>1, Zenon DEF TypeOK, Take
    <2>3. Under(u)
      BY <2>1, Zenon DEF Alone, Untouched
    <2>4. /\ Len(inbox[t]) \in Nat \ {0} /\ Len(Tail(inbox[t])) = Len(inbox[t]) - 1
          /\ \A i \in 1 .. Len(inbox[t]) - 1 : Tail(inbox[t])[i] = inbox[t][i + 1]
          /\ Head(inbox[t]) = inbox[t][1]
      BY ONLY <2>1, TailFacts, Zenon
    <2>5. \A i \in 1 .. Len(inbox[t]) : inbox[t][i] = want[u]
      BY <2>1, <2>3, Zenon DEF Under
    <2>6. state'[t] = want[u] /\ \A i \in 1 .. Len(inbox'[t]) : inbox'[t][i] = want[u]
      <3>1. inbox[t][1] = want[u] /\ \A i \in 1 .. Len(inbox[t]) - 1 : inbox[t][i + 1] = want[u]
        BY ONLY <2>4, <2>5
      <3> QED
        BY ONLY <2>2, <2>4, <3>1
    <2>7. Under(u)'
      <3> SUFFICES ASSUME NEW r \in Registered
                   PROVE  /\ \A i \in 1 .. Len(inbox'[r]) : inbox'[r][i] = want[u]
                          /\ \/ state'[r] = want[u]
                             \/ /\ thread'[r] # "busy" /\ task_states[r] \in {state'[r]} \cup Marked[r]
                                /\ \A i \in 1 .. Len(acks) : acks[i].from # r
        BY <2>1, Zenon DEF Under
      <3>1. CASE r = t
        BY <2>6, <3>1, Zenon
      <3>2. CASE r # t
        BY <1>0, <2>2, <2>3, <3>2 DEF Under, TypeOK
      <3> QED
        BY <3>1, <3>2, Zenon
    <2>8. Arrived(u) => Arrived(u)'
      BY <1>0, <2>1, <2>2, <2>6, Zenon DEF TypeOK, Arrived
    <2>9. ~Untouched
      BY ONLY <2>1, Zenon DEF Untouched
    <2> QED
      BY <2>1, <2>7, <2>8, <2>9, Zenon DEF Alone
  <1>2. ASSUME NEW t \in Tasks, PublishAck(t) PROVE Alone(u)'
    <2>1. /\ u \in Users /\ Alone(u) /\ UNCHANGED <<pc, want, answer, inbox, state, task_states>>
          /\ Marked' = Marked
          /\ t \in Registered /\ thread[t] = "busy"
          /\ \A r \in Tasks \ {t} : thread'[r] = thread[r]
      BY <1>0, <1>2, <1>a, <1>m, Zenon DEF PublishAck, TypeOK, Lifecycle
    <2> DEFINE a == [from |-> t, state |-> ack[t]]
    <2>2. a \in [from : Tasks, state : AllStates] /\ acks \in Seq([from : Tasks, state : AllStates])
      BY <1>0, <1>2, Zenon DEF Lifecycle, TypeOK, PublishAck
    <2>3. acks' = Append(acks, a) /\ a.from = t
      BY <1>2, Zenon DEF PublishAck
    <2> HIDE DEF a
    <2>4. ~Untouched /\ Under(u)
      BY <2>1, Zenon DEF Alone, Untouched
    <2>5. /\ Len(acks') = Len(acks) + 1 /\ Len(acks) \in Nat /\ acks'[Len(acks) + 1].from = t
          /\ \A i \in 1 .. Len(acks) : acks'[i] = acks[i]
      BY ONLY <2>2, <2>3, AppendFacts
    <2>6. ASSUME NEW r \in Tasks \ {t}, \A i \in 1 .. Len(acks) : acks[i].from # r
          PROVE  \A i \in 1 .. Len(acks') : acks'[i].from # r
      BY ONLY <2>5, <2>6
    <2>7. state[t] = want[u]
      BY <2>1, <2>4, Zenon DEF Under
    <2>8. Under(u)'
      <3> SUFFICES ASSUME NEW r \in Registered
                   PROVE  /\ \A i \in 1 .. Len(inbox[r]) : inbox[r][i] = want[u]
                          /\ \/ state[r] = want[u]
                             \/ /\ thread'[r] # "busy" /\ task_states[r] \in {state[r]} \cup Marked[r]
                                /\ \A i \in 1 .. Len(acks') : acks'[i].from # r
        BY <2>1, Zenon DEF Under
      <3>1. CASE r = t
        BY <2>4, <2>7, <3>1, Zenon DEF Under
      <3>2. CASE r # t
        <4>1. r \in Tasks \ {t}
          BY <1>0, <3>2, Zenon DEF TypeOK
        <4> QED
          BY <2>1, <2>4, <2>6, <4>1, Zenon DEF Under
      <3> QED
        BY <3>1, <3>2
    <2> QED
      BY <2>1, <2>4, <2>8, Zenon DEF Alone, Arrived
  <1>3. ASSUME HandleAck PROVE Alone(u)'
    <2>1. /\ u \in Users /\ Alone(u) /\ UNCHANGED <<pc, want, answer, inbox, state>> /\ Marked' = Marked
          /\ acks # <<>> /\ acks' = Tail(acks) /\ acks \in Seq([from : Tasks, state : AllStates])
          /\ \A r \in Tasks : thread'[r] = thread[r]
          /\ Registered' = Registered
          /\ \A r \in Registered : Head(acks).from # r => task_states'[r] = task_states[r]
      BY <1>0, <1>3, <1>a, <1>m, Zenon DEF HandleAck, TypeOK, Recorded
    <2>2. ~Untouched /\ Under(u)
      BY <2>1, Zenon DEF Alone, Untouched
    <2>3. /\ Len(acks) \in Nat \ {0} /\ Len(acks') = Len(acks) - 1
          /\ \A i \in 1 .. Len(acks) - 1 : acks'[i] = acks[i + 1]
          /\ Head(acks) = acks[1]
      BY ONLY <2>1, TailFacts, Zenon
    <2>4. ASSUME NEW r \in Tasks, \A i \in 1 .. Len(acks) : acks[i].from # r
          PROVE  Head(acks).from # r /\ \A i \in 1 .. Len(acks') : acks'[i].from # r
      BY ONLY <2>3, <2>4
    <2>5. Under(u)'
      <3> SUFFICES ASSUME NEW r \in Registered'
                   PROVE  /\ \A i \in 1 .. Len(inbox'[r]) : inbox'[r][i] = want'[u]
                          /\ \/ state'[r] = want'[u]
                             \/ /\ thread'[r] # "busy" /\ task_states'[r] \in {state'[r]} \cup Marked'[r]
                                /\ \A i \in 1 .. Len(acks') : acks'[i].from # r
        BY Zenon DEF Under
      <3>1. r \in Registered /\ r \in Tasks
        BY ONLY <1>0, <2>1, r \in Registered' DEF TypeOK, Registered
      <3>2. /\ \A i \in 1 .. Len(inbox[r]) : inbox[r][i] = want[u]
            /\ \/ state[r] = want[u]
               \/ /\ thread[r] # "busy" /\ task_states[r] \in {state[r]} \cup Marked[r]
                  /\ \A i \in 1 .. Len(acks) : acks[i].from # r
        BY <2>2, <3>1, Zenon DEF Under
      <3>3. CASE state[r] = want[u]
        BY <2>1, <3>2, <3>3, Zenon
      <3>4. CASE state[r] # want[u]
        <4>1. Head(acks).from # r /\ \A i \in 1 .. Len(acks') : acks'[i].from # r
          BY <2>4, <3>1, <3>2, <3>4, Zenon
        <4> QED
          BY <2>1, <3>1, <3>2, <3>4, <4>1, Zenon
      <3> QED
        BY <3>3, <3>4, Zenon
    <2> QED
      BY <2>1, <2>2, <2>5, Zenon DEF Alone, Arrived
  <1>4. ASSUME NEW v \in Users, NEW first, NEW s, Begin(v, first, s),
               UNCHANGED <<inbox, state, acks, task_states, marked>>, phase = "off" \/ Registered = Tasks,
               \A t \in Tasks : thread'[t] = "busy" => thread[t] = "busy"
        PROVE  Alone(u)'
    <2>1. u = v /\ Quiet /\ first = "demand" /\ pc' = [pc EXCEPT ![u] = "demand"]
      BY <1>4, Zenon DEF Begin, Goto
    <2>2. pc'[u] = "demand" /\ \A w \in Users \ {u} : pc'[w] = "idle"
      BY <1>0, <1>4, <2>1 DEF TypeOK, Quiet
    <2>3. ~Stopping
      BY <2>1, Zenon DEF Quiet, Stopping
    <2>4. acks = <<>> /\ \A t \in Registered : t \in Tasks /\ inbox[t] = <<>> /\ thread[t] # "busy"
      BY <1>0, <2>1, Zenon DEF Quiet, TypeOK
    <2>5. \A t \in Registered : Reported(t)
      BY <1>4, <2>3, Zenon DEF IInv, Consistent
    <2>6. \A t \in Registered : task_states[t] \in {state[t]} \cup Marked[t]
      BY <2>4, <2>5, LastSaysEmpty, Zenon DEF Reported
    <2>7. Untouched'
      BY <1>4, <1>m, <2>4, <2>6, Zenon DEF Untouched
    <2> QED
      BY <2>2, <2>7, Zenon DEF Alone
  <1>5. ASSUME NEW v \in Users, NEW s, Request(v, s) \/ Demand(v, s) PROVE Alone(u)'
    <2>1. PICK first : Begin(v, first, s)
      BY <1>5, Zenon DEF Request, Demand
    <2>2. UNCHANGED <<inbox, state, acks, task_states, marked, thread>> /\ Registered = Tasks
      BY <1>0, <1>5 DEF Request, Demand, Lifecycle
    <2> QED
      BY <1>4, <2>1, <2>2, Zenon
  <1>6. ASSUME Shutdown PROVE Alone(u)'
    BY <1>0, <1>4, <1>6, Zenon DEF Shutdown, Lifecycle
  <1>7. ASSUME Initialize PROVE Alone(u)'
    <2>1. \A t \in Tasks : thread'[t] # "busy"
      BY <1>0, <1>7, Zenon DEF Initialize, Lifecycle, TypeOK
    <2> QED
      BY <1>4, <1>7, <2>1, Zenon DEF Initialize
  <1>8. ASSUME NEW v \in Users, pc[v] # "idle", u \in clean PROVE u = v
    BY <1>8, <1>a, Zenon DEF Alone
  <1>9. ASSUME NEW v \in Users, NEW from, NEW to, Goto(v, from, to), from # "idle", to # "request",
               UNCHANGED <<inbox, state, acks, task_states, want, clean, marked>>,
               \A t \in Tasks : thread'[t] = "busy" => thread[t] = "busy",
               from \in {"demand", "demanded"} <=> to \in {"demand", "demanded"},
               to \in {"idle", "stopping"} /\ answer'[v] => Arrived(v)
        PROVE  Alone(u)'
    <2>1. u = v /\ Alone(u) /\ pc[u] = from
      BY <1>8, <1>9, <1>a, Zenon DEF Goto
    <2>2. pc'[u] = to /\ \A w \in Users \ {u} : pc'[w] = "idle"
      BY <1>0, <1>9, <2>1 DEF TypeOK, Goto, Alone
    <2>3. IF to \in {"demand", "demanded"} THEN Untouched' ELSE Under(u)'
      BY <1>9, <1>b, <1>c, <2>1, Zenon DEF Alone
    <2>4. to \in {"idle", "stopping"} /\ answer'[u] => Arrived(u)'
      BY <1>9, <1>m, <2>1, Zenon DEF Arrived
    <2> QED
      BY <1>9, <2>2, <2>3, <2>4 DEF Alone
  <1>10. ASSUME NEW v \in Users, TestTrue(v) \/ Expired(v) PROVE Alone(u)'
    <2> DEFINE to == IF v = Main /\ phase = "closing" THEN "stopping" ELSE "idle"
    <2>1. \E from \in {"test", "expired"} : Goto(v, from, to)
      BY <1>10, Zenon DEF TestTrue, Expired, Return
    <2>2. u = v /\ Under(u)
      BY <1>8, <1>10, <1>a, <2>1, Zenon DEF TestTrue, Expired, Return, Goto, Alone
    <2>3. answer'[u] => all_tasks_in_state(want[u])
      BY <1>0, <1>10, <2>2, Zenon DEF TestTrue, Expired, Return, TypeOK
    <2>4. answer'[u] => Arrived(u)
      BY <2>2, <2>3, Zenon DEF Under, Arrived, all_tasks_in_state
    <2>5. to \in {"idle", "stopping"}
      OBVIOUS
    <2>6. UNCHANGED <<inbox, state, acks, task_states, want, clean, marked, thread>>
      BY <1>10, Zenon DEF TestTrue, Expired, Return
    <2> HIDE DEF to
    <2> QED
      BY <1>9, <2>1, <2>2, <2>4, <2>5, <2>6, Zenon
  <1>11. ASSUME NEW v \in Users,
                SetTarget(v) \/ TestFalse(v) \/ Block(v) \/ SpuriousWake(v) \/ Expire(v)
         PROVE  Alone(u)'
    BY <1>9, <1>11, Zenon DEF SetTarget, TestFalse, Block, SpuriousWake, Expire
  <1>12. ASSUME Notify PROVE Alone(u)'
    <2>1. \A t \in Tasks : thread'[t] = thread[t]
      BY <1>0, <1>12, Zenon DEF TypeOK, Notify
    <2>0. u \in clean
      BY <1>12, Zenon DEF Notify
    <2>2. u \in Users /\ Alone(u)
      BY <1>a, <2>0, Zenon
    <2>3. CASE UNCHANGED pc
      BY <1>12, <1>b, <1>c, <1>m, <2>1, <2>2, <2>3, Zenon DEF Notify, Alone, Arrived
    <2>4. CASE \E v \in Waiting : pc' = [pc EXCEPT ![v] = "test"]
      BY <1>9, <1>12, <2>1, <2>4, ZenonT(30) DEF Notify, Waiting, Goto
    <2> QED
      BY <1>12, <2>3, <2>4, Zenon DEF Notify
  <1>13. ASSUME NEW s \in AllStates, inbox' = DeliverToAll(s), NEW t \in Tasks
         PROVE  /\ Len(inbox'[t]) = Len(inbox[t]) + 1 /\ Len(inbox[t]) \in Nat
                /\ \A i \in 1 .. Len(inbox[t]) : inbox'[t][i] = inbox[t][i]
                /\ inbox'[t][Len(inbox[t]) + 1] = s
    <2>1. inbox[t] \in Seq(AllStates) /\ inbox'[t] = Append(inbox[t], s)
      BY <1>0, <1>13, Zenon DEF TypeOK, DeliverToAll
    <2> QED
      BY <2>1, AppendFacts
  <1>14. ASSUME NEW v \in Users, Transition(v) PROVE Alone(u)'
    <2>0. u \in clean /\ pc[v] # "idle"
      BY <1>14, Zenon DEF Transition, Goto
    <2>a. u = v /\ Alone(u)
      BY <1>8, <1>a, <2>0, Zenon
    <2>b. pc[u] # "request"
      BY <2>a, Zenon DEF Alone
    <2>1. u = v /\ Alone(u) /\ pc[u] = "demanded" /\ pc' = [pc EXCEPT ![u] = "test"]
      BY <1>14, <2>a, <2>b, Zenon DEF Transition, Goto
    <2>2. Untouched /\ want[u] \in AllStates /\ inbox' = DeliverToAll(want[u])
      BY <1>0, <1>14, <2>1, Zenon DEF Alone, Transition, TypeOK
    <2>3. \A t \in Registered : \A i \in 1 .. Len(inbox'[t]) : inbox'[t][i] = want[u]
      <3> SUFFICES ASSUME NEW t \in Registered PROVE \A i \in 1 .. Len(inbox'[t]) : inbox'[t][i] = want[u]
        OBVIOUS
      <3>1. inbox[t] = <<>> /\ t \in Tasks
        BY <1>0, <2>2, Zenon DEF Untouched, TypeOK
      <3> QED
        BY <1>13, <2>2, <3>1
    <2>4. Under(u)'
      BY <1>14, <1>m, <2>2, <2>3 DEF Under, Untouched, Transition
    <2>5. pc'[u] = "test" /\ \A w \in Users \ {u} : pc'[w] = "idle"
      BY <1>0, <2>1 DEF TypeOK, Alone
    <2> QED
      BY <2>4, <2>5, Zenon DEF Alone
  <1>15. ASSUME NEW t \in Tasks, StopTask(t) PROVE Alone(u)'
    <2>1. /\ u = Main /\ Alone(u) /\ Under(u) /\ want[u] = "STOPPED"
          /\ UNCHANGED <<pc, want, answer, inbox, task_states, thread>> /\ Marked' = Marked
      <3>1. /\ u \in clean /\ pc[Main] = "stopping"
            /\ UNCHANGED <<pc, want, answer, inbox, task_states, thread, marked>>
        BY <1>15, Zenon DEF StopTask
      <3>2. u = Main /\ Alone(u)
        BY <1>0, <1>8, <1>a, <3>1, Zenon
      <3>3. Under(u) /\ want[u] = "STOPPED"
        BY <1>0, <3>1, <3>2, Zenon DEF Lifecycle, Alone
      <3> QED
        BY <1>m, <3>1, <3>2, <3>3, Zenon
    <2>2. state'[t] = "STOPPED" /\ \A r \in Tasks \ {t} : state'[r] = state[r]
      BY <1>0, <1>15, Zenon DEF StopTask, TypeOK
    <2> DEFINE a == [from |-> t, state |-> "STOPPED"]
    <2>3. a \in [from : Tasks, state : AllStates] /\ acks \in Seq([from : Tasks, state : AllStates])
      BY <1>0, Zenon DEF TypeOK
    <2>4. acks' = Append(acks, a) /\ a.from = t
      BY <1>15, Zenon DEF StopTask
    <2> HIDE DEF a
    <2>5. /\ Len(acks') = Len(acks) + 1 /\ Len(acks) \in Nat /\ acks'[Len(acks) + 1].from = t
          /\ \A i \in 1 .. Len(acks) : acks'[i] = acks[i]
      BY ONLY <2>3, <2>4, AppendFacts
    <2>6. ASSUME NEW r \in Tasks \ {t}, \A i \in 1 .. Len(acks) : acks[i].from # r
          PROVE  \A i \in 1 .. Len(acks') : acks'[i].from # r
      BY ONLY <2>5, <2>6
    <2>7. Under(u)'
      <3> SUFFICES ASSUME NEW r \in Registered
                   PROVE  /\ \A i \in 1 .. Len(inbox[r]) : inbox[r][i] = want[u]
                          /\ \/ state'[r] = want[u]
                             \/ /\ thread[r] # "busy" /\ task_states[r] \in {state'[r]} \cup Marked[r]
                                /\ \A i \in 1 .. Len(acks') : acks'[i].from # r
        BY <2>1, Zenon DEF Under
      <3>1. CASE r = t
        BY <2>1, <2>2, <3>1, Zenon DEF Under
      <3>2. CASE r # t
        <4>1. r \in Tasks \ {t}
          BY <1>0, <3>2, Zenon DEF TypeOK
        <4> QED
          BY <2>1, <2>2, <2>6, <4>1, Zenon DEF Under
      <3> QED
        BY <3>1, <3>2, Zenon
    <2>8. Arrived(u) => Arrived(u)'
      BY <1>0, <2>1, <2>2, Zenon DEF TypeOK, Arrived
    <2> QED
      BY <1>15, <2>1, <2>7, <2>8, Zenon DEF Alone, StopTask
  <1>16. ASSUME StopSelf PROVE Alone(u)'
    <2>1. /\ u = Main /\ Alone(u) /\ Under(u) /\ want[u] = "STOPPED"
          /\ UNCHANGED <<pc, want, answer, state, acks, task_states, thread>> /\ Marked' = Marked
      <3>1. /\ u \in clean /\ pc[Main] = "stopping"
            /\ UNCHANGED <<pc, want, answer, state, acks, task_states, thread, marked>>
        BY <1>16, Zenon DEF StopSelf
      <3>2. u = Main /\ Alone(u)
        BY <1>0, <1>8, <1>a, <3>1
      <3>3. Under(u) /\ want[u] = "STOPPED"
        BY <1>0, <3>1, <3>2, Zenon DEF Lifecycle, Alone
      <3> QED
        BY <1>m, <3>1, <3>2, <3>3, Zenon
    <2>2. \A t \in Registered : \A i \in 1 .. Len(inbox'[t]) : inbox'[t][i] = want[u]
      <3> SUFFICES ASSUME NEW t \in Registered, NEW i \in 1 .. Len(inbox'[t]) PROVE inbox'[t][i] = want[u]
        OBVIOUS
      <3>1. t \in Tasks /\ \A k \in 1 .. Len(inbox[t]) : inbox[t][k] = want[u]
        BY <1>0, <2>1, Zenon DEF Under, TypeOK
      <3>2. /\ Len(inbox'[t]) = Len(inbox[t]) + 1 /\ Len(inbox[t]) \in Nat
            /\ \A k \in 1 .. Len(inbox[t]) : inbox'[t][k] = inbox[t][k]
            /\ inbox'[t][Len(inbox[t]) + 1] = want[u]
        BY <1>13, <1>16, <2>1, <3>1, Zenon DEF StopSelf
      <3> QED
        BY ONLY <3>1, <3>2, SMTT(20)
    <2>3. Under(u)'
      BY <2>1, <2>2, Zenon DEF Under
    <2> QED
      BY <1>16, <2>1, <2>3, Zenon DEF Alone, Arrived, StopSelf
  <1>17. ASSUME NEW x \in Threads, Join(x) PROVE Alone(u)'
    <2>1. u = Main /\ Alone(u) /\ Under(u) /\ pc[u] = "stopping" /\ Marked' = Marked
      BY <1>8, <1>17, <1>a, <1>m, Zenon DEF Join, Alone
    <2>2. \A t \in Tasks : thread'[t] = "busy" => thread[t] = "busy"
      BY <1>0, <1>17, Zenon DEF Join, TypeOK
    <2>3. Under(u)'
      BY <1>17, <1>c, <2>1, <2>2, Zenon DEF Join
    <2>4. pc'[u] \in {"idle", "stopping"} /\ \A w \in Users \ {u} : pc'[w] = "idle"
      BY <1>0, <1>17, <2>1, Zenon DEF Join, TypeOK, Alone
    <2> QED
      BY <1>17, <2>1, <2>3, <2>4, Zenon DEF Join, Alone, Arrived
  <1>18. ASSUME NEW t \in Tasks, RegisterTask(t) \/ MarkDeliver(t) PROVE FALSE
    BY <1>0, <1>18 DEF RegisterTask, MarkDeliver, Lifecycle
  <1>19. ASSUME MarkRecord PROVE Alone(u)'
    <2>1. u \in Users /\ Alone(u) /\ UNCHANGED <<pc, want, answer, inbox, state, acks, thread>> /\ Marked' = Marked
      BY <1>19, <1>a, <1>m, Zenon DEF MarkRecord
    <2>2. mark \in Registered /\ "ERROR" \in Marked[mark]
      BY <1>0, <1>19, Zenon DEF MarkRecord, Lifecycle, Marked, TypeOK
    <2>3. /\ Registered' = Registered
          /\ \A r \in Registered : task_states'[r] = IF r = mark THEN "ERROR" ELSE task_states[r]
      BY <1>0, <1>19, Zenon DEF TypeOK, MarkRecord
    <2>4. (Untouched => Untouched') /\ (Under(u) => Under(u)')
      BY <2>1, <2>2, <2>3, Zenon DEF Untouched, Under
    <2> QED
      BY <2>1, <2>3, <2>4, Zenon DEF Alone, Arrived
  <1>20. ASSUME UNCHANGED vars PROVE Alone(u)'
    BY <1>20, <1>a, <1>b, <1>c, <1>m, Zenon DEF vars, Alone, Arrived
  <1> QED
    BY <1>1, <1>2, <1>3, <1>5, <1>6, <1>7, <1>10, <1>11, <1>12, <1>14, <1>15, <1>16, <1>17, <1>18, <1>19, <1>20, Zenon
       DEF Next, TaskStep, ManagerStep, StopStep, CallStep

LEMMA InitIInv == Init => IInv
  <1> SUFFICES ASSUME Init PROVE IInv
    OBVIOUS
  <1> USE ManagerAssumption, Named DEF Threads, Registered
  <1>1. TypeOK
    BY DEF Init, TypeOK
  <1>2. Lifecycle
    BY Zenon DEF Init, Lifecycle
  <1>3. Consistent
    BY Zenon DEF Init, Consistent, EndsIn
  <1>4. clean = {}
    BY Zenon DEF Init
  <1> QED
    BY <1>1, <1>2, <1>3, <1>4, Zenon DEF IInv

(* What the manager's records, the tasks' states and the messages between     *)
(* them have to do with each other, at every point of every call.             *)
THEOREM Invariance == Spec => []IInv
  <1>1. ASSUME IInv, [Next]_vars PROVE IInv'
    <2>1. TypeOK' /\ Lifecycle'
      BY <1>1, NextTypeOK, NextLifecycle, Zenon DEF IInv
    <2>2. Consistent' /\ \A u \in clean' : Alone(u)'
      BY <1>1, NextConsistent, NextAlone, Zenon
    <2> QED
      BY <2>1, <2>2, Zenon DEF IInv
  <1> QED
    BY <1>1, InitIInv, PTL DEF Spec

(* Type correctness, with the window of a stopped task's thread. *)
THEOREM TypeCorrect == Spec => []TypeOK
  BY Invariance, PTL DEF IInv

(* Once nothing is on its way any more, all tasks are in one state and the    *)
(* records say so, whatever was asked for concurrently and however often the  *)
(* manager was shut down and initialized before; ERROR, of a task or in a     *)
(* record, is the only exception, and only once some task was marked.         *)
THEOREM AgreementCorrect == Spec => []Agreement
  <1>1. ASSUME IInv PROVE Agreement
    <2> SUFFICES ASSUME Quiet, phase = "up"
                 PROVE  \E s \in AllStates : \A t \in Registered :
                          state[t] \in {s} \cup Marked[t] /\ task_states[t] \in {state[t]} \cup Marked[t]
      BY Zenon DEF Agreement
    <2>1. TypeOK /\ ~Stopping /\ Consistent
      BY <1>1, ManagerAssumption, Zenon DEF IInv, Stopping, Quiet
    <2>2. PICK s \in AllStates : \A t \in Tasks : EndsIn(t, s)
      BY <2>1, Zenon DEF Consistent
    <2>3. ASSUME NEW t \in Registered
          PROVE  state[t] \in {s} \cup Marked[t] /\ task_states[t] \in {state[t]} \cup Marked[t]
      <3>1. t \in Tasks /\ inbox[t] = <<>> /\ thread[t] # "busy" /\ acks = <<>> /\ Reported(t)
        BY <2>1, <2>3, Zenon DEF Quiet, TypeOK, Consistent
      <3>2. state[t] \in {s} \cup Marked[t]
        BY <2>2, <3>1, Zenon DEF EndsIn
      <3>3. task_states[t] \in {state[t]} \cup Marked[t]
        BY <3>1, LastSaysEmpty, Zenon DEF Reported
      <3> QED
        BY <3>2, <3>3, Zenon
    <2> QED
      BY <2>3, Zenon
  <1> QED
    BY <1>1, Invariance, PTL

(* A demand that finds the system quiet and has it for itself answers true    *)
(* only if every task is in the state demanded, whatever record an earlier    *)
(* mark has left (unless it is ERROR that is demanded).                       *)
THEOREM CleanDemandSoundCorrect == Spec => []CleanDemandSound
  <1>1. ASSUME IInv PROVE CleanDemandSound
    BY <1>1, Zenon DEF IInv, CleanDemandSound, Alone, Arrived
  <1> QED
    BY <1>1, Invariance, PTL
================================================================================
