------------------------------ MODULE TaskProofs ------------------------------
(* StopJoins, AtMostOneLateRound and KeepsPromise of Task, for any set of     *)
(* states, any queue size, with and without a periodic thread, and however    *)
(* often the task is restarted. All need the same strengthening: which        *)
(* threads may exist, what running is, and which message is in the worker's   *)
(* hand, at each place of start(), stop() and run().                          *)
EXTENDS Task, SelectionProofs

(* Where the three actors can be, and what the controller's place says about  *)
(* the threads: start() finds none, stop() clears running before it joins,    *)
(* and the queue thread is joined first.                                      *)
Control ==
  /\ pc["ctl"] \in {"idle", "start_queue", "start_periodic", "set", "build", "publish",
                    "notify", "join_queue", "join_periodic"}
  /\ pc["ctl"] \in {"start_queue", "start_periodic"} => running
  /\ pc["ctl"] \notin {"idle", "start_queue", "start_periodic"} => ~running
  /\ pc["ctl"] = "start_queue" => pc["worker"] = "none" /\ pc["periodic"] = "none"
  /\ pc["ctl"] = "join_periodic" => pc["worker"] = "none"

(* A thread that has spent its late round is not about to begin another. *)
Spent == ~running => \A who \in Loops : late[who] = 0 \/ pc[who] # "round"

(* process_message has the kind of message it was called for, and it is gone  *)
(* when process_message has returned; and each mover has built what it is     *)
(* about to publish: no null pointer is followed.                             *)
Holding ==
  /\ pc["worker"] \in {"set", "build", "publish"} => taken \in Commands
  /\ pc["worker"] = "answer" => taken \in Beats
  /\ pc["worker"] \notin {"set", "build", "publish", "answer"} => taken = NoMsg
  /\ \A who \in Movers : pc[who] = "publish" => ack[who] # NoMsg

IInv ==
  /\ TypeOK
  /\ AtMostOneLateRound
  /\ Alive => Control /\ StopJoins /\ Spent /\ Holding

(* What a message says of itself. *)
LEMMA MsgFacts ==
  ASSUME NEW sender, NEW alternative, NEW payload
  PROVE  /\ Msg(sender, alternative, payload).type = alternative
         /\ Msg(sender, alternative, payload).data = payload
         /\ get_data_as(Msg(sender, alternative, payload), alternative) = payload
  BY Zenon DEF Msg, get_data_as

(* The two kinds of messages are told apart by their type. *)
LEMMA Kinds ==
  ASSUME NEW m \in Commands \cup Beats
  PROVE  /\ m.type = "StateMsg" => m \in Commands
         /\ m.type # "StateMsg" => m \in Beats
         /\ m \in Commands => get_data_as(m, "StateMsg") \in States
         /\ m \in Beats => get_data_as(m, "HeartbeatMsg") \in 1 .. MaxMessages
         /\ m # NoMsg
  <1>1. ASSUME m \in Commands PROVE m.type = "StateMsg" /\ get_data_as(m, "StateMsg") \in States
    BY <1>1, MsgFacts DEF Commands
  <1>2. ASSUME m \in Beats
        PROVE  m.type = "HeartbeatMsg" /\ get_data_as(m, "HeartbeatMsg") \in 1 .. MaxMessages
    BY <1>2, MsgFacts DEF Beats
  <1> QED
    BY <1>1, <1>2 DEF NoMsg

(* The constructor leaves a task that is not running and has no thread. *)
LEMMA InitIInv == Init => IInv
  <1> SUFFICES ASSUME Init PROVE IInv
    OBVIOUS
  <1>1. TypeOK
    <2>1. queue \in Seq(Commands \cup Beats) /\ Len(queue) <= QueueSize
      BY TaskAssumption DEF Init
    <2>2. pc \in [Movers \cup Loops -> {"idle", "none"}]
      BY Zenon DEF Init
    <2>3. delivered \in 0 .. MaxMessages /\ starts \in 0 .. MaxStarts /\ late \in [Loops -> Nat]
      BY TaskAssumption DEF Init
    <2> QED
      BY <2>1, <2>2, <2>3, Zenon DEF Init, TypeOK, AllStates, Movers
  <1>2. AtMostOneLateRound /\ Control /\ StopJoins /\ Spent /\ Holding
    BY DEF Init, AtMostOneLateRound, Control, StopJoins, Spent, Holding, Movers, Loops
  <1> QED
    BY <1>1, <1>2, Zenon DEF IInv

(* What the HeartBeatTask delivers is one of the beats. *)
LEMMA Delivery ==
  ASSUME TypeOK, NEW m, Deliver(m), m = Msg("HeartBeatTask", "HeartbeatMsg", delivered + 1)
  PROVE  m \in Beats
  <1>1. delivered + 1 \in 1 .. MaxMessages
    BY TaskAssumption DEF TypeOK, Deliver
  <1> QED
    BY <1>1, Zenon DEF Beats

(* Every step keeps the types. The queue is as long as its pool allows, since *)
(* Deliver appends only below QueueSize.                                      *)
LEMMA NextTypeOK == IInv /\ [Next]_vars => TypeOK'
  <1> SUFFICES ASSUME IInv, [Next]_vars PROVE TypeOK'
    OBVIOUS
  <1> USE TaskAssumption
  <1> USE DEF IInv, TypeOK, AllStates, Movers, Loops, Goto, mail, states
  <1>1. ASSUME NEW who \in Movers, Transition(who) PROVE TypeOK'
    <2>1. CASE SetState(who)
      <3>1. who = "worker" => taken \in Commands
        BY <2>1, Zenon DEF SetState, Holding
      <3>2. current_state' \in AllStates
        BY <2>1, <3>1, Kinds, Zenon DEF SetState
      <3> QED
        BY <2>1, <3>2, Zenon DEF SetState
    <2>2. CASE BuildAck(who)
      BY <2>2 DEF BuildAck
    <2>3. CASE PublishAck(who)
      <3>1. PICK st \in AllStates : ack[who] = Msg("this", "StateAckMsg", st)
        BY <2>3 DEF PublishAck, Holding
      <3>2. ack[who].type = "StateAckMsg" /\ ack[who].data = st
        BY <3>1, MsgFacts
      <3>3. published' \in [StateAckMsg : AllStates, HeartbeatAckMsg : 0 .. MaxMessages]
        BY <2>3, <3>2, Zenon DEF PublishAck, Publish
      <3> QED
        BY <2>3, <3>3, Zenon DEF PublishAck
    <2> QED
      BY <1>1, <2>1, <2>2, <2>3, Zenon DEF Transition
  <1>2. CASE Start
    BY <1>2 DEF Start
  <1>3. CASE Stop
    BY <1>3, Zenon DEF Stop
  <1>4. CASE Destroy
    BY <1>4, Zenon DEF Destroy
  <1>5. CASE StartQueueThread \/ StartPeriodicThread \/ JoinQueueThread \/ JoinPeriodicThread
    BY <1>5 DEF StartQueueThread, StartPeriodicThread, JoinQueueThread, JoinPeriodicThread
  <1>6. CASE StopNotify \/ RunDequeueNothing \/ PeriodicWake
    BY <1>6, Zenon DEF StopNotify, RunDequeueNothing, PeriodicWake
  <1>7. ASSUME NEW who \in Loops, LoopTest(who) PROVE TypeOK'
    BY <1>7 DEF LoopTest
  <1>8. CASE RunDequeue
    <2>1. PICK i \in 1 .. Len(queue) : taken' = queue[i] /\ queue' = Without(queue, i)
      BY <1>8, Zenon DEF RunDequeue
    <2>2. /\ queue' \in Seq(Commands \cup Beats) /\ Len(queue') = Len(queue) - 1
          /\ taken' \in Commands \cup Beats /\ Len(queue) \in Nat
      <3>1. queue \in Seq(Commands \cup Beats)
        OBVIOUS
      <3>2. queue[i] \in Commands \cup Beats /\ Len(queue) \in Nat
        BY ONLY <3>1, i \in 1 .. Len(queue)
      <3>3. Without(queue, i) \in Seq(Commands \cup Beats) /\ Len(Without(queue, i)) = Len(queue) - 1
        BY <3>1, RemoveFacts
      <3> QED
        BY <2>1, <3>2, <3>3, Zenon
    <2>3. Len(queue') <= QueueSize
      BY <2>2
    <2> QED
      BY <1>8, <2>2, <2>3 DEF RunDequeue, LateRound
  <1>12. CASE handle_heartbeat
    <2>1. get_data_as(taken, "HeartbeatMsg") \in 1 .. MaxMessages
      BY <1>12, Kinds, Zenon DEF handle_heartbeat, Holding
    <2> DEFINE m == Msg("this", "HeartbeatAckMsg", get_data_as(taken, "HeartbeatMsg"))
    <2>2. /\ published' = [published EXCEPT ![m.type] = m.data]
          /\ m.type = "HeartbeatAckMsg" /\ m.data = get_data_as(taken, "HeartbeatMsg")
      BY ONLY <1>12, MsgFacts DEF handle_heartbeat, Publish
    <2> HIDE DEF m
    <2>3. published' \in [StateAckMsg : AllStates, HeartbeatAckMsg : 0 .. MaxMessages]
      BY <2>1, <2>2
    <2> QED
      BY <1>12, <2>3, Zenon DEF handle_heartbeat
  <1>9. CASE PeriodicProcess
    BY <1>9 DEF PeriodicProcess, LateRound
  <1>10. ASSUME NEW m \in Commands \cup Beats, Deliver(m) PROVE TypeOK'
    <2>1. queue \in Seq(Commands \cup Beats) /\ Len(queue) <= QueueSize
      OBVIOUS
    <2>2. Len(queue) < QueueSize
            => Append(queue, m) \in Seq(Commands \cup Beats) /\ Len(Append(queue, m)) <= QueueSize
      BY ONLY TaskAssumption, m \in Commands \cup Beats, <2>1
    <2>3. queue' \in Seq(Commands \cup Beats) /\ Len(queue') <= QueueSize
      BY <1>10, <2>1, <2>2, Zenon DEF Deliver
    <2> QED
      BY <1>10, <2>3 DEF Deliver
  <1>11. CASE UNCHANGED vars
    BY <1>11 DEF vars
  <1> QED
    BY <1>1, <1>2, <1>3, <1>4, <1>5, <1>6, <1>7, <1>8, <1>9, <1>10, <1>11, <1>12, Delivery, Zenon
    DEF Next, ControlSteps, WorkerSteps, PeriodicSteps

(* Every step keeps the rest of the invariant. Only start(), the joins and    *)
(* the ends of the loops move threads in and out of existence; only Stop      *)
(* clears running, and it restarts the count of late rounds.                  *)
LEMMA NextControl ==
  IInv /\ [Next]_vars => AtMostOneLateRound' /\ (Alive' => Control' /\ StopJoins' /\ Spent')
  <1> DEFINE Goal == AtMostOneLateRound' /\ (Alive' => Control' /\ StopJoins' /\ Spent')
  <1> SUFFICES ASSUME IInv, [Next]_vars PROVE Goal
    OBVIOUS
  <1> USE DEF IInv, TypeOK, Movers, Loops, Goto, mail, states, Alive,
              AtMostOneLateRound, Control, StopJoins, Spent
  <1>1. ASSUME NEW who \in Movers, Transition(who) PROVE Goal
    BY <1>1 DEF Transition, SetState, BuildAck, PublishAck
  <1>2. CASE Start
    BY <1>2, Zenon DEF Start
  <1>3. CASE Stop
    BY <1>3 DEF Stop
  <1>4. CASE Destroy
    BY <1>4, Zenon DEF Destroy
  <1>5. CASE StartQueueThread \/ StartPeriodicThread
    BY <1>5, Zenon DEF StartQueueThread, StartPeriodicThread
  <1>6. CASE JoinQueueThread \/ JoinPeriodicThread
    BY <1>6 DEF JoinQueueThread, JoinPeriodicThread
  <1>7. CASE StopNotify \/ RunDequeueNothing \/ PeriodicWake
    BY <1>7 DEF StopNotify, RunDequeueNothing, PeriodicWake
  <1>8. ASSUME NEW who \in Loops, LoopTest(who) PROVE Goal
    BY <1>8, Zenon DEF LoopTest
  <1>9. CASE RunDequeue
    BY <1>9 DEF RunDequeue, LateRound
  <1>10. CASE PeriodicProcess
    BY <1>10 DEF PeriodicProcess, LateRound
  <1>11. ASSUME NEW m, Deliver(m) PROVE Goal
    BY <1>11, Zenon DEF Deliver
  <1>13. CASE handle_heartbeat
    BY <1>13, Zenon DEF handle_heartbeat
  <1>12. CASE UNCHANGED vars
    BY <1>12, Zenon DEF vars
  <1> HIDE DEF Goal
  <1> QED
    BY <1>1, <1>2, <1>3, <1>4, <1>5, <1>6, <1>7, <1>8, <1>9, <1>10, <1>11, <1>12, <1>13, Zenon
    DEF Next, ControlSteps, WorkerSteps, PeriodicSteps

(* Every step keeps what the movers hold. *)
LEMMA NextHolding == IInv /\ [Next]_vars => (Alive' => Holding')
  <1> SUFFICES ASSUME IInv, [Next]_vars, Alive' PROVE Holding'
    OBVIOUS
  <1> USE DEF IInv, TypeOK, Movers, Loops, Goto, mail, states, Alive, Holding
  <1>1. ASSUME NEW who \in Movers, Transition(who) PROVE Holding'
    <2>1. CASE SetState(who) \/ PublishAck(who)
      BY <2>1, Zenon DEF SetState, PublishAck
    <2>2. CASE BuildAck(who)
      <3>1. Msg("this", "StateAckMsg", current_state) # NoMsg
        BY MsgFacts DEF NoMsg
      <3> QED
        BY <2>2, <3>1, Zenon DEF BuildAck
    <2> QED
      BY <1>1, <2>1, <2>2, Zenon DEF Transition
  <1>2. CASE Start \/ Stop \/ Destroy
    BY <1>2, Zenon DEF Start, Stop, Destroy
  <1>3. CASE StartQueueThread \/ StartPeriodicThread \/ JoinQueueThread \/ JoinPeriodicThread
    BY <1>3 DEF Control, StartQueueThread, StartPeriodicThread, JoinQueueThread, JoinPeriodicThread
  <1>4. CASE StopNotify \/ RunDequeueNothing \/ PeriodicWake \/ PeriodicProcess
    BY <1>4 DEF StopNotify, RunDequeueNothing, PeriodicWake, PeriodicProcess
  <1>5. ASSUME NEW who \in Loops, LoopTest(who) PROVE Holding'
    BY <1>5, Zenon DEF LoopTest
  <1>6. CASE RunDequeue
    <2>1. taken' \in Commands \cup Beats
      BY <1>6, RemoveFacts DEF RunDequeue
    <2> QED
      BY <1>6, <2>1, Kinds, Zenon DEF RunDequeue
  <1>7. CASE handle_heartbeat
    BY <1>7, Zenon DEF handle_heartbeat
  <1>8. ASSUME NEW m, Deliver(m) PROVE Holding'
    BY <1>8, Zenon DEF Deliver
  <1>9. CASE UNCHANGED vars
    BY <1>9, Zenon DEF vars
  <1> QED
    BY <1>1, <1>2, <1>3, <1>4, <1>5, <1>6, <1>7, <1>8, <1>9, Zenon
    DEF Next, ControlSteps, WorkerSteps, PeriodicSteps

(* The strengthened invariant holds in every state of every behaviour of the  *)
(* task.                                                                      *)
THEOREM Invariance == Spec => []IInv
  <1>1. IInv /\ [Next]_vars => IInv'
    BY NextTypeOK, NextControl, NextHolding, Zenon DEF IInv
  <1> QED
    BY InitIInv, <1>1, PTL DEF Spec

(* The task's variables keep their types, and its queue never holds more      *)
(* messages than blocks.                                                      *)
THEOREM TypeCorrect == Spec => []TypeOK
  BY Invariance, PTL DEF IInv

(* When stop() has returned, the queue thread and the periodic thread are     *)
(* joined, so that a later start() never assigns to a joinable thread.        *)
THEOREM StopJoinsCorrect == Spec => []StopJoins
  <1>1. IInv => StopJoins
    BY Zenon DEF IInv, StopJoins
  <1> QED
    BY Invariance, <1>1, PTL

(* After stop() has cleared running, run() handles at most one more message   *)
(* and run_periodic() at most one more period.                                *)
THEOREM LateRoundCorrect == Spec => []AtMostOneLateRound
  BY Invariance, PTL DEF IInv

--------------------------------------------------------------------------------
(* A StateMsg is more urgent than a heartbeat. *)
LEMMA Urgency ==
  /\ \A m \in Commands : m.type = "StateMsg" /\ m.priority = 100
  /\ \A m \in Beats : m.type = "HeartbeatMsg" /\ m.priority = 50
  <1>1. get_internal_priority("StateMsg") = 100 /\ get_internal_priority("HeartbeatMsg") = 50
    <2>1. /\ \A n \in 1 .. 4 : MessageVariant[n] = "StateMsg" <=> n = 1
          /\ \A n \in 1 .. 4 : MessageVariant[n] = "HeartbeatMsg" <=> n = 3
          /\ Len(MessageVariant) = 4
      BY DEF MessageVariant
    <2>2. message_priorities[1] = 100 /\ message_priorities[3] = 50
      BY Zenon DEF message_priorities
    <2> QED
      BY <2>1, <2>2 DEF get_internal_priority
  <1> QED
    BY <1>1 DEF Commands, Beats, Msg

(* dequeue takes the first of the StateMsgs or, if there are none, the first  *)
(* of the heartbeats.                                                         *)
LEMMA FirstOfItsType ==
  ASSUME queue \in Seq(Commands \cup Beats), NEW i \in 1 .. Len(queue), GoesFirst(i)
  PROVE  /\ queue[i] \in Commands \cup Beats
         /\ i \in Places(queue, queue[i].type)
         /\ \A j \in Places(queue, queue[i].type) : i <= j
         /\ queue[i].type # "StateMsg" => Places(queue, "StateMsg") = {}
  <1>1. \A j \in 1 .. Len(queue) : queue[j] \in Commands \cup Beats
    OBVIOUS
  <1>2. \A j \in 1 .. Len(queue) : \/ queue[j].type = "StateMsg" /\ queue[j].priority = 100
                                   \/ queue[j].type = "HeartbeatMsg" /\ queue[j].priority = 50
    BY <1>1, Urgency, Zenon
  <1>3. \A j \in 1 .. Len(queue) : queue[j].priority < queue[i].priority \/ (~(queue[i].priority < queue[j].priority) /\ i <= j)
    BY Zenon DEF GoesFirst, Less
  <1>4. ASSUME NEW j \in Places(queue, queue[i].type) PROVE i <= j
    <2>1. j \in 1 .. Len(queue) /\ queue[j].type = queue[i].type
      BY Zenon DEF Places
    <2>2. queue[j].priority = queue[i].priority
      BY <1>2, <2>1, Zenon
    <2> QED
      BY <1>2, <1>3, <2>1, <2>2
  <1>5. ASSUME queue[i].type # "StateMsg", NEW j \in Places(queue, "StateMsg") PROVE FALSE
    <2>1. j \in 1 .. Len(queue) /\ queue[j].type = "StateMsg"
      BY Zenon DEF Places
    <2>2. queue[j].priority = 100 /\ queue[i].priority = 50
      BY <1>2, <1>5, <2>1, Zenon
    <2> QED
      BY <1>3, <2>1, <2>2
  <1> QED
    BY <1>1, <1>4, <1>5, Zenon DEF Places

(* The StateMsgs and the heartbeats make up the queue. *)
LEMMA Together ==
  ASSUME NEW q \in Seq(Commands \cup Beats)
  PROVE  Len(OfType(q, "StateMsg")) + Len(OfType(q, "HeartbeatMsg")) = Len(q)
  <1> DEFINE C == Places(q, "StateMsg")
  <1> DEFINE B == Places(q, "HeartbeatMsg")
  <1>0. Len(q) \in Nat /\ C \in SUBSET (1 .. Len(q)) /\ B \in SUBSET (1 .. Len(q))
    BY DEF Places
  <1>1. \A j \in 1 .. Len(q) : q[j].type \in {"StateMsg", "HeartbeatMsg"}
    BY Urgency
  <1>2. C \cup B = 1 .. Len(q) /\ C \cap B = {}
    BY <1>1, Zenon DEF Places
  <1>3. Len(OfType(q, "StateMsg")) = Cardinality(C) /\ Len(OfType(q, "HeartbeatMsg")) = Cardinality(B)
    BY Listed
  <1> HIDE DEF C, B
  <1>4. IsFiniteSet(C) /\ IsFiniteSet(B) /\ Cardinality(C) \in Nat /\ Cardinality(B) \in Nat
    BY <1>0, PlacesFinite, Zenon
  <1>5. Cardinality(C \cup B) = Cardinality(C) + Cardinality(B) - Cardinality(C \cap B)
    BY <1>4, FS_Union, Zenon
  <1>6. Cardinality(C \cap B) = 0
    BY <1>2, FS_EmptySet, Zenon
  <1>7. Cardinality(1 .. Len(q)) = Len(q)
    <2>1. Cardinality(1 .. Len(q)) = IF 1 > Len(q) THEN 0 ELSE Len(q) - 1 + 1
      BY <1>0, FS_Interval, 1 \in Int, Len(q) \in Int
    <2> QED
      BY <1>0, <2>1
  <1>8. Cardinality(C) + Cardinality(B) = Len(q)
    <2>1. Cardinality(C \cup B) = Len(q)
      BY <1>2, <1>7, Zenon
    <2> QED
      BY ONLY <1>4, <1>5, <1>6, <2>1
  <1> QED
    BY ONLY <1>3, <1>8, Zenon

(* A type without a place has no message. *)
LEMMA OfTypeEmpty ==
  ASSUME NEW q, NEW type, Places(q, type) = {}
  PROVE  OfType(q, type) = <<>>
  BY FS_EmptySet DEF OfType

(* Every step of the task is a step of the Mailbox or changes nothing there.  *)
LEMMA StepKeepsPromise == IInv /\ [Next]_vars => [Promise!Next]_(Promise!vars)
  <1> SUFFICES ASSUME IInv, [Next]_vars PROVE [Promise!Next]_(Promise!vars)
    OBVIOUS
  <1> DEFINE commands == OfType(queue, "StateMsg")
  <1> DEFINE beats == OfType(queue, "HeartbeatMsg")
  <1> USE DEF Goto, mail, states
  <1>0. queue \in Seq(Commands \cup Beats)
    BY Zenon DEF IInv, TypeOK
  <1>1. CASE UNCHANGED <<queue, taken>>
    BY <1>1, Zenon DEF Promise!vars
  <1>2. ASSUME taken # NoMsg, taken' = NoMsg, UNCHANGED queue PROVE Promise!Next
    BY <1>2, Zenon DEF Promise!Next, Promise!Finish
  <1>3. ASSUME NEW who \in Movers, Transition(who) PROVE [Promise!Next]_(Promise!vars)
    <2>1. CASE SetState(who) \/ BuildAck(who)
      BY <1>1, <2>1, Zenon DEF SetState, BuildAck
    <2>2. CASE PublishAck(who) /\ who = "ctl"
      BY <1>1, <2>2, Zenon DEF PublishAck
    <2>3. CASE PublishAck(who) /\ who # "ctl"
      <3>1. taken # NoMsg
        BY <2>3, Kinds, Zenon DEF PublishAck, IInv, Holding, Movers
      <3> QED
        BY <1>2, <2>3, <3>1, Zenon DEF PublishAck
    <2> QED
      BY <1>3, <2>1, <2>2, <2>3, Zenon DEF Transition
  <1>4. CASE handle_heartbeat
    <2>1. taken # NoMsg
      BY <1>4, Kinds, Zenon DEF handle_heartbeat, IInv, Holding
    <2> QED
      BY <1>2, <1>4, <2>1, Zenon DEF handle_heartbeat
  <1>5. CASE RunDequeue
    <2>1. PICK i \in 1 .. Len(queue) :
            GoesFirst(i) /\ taken' = queue[i] /\ queue' = Without(queue, i)
      BY <1>5, Zenon DEF RunDequeue
    <2>2. /\ queue[i] \in Commands \cup Beats
          /\ i \in Places(queue, queue[i].type)
          /\ \A j \in Places(queue, queue[i].type) : i <= j
          /\ queue[i].type # "StateMsg" => Places(queue, "StateMsg") = {}
      BY <1>0, <2>1, FirstOfItsType, Zenon
    <2>3. taken = NoMsg
      BY <1>5, Zenon DEF RunDequeue, IInv, Holding
    <2>4. CASE queue[i].type = "StateMsg"
      <3>1. commands # <<>> /\ Head(commands) = queue[i] /\ Tail(commands) = commands'
        BY <1>0, <2>1, <2>2, <2>4, OfTypeRemoveFirst
      <3>2. beats' = beats
        BY <1>0, <2>1, <2>4, OfTypeRemoveOther, Zenon
      <3> QED
        BY <2>1, <2>3, <3>1, <3>2, Zenon DEF Promise!Next, Promise!TakeCommand
    <2>5. CASE queue[i].type # "StateMsg"
      <3>1. queue[i].type = "HeartbeatMsg"
        BY <2>2, <2>5, Urgency, Zenon
      <3>2. beats # <<>> /\ Head(beats) = queue[i] /\ Tail(beats) = beats'
        BY <1>0, <2>1, <2>2, <3>1, OfTypeRemoveFirst
      <3>3. commands' = commands
        BY <1>0, <2>1, <2>5, OfTypeRemoveOther, Zenon
      <3>4. commands = <<>>
        BY <2>2, <2>5, OfTypeEmpty, Zenon
      <3> QED
        BY <2>1, <2>3, <3>2, <3>3, <3>4, Zenon DEF Promise!Next, Promise!TakeBeat
    <2> QED
      BY <2>4, <2>5, Zenon
  <1>6. ASSUME NEW m \in Commands \cup Beats, Deliver(m) PROVE [Promise!Next]_(Promise!vars)
    <2>1. CASE Len(queue) < QueueSize
      <3>1. queue' = Append(queue, m) /\ taken' = taken
        BY <1>6, <2>1, Zenon DEF Deliver
      <3>2. Len(commands) + Len(beats) < QueueSize
        BY <1>0, <2>1, Together, Zenon
      <3>3. /\ commands' = IF m.type = "StateMsg" THEN Append(commands, m) ELSE commands
            /\ beats' = IF m.type = "HeartbeatMsg" THEN Append(beats, m) ELSE beats
        BY <1>0, <3>1, OfTypeAppend, Zenon
      <3>4. \/ m \in Commands /\ m.type = "StateMsg"
            \/ m \in Beats /\ m.type = "HeartbeatMsg"
        BY Urgency, Zenon
      <3>5. Promise!Put(m)
        BY <3>1, <3>2, <3>3, <3>4, Zenon DEF Promise!Put
      <3> QED
        BY <3>5, Zenon DEF Promise!Next
    <2>2. CASE ~(Len(queue) < QueueSize)
      BY <1>1, <1>6, <2>2, Zenon DEF Deliver
    <2> QED
      BY <2>1, <2>2, Zenon
  <1>7. CASE Start \/ Stop \/ Destroy
    BY <1>1, <1>7, Zenon DEF Start, Stop, Destroy
  <1>8. CASE StartQueueThread \/ StartPeriodicThread \/ JoinQueueThread \/ JoinPeriodicThread \/ StopNotify
    BY <1>1, <1>8, Zenon DEF StartQueueThread, StartPeriodicThread, JoinQueueThread, JoinPeriodicThread, StopNotify
  <1>9. CASE RunDequeueNothing \/ PeriodicWake \/ PeriodicProcess
    BY <1>1, <1>9, Zenon DEF RunDequeueNothing, PeriodicWake, PeriodicProcess
  <1>10. ASSUME NEW who \in Loops, LoopTest(who) PROVE [Promise!Next]_(Promise!vars)
    BY <1>1, <1>10, Zenon DEF LoopTest
  <1>11. CASE UNCHANGED vars
    BY <1>1, <1>11, Zenon DEF vars
  <1> QED
    BY <1>3, <1>4, <1>5, <1>6, <1>7, <1>8, <1>9, <1>10, <1>11, Delivery, Zenon
    DEF IInv, Next, ControlSteps, WorkerSteps, PeriodicSteps, Movers, Loops

(* The queue of a task, with run() that takes from it, is a Mailbox: it gives *)
(* StateMsgs first and each kind in the order of arrival, and nothing is lost *)
(* or doubled across stop and restart. StateManager and HeartBeat rest on it. *)
THEOREM TaskKeepsPromise == Spec => KeepsPromise
  <1>1. Init => Promise!Init
    <2> SUFFICES ASSUME Init PROVE Promise!Init
      OBVIOUS
    <2>1. \A type : Places(queue, type) = {}
      BY DEF Init, Places
    <2>2. \A type : OfType(queue, type) = <<>>
      BY <2>1, OfTypeEmpty, Zenon
    <2> QED
      BY <2>2, Zenon DEF Init, Promise!Init
  <1> QED
    BY Invariance, StepKeepsPromise, <1>1, PTL DEF Spec, KeepsPromise, Promise!Spec
================================================================================
