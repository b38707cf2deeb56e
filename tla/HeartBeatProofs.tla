---------------------------- MODULE HeartBeatProofs ----------------------------
(* The invariants of HeartBeat for any set of tasks, any interval, timeout    *)
(* and slack, and any size of the queues. Five strengthenings: how old a      *)
(* heartbeat can be at each place of the round, what has not happened before  *)
(* RUNNING is asked for, when a late heartbeat is still possible, what an       *)
(* acknowledgment under way says about the latest heartbeat, and where the    *)
(* one heartbeat of a prompt task is.                                         *)
EXTENDS HeartBeat, TLAPS

(* How old an awaited heartbeat was when the round, or the sleep, began: one  *)
(* that has been checked in this round was not overdue then.                  *)
Limit(t) ==
  IF pc = "sleep" THEN Timeout + Slack
  ELSE IF pc \in {"check", "record"} /\ t \in todo THEN Timeout + Interval + 2 * Slack
  ELSE Timeout

(* The same for a prompt task: its acknowledgment waits for tasks_mutex at    *)
(* most until the round is over, and is handled before time goes on.          *)
PromptLimit ==
  IF pc # "sleep" THEN Latency + since
  ELSE IF since = 0 THEN Latency + Slack
  ELSE Latency

Timing ==
  /\ since <= (IF pc = "sleep" THEN Interval + Slack ELSE Slack)
  /\ \A t \in Prompt : awaiting_response[t] => age[t] <= PromptLimit
  /\ \A t \in Tasks : awaiting_response[t] => t \in monitored /\ age[t] <= Limit(t) + since
  /\ NoFalseAlarm

(* Before RUNNING is asked for nothing is sent, so nobody is marked. *)
Startup ==
  ~asked =>
    /\ current_state # "RUNNING" /\ \A i \in 1 .. Len(orders) : orders[i] # "RUNNING"
    /\ pc \notin {"record", "send"}
    /\ \A t \in Tasks : ~awaiting_response[t]

(* A task the loop has still to come to, or one of a running system, has no   *)
(* late heartbeat to its account.                                             *)
Lateness ==
  \A t \in Tasks :
    /\ late[t] <= 1
    /\ current_state = "RUNNING" \/ (pc = "send" /\ t \in todo) => late[t] = 0

(* An acknowledgment under way that matches the latest heartbeat of its       *)
(* sender was sent for that heartbeat.                                        *)
Honest(a) == a.id = last_heartbeat_id[a.from] => settled[a.from]

Causes ==
  /\ ClosedForCause
  /\ \A i \in 1 .. Len(acks) : Honest(acks[i])
  /\ \A i \in 1 .. Len(hand) : Honest(hand[i])

(* A prompt task's heartbeat is in its queue, or on its way back, or in the   *)
(* hand of the queue thread; it is the latest one, and there is none when no  *)
(* response is awaited.                                                       *)
NoneIn(q, t) == \A i \in 1 .. Len(q) : q[i].from # t

Single(t) ==
  /\ Alive /\ ~awaiting_response[t] => beats[t] = <<>> /\ NoneIn(acks, t) /\ NoneIn(hand, t)
  /\ beats[t] # <<>> => /\ Len(beats[t]) = 1 /\ beats[t][1] = last_heartbeat_id[t]
                        /\ NoneIn(acks, t) /\ NoneIn(hand, t)
  /\ \A i \in 1 .. Len(acks) : acks[i].from = t =>
       /\ acks[i].id = last_heartbeat_id[t] /\ NoneIn(hand, t)
       /\ \A j \in 1 .. Len(acks) : acks[j].from = t => j = i
  /\ \A i \in 1 .. Len(hand) : hand[i].from = t => hand[i].id = last_heartbeat_id[t]

IInv == TypeOK /\ Timing /\ Startup /\ Lateness /\ Causes /\ \A t \in Prompt : Single(t)

(* Nothing has been sent, and the periodic thread is about to begin. *)
LEMMA InitIInv == Init => IInv
  <1> SUFFICES ASSUME Init PROVE IInv
    OBVIOUS
  <1> USE HeartBeatAssumption
  <1>1. TypeOK
    <2>1. /\ orders \in Seq({"IDLE", "RUNNING"}) /\ Len(orders) = 0
          /\ acks \in Seq([from : Tasks, id : Ids]) /\ Len(acks) = 0
          /\ hand \in Seq([from : Tasks, id : Ids]) /\ Len(hand) = 0
      BY DEF Init
    <2>2. /\ commands \in [Tasks -> Nat] /\ beats \in [Tasks -> Seq(Ids)]
          /\ \A t \in Tasks : commands[t] = 0 /\ Len(beats[t]) = 0
      BY DEF Init
    <2>3. Len(orders) + Len(acks) <= QueueSize
          /\ \A t \in Tasks : commands[t] + Len(beats[t]) <= QueueSize
      BY <2>1, <2>2
    <2>4. ordered \in 0 .. MaxOrders /\ since \in Nat
      BY DEF Init
    <2>5. /\ monitored \subseteq Tasks /\ todo \subseteq monitored /\ age \in [Tasks -> Nat]
          /\ last_heartbeat_id \in [Tasks -> Ids \cup {0}] /\ late \in [Tasks -> Nat]
          /\ Len(hand) <= 1
      BY <2>1 DEF Init
    <2> QED
      BY <2>1, <2>2, <2>3, <2>4, <2>5, Zenon DEF Init, TypeOK, NoTask
  <1>2. Timing
    BY DEF Init, Timing, NoFalseAlarm, NoTask
  <1>3. Startup /\ Lateness
    BY DEF Init, Startup, Lateness
  <1>4. Causes
    BY DEF Init, Causes, ClosedForCause
  <1>5. ASSUME NEW t \in Prompt PROVE Single(t)
    <2>1. beats[t] = <<>> /\ acks = <<>> /\ hand = <<>>
      BY Zenon DEF Init
    <2> QED
      BY <2>1 DEF Single, NoneIn
  <1> QED
    BY <1>1, <1>2, <1>3, <1>4, <1>5, Zenon DEF IInv

(* The id of a new heartbeat is one nobody holds for the task. *)
LEMMA FreshId ==
  ASSUME NEW t \in Tasks, Ids \ InUse(t) # {}
  PROVE  generate_heartbeat_id(t) \in Ids /\ generate_heartbeat_id(t) \notin InUse(t)
  BY Zenon DEF generate_heartbeat_id

(* Two sequences that share a pool: one more message where there is room, and *)
(* one less, still fits.                                                      *)
LEMMA Fits ==
  ASSUME NEW A, NEW B, NEW a \in Seq(A), NEW b \in Seq(B), Len(a) + Len(b) <= QueueSize
  PROVE  /\ Len(b) + Len(a) <= QueueSize
         /\ Len(a) + Len(b) < QueueSize => Len(b) + Len(a) < QueueSize
         /\ \A x \in A : Append(a, x) \in Seq(A)
         /\ Len(a) + Len(b) < QueueSize =>
              \A x \in A : /\ Len(Append(a, x)) + Len(b) <= QueueSize
                           /\ Len(b) + Len(Append(a, x)) <= QueueSize
         /\ a # <<>> => /\ Head(a) \in A /\ Tail(a) \in Seq(A)
                        /\ Len(Tail(a)) + Len(b) <= QueueSize
                        /\ Len(b) + Len(Tail(a)) <= QueueSize
  <1> QueueSize \in Nat
    BY HeartBeatAssumption, Zenon
  <1> QED
    OBVIOUS

(* TypeOK in three parts: the queues of the tasks, the queue of the           *)
(* HeartBeatTask, and what is not a sequence.                                 *)
BoxesOK ==
  /\ commands \in [Tasks -> Nat] /\ beats \in [Tasks -> Seq(Ids)]
  /\ \A t \in Tasks : commands[t] + Len(beats[t]) <= QueueSize

Ack == [from : Tasks, id : Ids]

OwnOK ==
  /\ orders \in Seq({"IDLE", "RUNNING"}) /\ acks \in Seq(Ack)
  /\ Len(orders) + Len(acks) <= QueueSize
  /\ hand \in Seq(Ack) /\ Len(hand) <= 1

RestOK ==
  /\ monitored \subseteq Tasks /\ todo \subseteq monitored
  /\ awaiting_response \in [Tasks -> BOOLEAN]
  /\ last_heartbeat_id \in [Tasks -> Ids \cup {0}] /\ age \in [Tasks -> Nat]
  /\ current_state \in {"NOT_STARTED", "IDLE", "RUNNING"}
  /\ ordered \in 0 .. MaxOrders
  /\ pc \in {"sleep", "check", "record", "test", "send"} /\ since \in Nat
  /\ IF pc = "record" THEN suspect \in todo ELSE suspect = NoTask
  /\ registering \in Tasks \cup {NoTask} /\ asked \in BOOLEAN /\ fate \in {"alive", "aborted"}
  /\ settled \in [Tasks -> BOOLEAN] /\ late \in [Tasks -> Nat]

(* TypeOK is the queues of the tasks, the queue of the HeartBeatTask and the  *)
(* rest.                                                                      *)
LEMMA TypeParts == TypeOK <=> BoxesOK /\ OwnOK /\ RestOK
  BY Zenon DEF TypeOK, BoxesOK, OwnOK, RestOK, Ack

(* A task's queue never outgrows its pool, because a message that finds it    *)
(* full aborts the process instead.                                           *)
LEMMA NextBoxes == TypeOK /\ [Next]_vars => BoxesOK'
  <1> SUFFICES ASSUME BoxesOK, RestOK, [Next]_vars PROVE BoxesOK'
    BY TypeParts, Zenon
  <1> QueueSize \in Nat
    BY HeartBeatAssumption, Zenon
  <1>a. /\ commands \in [Tasks -> Nat] /\ beats \in [Tasks -> Seq(Ids)]
        /\ \A t \in Tasks : commands[t] + Len(beats[t]) <= QueueSize
    BY Zenon DEF BoxesOK
  <1>b. ASSUME NEW t \in Tasks, NEW x \in Seq(Ids), commands[t] + Len(x) <= QueueSize,
               beats' = [beats EXCEPT ![t] = x], commands' = commands
        PROVE  BoxesOK'
    BY <1>a, <1>b, Zenon DEF BoxesOK
  <1>c. ASSUME NEW t \in Tasks
        PROVE  /\ commands[t] \in Nat /\ beats[t] \in Seq(Ids)
               /\ commands[t] + Len(beats[t]) <= QueueSize
    BY <1>a, Zenon
  <1>1. ASSUME NEW t \in Tasks, MarkDeliver(t) PROVE BoxesOK'
    <2>1. CASE HasRoom(t)
      <3>1. commands' = [commands EXCEPT ![t] = commands[t] + 1] /\ beats' = beats
        BY <1>1, <2>1, Zenon DEF MarkDeliver
      <3>2. commands[t] + 1 \in Nat /\ (commands[t] + 1) + Len(beats[t]) <= QueueSize
        BY <1>c, <2>1 DEF HasRoom
      <3> QED
        BY ONLY <1>a, <3>1, <3>2, t \in Tasks, Zenon DEF BoxesOK
    <2>2. CASE ~HasRoom(t)
      BY <1>1, <2>2, Zenon DEF MarkDeliver, BoxesOK
    <2> QED
      BY <2>1, <2>2, Zenon
  <1>2. ASSUME NEW t \in Tasks, SendHeartbeat(t) PROVE BoxesOK'
    <2> DEFINE id == generate_heartbeat_id(t)
    <2>1. CASE HasRoom(t)
      <3>1. id \in Ids
        BY <1>2, FreshId, Zenon DEF SendHeartbeat
      <3> HIDE DEF id
      <3>2. Append(beats[t], id) \in Seq(Ids) /\ commands[t] + Len(Append(beats[t], id)) <= QueueSize
        BY <1>c, <2>1, <3>1 DEF HasRoom
      <3>3. beats' = [beats EXCEPT ![t] = Append(beats[t], id)] /\ commands' = commands
        BY <1>2, <2>1, Zenon DEF SendHeartbeat, id
      <3> QED
        BY ONLY <1>b, <3>2, <3>3, t \in Tasks, Zenon
    <2>2. CASE ~HasRoom(t)
      BY <1>2, <2>2, Zenon DEF SendHeartbeat, BoxesOK
    <2> QED
      BY <2>1, <2>2, Zenon
  <1>3. ASSUME NEW t \in Tasks, TakeCommand(t) PROVE BoxesOK'
    <2>1. commands' = [commands EXCEPT ![t] = commands[t] - 1] /\ beats' = beats
      BY <1>3, Zenon DEF TakeCommand
    <2>2. commands[t] - 1 \in Nat /\ (commands[t] - 1) + Len(beats[t]) <= QueueSize
      BY <1>3, <1>c DEF TakeCommand
    <2> QED
      BY ONLY <1>a, <2>1, <2>2, t \in Tasks, Zenon DEF BoxesOK
  <1>4. ASSUME NEW t \in Tasks, handle_heartbeat(t) \/ Ignore(t) PROVE BoxesOK'
    <2>1. beats[t] # <<>>
      BY <1>4, Zenon DEF handle_heartbeat, Ignore
    <2>2. Tail(beats[t]) \in Seq(Ids) /\ commands[t] + Len(Tail(beats[t])) <= QueueSize
      BY <1>c, <2>1
    <2>3. beats' = [beats EXCEPT ![t] = Tail(beats[t])] /\ commands' = commands
      BY <1>4, Zenon DEF handle_heartbeat, Ignore
    <2> QED
      BY ONLY <1>b, <2>2, <2>3, t \in Tasks, Zenon
  <1>5. ASSUME NEW s \in {"IDLE", "RUNNING"}, Order(s) PROVE BoxesOK'
    <2>1. CASE \A t \in Tasks : HasRoom(t)
      <3>1. ASSUME NEW t \in Tasks
            PROVE  commands[t] + 1 \in Nat /\ (commands[t] + 1) + Len(beats[t]) <= QueueSize
        BY <1>c, <2>1, <3>1 DEF HasRoom
      <3>2. beats' = beats /\ (commands' = commands \/ commands' = [t \in Tasks |-> commands[t] + 1])
        BY <1>5, Zenon DEF Order
      <3> QED
        BY ONLY <1>a, <3>1, <3>2, Zenon DEF BoxesOK
    <2>2. CASE ~\A t \in Tasks : HasRoom(t)
      BY <1>5, <2>2, Zenon DEF Order, BoxesOK
    <2> QED
      BY <2>1, <2>2, Zenon
  <1>6. CASE UNCHANGED boxes
    BY <1>6, Zenon DEF BoxesOK, boxes
  <1> QED
    BY <1>1, <1>2, <1>3, <1>4, <1>5, <1>6, Zenon
    DEF Next, vars, Wake, MarkRecord, CheckDone, TestRunning, TestNotRunning, SendDone, HandleState,
        TakeAck, handle_acknowledgment, CheckNext, SendNext, RegisterTask, notify_task_registered,
        Tick, Aborted, Hung

(* So it is with the queue of the HeartBeatTask; its queue thread holds one   *)
(* acknowledgment at most.                                                    *)
LEMMA NextOwn == TypeOK /\ [Next]_vars => OwnOK'
  <1> SUFFICES ASSUME BoxesOK, OwnOK, RestOK, [Next]_vars PROVE OwnOK'
    BY TypeParts, Zenon
  <1> DEFINE S == {"IDLE", "RUNNING"}
  <1>a. /\ orders \in Seq(S) /\ acks \in Seq(Ack)
        /\ Len(orders) + Len(acks) <= QueueSize
    BY Zenon DEF OwnOK
  <1>b. /\ Len(acks) + Len(orders) <= QueueSize
        /\ Len(orders) + Len(acks) < QueueSize => Len(acks) + Len(orders) < QueueSize
    BY <1>a, Fits, Zenon
  <1>1. CASE HandleState
    <2>1. Tail(orders) \in Seq(S) /\ Len(Tail(orders)) + Len(acks) <= QueueSize
      BY <1>1, <1>a, Fits, Zenon DEF HandleState
    <2> QED
      BY <1>1, <2>1, Zenon DEF HandleState, OwnOK
  <1>2. CASE TakeAck
    <2>1. /\ Head(acks) \in Ack /\ Tail(acks) \in Seq(Ack)
          /\ Len(orders) + Len(Tail(acks)) <= QueueSize
      BY <1>2, <1>a, <1>b, Fits, Zenon DEF TakeAck
    <2>2. <<Head(acks)>> \in Seq(Ack) /\ Len(<<Head(acks)>>) <= 1
      BY ONLY <2>1
    <2> QED
      BY <1>2, <2>1, <2>2, Zenon DEF TakeAck, OwnOK
  <1>3. CASE handle_acknowledgment
    <2>1. hand' \in Seq(Ack) /\ Len(hand') <= 1
      BY <1>3 DEF handle_acknowledgment
    <2> QED
      BY <1>3, <2>1, Zenon DEF handle_acknowledgment, OwnOK
  <1>4. ASSUME NEW t \in Tasks, handle_heartbeat(t) PROVE OwnOK'
    <2> DEFINE new == [from |-> t, id |-> Head(beats[t])]
    <2>1. beats[t] \in Seq(Ids) /\ beats[t] # <<>>
      BY <1>4, Zenon DEF handle_heartbeat, BoxesOK
    <2>2. Head(beats[t]) \in Ids
      BY ONLY <2>1
    <2>3. new \in Ack
      BY <2>2, Zenon DEF Ack
    <2>4. CASE Len(orders) + Len(acks) < QueueSize
      <3>1. Append(acks, new) \in Seq(Ack) /\ Len(orders) + Len(Append(acks, new)) <= QueueSize
        BY <1>a, <1>b, <2>3, <2>4, Fits, Zenon
      <3> QED
        BY <1>4, <2>4, <3>1, Zenon DEF handle_heartbeat, OwnOK
    <2>5. CASE ~(Len(orders) + Len(acks) < QueueSize)
      BY <1>4, <2>5, Zenon DEF handle_heartbeat, OwnOK
    <2> QED
      BY <2>4, <2>5, Zenon
  <1>5. ASSUME NEW s \in S, Order(s) PROVE OwnOK'
    <2>1. UNCHANGED <<acks, hand>> /\ (orders' = orders \/ orders' = Append(orders, s))
      BY <1>5, Zenon DEF Order
    <2>2. CASE Len(orders) + Len(acks) < QueueSize
      <3>1. Append(orders, s) \in Seq(S) /\ Len(Append(orders, s)) + Len(acks) <= QueueSize
        BY <1>a, <2>2, Fits, Zenon
      <3> QED
        BY <2>1, <3>1, Zenon DEF OwnOK
    <2>3. CASE ~(Len(orders) + Len(acks) < QueueSize)
      BY <1>5, <2>3, Zenon DEF Order, OwnOK
    <2> QED
      BY <2>2, <2>3, Zenon
  <1>6. CASE UNCHANGED <<orders, acks, hand>>
    BY <1>6, Zenon DEF OwnOK
  <1> QED
    BY <1>1, <1>2, <1>3, <1>4, <1>5, <1>6, Zenon
    DEF Next, vars, own, Wake, MarkRecord, CheckDone, TestRunning, TestNotRunning, SendDone,
        CheckNext, MarkDeliver, SendNext, SendHeartbeat, TakeCommand, Ignore, RegisterTask,
        notify_task_registered, Tick, Aborted, Hung

(* The rest of TypeOK. *)
LEMMA NextRest == TypeOK /\ [Next]_vars => RestOK'
  <1> SUFFICES ASSUME BoxesOK, OwnOK, RestOK, [Next]_vars PROVE RestOK'
    BY TypeParts, Zenon
  <1> USE DEF status, own, round, registry, history
  <1>1. CASE Wake \/ CheckDone \/ TestRunning \/ TestNotRunning \/ SendDone
    BY <1>1 DEF RestOK, Wake, CheckDone, TestRunning, TestNotRunning, SendDone
  <1>2. ASSUME NEW t \in Tasks, CheckNext(t) \/ SendNext(t) \/ MarkDeliver(t) PROVE RestOK'
    BY <1>2, Zenon DEF RestOK, CheckNext, SendNext, MarkDeliver
  <1>3. CASE MarkRecord
    BY <1>3, Zenon DEF RestOK, MarkRecord
  <1>4. ASSUME NEW t \in Tasks, SendHeartbeat(t) PROVE RestOK'
    <2>1. generate_heartbeat_id(t) \in Ids
      BY <1>4, FreshId, Zenon DEF SendHeartbeat
    <2>2. late' \in [Tasks -> Nat]
      BY <1>4 DEF SendHeartbeat, RestOK
    <2> QED
      BY <1>4, <2>1, <2>2, Zenon DEF SendHeartbeat, RestOK
  <1>5. CASE HandleState
    <2>1. orders \in Seq({"IDLE", "RUNNING"}) /\ orders # <<>>
      BY <1>5, Zenon DEF HandleState, OwnOK
    <2>2. Head(orders) \in {"IDLE", "RUNNING"}
      BY ONLY <2>1
    <2>3. late' \in [Tasks -> Nat]
      BY <1>5, Zenon DEF HandleState, RestOK
    <2> QED
      BY <1>5, <2>2, <2>3, Zenon DEF HandleState, RestOK
  <1>6. CASE TakeAck \/ handle_acknowledgment
    <2>1. CASE TakeAck
      BY <2>1, Zenon DEF TakeAck, RestOK
    <2>2. CASE handle_acknowledgment
      <3>1. awaiting_response' \in [Tasks -> BOOLEAN] /\ age' \in [Tasks -> Nat]
        <4>1. CASE Matches(Head(hand))
          <5> DEFINE t == Head(hand).from
          <5>1. /\ awaiting_response' = [awaiting_response EXCEPT ![t] = FALSE]
                /\ age' = [age EXCEPT ![t] = 0]
            BY <2>2, <4>1, Zenon DEF handle_acknowledgment
          <5> HIDE DEF t
          <5> QED
            BY <5>1, Zenon DEF RestOK
        <4>2. CASE ~Matches(Head(hand))
          BY <2>2, <4>2, Zenon DEF handle_acknowledgment, RestOK
        <4> QED
          BY <4>1, <4>2, Zenon
      <3> QED
        BY <2>2, <3>1, Zenon DEF handle_acknowledgment, RestOK
    <2> QED
      BY <1>6, <2>1, <2>2, Zenon
  <1>7. ASSUME NEW t \in Tasks, TakeCommand(t) \/ handle_heartbeat(t) \/ Ignore(t) PROVE RestOK'
    BY <1>7, Zenon DEF TakeCommand, handle_heartbeat, Ignore, RestOK
  <1>8. ASSUME NEW t \in Tasks, RegisterTask(t) PROVE RestOK'
    BY <1>8, Zenon DEF RegisterTask, RestOK
  <1>9. CASE notify_task_registered
    BY <1>9, Zenon DEF notify_task_registered, RestOK, NoTask
  <1>10. ASSUME NEW s \in {"IDLE", "RUNNING"}, Order(s) PROVE RestOK'
    BY <1>10, HeartBeatAssumption DEF Order, RestOK
  <1>11. CASE Tick
    BY <1>11 DEF Tick, RestOK
  <1>12. CASE Aborted \/ Hung \/ UNCHANGED vars
    BY <1>12, Zenon DEF Aborted, Hung, vars, RestOK
  <1> QED
    BY <1>1, <1>2, <1>3, <1>4, <1>5, <1>6, <1>7, <1>8, <1>9, <1>10, <1>11, <1>12, Zenon DEF Next

(* The three parts together. *)
LEMMA NextTypeOK == TypeOK /\ [Next]_vars => TypeOK'
  <1> SUFFICES ASSUME TypeOK, [Next]_vars PROVE TypeOK'
    OBVIOUS
  <1>1. BoxesOK' /\ OwnOK' /\ RestOK'
    BY NextBoxes, NextOwn, NextRest, Zenon
  <1> QED
    BY <1>1, Zenon DEF TypeOK, BoxesOK, OwnOK, RestOK, Ack

(* An acknowledgment changes the status of its sender at most, and only from  *)
(* awaited to not awaited.                                                    *)
LEMMA AckClears ==
  ASSUME RestOK, handle_acknowledgment, NEW t \in Tasks
  PROVE  /\ awaiting_response'[t] => awaiting_response[t] /\ age'[t] = age[t]
         /\ awaiting_response[t] /\ ~awaiting_response'[t]
              => Matches(Head(hand)) /\ Head(hand).from = t
  BY Zenon DEF RestOK, handle_acknowledgment

(* No heartbeat is older than its limit: the round resets the clock since,    *)
(* and a heartbeat survives the check only if it is not overdue.              *)
LEMMA NextTiming == TypeOK /\ Timing /\ [Next]_vars => Timing'
  <1> SUFFICES ASSUME RestOK, Timing, [Next]_vars PROVE Timing'
    BY TypeParts, Zenon
  <1> USE HeartBeatAssumption
  <1> USE DEF status, round
  <1>1. CASE Wake
    BY <1>1 DEF RestOK, Timing, Limit, PromptLimit, NoFalseAlarm, Wake
  <1>2. ASSUME NEW t \in Tasks, CheckNext(t) PROVE Timing'
    BY <1>2 DEF RestOK, Timing, Limit, PromptLimit, NoFalseAlarm, CheckNext, Overdue
  <1>3. ASSUME NEW t \in Tasks, MarkDeliver(t) PROVE Timing'
    <2>1. t \notin Prompt
      BY <1>3 DEF RestOK, Timing, PromptLimit, MarkDeliver, Overdue
    <2> QED
      BY <1>3, <2>1, Zenon DEF RestOK, Timing, Limit, PromptLimit, NoFalseAlarm, MarkDeliver
  <1>4. CASE MarkRecord
    BY <1>4, Zenon DEF RestOK, Timing, Limit, PromptLimit, NoFalseAlarm, MarkRecord, NoTask
  <1>5. CASE CheckDone \/ TestRunning
    BY <1>5, Zenon DEF RestOK, Timing, Limit, PromptLimit, NoFalseAlarm, CheckDone, TestRunning
  <1>6. CASE TestNotRunning \/ SendDone
    BY <1>6 DEF RestOK, Timing, Limit, PromptLimit, NoFalseAlarm, TestNotRunning, SendDone
  <1>7. ASSUME NEW t \in Tasks, SendNext(t) PROVE Timing'
    BY <1>7, Zenon DEF RestOK, Timing, Limit, PromptLimit, NoFalseAlarm, SendNext
  <1>8. ASSUME NEW t \in Tasks, SendHeartbeat(t) PROVE Timing'
    BY <1>8 DEF RestOK, Timing, Limit, PromptLimit, NoFalseAlarm, SendHeartbeat
  <1>9. CASE handle_acknowledgment
    <2>1. \A t \in Tasks : awaiting_response'[t] => awaiting_response[t] /\ age'[t] = age[t]
      BY <1>9, AckClears, Zenon
    <2> QED
      BY <1>9, <2>1, Zenon DEF RestOK, Timing, Limit, PromptLimit, NoFalseAlarm, handle_acknowledgment
  <1>10. CASE Tick
    <2>1. /\ since' = since + 1 /\ since \in Nat
          /\ since < (IF pc = "sleep" THEN Interval + Slack ELSE Slack)
          /\ UNCHANGED <<awaiting_response, monitored, pc, todo, suspect>>
      BY <1>10, Zenon DEF RestOK, Tick
    <2>2. \A t \in Tasks : age[t] \in Nat /\ (awaiting_response[t] => age'[t] = age[t] + 1)
      BY <1>10, Zenon DEF RestOK, Tick
    <2>3. \A t \in Prompt : awaiting_response[t] => age'[t] <= PromptLimit'
      <3>1. CASE pc = "sleep"
        <4>1. \A t \in Prompt : awaiting_response[t] => age[t] < Latency
          BY <1>10, <3>1, Zenon DEF Tick, TasksMutex
        <4> QED
          BY <2>1, <2>2, <3>1, <4>1 DEF PromptLimit
      <3>2. CASE pc # "sleep"
        BY <2>1, <2>2, <3>2 DEF Timing, PromptLimit
      <3> QED
        BY <3>1, <3>2, Zenon
    <2>4. \A t \in Tasks : awaiting_response[t] => t \in monitored /\ age'[t] <= Limit(t)' + since'
      BY <2>1, <2>2 DEF Timing, Limit
    <2> QED
      BY <2>1, <2>3, <2>4 DEF Timing, NoFalseAlarm
  <1>11. CASE monitored \subseteq monitored' /\ UNCHANGED <<awaiting_response, age, pc, todo, suspect, since>>
    BY <1>11, Zenon DEF Timing, Limit, PromptLimit, NoFalseAlarm
  <1> QED
    BY <1>1, <1>2, <1>3, <1>4, <1>5, <1>6, <1>7, <1>8, <1>9, <1>10, <1>11, Zenon
    DEF Next, vars, HandleState, TakeAck, TakeCommand, handle_heartbeat, Ignore, RegisterTask,
        notify_task_registered, Order, Aborted, Hung

(* Until RUNNING is asked for the state is another, so that the test sends    *)
(* the periodic thread back to sleep.                                         *)
LEMMA NextStartup == TypeOK /\ Startup /\ [Next]_vars => Startup'
  <1> SUFFICES ASSUME OwnOK, RestOK, Startup, [Next]_vars PROVE Startup'
    BY TypeParts, Zenon
  <1> USE DEF status, own, round, registry
  <1>0. orders \in Seq({"IDLE", "RUNNING"})
    BY Zenon DEF OwnOK
  <1>1. CASE Wake \/ CheckDone \/ TestRunning \/ TestNotRunning \/ SendDone
    BY <1>1, Zenon DEF Startup, Wake, CheckDone, TestRunning, TestNotRunning, SendDone
  <1>2. ASSUME NEW t \in Tasks, CheckNext(t) \/ SendNext(t) \/ MarkDeliver(t) \/ SendHeartbeat(t)
        PROVE  Startup'
    BY <1>2, Zenon DEF Startup, CheckNext, SendNext, MarkDeliver, SendHeartbeat, Overdue
  <1>3. CASE MarkRecord \/ TakeAck
    BY <1>3, Zenon DEF Startup, MarkRecord, TakeAck
  <1>4. CASE HandleState
    <2>1. orders # <<>>
      BY <1>4, Zenon DEF HandleState
    <2>2. /\ 1 \in 1 .. Len(orders) /\ Head(orders) = orders[1]
          /\ \A i \in 1 .. Len(Tail(orders)) : i + 1 \in 1 .. Len(orders) /\ Tail(orders)[i] = orders[i + 1]
      BY ONLY <1>0, <2>1
    <2> QED
      BY <1>4, <2>2, Zenon DEF HandleState, Startup
  <1>5. CASE handle_acknowledgment
    <2>1. \A t \in Tasks : awaiting_response'[t] => awaiting_response[t]
      BY <1>5, AckClears, Zenon
    <2> QED
      BY <1>5, <2>1, Zenon DEF Startup, handle_acknowledgment
  <1>6. ASSUME NEW s \in {"IDLE", "RUNNING"}, Order(s) PROVE Startup'
    <2>1. \A i \in 1 .. Len(Append(orders, s)) :
            \/ i \in 1 .. Len(orders) /\ Append(orders, s)[i] = orders[i]
            \/ Append(orders, s)[i] = s
      BY ONLY <1>0, s \in {"IDLE", "RUNNING"}
    <2>2. orders' = orders \/ orders' = Append(orders, s)
      BY <1>6, Zenon DEF Order
    <2>3. /\ ~asked' => ~asked /\ s # "RUNNING"
          /\ UNCHANGED <<current_state, pc, awaiting_response>>
      BY <1>6, Zenon DEF Order
    <2>4. ~asked' => \A i \in 1 .. Len(orders') : orders'[i] # "RUNNING"
      BY <2>1, <2>2, <2>3, Zenon DEF Startup
    <2> QED
      BY <2>3, <2>4, Zenon DEF Startup
  <1>7. CASE UNCHANGED <<asked, orders, current_state, pc, awaiting_response>>
    BY <1>7, Zenon DEF Startup
  <1> QED
    BY <1>1, <1>2, <1>3, <1>4, <1>5, <1>6, <1>7, Zenon
    DEF Next, vars, TakeCommand, handle_heartbeat, Ignore, RegisterTask, notify_task_registered, Tick,
        Aborted, Hung

(* The loop sends each task one heartbeat, and the next round sends none      *)
(* unless the state is RUNNING again.                                         *)
LEMMA NextLateness == TypeOK /\ Lateness /\ [Next]_vars => Lateness'
  <1> SUFFICES ASSUME OwnOK, RestOK, Lateness, [Next]_vars PROVE Lateness'
    BY TypeParts, Zenon
  <1> USE DEF round, history
  <1>1. CASE Wake \/ CheckDone \/ TestRunning \/ TestNotRunning \/ SendDone \/ MarkRecord
    BY <1>1, Zenon DEF RestOK, Lateness, Wake, CheckDone, TestRunning, TestNotRunning, SendDone, MarkRecord
  <1>2. ASSUME NEW t \in Tasks, CheckNext(t) \/ SendNext(t) \/ MarkDeliver(t) PROVE Lateness'
    BY <1>2, Zenon DEF RestOK, Lateness, CheckNext, SendNext, MarkDeliver
  <1>3. ASSUME NEW t \in Tasks, SendHeartbeat(t) PROVE Lateness'
    BY <1>3 DEF RestOK, Lateness, SendHeartbeat
  <1>4. CASE HandleState
    BY <1>4 DEF RestOK, Lateness, HandleState
  <1>5. CASE UNCHANGED <<late, current_state, pc, todo>>
    BY <1>5, Zenon DEF Lateness
  <1> QED
    BY <1>1, <1>2, <1>3, <1>4, <1>5, Zenon
    DEF Next, vars, TakeAck, handle_acknowledgment, TakeCommand, handle_heartbeat, Ignore,
        RegisterTask, notify_task_registered, Order, Tick, Aborted, Hung

(* A new heartbeat has an id that no acknowledgment under way carries, so     *)
(* that those of earlier heartbeats say nothing about it.                     *)
LEMMA NextCauses == TypeOK /\ Causes /\ [Next]_vars => Causes'
  <1> SUFFICES ASSUME BoxesOK, OwnOK, RestOK, Causes, [Next]_vars PROVE Causes'
    BY TypeParts, Zenon
  <1> USE DEF status, own, history
  <1>0. /\ \A i \in 1 .. Len(acks) : acks[i].from \in Tasks
        /\ \A i \in 1 .. Len(hand) : hand[i].from \in Tasks
    <2>1. \A s \in Seq(Ack) : \A i \in 1 .. Len(s) : s[i] \in Ack
      OBVIOUS
    <2>2. \A a \in Ack : a.from \in Tasks
      BY Zenon DEF Ack
    <2>3. acks \in Seq(Ack) /\ hand \in Seq(Ack)
      BY Zenon DEF OwnOK
    <2> QED
      BY ONLY <2>1, <2>2, <2>3, Zenon
  <1>1. CASE MarkRecord
    <2>1. /\ \A u \in Tasks : settled[u] => settled'[u]
          /\ UNCHANGED <<last_heartbeat_id, acks, hand>>
      BY <1>1, Zenon DEF RestOK, MarkRecord
    <2>2. \A u \in Tasks : settled'[u] \/ awaiting_response'[u] = awaiting_response[u]
      BY <1>1, Zenon DEF RestOK, MarkRecord
    <2>3. ClosedForCause'
      BY <2>1, <2>2, Zenon DEF Causes, ClosedForCause
    <2> QED
      BY <1>0, <2>1, <2>3, Zenon DEF Causes, Honest
  <1>2. ASSUME NEW t \in Tasks, SendHeartbeat(t) PROVE Causes'
    <2> DEFINE id == generate_heartbeat_id(t)
    <2>1. id \notin InUse(t)
      BY <1>2, FreshId, Zenon DEF SendHeartbeat
    <2>2. \A i \in 1 .. Len(acks) : acks[i].from = t => acks[i].id # id
      BY <2>1, Zenon DEF InUse, Range
    <2>3. \A i \in 1 .. Len(hand) : hand[i].from = t => hand[i].id # id
      BY <2>1, Zenon DEF InUse, Range
    <2>4. /\ last_heartbeat_id' = [last_heartbeat_id EXCEPT ![t] = id]
          /\ settled' = [settled EXCEPT ![t] = FALSE]
          /\ awaiting_response' = [awaiting_response EXCEPT ![t] = TRUE]
          /\ UNCHANGED <<acks, hand>>
      BY <1>2, Zenon DEF SendHeartbeat
    <2> HIDE DEF id
    <2>5. /\ last_heartbeat_id'[t] = id /\ awaiting_response'[t]
          /\ \A u \in Tasks \ {t} :
               /\ last_heartbeat_id'[u] = last_heartbeat_id[u] /\ settled'[u] = settled[u]
               /\ awaiting_response'[u] = awaiting_response[u]
      BY <2>4, Zenon DEF RestOK
    <2>6. ClosedForCause'
      BY <2>5, Zenon DEF Causes, ClosedForCause
    <2>7. \A i \in 1 .. Len(acks) :
            acks[i].id = last_heartbeat_id'[acks[i].from] => settled'[acks[i].from]
      BY <1>0, <2>2, <2>5 DEF Causes, Honest
    <2>8. \A i \in 1 .. Len(hand) :
            hand[i].id = last_heartbeat_id'[hand[i].from] => settled'[hand[i].from]
      BY <1>0, <2>3, <2>5 DEF Causes, Honest
    <2> QED
      BY <2>4, <2>6, <2>7, <2>8, Zenon DEF Causes, Honest
  <1>3. CASE TakeAck
    <2>1. acks \in Seq(Ack) /\ acks # <<>>
      BY <1>3, Zenon DEF TakeAck, OwnOK
    <2>2. /\ 1 \in 1 .. Len(acks) /\ Head(acks) = acks[1]
          /\ \A i \in 1 .. Len(Tail(acks)) : i + 1 \in 1 .. Len(acks) /\ Tail(acks)[i] = acks[i + 1]
      BY ONLY <2>1
    <2>3. \A i \in 1 .. Len(acks') : Honest(acks'[i])
      BY <1>3, <2>2, Zenon DEF TakeAck, Causes
    <2>4. hand' = <<acks[1]>> /\ \A i \in 1 .. Len(hand') : hand'[i] = acks[1]
      BY <1>3, <2>2 DEF TakeAck
    <2>5. \A i \in 1 .. Len(hand') : Honest(hand'[i])
      BY <2>2, <2>4, Zenon DEF Causes
    <2> QED
      BY <1>3, <2>3, <2>5, Zenon DEF TakeAck, Causes, ClosedForCause, Honest
  <1>4. CASE handle_acknowledgment
    <2>1. hand \in Seq(Ack) /\ hand # <<>>
      BY <1>4, Zenon DEF handle_acknowledgment, OwnOK
    <2>2. 1 \in 1 .. Len(hand) /\ Head(hand) = hand[1]
      BY ONLY <2>1
    <2>3. Honest(Head(hand))
      BY <2>2, Zenon DEF Causes
    <2>4. \A t \in Tasks : awaiting_response[t] /\ ~awaiting_response'[t] => settled[t]
      BY <1>4, <2>3, AckClears, Zenon DEF Honest, Matches
    <2>5. ClosedForCause'
      BY <1>4, <2>4, Zenon DEF handle_acknowledgment, Causes, ClosedForCause
    <2>6. \A i \in 1 .. Len(hand') : Honest(hand'[i])
      BY <1>4 DEF handle_acknowledgment
    <2> QED
      BY <1>4, <2>5, <2>6, Zenon DEF handle_acknowledgment, Causes, Honest
  <1>5. ASSUME NEW t \in Tasks, handle_heartbeat(t) PROVE Causes'
    <2> DEFINE new == [from |-> t, id |-> Head(beats[t])]
    <2>1. /\ \A u \in Tasks : settled[u] => settled'[u]
          /\ Head(beats[t]) = last_heartbeat_id[t] => settled'[t]
      BY <1>5, Zenon DEF handle_heartbeat, RestOK
    <2>2. acks' = acks \/ acks' = Append(acks, new)
      BY <1>5, Zenon DEF handle_heartbeat
    <2>3. acks \in Seq(Ack)
      BY Zenon DEF OwnOK
    <2>4. \A i \in 1 .. Len(Append(acks, new)) :
            \/ i \in 1 .. Len(acks) /\ Append(acks, new)[i] = acks[i]
            \/ Append(acks, new)[i] = new
      BY ONLY <2>3
    <2>5. \A i \in 1 .. Len(acks') :
            \/ i \in 1 .. Len(acks) /\ acks'[i] = acks[i]
            \/ acks'[i] = new
      BY ONLY <2>2, <2>4, Zenon
    <2>6. UNCHANGED <<last_heartbeat_id, awaiting_response, hand>>
      BY <1>5, Zenon DEF handle_heartbeat
    <2>7. new.from = t /\ new.id = Head(beats[t])
      OBVIOUS
    <2> HIDE DEF new
    <2>8. \A i \in 1 .. Len(acks') :
            acks'[i].id = last_heartbeat_id[acks'[i].from] => settled'[acks'[i].from]
      BY <1>0, <2>1, <2>5, <2>7, Zenon DEF Causes, Honest
    <2>9. \A i \in 1 .. Len(hand) :
            hand[i].id = last_heartbeat_id[hand[i].from] => settled'[hand[i].from]
      BY <1>0, <2>1, Zenon DEF Causes, Honest
    <2> QED
      BY <2>1, <2>6, <2>8, <2>9, Zenon DEF Causes, ClosedForCause, Honest
  <1>6. CASE UNCHANGED <<awaiting_response, last_heartbeat_id, settled, acks, hand>>
    BY <1>6, Zenon DEF Causes, ClosedForCause, Honest
  <1> QED
    BY <1>1, <1>2, <1>3, <1>4, <1>5, <1>6, Zenon
    DEF Next, vars, Wake, CheckDone, TestRunning, TestNotRunning, SendDone, HandleState, CheckNext,
        MarkDeliver, SendNext, TakeCommand, Ignore, RegisterTask, notify_task_registered,
        Order, Tick, Aborted, Hung

(* A sequence of one element. *)
LEMMA SingleFacts ==
  ASSUME NEW S, NEW q \in Seq(S), Len(q) = 1
  PROVE  Tail(q) = <<>> /\ Head(q) = q[1]
  <1>1. q # <<>> /\ Head(q) = q[1]
    OBVIOUS
  <1>2. Tail(q) \in Seq(S) /\ Len(Tail(q)) = 0
    BY <1>1
  <1>3. \A x \in Seq(S) : Len(x) = 0 => x = <<>>
    OBVIOUS
  <1> QED
    BY <1>1, <1>2, <1>3, Zenon

LEMMA NewSingle ==
  ASSUME NEW S, NEW x \in S PROVE Len(Append(<<>>, x)) = 1 /\ Append(<<>>, x)[1] = x
  OBVIOUS

LEMMA Positions ==
  ASSUME NEW S, NEW q \in Seq(S), NEW i \in 1 .. Len(q)
  PROVE  q # <<>> /\ (Len(q) = 1 => i = 1)
  OBVIOUS

(* Every step keeps a prompt task's heartbeat single: a new one is sent only  *)
(* when none is awaited, and its acknowledgment matches.                      *)
LEMMA NextSingle ==
  ASSUME IInv, [Next]_vars, NEW t \in Prompt PROVE Single(t)'
  <1> USE HeartBeatAssumption DEF status, own, boxes, history
  <1>0. BoxesOK /\ OwnOK /\ RestOK /\ Timing /\ Single(t) /\ t \in Tasks
    BY TypeParts, Zenon DEF IInv
  <1>1. CASE MarkRecord
    <2>1. suspect # t
      BY <1>0, Zenon DEF Timing, NoFalseAlarm
    <2> QED
      BY <1>0, <1>1, <2>1, Zenon DEF MarkRecord, RestOK, Single, NoneIn, Alive
  <1>2. ASSUME NEW r \in Tasks, SendHeartbeat(r) PROVE Single(t)'
    <2>1. CASE r # t
      BY <1>0, <1>2, <2>1, ZenonT(30) DEF SendHeartbeat, RestOK, BoxesOK, Single, NoneIn, Alive
    <2>2. CASE r = t
      <3>1. beats[t] = <<>> /\ NoneIn(acks, t) /\ NoneIn(hand, t)
        BY <1>0, <1>2, <2>2, Zenon DEF SendHeartbeat, Single
      <3> DEFINE id == generate_heartbeat_id(t)
      <3>2. last_heartbeat_id'[t] = id /\ awaiting_response'[t] /\ UNCHANGED <<acks, hand>>
        BY <1>0, <1>2, <2>2, Zenon DEF SendHeartbeat, RestOK
      <3>3. beats'[t] = <<>> \/ beats'[t] = Append(<<>>, id)
        BY <1>0, <1>2, <2>2, <3>1, Zenon DEF SendHeartbeat, BoxesOK
      <3>a. id \in Ids
        BY <1>2, <2>2, FreshId, Zenon DEF SendHeartbeat
      <3> HIDE DEF id
      <3>b. Len(Append(<<>>, id)) = 1 /\ Append(<<>>, id)[1] = id
        BY ONLY <3>a, NewSingle, Zenon
      <3>4. beats'[t] # <<>> => Len(beats'[t]) = 1 /\ beats'[t][1] = id
        BY ONLY <3>3, <3>b, Zenon
      <3> QED
        BY <3>1, <3>2, <3>4, Zenon DEF Single, NoneIn
    <2> QED
      BY <2>1, <2>2, Zenon
  <1>3. CASE TakeAck
    <2>1. acks \in Seq(Ack) /\ acks # <<>>
      BY <1>0, <1>3, Zenon DEF TakeAck, OwnOK
    <2>2. /\ 1 \in 1 .. Len(acks) /\ Head(acks) = acks[1]
          /\ \A i \in 1 .. Len(Tail(acks)) :
               i \in Int /\ i + 1 \in 1 .. Len(acks) /\ i + 1 # 1 /\ Tail(acks)[i] = acks[i + 1]
      BY ONLY <2>1
    <2>3. hand' = <<acks[1]>> /\ \A i \in 1 .. Len(hand') : hand'[i] = acks[1]
      BY <1>3, <2>2 DEF TakeAck
    <2>4. acks' = Tail(acks) /\ hand = <<>> /\ UNCHANGED <<awaiting_response, last_heartbeat_id, beats, fate>>
      BY <1>3, Zenon DEF TakeAck
    <2>5. NoneIn(acks, t) => NoneIn(acks', t) /\ NoneIn(hand', t)
      BY <2>2, <2>3, <2>4, Zenon DEF NoneIn
    <2>6. acks[1].from = t => NoneIn(acks', t)
      BY <1>0, <2>2, <2>4 DEF NoneIn, Single
    <2>7. acks[1].from # t => NoneIn(hand', t)
      BY <2>3, Zenon DEF NoneIn
    <2>8. ASSUME NEW i \in 1 .. Len(acks'), acks'[i].from = t
          PROVE  /\ acks'[i].id = last_heartbeat_id[t] /\ NoneIn(hand', t)
                 /\ \A j \in 1 .. Len(acks') : acks'[j].from = t => j = i
      <3>1. acks[1].from # t
        BY <2>6, <2>8, Zenon DEF NoneIn
      <3>2. acks[i + 1].from = t /\ acks[i + 1].id = last_heartbeat_id[t] /\ acks'[i] = acks[i + 1]
        BY <1>0, <2>2, <2>4, <2>8, Zenon DEF Single
      <3>3. ASSUME NEW j \in 1 .. Len(acks'), acks'[j].from = t PROVE j = i
        <4>1. j + 1 = i + 1
          BY <1>0, <2>2, <2>4, <2>8, <3>2, <3>3, Zenon DEF Single
        <4> QED
          BY <2>2, <2>4, <4>1
      <3> QED
        BY <2>7, <3>1, <3>2, <3>3, Zenon
    <2>9. \A i \in 1 .. Len(hand') : hand'[i].from = t => hand'[i].id = last_heartbeat_id[t]
      BY <1>0, <2>2, <2>3 DEF Single
    <2> QED
      BY <1>0, <2>4, <2>5, <2>8, <2>9, Zenon DEF Single, Alive
  <1>4. CASE handle_acknowledgment
    <2>1. hand \in Seq(Ack) /\ hand # <<>> /\ Len(hand) <= 1
      BY <1>0, <1>4, Zenon DEF handle_acknowledgment, OwnOK
    <2>2. 1 \in 1 .. Len(hand) /\ Head(hand) = hand[1] /\ \A i \in 1 .. Len(hand) : i = 1
      BY ONLY <2>1
    <2>3. hand' = <<>> /\ NoneIn(hand', t) /\ UNCHANGED <<last_heartbeat_id, beats, acks, fate>> /\ Alive
      BY <1>4 DEF handle_acknowledgment, NoneIn
    <2>4. CASE hand[1].from = t
      <3>1. beats[t] = <<>> /\ NoneIn(acks, t)
        BY <1>0, <2>2, <2>4, Zenon DEF Single, NoneIn
      <3> QED
        BY <2>3, <3>1, Zenon DEF Single, NoneIn
    <2>5. CASE hand[1].from # t
      <3>1. NoneIn(hand, t)
        BY <2>2, <2>5, Zenon DEF NoneIn
      <3>2. awaiting_response'[t] = awaiting_response[t]
        BY <1>0, <1>4, <2>2, <2>5 DEF handle_acknowledgment, RestOK
      <3> QED
        BY <1>0, <2>3, <3>1, <3>2 DEF Single, NoneIn, Alive
    <2> QED
      BY <2>4, <2>5, Zenon
  <1>5. ASSUME NEW r \in Tasks, handle_heartbeat(r) PROVE Single(t)'
    <2> DEFINE new == [from |-> r, id |-> Head(beats[r])]
    <2>1. acks' = acks \/ acks' = Append(acks, new)
      BY <1>5, Zenon DEF handle_heartbeat
    <2>2. acks \in Seq(Ack)
      BY <1>0, Zenon DEF OwnOK
    <2>3. /\ Len(acks) \in Nat /\ Len(Append(acks, new)) = Len(acks) + 1
          /\ \A i \in 1 .. Len(Append(acks, new)) :
               \/ i \in 1 .. Len(acks) /\ Append(acks, new)[i] = acks[i]
               \/ i = Len(acks) + 1 /\ Append(acks, new)[i] = new
      BY ONLY <2>2
    <2>4. \A i \in 1 .. Len(acks') :
            \/ i \in 1 .. Len(acks) /\ acks'[i] = acks[i]
            \/ i = Len(acks) + 1 /\ acks'[i] = new
      BY ONLY <2>1, <2>3, Zenon
    <2>5. UNCHANGED <<last_heartbeat_id, awaiting_response, hand>> /\ Alive
      BY <1>5, Zenon DEF handle_heartbeat
    <2>6. new.from = r /\ new.id = Head(beats[r])
      OBVIOUS
    <2> HIDE DEF new
    <2>7. CASE r # t
      <3>1. beats'[t] = beats[t]
        BY <1>0, <1>5, <2>7, Zenon DEF handle_heartbeat, BoxesOK
      <3>2. \A i \in 1 .. Len(acks') : acks'[i].from = t => i \in 1 .. Len(acks) /\ acks'[i] = acks[i]
        BY <2>4, <2>6, <2>7, Zenon
      <3>3. NoneIn(acks, t) => NoneIn(acks', t)
        BY <3>2, Zenon DEF NoneIn
      <3> QED
        BY <1>0, <2>5, <3>1, <3>2, <3>3 DEF Single, NoneIn, Alive
    <2>8. CASE r = t
      <3>1. beats[t] \in Seq(Ids) /\ beats[t] # <<>> /\ beats'[t] = Tail(beats[t])
        BY <1>0, <1>5, <2>8, Zenon DEF handle_heartbeat, BoxesOK
      <3>2. Len(beats[t]) = 1 /\ beats[t][1] = last_heartbeat_id[t] /\ NoneIn(acks, t) /\ NoneIn(hand, t)
        BY <1>0, <3>1, Zenon DEF Single
      <3>3. beats'[t] = <<>> /\ Head(beats[t]) = last_heartbeat_id[t]
        BY ONLY <3>1, <3>2, SingleFacts, Zenon
      <3>4. \A i \in 1 .. Len(acks') : acks'[i].from = t => i = Len(acks) + 1 /\ acks'[i].id = last_heartbeat_id[t]
        BY <2>4, <2>6, <2>8, <3>2, <3>3, Zenon DEF NoneIn
      <3>5. awaiting_response[t]
        BY <1>0, <2>5, <3>1, ZenonT(30) DEF Single
      <3> QED
        BY <2>5, <3>2, <3>3, <3>4, <3>5, Zenon DEF Single, NoneIn
    <2> QED
      BY <2>7, <2>8, Zenon
  <1>6. ASSUME NEW r \in Tasks, Ignore(r) PROVE Single(t)'
    <2>1. r # t
      BY <1>6, Zenon DEF Ignore
    <2>2. beats'[t] = beats[t]
      BY <1>0, <1>6, <2>1, Zenon DEF Ignore, BoxesOK
    <2>3. UNCHANGED <<awaiting_response, last_heartbeat_id, acks, hand, fate>>
      BY <1>6, Zenon DEF Ignore
    <2> QED
      BY <1>0, <2>2, <2>3, Zenon DEF Single, NoneIn, Alive
  <1>7. CASE UNCHANGED <<awaiting_response, last_heartbeat_id, beats, acks, hand>> /\ (Alive' => Alive)
    BY <1>0, <1>7, Zenon DEF Single, NoneIn
  <1> QED
    BY <1>1, <1>2, <1>3, <1>4, <1>5, <1>6, <1>7, Zenon
    DEF Next, vars, Wake, CheckDone, TestRunning, TestNotRunning, SendDone, HandleState, CheckNext,
        MarkDeliver, SendNext, TakeCommand, RegisterTask, notify_task_registered,
        Order, Tick, Aborted, Hung, Alive

(* The strengthened invariant holds in every state of every behaviour of the  *)
(* HeartBeatTask and the tasks it monitors.                                   *)
THEOREM Invariance == Spec => []IInv
  <1>1. IInv /\ [Next]_vars => IInv'
    BY NextTypeOK, NextTiming, NextStartup, NextLateness, NextCauses, NextSingle, Zenon DEF IInv
  <1> QED
    BY InitIInv, <1>1, PTL DEF Spec

(* The variables keep their types, and no queue is longer than its pool.      *)
THEOREM TypeCorrect == Spec => []TypeOK
  BY Invariance, PTL DEF IInv

(* check_for_timeouts never marks a task that is given the time to answer     *)
(* within response_timeout_ms, for any interval, timeout and slack.           *)
THEOREM NoFalseAlarmCorrect == Spec => []NoFalseAlarm
  <1>1. IInv => NoFalseAlarm
    BY Zenon DEF IInv, Timing
  <1> QED
    BY Invariance, <1>1, PTL

(* No heartbeat stays open longer than response_timeout_ms, one interval and  *)
(* three times the slack, whatever its task does, unless the periodic thread  *)
(* waits for a register_task that waits for it.                               *)
THEOREM DetectionBoundCorrect == Spec => []DetectionBound
  <1>1. ASSUME IInv, NEW t \in Tasks, awaiting_response[t]
        PROVE  age[t] <= Timeout + Interval + 3 * Slack
    <2>1. age[t] \in Nat /\ since \in Nat
      BY <1>1, Zenon DEF IInv, TypeOK
    <2>2. since <= (IF pc = "sleep" THEN Interval + Slack ELSE Slack) /\ age[t] <= Limit(t) + since
      BY <1>1, Zenon DEF IInv, Timing
    <2>3. Timeout \in Nat /\ Interval \in Nat /\ Slack \in Nat
      BY HeartBeatAssumption, Zenon
    <2> QED
      BY ONLY <2>1, <2>2, <2>3 DEF Limit
  <1>2. IInv => DetectionBound
    BY <1>1, Zenon DEF DetectionBound
  <1> QED
    BY Invariance, <1>2, PTL

(* handle_acknowledgment closes a heartbeat only for an acknowledgment of     *)
(* that heartbeat.                                                            *)
THEOREM ClosedForCauseCorrect == Spec => []ClosedForCause
  <1>1. IInv => ClosedForCause
    BY Zenon DEF IInv, Causes
  <1> QED
    BY Invariance, <1>1, PTL

(* A task gets at most one heartbeat after the HeartBeatTask has left         *)
(* RUNNING.                                                                   *)
THEOREM LateBeatCorrect == Spec => []AtMostOneLateBeat
  <1>1. IInv => AtMostOneLateBeat
    BY Zenon DEF IInv, Lateness, AtMostOneLateBeat
  <1> QED
    BY Invariance, <1>1, PTL

(* register_task and check_for_timeouts wait for each other's mutex only if   *)
(* the task is registered after RUNNING has been asked for.                   *)
THEOREM NoLockCycleCorrect == Spec => []NoLockCycle
  <1>1. IInv => NoLockCycle
    BY Zenon DEF IInv, Startup, NoLockCycle, LocksMeet
  <1> QED
    BY Invariance, <1>1, PTL

(* A task that answers in time never has two heartbeats under way: monitoring *)
(* it takes one block of its queue, or one of the HeartBeatTask's.            *)
THEOREM OneUnderWayCorrect == Spec => []OneUnderWay
  <1>1. ASSUME IInv, NEW t \in Prompt, NEW m \in UnderWay(t), NEW n \in UnderWay(t) PROVE m = n
    <2>1. Single(t) /\ Len(hand) <= 1 /\ hand \in Seq(Ack) /\ t \in Tasks /\ beats \in [Tasks -> Seq(Ids)]
      BY <1>1, HeartBeatAssumption, TypeParts, Zenon DEF IInv, OwnOK, BoxesOK
    <2>2. \A i, j \in 1 .. Len(hand) : i = j
      BY ONLY <2>1
    <2>3. beats[t] \in Seq(Ids)
      BY <2>1, Zenon
    <2>4. \A i \in 1 .. Len(beats[t]) : beats[t] # <<>> /\ (Len(beats[t]) = 1 => i = 1)
      BY ONLY <2>3, Positions, Zenon
    <2> QED
      BY <2>1, <2>2, <2>4, Zenon DEF Single, NoneIn, UnderWay
  <1>2. IInv => OneUnderWay
    BY <1>1, Zenon DEF OneUnderWay
  <1> QED
    BY Invariance, <1>2, PTL
================================================================================
