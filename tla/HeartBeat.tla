------------------------------ MODULE HeartBeat ------------------------------
(* The HeartBeatTask: its periodic thread looks for heartbeats that were not  *)
(* answered in time and sends new ones, its queue thread takes StateMsgs and  *)
(* acknowledgments, and the monitored tasks answer, late, or not at all.      *)
(* tasks_mutex is held through each of the two loops and by whoever handles   *)
(* an acknowledgment or adds a task; state_mutex of the StateManager is held  *)
(* by register_task and asked for by mark_task_as_unresponsive. A task may be *)
(* registered at any time, although the README of the repository has it done  *)
(* during initialization; asked tells the two apart. unresponsive_action is   *)
(* left out, it is only logged. Time is discrete. What is assumed of the      *)
(* scheduler is in Tick.                                                      *)
EXTENDS Integers, Sequences

CONSTANTS
  Tasks,      \* the tasks to monitor
  Prompt,     \* those that answer within Latency
  Interval,   \* heartbeat_interval_ms
  Timeout,    \* response_timeout_ms
  Latency,    \* from sending a heartbeat to its acknowledgment, see Tick
  Slack,      \* how long a round takes, and how late a sleeper wakes, at most
  Ids,        \* heartbeat ids other than 0
  QueueSize,  \* queue_msg_count
  MaxOrders   \* bound: StateMsgs published in a behaviour

ASSUME HeartBeatAssumption ==
  /\ Prompt \subseteq Tasks /\ "none" \notin Tasks
  /\ Interval \in Nat \ {0} /\ Timeout \in Nat /\ Slack \in Nat
  /\ Latency \in 0 .. Timeout
  /\ Ids \subseteq Nat \ {0} /\ QueueSize \in Nat /\ MaxOrders \in Nat

VARIABLES
  monitored,            \* the keys of monitored_tasks
  awaiting_response, last_heartbeat_id,
  age,                  \* now - last_heartbeat_time; 0 when no response is awaited
  current_state,        \* of the HeartBeatTask
  orders, acks,         \* its message queue: StateMsgs, which go first, and acknowledgments
  hand,                 \* the acknowledgment its queue thread has taken, if any
  pc, todo, suspect,    \* periodic thread: its place, tasks left in the loop, task being marked
  since,                \* time since the round, or the sleep, began
  commands, beats,      \* the tasks' queues: number of StateMsgs, which go first; heartbeats
  registering,          \* the task register_task is at, with state_mutex held
  fate,                 \* "aborted" once a message found its queue full
  ordered,              \* counter for the bound
  settled, late,        \* history: the latest heartbeat was answered or timed out;
                        \* heartbeats sent since RUNNING was left
  asked                 \* history: RUNNING has been asked for

status   == <<monitored, awaiting_response, last_heartbeat_id, age>>
own      == <<orders, acks, hand, ordered>>
round    == <<pc, todo, suspect>>
boxes    == <<commands, beats>>
history  == <<settled, late>>
registry == <<registering, asked>>
vars     == <<status, current_state, own, round, since, boxes, registry, fate, history>>

NoTask == "none"

Range(s) == {s[i] : i \in 1 .. Len(s)}

Init ==
  /\ monitored = {}
  /\ awaiting_response = [t \in Tasks |-> FALSE]
  /\ last_heartbeat_id = [t \in Tasks |-> 0] /\ age = [t \in Tasks |-> 0]
  /\ current_state = "NOT_STARTED"
  /\ orders = <<>> /\ acks = <<>> /\ hand = <<>> /\ ordered = 0
  /\ pc = "sleep" /\ todo = {} /\ suspect = NoTask /\ since = Interval
  /\ commands = [t \in Tasks |-> 0] /\ beats = [t \in Tasks |-> <<>>]
  /\ registering = NoTask /\ asked = FALSE /\ fate = "alive"
  /\ settled = [t \in Tasks |-> TRUE] /\ late = [t \in Tasks |-> 0]

Alive      == fate = "alive"
TasksMutex == pc \in {"check", "record", "send"}   \* held by the periodic thread

(* Mutation: nobody looks whether there is a block left. *)
HasRoomAlways(t) == TRUE

HasRoom(t) == commands[t] + Len(beats[t]) < QueueSize

--------------------------------------------------------------------------------
(* The periodic thread: check_for_timeouts ...                                *)
Wake ==
  /\ Alive /\ pc = "sleep" /\ since >= Interval
  /\ pc' = "check" /\ todo' = monitored /\ since' = 0
  /\ UNCHANGED <<status, current_state, own, suspect, boxes, registry, fate, history>>

(* Mutation: the clock is read in the loop, once per task. *)
OverdueNow(t) == awaiting_response[t] /\ age[t] > Timeout

(* Mutation: nobody is late unless the system runs. *)
OverdueRunning(t) ==
  awaiting_response[t] /\ age[t] - since > Timeout /\ current_state = "RUNNING"

(* current_time was read when the loop began, which is since ago. *)
Overdue(t) == awaiting_response[t] /\ age[t] - since > Timeout

CheckNext(t) ==
  /\ Alive /\ pc = "check" /\ t \in todo /\ ~Overdue(t)
  /\ todo' = todo \ {t}
  /\ UNCHANGED <<status, current_state, own, pc, suspect, since, boxes, registry, fate, history>>

(* mark_task_as_unresponsive: ERROR, in a StateMsg for the task alone ... *)
MarkDeliver(t) ==
  /\ Alive /\ pc = "check" /\ t \in todo /\ Overdue(t)
  /\ IF HasRoom(t)
     THEN /\ commands' = [commands EXCEPT ![t] = @ + 1]
          /\ pc' = "record" /\ suspect' = t
          /\ UNCHANGED fate
     ELSE fate' = "aborted" /\ UNCHANGED <<commands, pc, suspect>>
  /\ UNCHANGED <<status, current_state, own, todo, since, beats, registry, history>>

(* ... and the record, which state_mutex guards and StateManager describes;   *)
(* back in the loop, the response is no longer awaited.                       *)
MarkRecord ==
  /\ Alive /\ pc = "record" /\ registering = NoTask
  /\ awaiting_response' = [awaiting_response EXCEPT ![suspect] = FALSE]
  /\ age' = [age EXCEPT ![suspect] = 0]
  /\ settled' = [settled EXCEPT ![suspect] = TRUE]
  /\ pc' = "check" /\ todo' = todo \ {suspect} /\ suspect' = NoTask
  /\ UNCHANGED <<monitored, last_heartbeat_id, current_state, own, since, boxes, registry, fate,
                 late>>

CheckDone ==
  /\ Alive /\ pc = "check" /\ todo = {}
  /\ pc' = "test"
  /\ UNCHANGED <<status, current_state, own, todo, suspect, since, boxes, registry, fate, history>>

(* ... the test of the state ... *)
(* Mutation: heartbeats are sent once the task has been told any state. *)
TestRunningTold ==
  /\ Alive /\ pc = "test" /\ current_state # "NOT_STARTED"
  /\ pc' = "send" /\ todo' = monitored
  /\ UNCHANGED <<status, current_state, own, suspect, since, boxes, registry, fate, history>>

TestRunning ==
  /\ Alive /\ pc = "test" /\ current_state = "RUNNING"
  /\ pc' = "send" /\ todo' = monitored
  /\ UNCHANGED <<status, current_state, own, suspect, since, boxes, registry, fate, history>>

TestNotRunning ==
  /\ Alive /\ pc = "test" /\ current_state # "RUNNING"
  /\ pc' = "sleep" /\ since' = 0
  /\ UNCHANGED <<status, current_state, own, todo, suspect, boxes, registry, fate, history>>

(* ... and send_heartbeat. *)
SendNext(t) ==
  /\ Alive /\ pc = "send" /\ t \in todo /\ awaiting_response[t]
  /\ todo' = todo \ {t}
  /\ UNCHANGED <<status, current_state, own, pc, suspect, since, boxes, registry, fate, history>>

InUse(t) ==
  Range(beats[t])
    \cup {a.id : a \in {b \in Range(hand) \cup Range(acks) : b.from = t}}

(* Ids are only compared, for equality, with the last one of the same task,   *)
(* which the new one replaces: next_heartbeat_id++ is a value that no message *)
(* under way holds for this task.                                             *)
generate_heartbeat_id(t) == CHOOSE id \in Ids : id \notin InUse(t)

(* Mutation: a heartbeat goes out although one is awaited. *)
SendHeartbeatAgain(t) ==
  /\ Alive /\ pc = "send" /\ t \in todo
  /\ Ids \ InUse(t) # {}
  /\ todo' = todo \ {t}
  /\ awaiting_response' = [awaiting_response EXCEPT ![t] = TRUE]
  /\ last_heartbeat_id' = [last_heartbeat_id EXCEPT ![t] = generate_heartbeat_id(t)]
  /\ age' = [age EXCEPT ![t] = 0]
  /\ IF HasRoom(t)
     THEN beats' = [beats EXCEPT ![t] = Append(@, generate_heartbeat_id(t))] /\ UNCHANGED fate
     ELSE fate' = "aborted" /\ UNCHANGED beats
  /\ settled' = [settled EXCEPT ![t] = FALSE]
  /\ late' = IF current_state = "RUNNING" THEN late ELSE [late EXCEPT ![t] = @ + 1]
  /\ UNCHANGED <<monitored, current_state, own, pc, suspect, since, commands, registry>>

SendHeartbeat(t) ==
  /\ Alive /\ pc = "send" /\ t \in todo /\ ~awaiting_response[t]
  /\ Ids \ InUse(t) # {}
  /\ todo' = todo \ {t}
  /\ awaiting_response' = [awaiting_response EXCEPT ![t] = TRUE]
  /\ last_heartbeat_id' = [last_heartbeat_id EXCEPT ![t] = generate_heartbeat_id(t)]
  /\ age' = [age EXCEPT ![t] = 0]
  /\ IF HasRoom(t)
     THEN beats' = [beats EXCEPT ![t] = Append(@, generate_heartbeat_id(t))] /\ UNCHANGED fate
     ELSE fate' = "aborted" /\ UNCHANGED beats
  /\ settled' = [settled EXCEPT ![t] = FALSE]
  /\ late' = IF current_state = "RUNNING" THEN late ELSE [late EXCEPT ![t] = @ + 1]
  /\ UNCHANGED <<monitored, current_state, own, pc, suspect, since, commands, registry>>

SendDone ==
  /\ Alive /\ pc = "send" /\ todo = {}
  /\ pc' = "sleep" /\ since' = 0
  /\ UNCHANGED <<status, current_state, own, todo, suspect, boxes, registry, fate, history>>

--------------------------------------------------------------------------------
(* The queue thread: process_message for a StateMsg (transition_to_state; its *)
(* acknowledgment goes to the StateManager) ...                               *)
HandleState ==
  /\ Alive /\ hand = <<>> /\ orders # <<>>
  /\ orders' = Tail(orders)
  /\ current_state' = Head(orders)
  /\ late' = IF Head(orders) = "RUNNING" THEN [t \in Tasks |-> 0] ELSE late
  /\ UNCHANGED <<status, acks, hand, ordered, round, since, boxes,
                 registry, fate, settled>>

(* ... and for an acknowledgment, which waits for tasks_mutex. *)
TakeAck ==
  /\ Alive /\ hand = <<>> /\ orders = <<>> /\ acks # <<>>
  /\ hand' = <<Head(acks)>> /\ acks' = Tail(acks)
  /\ UNCHANGED <<status, current_state, orders, ordered, round, since, boxes, registry, fate,
                 history>>

(* Mutation: any acknowledgment of the task will do. *)
MatchesAny(ack) == ack.from \in monitored

Matches(ack) == ack.from \in monitored /\ last_heartbeat_id[ack.from] = ack.id

handle_acknowledgment ==
  /\ Alive /\ hand # <<>> /\ ~TasksMutex
  /\ hand' = <<>>
  /\ LET ack == Head(hand) IN
       IF Matches(ack)
       THEN /\ awaiting_response' = [awaiting_response EXCEPT ![ack.from] = FALSE]
            /\ age' = [age EXCEPT ![ack.from] = 0]
       ELSE UNCHANGED <<awaiting_response, age>>
  /\ UNCHANGED <<monitored, last_heartbeat_id, current_state, orders, acks, ordered, round, since,
                 boxes, registry, fate, history>>

--------------------------------------------------------------------------------
(* A monitored task: StateMsgs first; then handle_heartbeat, which publishes  *)
(* the acknowledgment, or a process_message that does not answer.             *)
TakeCommand(t) ==
  /\ Alive /\ commands[t] > 0
  /\ commands' = [commands EXCEPT ![t] = @ - 1]
  /\ UNCHANGED <<status, current_state, own, round, since, beats, registry, fate, history>>

handle_heartbeat(t) ==
  /\ Alive /\ commands[t] = 0 /\ beats[t] # <<>>
  /\ beats' = [beats EXCEPT ![t] = Tail(@)]
  /\ IF Len(orders) + Len(acks) < QueueSize
     THEN acks' = Append(acks, [from |-> t, id |-> Head(beats[t])]) /\ UNCHANGED fate
     ELSE fate' = "aborted" /\ UNCHANGED acks
  /\ settled' = [settled EXCEPT ![t] = @ \/ Head(beats[t]) = last_heartbeat_id[t]]
  /\ UNCHANGED <<status, current_state, orders, hand, ordered, round, since, commands, registry,
                 late>>

Ignore(t) ==
  /\ Alive /\ t \notin Prompt /\ commands[t] = 0 /\ beats[t] # <<>>
  /\ beats' = [beats EXCEPT ![t] = Tail(@)]
  /\ UNCHANGED <<status, current_state, own, round, since, commands, registry, fate, history>>

--------------------------------------------------------------------------------
(* The rest of the system: register_task, which takes state_mutex, and with   *)
(* it in hand tasks_mutex in notify_task_registered. Bound: nobody registers  *)
(* twice, which would leave monitored_tasks as it is ...                      *)
RegisterTask(t) ==
  /\ Alive /\ registering = NoTask /\ t \notin monitored
  /\ registering' = t
  /\ UNCHANGED <<status, current_state, own, round, since, boxes, asked, fate, history>>

notify_task_registered ==
  /\ Alive /\ registering # NoTask /\ ~TasksMutex
  /\ monitored' = monitored \cup {registering}
  /\ registering' = NoTask
  /\ UNCHANGED <<awaiting_response, last_heartbeat_id, age, current_state, own, round, since, boxes,
                 asked, fate, history>>

(* ... the StateMsgs of the StateManager, which holds no mutex for them; they *)
(* reach the HeartBeatTask and every other task ...                           *)
Order(new_state) ==
  /\ Alive /\ ordered < MaxOrders /\ ordered' = ordered + 1
  /\ IF Len(orders) + Len(acks) < QueueSize /\ \A t \in Tasks : HasRoom(t)
     THEN /\ orders' = Append(orders, new_state)
          /\ commands' = [t \in Tasks |-> commands[t] + 1]
          /\ UNCHANGED fate
     ELSE fate' = "aborted" /\ UNCHANGED <<orders, commands>>
  /\ asked' = (asked \/ new_state = "RUNNING")
  /\ UNCHANGED <<status, current_state, acks, hand, round, since, beats, registering, history>>

(* register_task waits for tasks_mutex, which the periodic thread holds while *)
(* it waits for state_mutex, which register_task holds.                       *)
LocksMeet == pc = "record" /\ registering # NoTask

(* ... and time. A round takes at most Slack, and the sleeper wakes at most   *)
(* Slack late. A prompt task acknowledges a heartbeat within Latency, and by  *)
(* then the acknowledgment has also been handled, unless the periodic thread  *)
(* has tasks_mutex: then it waits, and is handled when the mutex is free.     *)
(* Nothing is assumed of a round that never ends: there the clock is left.    *)
Tick ==
  /\ Alive /\ ~LocksMeet
  /\ since < (IF pc = "sleep" THEN Interval + Slack ELSE Slack)
  /\ \A t \in Prompt :
       awaiting_response[t] /\ (beats[t] # <<>> \/ ~TasksMutex) => age[t] < Latency
  /\ since' = since + 1
  /\ age' = [t \in Tasks |-> IF awaiting_response[t] THEN age[t] + 1 ELSE 0]
  /\ UNCHANGED <<monitored, awaiting_response, last_heartbeat_id, current_state, own, round, boxes,
                 registry, fate, history>>

--------------------------------------------------------------------------------
(* Nothing happens after an abort. *)
Aborted == ~Alive /\ UNCHANGED vars

(* Two threads that wait for each other's mutex wait for ever. *)
Hung == Alive /\ LocksMeet /\ UNCHANGED vars

Next ==
  \/ Wake \/ MarkRecord \/ CheckDone \/ TestRunning \/ TestNotRunning \/ SendDone
  \/ HandleState \/ TakeAck \/ handle_acknowledgment
  \/ \E t \in Tasks :
       \/ CheckNext(t) \/ MarkDeliver(t) \/ SendNext(t) \/ SendHeartbeat(t)
       \/ TakeCommand(t) \/ handle_heartbeat(t) \/ Ignore(t)
       \/ RegisterTask(t)
  \/ notify_task_registered
  \/ \E s \in {"IDLE", "RUNNING"} : Order(s)
  \/ Tick
  \/ Aborted \/ Hung

Spec == Init /\ [][Next]_vars

--------------------------------------------------------------------------------
(* Every variable holds a value of its type; the queues are never longer than *)
(* their pools, and the task being marked is still in the loop.               *)
TypeOK ==
  /\ monitored \subseteq Tasks /\ todo \subseteq monitored
  /\ awaiting_response \in [Tasks -> BOOLEAN]
  /\ last_heartbeat_id \in [Tasks -> Ids \cup {0}] /\ age \in [Tasks -> Nat]
  /\ current_state \in {"NOT_STARTED", "IDLE", "RUNNING"}
  /\ orders \in Seq({"IDLE", "RUNNING"}) /\ acks \in Seq([from : Tasks, id : Ids])
  /\ Len(orders) + Len(acks) <= QueueSize
  /\ hand \in Seq([from : Tasks, id : Ids]) /\ Len(hand) <= 1 /\ ordered \in 0 .. MaxOrders
  /\ pc \in {"sleep", "check", "record", "test", "send"} /\ since \in Nat
  /\ IF pc = "record" THEN suspect \in todo ELSE suspect = NoTask
  /\ commands \in [Tasks -> Nat] /\ beats \in [Tasks -> Seq(Ids)]
  /\ \A t \in Tasks : commands[t] + Len(beats[t]) <= QueueSize
  /\ registering \in Tasks \cup {NoTask} /\ asked \in BOOLEAN /\ fate \in {"alive", "aborted"}
  /\ settled \in [Tasks -> BOOLEAN] /\ late \in [Tasks -> Nat]

(* A task that answers within response_timeout_ms is never marked             *)
(* unresponsive, although its acknowledgment may have to wait for tasks_mutex *)
(* while the round that holds it goes on looking for late ones.               *)
NoFalseAlarm == suspect \notin Prompt

(* A heartbeat does not stay open: at most response_timeout_ms, one interval  *)
(* and three times the slack after it was sent (the round that found it not   *)
(* yet overdue, the sleep, the round that finds it overdue) it has been       *)
(* acknowledged or its task marked, whatever the task does and whoever        *)
(* registers meanwhile, unless the periodic thread waits for ever (LocksMeet).*)
DetectionBound ==
  ~LocksMeet =>
    \A t \in Tasks : awaiting_response[t] => age[t] <= Timeout + Interval + 3 * Slack

(* A heartbeat is only closed by an acknowledgment of that heartbeat or by    *)
(* its timeout: late acknowledgments of earlier ones do not count.            *)
ClosedForCause == \A t \in Tasks : ~awaiting_response[t] => settled[t]

UnderWay(t) ==
  {<<"beats", i>> : i \in 1 .. Len(beats[t])}
    \cup {<<"acks", i>> : i \in {j \in 1 .. Len(acks) : acks[j].from = t}}
    \cup {<<"hand", i>> : i \in {j \in 1 .. Len(hand) : hand[j].from = t}}

(* A task that answers in time has at most one heartbeat under way, in its    *)
(* own queue or on the way back: monitoring it takes one block of its queue   *)
(* or one of the HeartBeatTask's, which all tasks share.                      *)
OneUnderWay == \A t \in Prompt : \A m, n \in UnderWay(t) : m = n

(* The state is tested before tasks_mutex is taken and may be out of date     *)
(* when the heartbeats go out, but only once: after the HeartBeatTask has     *)
(* left RUNNING a task gets at most one more.                                 *)
AtMostOneLateBeat == \A t \in Tasks : late[t] <= 1

(* register_task asks for tasks_mutex with state_mutex in hand, and the       *)
(* periodic thread for state_mutex with tasks_mutex in hand. The two can wait *)
(* for each other, but only if a register_task was under way after RUNNING    *)
(* had been asked for: whoever registers during initialization is safe,       *)
(* because no heartbeat is sent, and nobody is overdue, before the task runs. *)
NoLockCycle == LocksMeet => asked
================================================================================
