--------------------------------- MODULE Task ---------------------------------
(* The life of one task::Task: start, stop, the thread that runs run(), the   *)
(* one that runs run_periodic(), and the destructor. One controller calls     *)
(* start and stop (the StateManager is the control point of all tasks);       *)
(* StateMsgs and heartbeats are delivered at any time. process_message is the *)
(* one every task of the repository has: a heartbeat is answered, a StateMsg  *)
(* makes it call transition_to_state, which stores the state, builds an       *)
(* acknowledgment from the state it reads back, and publishes it: three       *)
(* steps, that the controller's own transition in stop() may interleave with. *)
(* The message queue is used through its promise (PriorityQueue): dequeue     *)
(* waits until there is a message or a shutdown, and takes the first of those *)
(* with the highest priority.                                                 *)
(* start() on a running task and stop() on a stopped one change nothing.      *)
EXTENDS Msg, Selection

CONSTANTS
  States,       \* the states StateMsgs ask for
  HasPeriodic,  \* periodic_task_interval_ms > 0
  QueueSize,    \* queue_msg_count
  MaxMessages,  \* bound: messages delivered in a behaviour
  MaxStarts     \* bound: calls of start in a behaviour

ASSUME TaskAssumption ==
  /\ HasPeriodic \in BOOLEAN
  /\ QueueSize \in Nat /\ MaxMessages \in Nat /\ MaxStarts \in Nat

AllStates == States \cup {"NOT_STARTED", "STOPPED"}
Commands  == {Msg("StateManager", "StateMsg", s) : s \in States}
Beats     == {Msg("HeartBeatTask", "HeartbeatMsg", id) : id \in 1 .. MaxMessages}
NoMsg     == [type |-> "none"]
Movers    == {"ctl", "worker"}        \* who calls transition_to_state
Loops     == {"worker", "periodic"}   \* the threads of the task

VARIABLES
  running, current_state,
  queue, shutdown,     \* the message queue, by arrival, and its sticky flag
  pc,                  \* where the controller and the two threads are; a thread
                       \* that is not joinable is at "none"
  taken,               \* the message the worker processes, if any
  ack,                 \* the acknowledgment each mover has built, if any
  published,           \* what the last acknowledgment published of each type says
  late,                \* rounds each loop began since stop() cleared running
  delivered, starts,   \* counters for the bounds
  fate                 \* of the task, or of the process

mail   == <<queue, shutdown, delivered>>
states == <<current_state, taken, ack, published>>
vars   == <<running, mail, states, pc, late, starts, fate>>

Init ==
  /\ running = FALSE
  /\ current_state = "NOT_STARTED" /\ taken = NoMsg
  /\ published = [StateAckMsg |-> "NOT_STARTED", HeartbeatAckMsg |-> 0]
  /\ ack = [who \in Movers |-> NoMsg]
  /\ queue = <<>> /\ shutdown = FALSE /\ delivered = 0
  /\ pc = [who \in Movers \cup Loops |-> IF who = "ctl" THEN "idle" ELSE "none"]
  /\ late = [who \in Loops |-> 0]
  /\ starts = 0
  /\ fate = "alive"

Alive == fate = "alive"

(* who takes a step of its code, from one place to the next. *)
Goto(who, from, to) == Alive /\ pc[who] = from /\ pc' = [pc EXCEPT ![who] = to]

--------------------------------------------------------------------------------
(* transition_to_state, called by the worker for a StateMsg and by stop().    *)
SetState(who) ==
  /\ Goto(who, "set", "build")
  /\ current_state' = IF who = "ctl" THEN "STOPPED" ELSE get_data_as(taken, "StateMsg")
  /\ UNCHANGED <<running, mail, taken, ack, published, late, starts, fate>>

BuildAck(who) ==
  /\ Goto(who, "build", "publish")
  /\ ack' = [ack EXCEPT ![who] = Msg("this", "StateAckMsg", current_state)]
  /\ UNCHANGED <<running, mail, current_state, taken, published, late, starts, fate>>

(* safe_publish; who receives it is for the Broker to say. *)
Publish(m) == published' = [published EXCEPT ![m.type] = m.data]

PublishAck(who) ==
  /\ Goto(who, "publish", IF who = "ctl" THEN "notify" ELSE "test")
  /\ Publish(ack[who])
  /\ ack' = [ack EXCEPT ![who] = NoMsg]
  /\ taken' = IF who = "ctl" THEN taken ELSE NoMsg
  /\ UNCHANGED <<running, mail, current_state, late, starts, fate>>

--------------------------------------------------------------------------------
Start ==
  /\ Goto("ctl", "idle", "start_queue")
  /\ ~running /\ running' = TRUE
  /\ starts < MaxStarts /\ starts' = starts + 1
  /\ UNCHANGED <<mail, states, late, fate>>

StartQueueThread ==
  /\ Alive /\ pc["ctl"] = "start_queue"
  /\ pc' = [pc EXCEPT !["worker"] = "test",
                      !["ctl"] = IF HasPeriodic THEN "start_periodic" ELSE "idle"]
  /\ UNCHANGED <<running, mail, states, late, starts, fate>>

StartPeriodicThread ==
  /\ Alive /\ pc["ctl"] = "start_periodic"
  /\ pc' = [pc EXCEPT !["periodic"] = "test", !["ctl"] = "idle"]
  /\ UNCHANGED <<running, mail, states, late, starts, fate>>

(* stop(), up to transition_to_state(STOPPED). *)
Stop ==
  /\ Goto("ctl", "idle", "set")
  /\ running /\ running' = FALSE
  /\ late' = [who \in Loops |-> 0]
  /\ UNCHANGED <<mail, states, starts, fate>>

(* Mutation: stop() does not notify the queue. *)
StopNotifyNothing ==
  /\ Goto("ctl", "notify", "join_queue")
  /\ UNCHANGED <<running, mail, states, late, starts, fate>>

StopNotify ==
  /\ Goto("ctl", "notify", "join_queue")
  /\ shutdown' = TRUE
  /\ UNCHANGED <<running, queue, delivered, states, late, starts, fate>>

JoinQueueThread ==
  /\ Alive /\ pc["ctl"] = "join_queue"
  /\ pc["worker"] = "exited"
  /\ pc' = [pc EXCEPT !["worker"] = "none", !["ctl"] = "join_periodic"]
  /\ UNCHANGED <<running, mail, states, late, starts, fate>>

(* Mutation: stop() leaves the periodic thread behind. *)
JoinNoPeriodicThread ==
  /\ Goto("ctl", "join_periodic", "idle")
  /\ UNCHANGED <<running, mail, states, late, starts, fate>>

(* Joined if joinable, that is if it was started. *)
JoinPeriodicThread ==
  /\ Alive /\ pc["ctl"] = "join_periodic"
  /\ pc["periodic"] \in {"none", "exited"}
  /\ pc' = [pc EXCEPT !["periodic"] = "none", !["ctl"] = "idle"]
  /\ UNCHANGED <<running, mail, states, late, starts, fate>>

(* ~Task, when the last shared_ptr goes. On a running task it calls stop(),   *)
(* whose safe_publish asks for shared_from_this() of an object that no        *)
(* shared_ptr owns any more: bad_weak_ptr leaves the destructor.              *)
Destroy ==
  /\ Alive /\ pc["ctl"] = "idle"
  /\ IF running
     THEN fate' = "terminated" /\ running' = FALSE /\ current_state' = "STOPPED"
     ELSE fate' = "destroyed" /\ UNCHANGED <<running, current_state>>
  /\ UNCHANGED <<mail, taken, ack, published, pc, late, starts>>

--------------------------------------------------------------------------------
(* Mutation: run() goes on while there are messages. *)
LoopTestBacklog(who) ==
  /\ Goto(who, "test", IF running \/ queue # <<>> THEN "round" ELSE "exited")
  /\ UNCHANGED <<running, mail, states, late, starts, fate>>

(* while (running), in run() and run_periodic(). *)
LoopTest(who) ==
  /\ Goto(who, "test", IF running THEN "round" ELSE "exited")
  /\ UNCHANGED <<running, mail, states, late, starts, fate>>

LateRound(who) == IF running THEN late ELSE [late EXCEPT ![who] = @ + 1]

(* Mutation: the comparator knows nothing of arrival. *)
NewestFirst(i) == \A j \in 1 .. Len(queue) : Less(queue[j], queue[i]) \/ (queue[j].priority = queue[i].priority /\ j <= i)

(* The message at i goes first: the others have a lower priority, or the same *)
(* one and arrived later.                                                     *)
GoesFirst(i) ==
  \A j \in 1 .. Len(queue) : Less(queue[j], queue[i]) \/ (~Less(queue[i], queue[j]) /\ i <= j)

(* run(): dequeue returns a message, and process_message sees its type ...    *)
RunDequeue ==
  /\ Alive /\ pc["worker"] = "round"
  /\ \E i \in 1 .. Len(queue) :
       /\ GoesFirst(i)
       /\ taken' = queue[i] /\ queue' = Without(queue, i)
  /\ pc' = [pc EXCEPT !["worker"] = IF taken'.type = "StateMsg" THEN "set" ELSE "answer"]
  /\ late' = LateRound("worker")
  /\ UNCHANGED <<running, shutdown, delivered, current_state, ack, published, starts, fate>>

handle_heartbeat ==
  /\ Goto("worker", "answer", "test")
  /\ Publish(Msg("this", "HeartbeatAckMsg", get_data_as(taken, "HeartbeatMsg")))
  /\ taken' = NoMsg
  /\ UNCHANGED <<running, mail, current_state, ack, late, starts, fate>>

(* Mutation: run() takes the empty answer of dequeue for its end. *)
RunDequeueNothingEnds ==
  /\ Goto("worker", "round", "exited")
  /\ queue = <<>> /\ shutdown
  /\ UNCHANGED <<running, mail, states, late, starts, fate>>

(* ... or nothing, because of the shutdown flag. *)
RunDequeueNothing ==
  /\ Goto("worker", "round", "test")
  /\ queue = <<>> /\ shutdown
  /\ UNCHANGED <<running, mail, states, late, starts, fate>>

(* run_periodic(): periodic_task_process, then sleep_until. *)
PeriodicProcess ==
  /\ Goto("periodic", "round", "sleep")
  /\ late' = LateRound("periodic")
  /\ UNCHANGED <<running, mail, states, starts, fate>>

PeriodicWake ==
  /\ Goto("periodic", "sleep", "test")
  /\ UNCHANGED <<running, mail, states, late, starts, fate>>

(* Mutation: enqueue does not look at what allocate returned. *)
DeliverUnchecked(m) ==
  /\ Alive
  /\ delivered < MaxMessages /\ delivered' = delivered + 1
  /\ queue' = Append(queue, m)
  /\ UNCHANGED <<running, shutdown, states, pc, late, starts, fate>>

(* Broker::deliver_message: enqueue, or its assertion when the pool is empty. *)
Deliver(m) ==
  /\ Alive
  /\ delivered < MaxMessages /\ delivered' = delivered + 1
  /\ IF Len(queue) < QueueSize
     THEN queue' = Append(queue, m) /\ UNCHANGED fate
     ELSE fate' = "aborted" /\ UNCHANGED queue
  /\ UNCHANGED <<running, shutdown, states, pc, late, starts>>

Transition(who) == SetState(who) \/ BuildAck(who) \/ PublishAck(who)
ControlSteps ==
  \/ StartQueueThread \/ StartPeriodicThread
  \/ Transition("ctl") \/ StopNotify \/ JoinQueueThread \/ JoinPeriodicThread
WorkerSteps ==
  \/ LoopTest("worker") \/ RunDequeue \/ RunDequeueNothing
  \/ Transition("worker") \/ handle_heartbeat
PeriodicSteps == LoopTest("periodic") \/ PeriodicProcess \/ PeriodicWake

Next ==
  \/ Start \/ Stop \/ Destroy
  \/ ControlSteps \/ WorkerSteps \/ PeriodicSteps
  \/ \E m \in Commands : Deliver(m)
  \/ Deliver(Msg("HeartBeatTask", "HeartbeatMsg", delivered + 1))

Spec == Init /\ [][Next]_vars

(* The two threads and a call in progress are scheduled, sleep_until ends,    *)
(* and process_message returns (it "must not block indefinitely", task.h).    *)
FairSpec == Spec /\ WF_vars(ControlSteps) /\ WF_vars(WorkerSteps) /\ WF_vars(PeriodicSteps)

--------------------------------------------------------------------------------
(* Every variable of the task holds a value of its type, and the queue has no *)
(* more messages than blocks.                                                 *)
TypeOK ==
  /\ running \in BOOLEAN /\ shutdown \in BOOLEAN
  /\ current_state \in AllStates
  /\ taken \in Commands \cup Beats \cup {NoMsg}
  /\ ack \in [Movers -> {Msg("this", "StateAckMsg", s) : s \in AllStates} \cup {NoMsg}]
  /\ published \in [StateAckMsg : AllStates, HeartbeatAckMsg : 0 .. MaxMessages]
  /\ queue \in Seq(Commands \cup Beats) /\ Len(queue) <= QueueSize
  /\ pc \in [Movers \cup Loops ->
              {"idle", "start_queue", "start_periodic", "notify", "join_queue", "join_periodic",
               "none", "test", "round", "sleep", "exited", "set", "build", "publish", "answer"}]
  /\ late \in [Loops -> Nat]
  /\ delivered \in 0 .. MaxMessages /\ starts \in 0 .. MaxStarts
  /\ fate \in {"alive", "terminated", "destroyed", "aborted"}

(* When stop() has returned both threads have ended, so no message is         *)
(* processed and no periodic work is done until the next start(), which finds *)
(* no joinable thread to overwrite (that would terminate the process).        *)
StopJoins ==
  Alive /\ ~running /\ pc["ctl"] = "idle" => pc["worker"] = "none" /\ pc["periodic"] = "none"

(* Once stop() has cleared running each thread finishes at most one more      *)
(* round: one message that was dequeued in the window between the test of     *)
(* running and the dequeue, one call of periodic_task_process. A backlog is   *)
(* not worked off.                                                            *)
AtMostOneLateRound == late["worker"] <= 1 /\ late["periodic"] <= 1

(* What the rest of the system relies on: a task takes StateMsgs in the order *)
(* they were delivered in and before any heartbeat that waits with them, and  *)
(* heartbeats in the order they were sent in, also across stop and restart,   *)
(* when the queue keeps what came before.                                     *)
Promise == INSTANCE Mailbox WITH
  Size <- QueueSize, Nothing <- NoMsg,
  commands <- OfType(queue, "StateMsg"), beats <- OfType(queue, "HeartbeatMsg")

KeepsPromise == Promise!Spec

(* stop() returns: neither a thread blocked in dequeue nor one asleep between *)
(* two periods can keep it waiting in join.                                   *)
StopReturns == (Alive /\ pc["ctl"] # "idle") ~> (~Alive \/ pc["ctl"] = "idle")

(* A running task gets to its next message, also after a stop and a restart,  *)
(* when the queue's shutdown flag is still set.                               *)
Serves == (Alive /\ running /\ queue # <<>>) ~> (~Alive \/ ~running \/ pc["worker"] \in {"set", "answer"})

(* After stop() the task is, and was last announced as, STOPPED: the state    *)
(* "Task has been stopped." of task_state.h, which the tests of shutdown      *)
(* expect of get_current_state().                                             *)
StopLeavesStopped ==
  Alive /\ starts > 0 /\ ~running /\ pc["ctl"] = "idle"
    => current_state = "STOPPED" /\ published.StateAckMsg = "STOPPED"

(* The destructor cleans up: destroying a task does not end the process.      *)
DestructorCleansUp == fate # "terminated"
================================================================================
