----------------------------- MODULE StateManager -----------------------------
(* The StateManager and the tasks it moves: users call request or demand, the *)
(* Broker delivers the StateMsg, every task's thread obeys and acknowledges,  *)
(* the manager's own thread records the acknowledgments and wakes demand.     *)
(* Main also calls initialize and shutdown; tasks are registered before, as   *)
(* the README of the repository asks. handle_acknowledgment takes no lock:    *)
(* the write of the record and the scan with its notify are two steps, that   *)
(* fall anywhere between the steps of demand. A publish is one step, as       *)
(* sub_mutex makes it; so is the part of transition_to_state that sets the    *)
(* state and builds the acknowledgment (Task has the finer steps).            *)
EXTENDS Integers, Sequences

CONSTANTS
  Tasks,     \* the tasks, all subscribed to StateMsg
  Manager,   \* the StateManager, as the owner of a thread
  Users,     \* the threads that call request and demand
  Main,      \* the user that calls initialize and shutdown
  States,    \* the states users ask for
  MaxCalls,  \* bound: calls in a behaviour, from initialize to mark_task_as_unresponsive
  MaxMarks   \* bound: how many of them are of mark_task_as_unresponsive

ASSUME ManagerAssumption ==
  /\ Main \in Users /\ Manager \notin Tasks
  /\ MaxCalls \in Nat /\ MaxMarks \in Nat

Threads   == Tasks \cup {Manager}
AllStates == States \cup {"NOT_STARTED", "IDLE", "STOPPED", "ERROR"}

VARIABLES
  task_states,    \* a function on the registered tasks
  target_state,   \* not initialized
  inbox, acks,    \* the message queues of the tasks and of the manager
  state,          \* current_state of each task
  ack,            \* the acknowledgment it has built and not yet published
  running,        \* the threads' running flags
  window,         \* threads between their test of running and dequeue when stopped
  thread,         \* "off", in the "loop", or "busy" with a message
  pc, want, answer,  \* of each user: its place in a call, new_state, the result
  phase,          \* "off", "up", "closing", "down"
  mark,           \* the task mark_task_as_unresponsive has sent ERROR to
  calls, marks,   \* counters for the bounds
  marked,         \* history: the tasks marked so far
  clean           \* history: users whose demand met a quiet system and no other call

records == <<task_states, target_state>>
mail    == <<inbox, acks>>
moves   == <<state, ack>>
life    == <<running, window, phase>>
user    == <<want, answer>>
marking == <<mark, marks, marked>>
vars    == <<records, mail, moves, life, thread, pc, user, marking, calls, clean>>

NoTask == "none"
NoAck  == "none"

Init ==
  /\ task_states \in [{} -> AllStates]
  /\ target_state \in AllStates
  /\ inbox = [t \in Tasks |-> <<>>] /\ acks = <<>>
  /\ state = [t \in Tasks |-> "NOT_STARTED"] /\ ack = [t \in Tasks |-> NoAck]
  /\ running = {} /\ window = {} /\ thread = [x \in Threads |-> "off"]
  /\ pc = [u \in Users |-> "idle"] /\ phase = "off"
  /\ want = [u \in Users |-> "NOT_STARTED"] /\ answer = [u \in Users |-> FALSE]
  /\ mark = NoTask /\ marks = 0 /\ marked = {} /\ calls = 0
  /\ clean = {}

Registered == DOMAIN task_states

(* Nobody is in a call and nothing is on its way. *)
Quiet ==
  /\ \A u \in Users : pc[u] = "idle"
  /\ mark = NoTask
  /\ acks = <<>> /\ thread[Manager] # "busy"
  /\ \A t \in Registered : inbox[t] = <<>> /\ thread[t] # "busy"

Goto(u, from, to) == pc[u] = from /\ pc' = [pc EXCEPT ![u] = to]

--------------------------------------------------------------------------------
(* The tasks: run(), with process_message for a StateMsg.                     *)
(* Mutation: the thread goes on to the next message without testing running. *)
TakeAgain(t) ==
  /\ thread[t] = "loop" /\ t \in running \cup window
  /\ inbox[t] # <<>>
  /\ inbox' = [inbox EXCEPT ![t] = Tail(@)]
  /\ state' = [state EXCEPT ![t] = Head(inbox[t])]
  /\ ack' = [ack EXCEPT ![t] = Head(inbox[t])]
  /\ thread' = [thread EXCEPT ![t] = "busy"]
  /\ UNCHANGED <<records, acks, life, pc, user, marking, calls, clean>>

Take(t) ==
  /\ thread[t] = "loop" /\ t \in running \cup window
  /\ inbox[t] # <<>>
  /\ inbox' = [inbox EXCEPT ![t] = Tail(@)]
  /\ state' = [state EXCEPT ![t] = Head(inbox[t])]
  /\ ack' = [ack EXCEPT ![t] = Head(inbox[t])]
  /\ thread' = [thread EXCEPT ![t] = "busy"]
  /\ window' = window \ {t}
  /\ UNCHANGED <<records, acks, running, phase, pc, user, marking, calls, clean>>

PublishAck(t) ==
  /\ thread[t] = "busy"
  /\ thread' = [thread EXCEPT ![t] = "loop"]
  /\ acks' = Append(acks, [from |-> t, state |-> ack[t]])
  /\ ack' = [ack EXCEPT ![t] = NoAck]
  /\ UNCHANGED <<records, inbox, state, life, pc, user, marking, calls, clean>>

--------------------------------------------------------------------------------
(* The manager's thread: handle_acknowledgment.                               *)
(* Mutation: the target is recorded instead of what was acknowledged. *)
RecordedTarget(a) == [task_states EXCEPT ![a.from] = target_state]

(* The sender is known: only registered tasks are started. *)
Recorded(a) == [task_states EXCEPT ![a.from] = a.state]

HandleAck ==
  /\ thread[Manager] = "loop" /\ Manager \in running \cup window
  /\ acks # <<>>
  /\ acks' = Tail(acks)
  /\ task_states' = Recorded(Head(acks))
  /\ thread' = [thread EXCEPT ![Manager] = "busy"]
  /\ window' = window \ {Manager}
  /\ UNCHANGED <<target_state, inbox, moves, running, phase, pc, user, marking, calls, clean>>

Waiting == {u \in Users : pc[u] = "wait"}

(* The scan; notify_one when all records are in target_state. *)
Notify ==
  /\ thread[Manager] = "busy"
  /\ thread' = [thread EXCEPT ![Manager] = "loop"]
  /\ IF (\A t \in Registered : task_states[t] = target_state) /\ Waiting # {}
     THEN \E u \in Waiting : pc' = [pc EXCEPT ![u] = "test"]
     ELSE UNCHANGED pc
  /\ UNCHANGED <<records, mail, moves, life, user, marking, calls, clean>>

--------------------------------------------------------------------------------
(* request_state_transition and demand_state_transition.                      *)
Begin(u, first, new_state) ==
  /\ Goto(u, "idle", first)
  /\ want' = [want EXCEPT ![u] = new_state]
  /\ answer' = [answer EXCEPT ![u] = FALSE]
  /\ clean' = IF Quiet /\ first = "demand" THEN {u} ELSE {}

Request(u, new_state) ==
  /\ phase # "off" /\ calls < MaxCalls /\ calls' = calls + 1
  /\ Begin(u, "request", new_state)
  /\ UNCHANGED <<records, mail, moves, life, thread, marking>>

Demand(u, new_state) ==
  /\ phase # "off" /\ calls < MaxCalls /\ calls' = calls + 1
  /\ Begin(u, "demand", new_state)
  /\ UNCHANGED <<records, mail, moves, life, thread, marking>>

(* state_mutex: a user holds it from the test of the predicate until it has   *)
(* joined the wait set.                                                       *)
Unlocked == \A u \in Users : pc[u] # "block"

SetTarget(u) ==
  /\ Unlocked
  /\ Goto(u, "demand", "demanded")
  /\ target_state' = want[u]
  /\ UNCHANGED <<task_states, mail, moves, life, thread, user, marking, calls, clean>>

(* Broker::publish of a StateMsg. *)
DeliverToAll(s) == [t \in Tasks |-> Append(inbox[t], s)]

(* transition_to_state: the StateMsg; the manager's current_state is never read. *)
Transition(u) ==
  /\ \/ Goto(u, "request", "idle")
     \/ Goto(u, "demanded", "test")
  /\ inbox' = DeliverToAll(want[u])
  /\ UNCHANGED <<records, acks, moves, life, thread, user, marking, calls, clean>>

(* Mutation: one task is enough. *)
some_task_in_state(s) == \E t \in Registered : task_states[t] = s

all_tasks_in_state(s) == \A t \in Registered : task_states[t] = s

(* demand returns; shutdown goes on from there. *)
Return(u, from, success) ==
  /\ Goto(u, from, IF u = Main /\ phase = "closing" THEN "stopping" ELSE "idle")
  /\ answer' = [answer EXCEPT ![u] = success]
  /\ UNCHANGED <<records, mail, moves, life, thread, want, marking, calls, clean>>

TestTrue(u) == Unlocked /\ all_tasks_in_state(want[u]) /\ Return(u, "test", TRUE)

TestFalse(u) ==
  /\ Unlocked /\ ~all_tasks_in_state(want[u])
  /\ Goto(u, "test", "block")
  /\ UNCHANGED <<records, mail, moves, life, thread, user, marking, calls, clean>>

Block(u) ==
  /\ Goto(u, "block", "wait")
  /\ UNCHANGED <<records, mail, moves, life, thread, user, marking, calls, clean>>

SpuriousWake(u) ==
  /\ Goto(u, "wait", "test")
  /\ UNCHANGED <<records, mail, moves, life, thread, user, marking, calls, clean>>

(* Mutation: wait instead of wait_for. *)
ExpireNever(u) == FALSE /\ UNCHANGED vars

(* wait_for runs out of time, and tests the predicate once more. *)
Expire(u) ==
  /\ Goto(u, "wait", "expired")
  /\ UNCHANGED <<records, mail, moves, life, thread, user, marking, calls, clean>>

Expired(u) == Unlocked /\ Return(u, "expired", all_tasks_in_state(want[u]))

--------------------------------------------------------------------------------
(* The life cycle, driven by Main.                                            *)
RegisterTask(t) ==
  /\ phase = "off" /\ t \notin Registered
  /\ task_states' = [r \in Registered \cup {t} |->
                       IF r = t THEN "NOT_STARTED" ELSE task_states[r]]
  /\ UNCHANGED <<target_state, mail, moves, life, thread, pc, user, marking, calls, clean>>

(* initialize, when all are registered: start() of the manager and of the     *)
(* tasks, then demand(IDLE). After a shutdown the queues still hold what came *)
(* too late for the threads, which find it when they are started again.       *)
Initialize ==
  /\ phase \in {"off", "down"} /\ phase' = "up"
  /\ calls < MaxCalls /\ calls' = calls + 1
  /\ Registered = Tasks
  /\ Begin(Main, "demand", "IDLE")
  /\ running' = Registered \cup {Manager}
  /\ thread' = [x \in Threads |-> IF x \in running' THEN "loop" ELSE thread[x]]
  /\ UNCHANGED <<records, mail, moves, window, marking>>

Shutdown ==
  /\ phase = "up" /\ phase' = "closing"
  /\ calls < MaxCalls /\ calls' = calls + 1
  /\ Begin(Main, "demand", "STOPPED")
  /\ UNCHANGED <<records, mail, moves, running, window, thread, marking>>

Halt(x) ==
  /\ running' = running \ {x}
  /\ window' = IF thread[x] = "loop" THEN window \cup {x} ELSE window

(* stop() of a task, up to the join ... *)
StopTask(t) ==
  /\ pc[Main] = "stopping" /\ t \in Registered \cap running
  /\ \A r \in Registered \ running : thread[r] = "off"
  /\ Halt(t)
  /\ state' = [state EXCEPT ![t] = "STOPPED"]
  /\ acks' = Append(acks, [from |-> t, state |-> "STOPPED"])
  /\ UNCHANGED <<records, inbox, ack, phase, thread, pc, user, marking, calls, clean>>

(* ... of the manager, whose transition_to_state publishes a StateMsg ... *)
StopSelf ==
  /\ pc[Main] = "stopping" /\ Manager \in running
  /\ \A r \in Registered : thread[r] = "off"
  /\ Halt(Manager)
  /\ inbox' = DeliverToAll("STOPPED")
  /\ UNCHANGED <<records, acks, moves, phase, thread, pc, user, marking, calls, clean>>

(* ... and the join. *)
Join(x) ==
  /\ pc[Main] = "stopping"
  /\ x \notin running /\ thread[x] = "loop"
  /\ thread' = [thread EXCEPT ![x] = "off"]
  /\ window' = window \ {x}
  /\ IF x = Manager THEN phase' = "down" /\ pc' = [pc EXCEPT ![Main] = "idle"]
                    ELSE UNCHANGED <<phase, pc>>
  /\ UNCHANGED <<records, mail, moves, running, user, marking, calls, clean>>

--------------------------------------------------------------------------------
(* mark_task_as_unresponsive, called by the periodic thread of the            *)
(* HeartBeatTask, which runs until shutdown has stopped the tasks, at the     *)
(* latest: ERROR is delivered to the task, which may be stopped already, and  *)
(* the record written afterwards.                                             *)
MarkDeliver(t) ==
  /\ Manager \in running /\ t \in Registered
  /\ mark = NoTask /\ mark' = t
  /\ marks < MaxMarks /\ marks' = marks + 1 /\ marked' = marked \cup {t}
  /\ calls < MaxCalls /\ calls' = calls + 1
  /\ inbox' = [inbox EXCEPT ![t] = Append(@, "ERROR")]
  /\ clean' = {}
  /\ UNCHANGED <<records, acks, moves, life, thread, pc, user>>

MarkRecord ==
  /\ Unlocked
  /\ mark # NoTask /\ mark' = NoTask
  /\ task_states' = [task_states EXCEPT ![mark] = "ERROR"]
  /\ UNCHANGED <<target_state, mail, moves, life, thread, pc, user, marks, marked, calls, clean>>

--------------------------------------------------------------------------------
CallStep(u) == SetTarget(u) \/ Transition(u) \/ TestTrue(u) \/ TestFalse(u) \/ Block(u) \/ Expired(u)
StopStep    == StopSelf \/ (\E t \in Tasks : StopTask(t)) \/ (\E x \in Threads : Join(x))
TaskStep(t) == Take(t) \/ PublishAck(t)
ManagerStep == HandleAck \/ Notify

Next ==
  \/ \E t \in Tasks : TaskStep(t) \/ RegisterTask(t) \/ MarkDeliver(t)
  \/ ManagerStep
  \/ \E u \in Users :
       \/ \E s \in States : Request(u, s) \/ Demand(u, s)
       \/ CallStep(u) \/ SpuriousWake(u) \/ Expire(u)
  \/ Initialize \/ Shutdown \/ StopStep
  \/ MarkRecord

Spec == Init /\ [][Next]_vars

(* Every thread that can go on does, state_mutex is refused to nobody for     *)
(* ever, and a timeout expires: wait_for keeps its deadline across spurious   *)
(* wake-ups. Nothing obliges a user to call.                                  *)
FairSpec ==
  /\ Spec
  /\ \A t \in Tasks : WF_vars(TaskStep(t))
  /\ WF_vars(ManagerStep) /\ WF_vars(StopStep)
  /\ \A u \in Users : SF_vars(CallStep(u)) /\ SF_vars(Expire(u))

--------------------------------------------------------------------------------
(* Every variable holds a value of its type, and only the thread of a stopped *)
(* task that had tested running before is in the window.                      *)
TypeOK ==
  /\ Registered \subseteq Tasks /\ task_states \in [Registered -> AllStates]
  /\ target_state \in AllStates
  /\ inbox \in [Tasks -> Seq(AllStates)]
  /\ acks \in Seq([from : Tasks, state : AllStates])
  /\ state \in [Tasks -> AllStates] /\ ack \in [Tasks -> AllStates \cup {NoAck}]
  /\ running \subseteq Threads /\ thread \in [Threads -> {"off", "loop", "busy"}]
  /\ window \subseteq {x \in Threads : x \notin running /\ thread[x] = "loop"}
  /\ pc \in [Users -> {"idle", "request", "demand", "demanded",
                      "test", "block", "wait", "expired", "stopping"}]
  /\ want \in [Users -> AllStates] /\ answer \in [Users -> BOOLEAN]
  /\ phase \in {"off", "up", "closing", "down"}
  /\ mark \in Tasks \cup {NoTask} /\ marked \subseteq Tasks
  /\ calls \in 0 .. MaxCalls /\ marks \in 0 .. MaxMarks
  /\ clean \subseteq Users

(* What mark_task_as_unresponsive may have left of a task: the ERROR it       *)
(* delivers, and the one it records afterwards, perhaps over a newer          *)
(* acknowledgment.                                                            *)
Marked == [t \in Tasks |-> IF t \in marked THEN {"ERROR"} ELSE {}]

(* Whatever users ask for concurrently, once nothing is on its way any more   *)
(* all registered tasks are in the same state and the manager's records say   *)
(* so: every StateMsg reaches every task, in one order, and the last          *)
(* acknowledgment of a task is the last one recorded. Only a task that was    *)
(* marked as unresponsive may be in ERROR instead, or recorded to be in ERROR *)
(* though it is not; no record names any other state its task is not in.      *)
Agreement ==
  Quiet /\ phase = "up" =>
    \E s \in AllStates : \A t \in Registered :
      state[t] \in {s} \cup Marked[t] /\ task_states[t] \in {state[t]} \cup Marked[t]

(* A demand that finds the system quiet and has it for itself is sound: if it *)
(* has returned true the tasks are in the state demanded, although it may     *)
(* have been woken early, late, or not at all, and although a record may say  *)
(* ERROR of a task that has recovered (unless it is ERROR that is demanded).  *)
CleanDemandSound ==
  \A u \in clean : pc[u] = "idle" /\ answer[u] =>
    \A t \in Registered : state[t] = want[u] \/ want[u] \in Marked[t]

(* Every call returns: demand for its timeout, although a notify that falls   *)
(* between the test of its predicate and its sleep is lost and one user's     *)
(* demand overwrites target_state of another's; shutdown although a task may  *)
(* not have acknowledged.                                                     *)
CallsReturn == \A u \in Users : (pc[u] # "idle") ~> (pc[u] = "idle")

(* The header of demand_state_transition: it returns true if all tasks have   *)
(* transitioned to the new state (whatever was asked for before).             *)
DemandTrueMeansTransitioned ==
  [][\A u \in Users :
       pc[u] \in {"test", "expired"} /\ answer'[u] => \A t \in Registered : state[t] = want[u]]_vars
================================================================================
