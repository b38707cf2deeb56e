-------------------------------- MODULE Broker --------------------------------
(* The Broker: subscriber_lists, a list of weak pointers for each type of     *)
(* message, and publish, which walks one of them under sub_mutex while tasks  *)
(* lose their last owner and take the messages they already have.             *)
EXTENDS Naturals, Sequences, SequencesExt

CONSTANTS
  Tasks,
  Unstopped,    \* those whose owners let go without having called stop()
  Types,        \* message types
  NoTask,
  QueueSize,    \* the messages a task's queue has blocks for
  MaxPublishes  \* bound: publishes in a behaviour

ASSUME BrokerAssumption ==
  NoTask \notin Tasks /\ QueueSize \in Nat /\ MaxPublishes \in Nat

VARIABLES
  initialized,
  subscriber_lists,  \* for each type a sequence of tasks, expired ones included
  sub_mutex,         \* held by a thread inside publish
  type, number,      \* the message it publishes; numbers tell messages apart
  it,                \* its place in the list
  subscriber,        \* the reference it has taken to the task there, or NoTask
  owned,             \* the tasks with an owner other than that
  queue,             \* for each task and type, its undequeued messages
  fate               \* of the process: "aborted" once an assertion failed

walk == <<type, number, it>>
vars == <<initialized, subscriber_lists, sub_mutex, walk, subscriber, owned, queue, fate>>

NoMessages == [y \in Types |-> <<>>]

Init ==
  /\ initialized = FALSE
  /\ subscriber_lists = [y \in Types |-> <<>>]
  /\ sub_mutex = FALSE
  /\ type \in Types /\ number = 0 /\ it = 1
  /\ subscriber = NoTask
  /\ owned = Tasks
  /\ queue = [t \in Tasks |-> NoMessages]
  /\ fate = "running"

Unlocked == fate = "running" /\ ~sub_mutex
Walking  == fate = "running" /\ sub_mutex /\ subscriber = NoTask
list     == subscriber_lists[type]

initialize ==
  /\ Unlocked /\ ~initialized
  /\ initialized' = TRUE
  /\ UNCHANGED <<subscriber_lists, sub_mutex, walk, subscriber, owned, queue, fate>>

(* publish or subscribe before initialize. *)
AssertInitialized ==
  /\ Unlocked /\ ~initialized
  /\ fate' = "aborted"
  /\ UNCHANGED <<initialized, subscriber_lists, sub_mutex, walk, subscriber, owned, queue>>

--------------------------------------------------------------------------------
(* An expired entry is never the task that subscribes. *)
subscribe(t, y) ==
  /\ Unlocked /\ initialized /\ t \in owned
  /\ subscriber_lists' = IF Contains(subscriber_lists[y], t) THEN subscriber_lists
                         ELSE [subscriber_lists EXCEPT ![y] = Append(@, t)]
  /\ UNCHANGED <<initialized, sub_mutex, walk, subscriber, owned, queue, fate>>

--------------------------------------------------------------------------------
(* publish: takes sub_mutex ...                                               *)
Publish(y) ==
  /\ Unlocked /\ initialized /\ number < MaxPublishes
  /\ sub_mutex' = TRUE
  /\ type' = y /\ number' = number + 1 /\ it' = 1
  /\ UNCHANGED <<initialized, subscriber_lists, subscriber, owned, queue, fate>>

(* ... locks the weak pointer ... *)
LockEntry ==
  /\ Walking /\ it <= Len(list) /\ list[it] \in owned
  /\ subscriber' = list[it]
  /\ UNCHANGED <<initialized, subscriber_lists, sub_mutex, walk, owned, queue, fate>>

(* Mutation: the iterator moves on after an erase, past the next entry. *)
EraseExpiredSkips ==
  /\ Walking /\ it <= Len(list) /\ list[it] \notin owned
  /\ subscriber_lists' = [subscriber_lists EXCEPT ![type] = RemoveAt(@, it)]
  /\ it' = IF it < Len(list) THEN it + 1 ELSE it
  /\ UNCHANGED <<initialized, sub_mutex, type, number, subscriber, owned, queue, fate>>

(* ... or erases it if the task is gone ... *)
EraseExpired ==
  /\ Walking /\ it <= Len(list) /\ list[it] \notin owned
  /\ subscriber_lists' = [subscriber_lists EXCEPT ![type] = RemoveAt(@, it)]
  /\ UNCHANGED <<initialized, sub_mutex, walk, subscriber, owned, queue, fate>>

HasRoom(t) == MapThenSumSet(LAMBDA y : Len(queue[t][y]), Types) < QueueSize

(* ~Task: stop() of a task that still runs would publish, and wait for a      *)
(* sub_mutex that a publishing thread holds itself; shared_from_this() throws *)
(* before it comes to that. On a stopped task it does nothing.                *)
FateAfterDestroying(t) == IF t \in Unstopped THEN "terminated" ELSE fate

(* Mutation: the reference outlives its place in the loop. *)
DeliverKeeps ==
  /\ fate = "running" /\ subscriber # NoTask /\ HasRoom(subscriber)
  /\ queue' = IF subscriber \in owned
              THEN [queue EXCEPT ![subscriber][type] = Append(@, number)]
              ELSE [queue EXCEPT ![subscriber] = NoMessages]
  /\ it' = it + 1
  /\ fate' = IF subscriber \in owned THEN fate ELSE FateAfterDestroying(subscriber)
  /\ UNCHANGED <<initialized, subscriber_lists, sub_mutex, type, number, subscriber, owned>>

(* Mutation: a running task that is destroyed here publishes its STOPPED. *)
DeliverWaits ==
  /\ fate = "running" /\ subscriber # NoTask /\ HasRoom(subscriber)
  /\ subscriber \in owned \/ subscriber \notin Unstopped \/ ~sub_mutex
  /\ queue' = IF subscriber \in owned
              THEN [queue EXCEPT ![subscriber][type] = Append(@, number)]
              ELSE [queue EXCEPT ![subscriber] = NoMessages]
  /\ subscriber' = NoTask /\ it' = it + 1
  /\ UNCHANGED <<initialized, subscriber_lists, sub_mutex, type, number, owned, fate>>

(* ... delivers; when the reference goes and was the last one, the task is    *)
(* destroyed here, by the thread that publishes ...                           *)
Deliver ==
  /\ fate = "running" /\ subscriber # NoTask /\ HasRoom(subscriber)
  /\ queue' = IF subscriber \in owned
              THEN [queue EXCEPT ![subscriber][type] = Append(@, number)]
              ELSE [queue EXCEPT ![subscriber] = NoMessages]
  /\ subscriber' = NoTask /\ it' = it + 1
  /\ fate' = IF subscriber \in owned THEN fate ELSE FateAfterDestroying(subscriber)
  /\ UNCHANGED <<initialized, subscriber_lists, sub_mutex, type, number, owned>>

(* Mutation: publish gives the reference back and tries again. *)
DeliverRetries ==
  /\ fate = "running" /\ subscriber # NoTask /\ ~HasRoom(subscriber)
  /\ subscriber' = NoTask
  /\ UNCHANGED <<initialized, subscriber_lists, sub_mutex, walk, owned, queue, fate>>

(* ... or finds the queue without a free block, where enqueue asserts ... *)
DeliverAborts ==
  /\ fate = "running" /\ subscriber # NoTask /\ ~HasRoom(subscriber)
  /\ fate' = "aborted"
  /\ UNCHANGED <<initialized, subscriber_lists, sub_mutex, walk, subscriber, owned, queue>>

(* ... and releases sub_mutex. *)
PublishDone ==
  /\ Walking /\ it > Len(list)
  /\ sub_mutex' = FALSE
  /\ UNCHANGED <<initialized, subscriber_lists, walk, subscriber, owned, queue, fate>>

--------------------------------------------------------------------------------
(* The tasks: the last owner goes, which destroys the task unless publish     *)
(* holds a reference, and the queue thread takes a message.                   *)
Release(t) ==
  /\ fate = "running" /\ t \in owned
  /\ owned' = owned \ {t}
  /\ IF subscriber = t
     THEN UNCHANGED <<queue, fate>>
     ELSE queue' = [queue EXCEPT ![t] = NoMessages] /\ fate' = FateAfterDestroying(t)
  /\ UNCHANGED <<initialized, subscriber_lists, sub_mutex, walk, subscriber>>

Take(t, y) ==
  /\ fate = "running" /\ t \in owned /\ queue[t][y] # <<>>
  /\ queue' = [queue EXCEPT ![t][y] = Tail(@)]
  /\ UNCHANGED <<initialized, subscriber_lists, sub_mutex, walk, subscriber, owned, fate>>

--------------------------------------------------------------------------------
WalkStep == LockEntry \/ EraseExpired \/ Deliver \/ DeliverAborts \/ PublishDone

Next ==
  \/ initialize \/ AssertInitialized
  \/ WalkStep
  \/ \E y \in Types : Publish(y) \/ \E t \in Tasks : subscribe(t, y) \/ Take(t, y)
  \/ \E t \in Tasks : Release(t)

Spec == Init /\ [][Next]_vars

(* A thread inside publish goes on: it waits for nothing but the queue_mutex  *)
(* of its targets.                                                            *)
FairSpec == Spec /\ WF_vars(WalkStep)

--------------------------------------------------------------------------------
(* Every variable holds a value of its type; a thread outside publish holds   *)
(* no reference to a task.                                                    *)
TypeOK ==
  /\ initialized \in BOOLEAN /\ fate \in {"running", "aborted", "terminated"}
  /\ subscriber_lists \in [Types -> Seq(Tasks)]
  /\ sub_mutex \in BOOLEAN
  /\ type \in Types /\ number \in 0 .. MaxPublishes
  /\ it \in 1 .. Len(list) + 1
  /\ subscriber \in Tasks \cup {NoTask}
  /\ subscriber # NoTask => sub_mutex /\ it <= Len(list) /\ subscriber = list[it]
  /\ owned \in SUBSET Tasks
  /\ queue \in [Tasks -> [Types -> Seq(1 .. MaxPublishes)]]

(* The message being published is still to come for this task. *)
Ahead(t, y) ==
  /\ sub_mutex /\ y = type
  /\ \E i \in it .. Len(list) : list[i] = t

(* The subscribers, and what each has still to take. *)
Members == [y \in Types |-> {t \in owned : Contains(subscriber_lists[y], t)}]

Pending(t, y) ==
  IF t \notin owned THEN <<>>
  ELSE IF Ahead(t, y) THEN Append(queue[t][y], number)
  ELSE queue[t][y]

Box == [t \in Tasks |-> [y \in Types |-> Pending(t, y)]]

Promise == INSTANCE Broadcast WITH
  Numbers <- 1 .. MaxPublishes, present <- owned, members <- Members, box <- Box

(* A publish is as good as one that reaches all subscribers at once, although *)
(* it delivers step by step while tasks go, entries are erased under its      *)
(* iterator and those who have the message already act on it: everyone sees   *)
(* the messages of a type in one order, each once. StateManager relies on it. *)
KeepsPromise == Promise!Spec

(* What the thread inside publish has still to do: two steps for an entry,    *)
(* one of which is done once it has the reference, and the unlock.            *)
Left ==
  IF sub_mutex THEN 2 * (Len(list) + 1 - it) + (IF subscriber = NoTask THEN 1 ELSE 0) ELSE 0

(* Nothing that happens while a thread walks the list gives it more to do:    *)
(* nobody subscribes, no entry is met twice, and every step of its own leaves *)
(* less to do, or ends the process. So a publish is over after at most two    *)
(* steps per entry of the list it started with, whatever the tasks do.        *)
PublishProgresses ==
  [][/\ sub_mutex => Left' <= Left
     /\ WalkStep => Left' < Left \/ fate' # "running"]_vars

(* A publish ends, so that sub_mutex is free again for the next, unless a     *)
(* queue on its way is full: also when it destroys a task on its way, with    *)
(* sub_mutex in hand, since that never comes to publish in turn.              *)
PublishReturns == sub_mutex ~> ~sub_mutex \/ fate # "running"
================================================================================
