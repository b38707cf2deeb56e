# Verification of protocore

TLA+ models of protocore, a C++ framework of tasks that run in threads of their
own, exchange messages through a broker and are moved through states by a
StateManager. TLC checks the models on small instances; TLAPS proves every
invariant and action property of every part, and all four refinements, for every
value of the constants.

## The system and what is modelled

| Part (source) | What it does | Modules | Status |
|---|---|---|---|
| MemoryPool (`src/memory_pool.cpp`) | fixed-size blocks, intrusive LIFO free list, one mutex | `BlockPool`, `MemoryPool`, `MemoryPoolProofs` | modelled, proved |
| MessageQueue (`src/message_queue.cpp`) | blocking priority queue of nodes in a MemoryPool, FIFO within a priority | `PriorityQueue`, `MessageQueue`, `MessageQueueProofs` | modelled, proved |
| Task (`src/task.cpp`, `include/task/`) | a queue thread, an optional periodic thread, start, stop, state | `Mailbox`, `Selection`, `Task`, `SelectionProofs`, `TaskProofs` | modelled, proved |
| StateManager (`src/state_manager.cpp`) | sends every task a StateMsg, collects acknowledgments, demand with timeout, initialize, shutdown | `StateManager`, `StateManagerProofs` | modelled, proved |
| Broker (`include/broker.h`) | subscriber lists of weak pointers, publish under `sub_mutex` | `Broadcast`, `Broker`, `BrokerProofs` | modelled, proved |
| HeartBeatTask (`src/heart_beat.cpp`) | sends heartbeats, marks tasks that do not answer | `HeartBeat`, `HeartBeatProofs` | modelled, proved |
| Logger (`src/logger.cpp`) | queue of entries, a worker that writes them to sinks | `Logger`, `LoggerProofs` | modelled without time stamps and text, proved |
| Messages (`include/msg/`) | a variant with a type, a priority and a text form | `Msg`, used by `Task`; priorities in `MessageQueue`, ids in `HeartBeat` | modelled without the text |

The layers use each other through promises. `MessageQueue` does not contain the
free list: it uses the pool as `BlockPool` describes it, a set of free blocks, and
`MemoryPool` is shown to implement `BlockPool`. `Task` uses its queue as
`PriorityQueue` describes it, and `MessageQueue` is shown to implement `PriorityQueue`.
`StateManager` and `HeartBeat` in turn describe the queue of a task as two FIFO
sequences, StateMsgs and heartbeats, of which the first goes first; `Mailbox` is that
promise, and `Task` is shown to implement it with the priorities of `Msg`. `StateManager`
publishes a StateMsg to all tasks in one step; `Broadcast` is that promise, and
`Broker` is shown to implement it entry by entry. `StateManager` composes the manager, its users and the tasks' threads, with stop() reduced to
the window that `Task` describes in detail.

Each module is the code step by step. A step is what happens between two points
where another thread can get in. Taking a mutex and the whole of its critical
section is one step unless the section itself is the subject: the pool's sections
are two steps, so that dropping the mutex is visible; a wait on a condition
variable tests its predicate in one step and joins the wait set in the next, with
the mutex held in between; acknowledgments are handled without a mutex, so the
write of a record and the scan are separate.

### MemoryPool

`link[b]` is the first word of block `b`: the next pointer while it is free, client
data (`Junk`, or any value) while it is lent. `Init` is the constructor's chain;
`AllocateNull`, `AllocateHead` / `AllocateUnlink` are allocate, `DeallocateLink` /
`DeallocatePush` are deallocate, `Scribble` is a client writing to a block it
holds. Any thread may give back any lent block. Deallocating a block twice, or a
foreign pointer, is a use the code does not allow (it asserts the range) and is
not modelled.

### MessageQueue

`Allocate`, `AllocateAborts`, `Push`, `NotifyOne` are the four stages of enqueue (the
assertion aborts the process, as in a build with assertions). `Call`, `Test`, `Block`,
`SpuriousWake`, `Expire` are the waits; `DequeueTake` and `DequeueShutdown` finish
dequeue, `TryTake`, `TryTimeout` and `TryUndefined` finish try_dequeue. The vector and
its heap are a set of blocks with the order of `NodeComparator`; ties are taken in
any order, as the heap may. `sequence` keeps a width: it counts modulo
`SequenceMod`, which stands for 2^32.

### Messages and Task

`Msg` has the list MESSAGE_VARIANT_TYPES: the alternatives of the variant, from whose
index the constructor takes type and priority, get_data_as, which answers nullptr
for another alternative, and operator<. A payload is a state or the id of a heartbeat.

In `Task` one controller calls start and stop and drops the last reference. StateMsgs
and heartbeats are delivered at any time, also to a task that is stopped;
`RunDequeue` takes the message that `GoesFirst`, the highest priority and then the
earliest arrival, and `handle_heartbeat` answers a heartbeat. `SetState`,
`BuildAck` and `PublishAck` are the three steps of transition_to_state, taken by the
queue thread for a StateMsg and by stop for STOPPED. `LoopTest` is the test of
`running`, apart from the dequeue and the periodic work that follow it. `late`
counts the rounds a thread begins after stop has cleared `running`.

`Mailbox` has two queues where the task has one. `OfType` of `Selection` picks the
messages of one type from the queue in their order: what SelectSeq gives, but defined
without recursion (the n-th message of a type is the one up to which n of its type
are counted), so that it can be reasoned about. `MCTask` has TLC compare the two on all
queues of up to five messages.

### StateManager

`Demand`, `SetTarget`, `Transition`, `TestTrue` / `TestFalse`, `Block`, `Expire`, `Expired`
are demand_state_transition; `HandleAck` and `Notify` are handle_acknowledgment;
`Initialize`, `Shutdown`, `StopTask`, `StopSelf`, `Join` are the life cycle;
`MarkDeliver` and `MarkRecord` are mark_task_as_unresponsive. `target_state` is not
initialized by the code and starts with any value. `StateManager::current_state` is
left out: no code reads it. (It hides `Task::current_state`, so that
get_current_state() of the manager always answers NOT_STARTED.) `clean` is a history
variable: the user whose demand began in a quiet system and was not joined by
another call. So is `marked`, the tasks that were ever marked as unresponsive. A mark may
begin while shutdown is under way, also for a task that is stopped already. It
delivers ERROR first and writes the record later, when the task may have acknowledged
ERROR and moved on: what a mark can leave (`Marked`) is ERROR as the state of that task
or as its record. `Agreement` and `CleanDemandSound` hold with marks at any time, and
except nothing but that.

initialize may be called again after a shutdown. Nothing empties the queues in
between: StateMsgs and acknowledgments that came too late for the stopped threads
are worked off by the restarted ones, while initialize demands IDLE. Requests and
demands of users may come in every phase after the first initialize.

### HeartBeat

The periodic thread's round is `Wake`, then one step per task of
check_for_timeouts (`CheckNext`, or `MarkDeliver` and `MarkRecord`), the test of the
state (`TestRunning`, `TestNotRunning`), and one step per task of send_heartbeat. The
queue thread takes StateMsgs first (`HandleState`) and then acknowledgments
(`TakeAck`, and `handle_acknowledgment` once `tasks_mutex` is free). A monitored task
answers (`handle_heartbeat`) or, if it is not in `Prompt`, may drop a heartbeat or leave
it in its queue for ever. A message for a queue without a free block aborts the
process. The code numbers heartbeats with a 32-bit counter and compares ids only with
the last one of the same task, so an id is any that this task's messages do not carry.

Time is discrete, and `age` is the difference of two time points, the only thing
the code looks at. `Tick` holds all that is assumed of the scheduler: a round takes
at most `Slack` and a sleeper wakes at most `Slack` late, and a task in `Prompt`
acknowledges within `Latency`, which is at most the timeout; the acknowledgment is
then handled too, unless the round in progress has `tasks_mutex`. check_for_timeouts
reads the clock once, before its loop, and that is what makes `NoFalseAlarm` hold:
with the clock read in the loop a prompt task is marked while its answer waits for
the mutex.

`RegisterTask` (register_task, `state_mutex`) and `notify_task_registered` (`tasks_mutex`)
may come at any time, also while the system runs. Then they can deadlock: register_task
asks for `tasks_mutex` with `state_mutex` in hand, and a round that marks a task asks
the other way round. The model reaches that state, `LocksMeet`; the two threads stay in it
(`Hung`) and the clock, which assumes rounds that end, is not followed further.
`NoLockCycle` says when it cannot happen: as long as nobody has asked for RUNNING, which
the history variable `asked` records, that is during initialization, when the
repository's README has tasks register. The StateMsgs of `Order` reach the HeartBeatTask
and all other tasks; of those a task only has the number in its queue, since nothing
here depends on what they say. `unresponsive_action` is left out: it is only written to
the log, and a task is always given ERROR.

### Broker

`Publish` takes `sub_mutex`, `LockEntry` locks the weak pointer at the iterator,
`EraseExpired` removes an expired one, `Deliver` enqueues, drops the reference and moves
on (the task is destroyed there if the reference was the last), `DeliverAborts` is
enqueue's assertion, `PublishDone` unlocks. In between, tasks take messages (`Take`)
and lose their last owner (`Release`). Only one thread can be inside publish, so one
iterator is enough for any number of publishers. A message is its number; each task
has a sequence per type, as messages of a type have one priority. A task in
`Unstopped` still runs when its last owner lets go: its destructor ends the process
(`FateAfterDestroying`; the run `task_destructor` shows how), before stop() can come to
a publish, which would wait for the `sub_mutex` of its own thread. subscribe does not prune expired entries, so a list may outgrow
what initialize reserved; the model has no reserve, which only affects speed.

In the refinement to `Broadcast` a message is in everybody's box from the moment
`sub_mutex` is taken: a task which the walk has still to reach (`Ahead`) has the
message in its abstract box behind what is in its real queue.

### Logger

`Log` is the test of the level, `Push` and `Notify` the rest of log; `WorkerTest`,
`WorkerBlock`, `SpuriousWake`, `WorkerTake`, `WorkerDispatch` (one sink at a time),
`WorkerNext` and `WorkerEnd` are worker_loop; `Shutdown` and `ShutdownNotify` are shutdown,
called alone or by the destructor, which goes on to `Join`. An entry is the number
of its push. The levels are the numbers of the enum; the constructor sets the
highest, so that only MSG_TRAFFIC is logged until somebody calls set_level. Sinks are
added at any time but while the worker walks over them: add_sink takes no lock, and
a program has to see to that. `first` remembers how many entries were taken before
a sink came, which are those it never gets. Files and the console write and flush
(`StreamLog`), a SocketSink drops what it is given (`SocketLog`), as its code does today.
Entries logged after the worker has ended stay in the queue and are never written;
`Flushed` is about those queued before `stopping` was set.

## Runs

| Run | Instance | Shows |
|---|---|---|
| `pool` | 3 threads, 3 blocks | `FreeListIntegrity`: the chain from `free_list` visits each block nobody holds once. `KeepsPromise`: the pool implements `BlockPool`. |
| `queue` | 2 producers, 1 consumer, 1 poller, 2 blocks, 2 priorities, 3 messages | `BlocksAccounted`, `NoLostWakeup`; `KeepsPromise`: the queue implements `PriorityQueue`; `EveryMessageTaken`, `ShutdownReleases` under fairness. |
| `task` | periodic thread, queue of 2, 3 messages, 2 starts | `StopJoins`, `AtMostOneLateRound`, `StopReturns`, `Serves`; `KeepsPromise`: the task implements `Mailbox`. |
| `state_manager` | 2 tasks, 2 users, 3 calls of which 1 mark, 2 states | `Agreement`, `CleanDemandSound`. |
| `state_manager_live` | 1 task, 2 users, 3 calls of which 1 mark | `CallsReturn`. |
| `heartbeat` | a prompt task and another, interval, timeout, latency and slack 1, queues of 2, 2 state changes | `NoFalseAlarm`, `DetectionBound`, `ClosedForCause`, `OneUnderWay`, `AtMostOneLateBeat`; `NoLockCycle`: registration and detection deadlock only if a task registers after RUNNING was asked for. |
| `broker` | 3 tasks, one of them not stopped, 1 type, 3 messages, queues of 2 | `KeepsPromise`: the broker implements `Broadcast`. `PublishProgresses`: what a publish has still to do never grows, and shrinks with each step of its own. `PublishReturns`. |
| `logger` | 2 threads, 2 sinks and a SocketSink, 2 levels, 2 entries | `InOrder`, `Flushed`; `NoLostWakeup`: the worker sleeps with something to do only while a notification is to come; `EntriesWritten`, `DestructorReturns`. |
| `queue_try_shutdown` | 1 poller | violated: try_dequeue pops from an empty vector after notify_shutdown. |
| `task_stop_race` | as `task` | violated: a stopped task is left in another state than STOPPED. |
| `task_destructor` | as `task` | violated: destroying a running task ends the process. |
| `demand_stale` | 2 tasks, 1 user, 3 calls | violated: demand returns true on records older than itself. |

Every passing run but `state_manager_live`, whose module is that of `state_manager`,
checks a type invariant as well. The four violated runs check what a comment, a
header or a test says, and PROJECT.json quotes the line.

More disagreements follow from the models, or were met on the way, without a run of
their own. A
queue whose `sequence` wraps while messages wait loses FIFO order (`KeepsPromise` needs
`MaxEnqueues` < `SequenceMod`). mark_task_as_unresponsive writes the record ERROR after
the task may have acknowledged something else, and the record stays wrong until
the next acknowledgment (`Agreement` allows for it, and for no more). A task registered while the system runs can deadlock
with the detection of another (`LocksMeet` in `HeartBeat`; `NoLockCycle` excludes it for
registration during initialization). set_unresponsive_action has no effect besides a log
entry. `state_manager.h` says that register_task sets IDLE (the code: NOT_STARTED), and
calls the observer a weak pointer (it is a shared_ptr, and the observer holds one
back, so that neither is ever freed). transition_to_state "validates" nothing.
`logger.cpp` speaks of a monotonic timestamp and takes the system clock, before the
queue's mutex, so that time stamps in a file need not be in order.

What the bounds are for. Three threads are enough for two of them to meet in a
critical section while a third observes; three blocks give a free list with a
head, an inner block and an end, and an empty one. In `queue` there are more
messages than blocks, so blocks are reused, the pool runs out (`AllocateAborts`)
and `sequence` restarts; the consumer and the poller both sleep while two producers
notify. In `task` two starts are a restart, three messages overflow a queue
of two, and two queued ones are enough for each pair of kinds in either order of
arrival. In the `state_manager` runs every call counts, shutdown and a mark included,
and the first is initialize. Three of them are initialize and two concurrent calls
of the users; a user's call, or a mark, that meets initialize or shutdown; and
initialize, shutdown and initialize again, with what the first life left in the
queues. In `heartbeat` a
queue of two overflows for a task that hangs, and for one that answers only when
StateMsgs come faster than it takes them; two state changes enter and leave RUNNING; each
task registers once, before, between or after them; and with five ids there is always an unused one
when a heartbeat is to be sent.
In `broker` three subscribers give entries before, at and after the iterator, and
three messages overflow a queue of two. One of them is not stopped when it goes, so
that the process may end at, before or after the iterator. In `logger` two entries
are one in the worker's hand or written and one queued, before and after `stopping`,
and a sink can come before, between and after them. Deadlock
checking is off where the system may stop: the bounds are used up, the process has
aborted, or everything is shut down. The pool never stops and is checked, and so is
the HeartBeatTask, whose clock must be able to go on unless it hangs.

Fairness. `queue`: threads inside a call go on and obtain the mutex in the end
(strong fairness, since others may hold it again and again), consumers call dequeue
again as Task::run does; nobody has to enqueue. Messages end with `MaxEnqueues`: without
that, urgent ones that never end could starve the others. `task`: the two threads and a call
in progress are scheduled, and process_message returns, as its header demands.
`state_manager_live`: the same, and a timeout expires (strong fairness, since
spurious wake-ups leave and re-enter the wait, which keeps its deadline). `broker`:
the thread inside publish goes on; it waits for nothing but the queues' mutexes.
`logger`: the worker, the notifications and the destructor go on, and spurious
wake-ups need not happen. `DestructorReturns` also needs that logging ends, which the
bound on entries provides: a worker that is fed for ever never finds its queue empty.
`heartbeat` has no liveness property, its bounds in time are invariants. No call of a
user is ever obliged to happen.

## Proofs

| Theorem | Module | Statement |
|---|---|---|
| `TypeCorrect`, `FreeListCorrect` | `MemoryPoolProofs` | `Spec => []TypeOK`, `Spec => []FreeListIntegrity` |
| `PoolKeepsPromise` | `MemoryPoolProofs` | `Spec => Promise!Spec` (BlockPool) |
| `TypeCorrect`, `BlocksCorrect`, `WakeupsCorrect` | `MessageQueueProofs` | the queue's three invariants |
| `QueueKeepsPromise` | `MessageQueueProofs` | `Spec => Promise!Spec` (PriorityQueue), if `MaxEnqueues < SequenceMod` |
| `TypeCorrect`, `StopJoinsCorrect`, `LateRoundCorrect` | `TaskProofs` | the task's three invariants |
| `TaskKeepsPromise` | `TaskProofs` | `Spec => Promise!Spec` (Mailbox) |
| `TypeCorrect`, `AgreementCorrect`, `CleanDemandSoundCorrect` | `StateManagerProofs` | the invariants of `state_manager`, for any tasks, users, calls, marks and restarts |
| `TypeCorrect`, `NoFalseAlarmCorrect`, `DetectionBoundCorrect`, `ClosedForCauseCorrect`, `OneUnderWayCorrect`, `LateBeatCorrect`, `NoLockCycleCorrect` | `HeartBeatProofs` | all invariants of `heartbeat`, for any interval, timeout, slack and latency up to the timeout |
| `TypeCorrect` | `BrokerProofs` | `Spec => []TypeOK` |
| `BrokerKeepsPromise` | `BrokerProofs` | `Spec => Promise!Spec` (Broadcast) |
| `PublishProgressesCorrect` | `BrokerProofs` | `Spec => PublishProgresses` |
| `TypeCorrect`, `InOrderCorrect`, `FlushedCorrect`, `NoLostWakeupCorrect` | `LoggerProofs` | the logger's four invariants |

The assumptions are those of the modules: at least one block, distinct special
values, finite sets of threads and blocks, producers, consumers and pollers
distinct, numeric bounds, and for the HeartBeatTask a positive interval and a latency
within the timeout.

*Pool.* `TypeOK` alone is not inductive, because what `free_list` becomes is read
from a block. `IInv` adds `Locking` (a thread inside a critical section holds
`pool_mutex`, and what it has read is still true) to `FreeListIntegrity`, which says
that there is a bijection from 1..k to the free blocks that the links follow.
Allocate drops the first element of the listing, deallocate adds one in front, and
a client writes only to blocks that are not listed.

*Queue.* `IInv` adds `Placement`: where each kind of thread can be, that whoever is
about to sleep holds `queue_mutex` and has found the queue empty, and that blocks in
the vector hold a message. The account of wake-ups then goes through each step: a
push adds a message and a notifier, a notify turns a notifier into a thread
awake, a thread that takes a message removes both. For the refinement, `Order` says
that sequence numbers order queued messages as their arrival does and are below
`sequence`; it holds because `sequence` restarts only when the queue is empty, and
needs that it does not wrap.

*Task.* `IInv` adds what each place of start and stop says about `running` and the
threads, that a thread which has spent its late round is not about to begin
another, and `Holding`: process_message looks at a message as the alternative it is, so
that no null pointer from get_data_as is followed, and holds none outside of it. For
the refinement, `SelectionProofs` says what `OfType` does when a message is appended
(it comes last among its type, and other types do not notice) and when one is removed:
the first of its type takes the head away, any other type is left as it was. The
listing of a type is shown to be the only one that is increasing and complete (`Lists`,
`Listed`), which replaces the induction that a recursive definition would need.
`FirstOfItsType` and `Urgency` then say that the message that `GoesFirst` is the first of its
type, and a heartbeat only if no StateMsg waits.

*StateManager.* `Lifecycle` ties the phases to the threads: who is off, stopped or in the
window in each of them. `Consistent` is the core of `Agreement`: all
tasks will end in one state, which is the last StateMsg in a task's inbox
or, if that is empty, the state it is in; and a task with an empty inbox has said
where it is, in the last of its acknowledgments under way or in its record. Where a
task was marked, its end or its record may be ERROR instead; an acknowledgment never
is wrong, so that the next one repairs the record. `Consistent` is
suspended while shutdown stops one task after the other, each of which goes to
STOPPED on its own, and restored by the StateMsg the manager's own stop() publishes:
that one, left in every inbox, is what makes the next life consistent too. `Alone` says
of a demand in `clean` that before its StateMsg nothing is on its way and afterwards
only what it asked for, and that a task which is not there yet has sent nothing and
has a correct record, or ERROR from an earlier mark, which only a demand for ERROR can
mistake for an answer (`Arrived` and `CleanDemandSound` except it). A mark during the demand takes it out of `clean`.

*HeartBeatTask.* `Timing` bounds `age` by where the periodic thread is: for a prompt task by
`PromptLimit`, the latency plus the time its answer can wait for `tasks_mutex`; for
any task by `Limit`, which grows by what is left of the round and the sleep.
`Startup` says that before RUNNING is asked for the HeartBeatTask is neither in that state
nor about to be, so that nothing is sent and nobody can be overdue: whoever meets a round
that marks a task has registered later. `Lateness` says that the loop sends to each task once.
`Causes` says that an acknowledgment that carries the latest id was sent for it.
`Single` counts what is under way for a prompt task: nothing, unless a response is
awaited, since its answer was handled before a new heartbeat may go out.

*Broker.* `NoDuplicates` says that a task is in a list at most once, so that after its
delivery the walk does not come to it again, and `Published` that the message inside
publish has a number. Every step of the walk is then a stutter of `Broadcast`: what
`Deliver` appends to the queue was already in the box, and erasing an expired entry
moves none of the entries ahead out of the iterator's way. `PublishProgresses` needs the
type invariant: the iterator is inside the list, and whoever holds a reference holds
`sub_mutex`, under which nobody can subscribe.

*Logger.* `Numbered` says position by position what the sinks, the worker and the queue
hold; `Ended` that the worker has ended only after all that was queued before
`stopping` was set had been taken. `NoLostWakeup` is inductive together with `Tested`: between
its test and its sleep the worker holds `queue_mutex`, so that what it found is still so.

Only model-checked: liveness (`EveryMessageTaken`, `ShutdownReleases`, `StopReturns`, `Serves`,
`CallsReturn`, `PublishReturns`, `EntriesWritten`, `DestructorReturns`), which needs fairness and
ENABLED. Where it rests on a safety argument, that argument is proved: `NoLostWakeup` of the
queue and of the logger, `PublishProgresses` of the broker. That `OfType` is SelectSeq for every
queue would need an induction over data, which is out of the prover's reach; nothing
rests on it, since `SelectionProofs` derives what `OfType` does from its own definition.

## Not modelled

- Text of messages and log entries, time stamps, use_relative_timestamps, the opening
  of files: they decide what a line looks like and nothing that happens.
- Chrono arithmetic: timeouts are choices, and in `HeartBeat` time is discrete. Sizes of
  blocks in bytes.
- Two threads that start or stop the same task. One control point does that in this
  code base; the test and the assignment of `running` are not one step, and two
  callers would have to be kept apart by a program.
- A sink added while the worker walks over the sinks: a data race, whose outcome is
  open.
- Registration while the system runs, in `StateManager`: its tasks are registered before
  initialize, as documented. `HeartBeat` has it, with the two mutexes it takes.
- Tasks that ignore a StateMsg. In `StateManager` every task obeys and acknowledges each
  one it takes; process_message is virtual, and a task may do otherwise
  (NonResponsiveMockTask of `test/test_state_manager.cpp` does). `Agreement` is about tasks
  that obey.
- Full queues in `StateManager`: its inboxes have no limit, and a message that would
  find a queue full, and abort, is in `MessageQueue`, `Broker` and `HeartBeat`.
- Acknowledgments from a sender the manager does not know, or without data: handle_acknowledgment
  logs and drops them. Only registered tasks are started, so none arrives.
- Registration of a task for the second time, which leaves `monitored_tasks` as it is.
- `Task` composed with `MessageQueue` directly: the queue is used through the promise it
  is proved to keep.
- `include/protocore.h`, `msg_traits.h` and `declare_msg.h`: includes, a macro and
  compile-time checks.
