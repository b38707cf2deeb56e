----------------------------- MODULE MessageQueue -----------------------------
(* The blocking priority queue of message_queue.cpp. Producers call enqueue,  *)
(* Consumers dequeue, Pollers try_dequeue, and somebody calls notify_shutdown. *)
(* A step is what happens between two points where another thread can get in: *)
(* allocate (outside queue_mutex), the critical section, the notify after it. *)
(* The predicate of wait is tested in one step and the thread joins the wait  *)
(* set in the next, holding queue_mutex in between. The pool is used through  *)
(* its promise (BlockPool, kept by MemoryPool): a set of free blocks. The     *)
(* vector and its heap are a set of blocks whose top NodeComparator decides.  *)
EXTENDS Integers, FiniteSets

CONSTANTS
  Producers, Consumers, Pollers,
  Blocks,       \* the max_msgs blocks of the pool
  Priorities,   \* the priorities of the messages
  SequenceMod,  \* 2^32, the range of the uint32_t sequence
  MaxEnqueues,  \* bound: messages enqueued in a behaviour
  NoThread, NoBlock, NullOpt, Pending

Callers == Consumers \cup Pollers
Threads == Producers \cup Callers

ASSUME BlocksAssumption == IsFiniteSet(Blocks) /\ NoBlock \notin Blocks
ASSUME ThreadsAssumption ==
  /\ IsFiniteSet(Threads) /\ NoThread \notin Threads
  /\ Producers \cap Callers = {} /\ Consumers \cap Pollers = {}
ASSUME NumbersAssumption ==
  Priorities \subseteq Nat /\ SequenceMod \in Nat \ {0} /\ MaxEnqueues \in Nat

VARIABLES
  free,         \* the free blocks of the pool
  queue,        \* the blocks in the vector
  node,         \* node[b]: the Node in block b
  sequence, shutdown,
  queue_mutex,  \* the thread that holds queue_mutex between two steps
  pc,           \* where each thread is
  raw,          \* raw[p]: the block enqueue has allocated
  arrivals,     \* messages pushed so far; a message's number is its identity
  result,       \* what the last call of each caller returned
  fate          \* of the process: an assertion may abort it

vars == <<free, queue, node, sequence, shutdown, queue_mutex, pc, raw, arrivals, result, fate>>

Blank == [prio |-> 0, seq |-> 0, no |-> 0]
Node  == [prio : Priorities, seq : 0 .. SequenceMod - 1, no : 1 .. MaxEnqueues] \cup {Blank}

Init ==
  /\ free = Blocks
  /\ queue = {}
  /\ node = [b \in Blocks |-> Blank]
  /\ sequence = 0
  /\ shutdown = FALSE
  /\ queue_mutex = NoThread
  /\ pc = [t \in Threads |-> "out"]
  /\ raw = [p \in Producers |-> NoBlock]
  /\ arrivals = 0
  /\ result = [c \in Callers |-> Pending]
  /\ fate = "running"

Goto(t, from, to) == pc[t] = from /\ pc' = [pc EXCEPT ![t] = to]

(* Thread t goes through a critical section that it does not block in. *)
Locked == fate = "running" /\ queue_mutex = NoThread /\ UNCHANGED queue_mutex

--------------------------------------------------------------------------------
InFlight == {p \in Producers : pc[p] = "push"}

(* enqueue: pool.allocate(). *)
Allocate(p, b) ==
  /\ fate = "running"
  /\ Goto(p, "out", "push")
  /\ arrivals + Cardinality(InFlight) < MaxEnqueues
  /\ b \in free
  /\ free' = free \ {b}
  /\ raw' = [raw EXCEPT ![p] = b]
  /\ UNCHANGED <<queue, node, sequence, shutdown, queue_mutex, arrivals, result, fate>>

(* enqueue: the assertion on what allocate returned. *)
AllocateAborts(p) ==
  /\ fate = "running"
  /\ pc[p] = "out"
  /\ free = {}
  /\ fate' = "aborted"
  /\ UNCHANGED <<free, queue, node, sequence, shutdown, queue_mutex, pc, raw, arrivals, result>>

(* enqueue: the critical section. *)
Push(p, prio) ==
  /\ Locked
  /\ Goto(p, "push", "notify")
  /\ node' = [node EXCEPT ![raw[p]] = [prio |-> prio, seq |-> sequence, no |-> arrivals + 1]]
  /\ queue' = queue \cup {raw[p]}
  /\ sequence' = (sequence + 1) % SequenceMod
  /\ arrivals' = arrivals + 1
  /\ raw' = [raw EXCEPT ![p] = NoBlock]
  /\ UNCHANGED <<free, shutdown, result, fate>>

Waiters == {c \in Callers : pc[c] = "wait"}

(* Mutation: notify only when the message made the queue non-empty. *)
NotifyOneWhenFirst(p) ==
  /\ fate = "running"
  /\ pc[p] = "notify"
  /\ \/ /\ Waiters = {} \/ Cardinality(queue) # 1
        /\ pc' = [pc EXCEPT ![p] = "out"]
     \/ /\ Cardinality(queue) = 1
        /\ \E c \in Waiters : pc' = [pc EXCEPT ![p] = "out", ![c] = "lock"]
  /\ UNCHANGED <<free, queue, node, sequence, shutdown, queue_mutex, raw, arrivals, result, fate>>

(* enqueue: queue_condition.notify_one(), after the unlock. *)
NotifyOne(p) ==
  /\ fate = "running"
  /\ pc[p] = "notify"
  /\ \/ Waiters = {} /\ pc' = [pc EXCEPT ![p] = "out"]
     \/ \E c \in Waiters : pc' = [pc EXCEPT ![p] = "out", ![c] = "lock"]
  /\ UNCHANGED <<free, queue, node, sequence, shutdown, queue_mutex, raw, arrivals, result, fate>>

--------------------------------------------------------------------------------
(* dequeue and try_dequeue. *)
Call(c) ==
  /\ fate = "running"
  /\ Goto(c, "out", "lock")
  /\ result' = [result EXCEPT ![c] = Pending]
  /\ UNCHANGED <<free, queue, node, sequence, shutdown, queue_mutex, raw, arrivals, fate>>

(* The predicate of wait and wait_for. *)
Ready == queue # {} \/ shutdown

(* wait finds the predicate false ... *)
Test(c) ==
  /\ fate = "running"
  /\ queue_mutex = NoThread
  /\ ~Ready
  /\ Goto(c, "lock", "block")
  /\ queue_mutex' = c
  /\ UNCHANGED <<free, queue, node, sequence, shutdown, raw, arrivals, result, fate>>

(* ... and joins the wait set, which releases queue_mutex. *)
Block(c) ==
  /\ fate = "running"
  /\ Goto(c, "block", "wait")
  /\ queue_mutex' = NoThread
  /\ UNCHANGED <<free, queue, node, sequence, shutdown, raw, arrivals, result, fate>>

(* The condition variable may wake a thread for no reason. *)
SpuriousWake(c) ==
  /\ fate = "running"
  /\ Goto(c, "wait", "lock")
  /\ UNCHANGED <<free, queue, node, sequence, shutdown, queue_mutex, raw, arrivals, result, fate>>

(* wait_for runs out of time; it tests its predicate once more. *)
Expire(c) ==
  /\ fate = "running"
  /\ c \in Pollers
  /\ Goto(c, "wait", "expired")
  /\ UNCHANGED <<free, queue, node, sequence, shutdown, queue_mutex, raw, arrivals, result, fate>>

(* NodeComparator: a is below b in the heap. *)
Below(a, b) == a.prio < b.prio \/ (a.prio = b.prio /\ a.seq > b.seq)

IsTop(b) == b \in queue /\ \A o \in queue : ~Below(node[b], node[o])

Message(b) == [prio |-> node[b].prio, no |-> node[b].no]

(* Mutation: the message is read after its block went back to the pool. *)
PopReadsFreed(c, b) ==
  /\ IsTop(b)
  /\ queue' = queue \ {b}
  /\ result' = [result EXCEPT ![c] = [prio |-> Blank.prio, no |-> Blank.no]]
  /\ node' = [node EXCEPT ![b] = Blank]
  /\ free' = free \cup {b}
  /\ UNCHANGED <<shutdown, raw, arrivals, fate>>

(* Mutation: the block is not given back. *)
PopLeaks(c, b) ==
  /\ IsTop(b)
  /\ queue' = queue \ {b}
  /\ result' = [result EXCEPT ![c] = Message(b)]
  /\ node' = [node EXCEPT ![b] = Blank]
  /\ UNCHANGED <<free, shutdown, raw, arrivals, fate>>

(* pop_heap, pop_back, copy the message, give the block back to the pool. *)
Pop(c, b) ==
  /\ IsTop(b)
  /\ queue' = queue \ {b}
  /\ result' = [result EXCEPT ![c] = Message(b)]
  /\ node' = [node EXCEPT ![b] = Blank]
  /\ free' = free \cup {b}
  /\ UNCHANGED <<shutdown, raw, arrivals, fate>>

(* Mutation: sequence restarts although messages are queued. *)
SequenceRestarts(rest) == 0

(* dequeue restarts sequence when it has emptied the queue. *)
SequenceAfter(rest) == IF rest = {} THEN 0 ELSE sequence

(* Mutation: dequeue no longer drains the queue after shutdown. *)
DequeueTakeOpen(c, b) ==
  /\ Locked /\ ~shutdown
  /\ c \in Consumers
  /\ Goto(c, "lock", "out")
  /\ Pop(c, b)
  /\ sequence' = SequenceAfter(queue')

DequeueTake(c, b) ==
  /\ Locked
  /\ c \in Consumers
  /\ Goto(c, "lock", "out")
  /\ Pop(c, b)
  /\ sequence' = SequenceAfter(queue')

(* Mutation: dequeue waits again instead of returning. *)
DequeueShutdownRetries(c) ==
  /\ Locked
  /\ c \in Consumers
  /\ Goto(c, "lock", "lock")
  /\ shutdown /\ queue = {}
  /\ sequence' = 0
  /\ UNCHANGED <<free, queue, node, shutdown, raw, arrivals, result, fate>>

DequeueShutdown(c) ==
  /\ Locked
  /\ c \in Consumers
  /\ Goto(c, "lock", "out")
  /\ shutdown /\ queue = {}
  /\ sequence' = 0
  /\ result' = [result EXCEPT ![c] = NullOpt]
  /\ UNCHANGED <<free, queue, node, shutdown, raw, arrivals, fate>>

(* try_dequeue leaves sequence as it is. *)
TryTake(c, b) ==
  /\ Locked
  /\ c \in Pollers
  /\ pc[c] \in {"lock", "expired"}
  /\ pc' = [pc EXCEPT ![c] = "out"]
  /\ Pop(c, b)
  /\ UNCHANGED sequence

TryTimeout(c) ==
  /\ Locked
  /\ ~Ready
  /\ Goto(c, "expired", "out")
  /\ result' = [result EXCEPT ![c] = NullOpt]
  /\ UNCHANGED <<free, queue, node, sequence, shutdown, raw, arrivals, fate>>

(* try_dequeue on an empty queue after notify_shutdown: its predicate holds,  *)
(* so it calls pop_heap, back and pop_back on an empty vector.                *)
TryUndefined(c) ==
  /\ Locked
  /\ c \in Pollers
  /\ pc[c] \in {"lock", "expired"}
  /\ queue = {} /\ shutdown
  /\ fate' = "undefined"
  /\ UNCHANGED <<free, queue, node, sequence, shutdown, pc, raw, arrivals, result>>

--------------------------------------------------------------------------------
NotifyShutdown ==
  /\ Locked
  /\ shutdown' = TRUE
  /\ pc' = [t \in Threads |-> IF t \in Waiters THEN "lock" ELSE pc[t]]
  /\ UNCHANGED <<free, queue, node, sequence, raw, arrivals, result, fate>>

(* The destructor; nobody is inside a call any more. *)
Destroy ==
  /\ Locked
  /\ \A t \in Threads : pc[t] = "out"
  /\ free' = free \cup queue
  /\ node' = [b \in Blocks |-> Blank]
  /\ queue' = {}
  /\ fate' = "destroyed"
  /\ UNCHANGED <<sequence, shutdown, pc, raw, arrivals, result>>

EnqueueStep(p) == (\E prio \in Priorities : Push(p, prio)) \/ NotifyOne(p)

DequeueStep(c) ==
  \/ \E b \in Blocks : DequeueTake(c, b) \/ TryTake(c, b)
  \/ Test(c) \/ Block(c)
  \/ DequeueShutdown(c) \/ TryTimeout(c) \/ TryUndefined(c)

Next ==
  \/ \E p \in Producers :
       \/ \E b \in Blocks : Allocate(p, b)
       \/ AllocateAborts(p)
       \/ EnqueueStep(p)
  \/ \E c \in Callers : Call(c) \/ DequeueStep(c) \/ SpuriousWake(c) \/ Expire(c)
  \/ NotifyShutdown
  \/ Destroy

Spec == Init /\ [][Next]_vars

(* A thread that has entered a call goes on, and none is refused queue_mutex  *)
(* forever; the loop of Task::run calls dequeue again and again; a timeout    *)
(* expires. Nothing obliges anyone to enqueue, shut down or destroy.          *)
Fairness ==
  /\ \A p \in Producers : SF_vars(EnqueueStep(p))
  /\ \A c \in Callers : SF_vars(DequeueStep(c))
  /\ \A c \in Consumers : WF_vars(Call(c))
  /\ \A c \in Pollers : WF_vars(Expire(c))

FairSpec == Spec /\ Fairness

--------------------------------------------------------------------------------
(* Every variable of the queue holds a value of its type. *)
TypeOK ==
  /\ free \in SUBSET Blocks
  /\ queue \in SUBSET Blocks
  /\ node \in [Blocks -> Node]
  /\ sequence \in 0 .. SequenceMod - 1
  /\ shutdown \in BOOLEAN
  /\ queue_mutex \in Callers \cup {NoThread}
  /\ pc \in [Threads -> {"out", "push", "notify", "lock", "block", "wait", "expired"}]
  /\ raw \in [Producers -> Blocks \cup {NoBlock}]
  /\ arrivals \in 0 .. MaxEnqueues
  /\ result \in [Callers -> [prio : Priorities, no : 1 .. MaxEnqueues] \cup {NullOpt, Pending}]
  /\ fate \in {"running", "aborted", "undefined", "destroyed"}

(* Every block of the pool is free, or queued, or held by exactly one enqueue *)
(* that has allocated it and not yet pushed it: concurrent calls leak no      *)
(* block and share none, although allocate runs outside queue_mutex, and the  *)
(* vector never outgrows the capacity the constructor reserved.               *)
BlocksAccounted ==
  /\ free \cap queue = {}
  /\ \A p \in InFlight : raw[p] \in Blocks \ (free \cup queue)
  /\ \A p, q \in InFlight : raw[p] = raw[q] => p = q
  /\ Blocks = free \cup queue \cup {raw[p] : p \in InFlight}

Awake     == {c \in Callers : pc[c] \in {"lock", "expired"}}
Notifiers == {p \in Producers : pc[p] = "notify"}

(* No wake-up is lost although enqueue notifies after it has released         *)
(* queue_mutex: while a thread sleeps in the wait set, every queued message   *)
(* has a thread awake to take it or a notify still to come, and nobody sleeps *)
(* or is about to once notify_shutdown has been called.                       *)
NoLostWakeup ==
  /\ Waiters # {} => Cardinality(queue) <= Cardinality(Awake) + Cardinality(Notifiers)
  /\ shutdown => \A c \in Callers : pc[c] \notin {"block", "wait"}

Promise == INSTANCE PriorityQueue WITH
  pending <- {Message(b) : b \in queue}, closed <- shutdown

(* The queue is a priority queue, first in first out within a priority, that  *)
(* returns every message once and answers empty only when it is: whichever    *)
(* threads call it and whenever dequeue restarts the sequence numbers. The    *)
(* comparator's comment promises the FIFO order without a limit.              *)
KeepsPromise == Promise!Spec

(* Every message that is queued is taken in the end, while consumers keep     *)
(* calling dequeue and the process lives. Messages end with MaxEnqueues, so   *)
(* that nobody is starved by more urgent ones that never end: what is left is *)
(* that no wake-up is missed for good.                                        *)
EveryMessageTaken ==
  \A n \in 1 .. MaxEnqueues :
    (\E b \in queue : node[b].no = n) ~> (fate # "running" \/ \A b \in queue : node[b].no # n)

(* notify_shutdown releases every thread that sleeps in dequeue or is about   *)
(* to: Task::stop joins the thread that sits there.                           *)
ShutdownReleases ==
  \A c \in Consumers :
    (shutdown /\ pc[c] # "out") ~> (fate # "running" \/ pc[c] = "out")

(* The header of try_dequeue: if no message is available within the timeout   *)
(* it returns an empty optional (and never takes one from an empty vector).   *)
TryDequeueDefined == fate # "undefined"
================================================================================
