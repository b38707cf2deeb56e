-------------------------- MODULE MessageQueueProofs --------------------------
(* Proofs about MessageQueue for every number of threads, blocks, priorities  *)
(* and messages.                                                              *)
EXTENDS MessageQueue, FiniteSetTheorems, TLAPS

(* Where each kind of thread can be; the bound on messages; and who holds     *)
(* queue_mutex between two steps: a thread about to block, which has found    *)
(* the queue empty and open.                                                  *)
Placement ==
  /\ \A p \in Producers : pc[p] \in {"out", "push", "notify"}
  /\ \A c \in Callers : pc[c] \in {"out", "lock", "block", "wait", "expired"}
  /\ \A c \in Callers : pc[c] = "expired" => c \in Pollers
  /\ \A c \in Callers : pc[c] = "block" => queue_mutex = c /\ queue = {}
  /\ \A b \in queue : node[b] # Blank
  /\ arrivals + Cardinality(InFlight) <= MaxEnqueues

IInv == TypeOK /\ Placement /\ BlocksAccounted /\ NoLostWakeup

(* The sets the counts are about are finite. *)
LEMMA Finite ==
  /\ IsFiniteSet(Producers) /\ IsFiniteSet(Callers)
  /\ \A S : S \subseteq Producers => IsFiniteSet(S) /\ Cardinality(S) \in Nat
  /\ \A S : S \subseteq Callers => IsFiniteSet(S) /\ Cardinality(S) \in Nat
  /\ \A S : S \subseteq Blocks => IsFiniteSet(S) /\ Cardinality(S) \in Nat
<1>1. Producers \subseteq Threads /\ Callers \subseteq Threads
  BY DEF Threads
<1>2. \A S : S \subseteq Threads => IsFiniteSet(S) /\ Cardinality(S) \in Nat
  BY ThreadsAssumption, FS_Subset, FS_CardinalityType
<1>3. \A S : S \subseteq Blocks => IsFiniteSet(S) /\ Cardinality(S) \in Nat
  BY BlocksAssumption, FS_Subset, FS_CardinalityType
<1> QED
  BY <1>1, <1>2, <1>3

(* Adding or removing one element changes a count by one. *)
LEMMA Count ==
  ASSUME NEW S, IsFiniteSet(S), NEW x
  PROVE  /\ x \notin S => Cardinality(S \cup {x}) = Cardinality(S) + 1
         /\ x \in S => Cardinality(S \ {x}) = Cardinality(S) - 1
         /\ Cardinality(S \cup {x}) <= Cardinality(S) + 1
BY FS_AddElement, FS_RemoveElement, FS_CardinalityType

(* The constructor of the queue establishes the strengthened invariant. *)
LEMMA InitIInv == Init => IInv
<1> SUFFICES ASSUME Init PROVE IInv
  OBVIOUS
<1> USE BlocksAssumption, ThreadsAssumption, NumbersAssumption
<1>1. TypeOK
  <2>1. node \in [Blocks -> Node]
    BY DEF Init, Node
  <2>2. 0 \in 0 .. SequenceMod - 1 /\ 0 \in 0 .. MaxEnqueues
    OBVIOUS
  <2> QED
    BY <2>1, <2>2 DEF Init, TypeOK
<1>2. InFlight = {} /\ Waiters = {}
  BY DEF Init, InFlight, Waiters, Threads
<1>3. Placement
  BY <1>2, FS_EmptySet DEF Init, Placement, Threads
<1>4. BlocksAccounted
  BY <1>2 DEF Init, BlocksAccounted
<1>5. NoLostWakeup
  BY <1>2 DEF Init, NoLostWakeup
<1> QED
  BY <1>1, <1>3, <1>4, <1>5 DEF IInv

(* Every step keeps the types. *)
LEMMA NextTypeOK == IInv /\ [Next]_vars => TypeOK'
<1> SUFFICES ASSUME IInv, [Next]_vars PROVE TypeOK'
  OBVIOUS
<1> USE BlocksAssumption, ThreadsAssumption, NumbersAssumption
<1>1. TypeOK /\ Placement
  BY DEF IInv
<1> USE <1>1 DEF TypeOK, Threads, Callers, Goto, Locked
<1>2. ASSUME NEW p \in Producers, NEW b \in Blocks, Allocate(p, b) PROVE TypeOK'
  BY <1>2 DEF Allocate
<1>3. ASSUME NEW p \in Producers, AllocateAborts(p) PROVE TypeOK'
  BY <1>3 DEF AllocateAborts
<1>4. ASSUME NEW p \in Producers, NEW prio \in Priorities, Push(p, prio) PROVE TypeOK'
  <2>1. arrivals + 1 \in 1 .. MaxEnqueues
    <3>1. p \in InFlight /\ InFlight \subseteq Producers
      BY <1>4 DEF Push, InFlight
    <3>2. Cardinality(InFlight) >= 1 /\ Cardinality(InFlight) \in Nat
      BY <3>1, Finite, FS_EmptySet
    <3> QED
      BY <3>2 DEF Placement
  <2>2. raw[p] \in Blocks
    BY <1>4 DEF IInv, BlocksAccounted, Push, InFlight
  <2>3. [prio |-> prio, seq |-> sequence, no |-> arrivals + 1] \in Node
    BY <2>1 DEF Node
  <2>4. (sequence + 1) % SequenceMod \in 0 .. SequenceMod - 1
    OBVIOUS
  <2> QED
    BY <1>4, <2>1, <2>2, <2>3, <2>4 DEF Push
<1>5. ASSUME NEW p \in Producers, NotifyOne(p) PROVE TypeOK'
  BY <1>5 DEF NotifyOne, Waiters
<1>6. ASSUME NEW c \in Callers, Call(c) PROVE TypeOK'
  BY <1>6 DEF Call
<1>7. ASSUME NEW c \in Callers, Test(c) \/ Block(c) PROVE TypeOK'
  BY <1>7 DEF Test, Block
<1>8. ASSUME NEW c \in Callers, SpuriousWake(c) \/ Expire(c) PROVE TypeOK'
  BY <1>8 DEF SpuriousWake, Expire
<1>9. ASSUME NEW c \in Callers, NEW b \in Blocks, DequeueTake(c, b) \/ TryTake(c, b)
      PROVE  TypeOK'
  <2>1. b \in queue /\ Message(b) \in [prio : Priorities, no : 1 .. MaxEnqueues]
    BY <1>9 DEF DequeueTake, TryTake, Pop, IsTop, Placement, Message, Node
  <2>2. Blank \in Node
    BY DEF Node
  <2>3. free' \in SUBSET Blocks /\ queue' \in SUBSET Blocks /\ node' \in [Blocks -> Node]
    BY <1>9, <2>2 DEF DequeueTake, TryTake, Pop
  <2>4. result' \in [Callers -> [prio : Priorities, no : 1 .. MaxEnqueues] \cup {NullOpt, Pending}]
    BY <1>9, <2>1 DEF DequeueTake, TryTake, Pop
  <2>5. sequence' \in 0 .. SequenceMod - 1
    BY <1>9 DEF DequeueTake, TryTake, SequenceAfter
  <2> QED
    BY <1>9, <2>3, <2>4, <2>5 DEF DequeueTake, TryTake, Pop
<1>10. ASSUME NEW c \in Callers, DequeueShutdown(c) PROVE TypeOK'
  BY <1>10 DEF DequeueShutdown
<1>11. ASSUME NEW c \in Callers, TryTimeout(c) \/ TryUndefined(c) PROVE TypeOK'
  BY <1>11 DEF TryTimeout, TryUndefined
<1>12. CASE NotifyShutdown
  BY <1>12 DEF NotifyShutdown, Waiters
<1>13. CASE Destroy
  BY <1>13 DEF Destroy, Node
<1>14. CASE UNCHANGED vars
  BY <1>14 DEF vars
<1> HIDE <1>1 DEF TypeOK, Threads, Callers, Goto, Locked
<1> QED
  BY <1>2, <1>3, <1>4, <1>5, <1>6, <1>7, <1>8, <1>9, <1>10, <1>11, <1>12, <1>13, <1>14
     DEF Next, EnqueueStep, DequeueStep

(* A caller's step leaves the producers where they are. *)
LEMMA InFlightKept ==
  ASSUME TypeOK, NEW c \in Callers, NEW at, pc' = [pc EXCEPT ![c] = at]
  PROVE  InFlight' = InFlight
BY ThreadsAssumption DEF TypeOK, InFlight, Threads

(* Every step keeps the threads in their places. *)
LEMMA NextPlacement == IInv /\ [Next]_vars => Placement'
<1> SUFFICES ASSUME IInv, [Next]_vars PROVE Placement'
  OBVIOUS
<1>1. TypeOK /\ Placement
  BY DEF IInv
<1> USE <1>1, ThreadsAssumption, NumbersAssumption DEF Goto, Locked
<1>a. InFlight \subseteq Producers /\ IsFiniteSet(InFlight) /\ Cardinality(InFlight) \in Nat
  BY Finite DEF InFlight
<1>2. ASSUME NEW p \in Producers, NEW b \in Blocks, Allocate(p, b) PROVE Placement'
  <2>1. InFlight' = InFlight \cup {p} /\ p \notin InFlight
    BY <1>2 DEF Allocate, InFlight, TypeOK, Threads
  <2>2. arrivals' + Cardinality(InFlight') <= MaxEnqueues
    BY <1>2, <1>a, <2>1, Count DEF Allocate, TypeOK
  <2> QED
    BY <1>2, <2>2 DEF Allocate, Placement, TypeOK, Threads, Callers
<1>3. ASSUME NEW p \in Producers, AllocateAborts(p) PROVE Placement'
  BY <1>3 DEF AllocateAborts, Placement, InFlight
<1>4. ASSUME NEW p \in Producers, NEW prio \in Priorities, Push(p, prio) PROVE Placement'
  <2>1. InFlight' = InFlight \ {p} /\ p \in InFlight
    BY <1>4 DEF Push, InFlight, TypeOK, Threads
  <2>2. arrivals' + Cardinality(InFlight') <= MaxEnqueues
    BY <1>4, <1>a, <2>1, Count DEF Push, TypeOK, Placement
  <2>3. \A b \in queue' : node'[b] # Blank
    <3> DEFINE n == [prio |-> prio, seq |-> sequence, no |-> arrivals + 1]
    <3>1. n.no # Blank.no
      BY DEF Blank, TypeOK
    <3>2. \A b \in queue' : node'[b] = n \/ (b \in queue /\ node'[b] = node[b])
      BY <1>4, <2>1 DEF Push, TypeOK, IInv, BlocksAccounted
    <3> QED
      BY <3>1, <3>2 DEF Placement
  <2>4. \A c \in Callers : pc'[c] = pc[c] /\ pc[c] # "block"
    BY <1>4 DEF Push, Placement, TypeOK, Threads
  <2>5. \A q \in Producers : pc'[q] \in {"out", "push", "notify"}
    BY <1>4 DEF Push, Placement, TypeOK, Threads
  <2> QED
    BY <2>2, <2>3, <2>4, <2>5 DEF Placement
<1>5. ASSUME NEW p \in Producers, NotifyOne(p) PROVE Placement'
  <2>1. InFlight' = InFlight
    BY <1>5 DEF NotifyOne, InFlight, TypeOK, Threads, Waiters
  <2> QED
    BY <1>5, <2>1 DEF NotifyOne, Placement, TypeOK, Threads, Waiters
<1>6. ASSUME NEW c \in Callers, Call(c) \/ Test(c) \/ Block(c) \/ SpuriousWake(c) \/ Expire(c)
      PROVE  Placement'
  <2>1. InFlight' = InFlight
    BY <1>6, InFlightKept DEF Call, Test, Block, SpuriousWake, Expire
  <2> QED
    BY <1>6, <2>1 DEF Call, Test, Block, SpuriousWake, Expire, Placement, TypeOK, Threads, Ready
<1>7. ASSUME NEW c \in Callers, NEW b \in Blocks, DequeueTake(c, b) \/ TryTake(c, b)
      PROVE  Placement'
  <2>1. InFlight' = InFlight
    BY <1>7, InFlightKept DEF DequeueTake, TryTake
  <2>2. \A o \in queue' : node'[o] # Blank
    BY <1>7 DEF DequeueTake, TryTake, Pop, Placement, TypeOK
  <2> QED
    BY <1>7, <2>1, <2>2 DEF DequeueTake, TryTake, Pop, Placement, TypeOK, Threads
<1>8. ASSUME NEW c \in Callers, DequeueShutdown(c) \/ TryTimeout(c) PROVE Placement'
  <2>1. InFlight' = InFlight
    BY <1>8, InFlightKept DEF DequeueShutdown, TryTimeout
  <2> QED
    BY <1>8, <2>1 DEF DequeueShutdown, TryTimeout, Placement, TypeOK, Threads
<1>9. ASSUME NEW c \in Callers, TryUndefined(c) PROVE Placement'
  BY <1>9 DEF TryUndefined, Placement, InFlight
<1>10. CASE NotifyShutdown
  <2>1. InFlight' = InFlight
    BY <1>10 DEF NotifyShutdown, InFlight, Waiters, Threads
  <2> QED
    BY <1>10, <2>1 DEF NotifyShutdown, Placement, Waiters, Threads
<1>11. CASE Destroy
  BY <1>11 DEF Destroy, Placement, InFlight
<1>12. CASE UNCHANGED vars
  BY <1>12 DEF vars, Placement, InFlight
<1> QED
  BY <1>2, <1>3, <1>4, <1>5, <1>6, <1>7, <1>8, <1>9, <1>10, <1>11, <1>12
     DEF Next, EnqueueStep, DequeueStep

(* Blocks stay where they are when no enqueue and no dequeue moves one. *)
LEMMA SameBlocks ==
  ASSUME BlocksAccounted, UNCHANGED <<free, queue, raw>>, InFlight' = InFlight
  PROVE  BlocksAccounted'
BY DEF BlocksAccounted

(* Every step keeps the account of the blocks. *)
LEMMA NextBlocks == IInv /\ [Next]_vars => BlocksAccounted'
<1> SUFFICES ASSUME IInv, [Next]_vars PROVE BlocksAccounted'
  OBVIOUS
<1>1. TypeOK /\ Placement /\ BlocksAccounted
  BY DEF IInv
<1> USE <1>1, ThreadsAssumption DEF Goto, Locked
<1>2. ASSUME NEW p \in Producers, NEW b \in Blocks, Allocate(p, b) PROVE BlocksAccounted'
  <2>1. InFlight' = InFlight \cup {p} /\ p \notin InFlight
    BY <1>2 DEF Allocate, InFlight, TypeOK, Threads
  <2>2. \A q \in InFlight : raw'[q] = raw[q] /\ raw[q] # b
    BY <1>2, <2>1 DEF Allocate, TypeOK, InFlight, BlocksAccounted
  <2>3. raw'[p] = b
    BY <1>2 DEF Allocate, TypeOK
  <2> QED
    BY <1>2, <2>1, <2>2, <2>3 DEF Allocate, BlocksAccounted
<1>3. ASSUME NEW p \in Producers, AllocateAborts(p) PROVE BlocksAccounted'
  BY <1>3, SameBlocks DEF AllocateAborts, InFlight
<1>4. ASSUME NEW p \in Producers, NEW prio \in Priorities, Push(p, prio) PROVE BlocksAccounted'
  <2>1. InFlight' = InFlight \ {p} /\ p \in InFlight
    BY <1>4 DEF Push, InFlight, TypeOK, Threads
  <2>2. \A q \in InFlight' : raw'[q] = raw[q] /\ raw[q] # raw[p]
    BY <1>4, <2>1 DEF Push, TypeOK, InFlight, BlocksAccounted
  <2> QED
    BY <1>4, <2>1, <2>2 DEF Push, BlocksAccounted
<1>5. ASSUME NEW p \in Producers, NotifyOne(p) PROVE BlocksAccounted'
  <2>1. InFlight' = InFlight
    BY <1>5 DEF NotifyOne, InFlight, TypeOK, Threads, Waiters
  <2> QED
    BY <1>5, <2>1, SameBlocks DEF NotifyOne
<1>6. ASSUME NEW c \in Callers, Call(c) \/ Test(c) \/ Block(c) \/ SpuriousWake(c) \/ Expire(c)
      PROVE  BlocksAccounted'
  <2>1. InFlight' = InFlight
    BY <1>6, InFlightKept DEF Call, Test, Block, SpuriousWake, Expire
  <2> QED
    BY <1>6, <2>1, SameBlocks DEF Call, Test, Block, SpuriousWake, Expire
<1>7. ASSUME NEW c \in Callers, NEW b \in Blocks, DequeueTake(c, b) \/ TryTake(c, b)
      PROVE  BlocksAccounted'
  <2>1. InFlight' = InFlight
    BY <1>7, InFlightKept DEF DequeueTake, TryTake
  <2>2. b \in queue /\ free' = free \cup {b} /\ queue' = queue \ {b} /\ raw' = raw
    BY <1>7 DEF DequeueTake, TryTake, Pop, IsTop
  <2> QED
    BY <2>1, <2>2 DEF BlocksAccounted
<1>8. ASSUME NEW c \in Callers, DequeueShutdown(c) \/ TryTimeout(c) PROVE BlocksAccounted'
  <2>1. InFlight' = InFlight
    BY <1>8, InFlightKept DEF DequeueShutdown, TryTimeout
  <2> QED
    BY <1>8, <2>1, SameBlocks DEF DequeueShutdown, TryTimeout
<1>9. ASSUME NEW c \in Callers, TryUndefined(c) PROVE BlocksAccounted'
  BY <1>9, SameBlocks DEF TryUndefined, InFlight
<1>10. CASE NotifyShutdown
  <2>1. InFlight' = InFlight
    BY <1>10 DEF NotifyShutdown, InFlight, Waiters, Threads
  <2> QED
    BY <1>10, <2>1, SameBlocks DEF NotifyShutdown
<1>11. CASE Destroy
  <2>1. InFlight = {} /\ InFlight' = {}
    BY <1>11 DEF Destroy, InFlight, Threads
  <2> QED
    BY <1>11, <2>1 DEF Destroy, BlocksAccounted
<1>12. CASE UNCHANGED vars
  BY <1>12, SameBlocks DEF vars, InFlight
<1> QED
  BY <1>2, <1>3, <1>4, <1>5, <1>6, <1>7, <1>8, <1>9, <1>10, <1>11, <1>12
     DEF Next, EnqueueStep, DequeueStep

(* A step in which the wait set can only shrink, a thread can only come awake *)
(* and no message is added keeps the account of wake-ups.                     *)
LEMMA MoreAwake ==
  ASSUME TypeOK, NoLostWakeup, Waiters' \subseteq Waiters, Awake \subseteq Awake',
         Notifiers' = Notifiers, queue' = queue,
         shutdown' => \A c \in Callers : pc'[c] \notin {"block", "wait"}
  PROVE  NoLostWakeup'
<1>1. Cardinality(Awake) <= Cardinality(Awake')
  BY Finite, FS_Subset DEF Awake
<1>2. /\ Cardinality(queue) \in Nat /\ Cardinality(Notifiers) \in Nat
      /\ Cardinality(Awake) \in Nat /\ Cardinality(Awake') \in Nat
  BY Finite DEF TypeOK, Awake, Notifiers
<1> QED
  BY <1>1, <1>2 DEF NoLostWakeup

(* Nothing is owed to sleepers when no message is left. *)
LEMMA NoneOwed ==
  ASSUME queue' = {}, shutdown' => \A c \in Callers : pc'[c] \notin {"block", "wait"}
  PROVE  NoLostWakeup'
<1>1. Cardinality(queue') = 0 /\ Cardinality(Awake') \in Nat /\ Cardinality(Notifiers') \in Nat
  BY Finite, FS_EmptySet DEF Awake, Notifiers
<1> QED
  BY <1>1 DEF NoLostWakeup

(* Every step keeps the account of wake-ups. *)
LEMMA NextWakeup == IInv /\ [Next]_vars => NoLostWakeup'
<1> SUFFICES ASSUME IInv, [Next]_vars PROVE NoLostWakeup'
  OBVIOUS
<1>1. TypeOK /\ Placement /\ NoLostWakeup
  BY DEF IInv
<1> USE <1>1, ThreadsAssumption DEF Goto, Locked
<1>a. /\ IsFiniteSet(queue) /\ Cardinality(queue) \in Nat
      /\ IsFiniteSet(Awake) /\ Cardinality(Awake) \in Nat
      /\ IsFiniteSet(Notifiers) /\ Cardinality(Notifiers) \in Nat
  BY Finite DEF TypeOK, Awake, Notifiers
<1>2. ASSUME NEW p \in Producers, NEW b \in Blocks, Allocate(p, b) PROVE NoLostWakeup'
  <2>1. Waiters' = Waiters /\ Awake' = Awake /\ Notifiers' = Notifiers
    BY <1>2 DEF Allocate, Waiters, Awake, Notifiers, TypeOK, Threads
  <2>2. shutdown' => \A c \in Callers : pc'[c] \notin {"block", "wait"}
    BY <1>2 DEF Allocate, NoLostWakeup, TypeOK, Threads
  <2> QED
    BY <1>2, <2>1, <2>2, MoreAwake DEF Allocate
<1>3. ASSUME NEW p \in Producers, AllocateAborts(p) PROVE NoLostWakeup'
  BY <1>3 DEF AllocateAborts, NoLostWakeup, Waiters, Awake, Notifiers
<1>4. ASSUME NEW p \in Producers, NEW prio \in Priorities, Push(p, prio) PROVE NoLostWakeup'
  <2>1. Waiters' = Waiters /\ Awake' = Awake
    BY <1>4 DEF Push, Waiters, Awake, TypeOK, Threads
  <2>2. Notifiers' = Notifiers \cup {p} /\ p \notin Notifiers
    BY <1>4 DEF Push, Notifiers, TypeOK, Threads
  <2>3. Cardinality(Notifiers') = Cardinality(Notifiers) + 1
    BY <1>a, <2>2, Count
  <2>4. queue' = queue \cup {raw[p]}
    BY <1>4 DEF Push
  <2>5. Cardinality(queue') <= Cardinality(queue) + 1 /\ Cardinality(queue') \in Nat
    BY <1>a, <2>4, Count, FS_AddElement, FS_CardinalityType
  <2>6. shutdown' => \A c \in Callers : pc'[c] \notin {"block", "wait"}
    BY <1>4 DEF Push, NoLostWakeup, TypeOK, Threads
  <2> QED
    BY <1>a, <2>1, <2>3, <2>5, <2>6 DEF NoLostWakeup
<1>5. ASSUME NEW p \in Producers, NotifyOne(p) PROVE NoLostWakeup'
  <2>1. shutdown' => \A c \in Callers : pc'[c] \notin {"block", "wait"}
    BY <1>5 DEF NotifyOne, NoLostWakeup, TypeOK, Threads, Waiters
  <2>2. CASE Waiters = {} /\ pc' = [pc EXCEPT ![p] = "out"]
    <3>1. Waiters' = {}
      BY <2>2 DEF Waiters, TypeOK, Threads
    <3> QED
      BY <2>1, <3>1 DEF NoLostWakeup
  <2>3. ASSUME NEW c \in Waiters, pc' = [pc EXCEPT ![p] = "out", ![c] = "lock"]
        PROVE  NoLostWakeup'
    <3>1. pc[p] = "notify" /\ p \in Producers /\ c \in Callers /\ pc[c] = "wait"
      BY <1>5, <2>3 DEF NotifyOne, Waiters
    <3>2. Awake' = Awake \cup {c} /\ c \notin Awake
      BY <2>3, <3>1 DEF Awake, TypeOK, Threads
    <3>3. Notifiers' = Notifiers \ {p} /\ p \in Notifiers
      BY <2>3, <3>1 DEF Notifiers, TypeOK, Threads
    <3>4. Cardinality(Awake') = Cardinality(Awake) + 1
      BY <1>a, <3>2, Count
    <3>5. Cardinality(Notifiers') = Cardinality(Notifiers) - 1
      BY <1>a, <3>3, Count
    <3>6. queue' = queue /\ Waiters # {}
      BY <1>5, <2>3 DEF NotifyOne
    <3> QED
      BY <1>a, <2>1, <3>4, <3>5, <3>6 DEF NoLostWakeup
  <2> QED
    BY <1>5, <2>2, <2>3 DEF NotifyOne
<1>6. ASSUME NEW c \in Callers, Call(c) \/ SpuriousWake(c) \/ Expire(c) PROVE NoLostWakeup'
  <2>1. Waiters' \subseteq Waiters /\ Awake \subseteq Awake' /\ Notifiers' = Notifiers
    BY <1>6 DEF Call, SpuriousWake, Expire, Waiters, Awake, Notifiers, TypeOK, Threads
  <2>2. shutdown' => \A d \in Callers : pc'[d] \notin {"block", "wait"}
    BY <1>6 DEF Call, SpuriousWake, Expire, NoLostWakeup, TypeOK, Threads
  <2> QED
    BY <1>6, <2>1, <2>2, MoreAwake DEF Call, SpuriousWake, Expire
<1>7. ASSUME NEW c \in Callers, Test(c) \/ Block(c) PROVE NoLostWakeup'
  <2>1. queue' = {}
    BY <1>7 DEF Test, Block, Ready, Placement
  <2>2. ~shutdown'
    BY <1>7 DEF Test, Block, Ready, NoLostWakeup
  <2> QED
    BY <2>1, <2>2, NoneOwed
<1>8. ASSUME NEW c \in Callers, NEW b \in Blocks, DequeueTake(c, b) \/ TryTake(c, b)
      PROVE  NoLostWakeup'
  <2>1. Waiters' = Waiters /\ Notifiers' = Notifiers
    BY <1>8 DEF DequeueTake, TryTake, Waiters, Notifiers, TypeOK, Threads
  <2>2. Awake' = Awake \ {c} /\ c \in Awake
    BY <1>8 DEF DequeueTake, TryTake, Awake, TypeOK, Threads
  <2>3. queue' = queue \ {b} /\ b \in queue
    BY <1>8 DEF DequeueTake, TryTake, Pop, IsTop
  <2>4. Cardinality(Awake') = Cardinality(Awake) - 1 /\ Cardinality(queue') = Cardinality(queue) - 1
    BY <1>a, <2>2, <2>3, Count
  <2>5. shutdown' => \A d \in Callers : pc'[d] \notin {"block", "wait"}
    BY <1>8 DEF DequeueTake, TryTake, Pop, NoLostWakeup, TypeOK, Threads
  <2> QED
    BY <1>a, <2>1, <2>4, <2>5 DEF NoLostWakeup
<1>9. ASSUME NEW c \in Callers, DequeueShutdown(c) \/ TryTimeout(c) PROVE NoLostWakeup'
  <2>1. queue' = {}
    BY <1>9 DEF DequeueShutdown, TryTimeout, Ready
  <2>2. shutdown' => \A d \in Callers : pc'[d] \notin {"block", "wait"}
    BY <1>9 DEF DequeueShutdown, TryTimeout, NoLostWakeup, TypeOK, Threads
  <2> QED
    BY <2>1, <2>2, NoneOwed
<1>10. ASSUME NEW c \in Callers, TryUndefined(c) PROVE NoLostWakeup'
  BY <1>10 DEF TryUndefined, NoLostWakeup, Waiters, Awake, Notifiers
<1>11. CASE NotifyShutdown
  <2>1. \A c \in Callers : pc[c] # "block"
    BY <1>11 DEF NotifyShutdown, Placement, Threads
  <2>2. Waiters' = {} /\ \A c \in Callers : pc'[c] \notin {"block", "wait"}
    BY <1>11, <2>1 DEF NotifyShutdown, Waiters, Threads
  <2> QED
    BY <2>2 DEF NoLostWakeup
<1>12. CASE Destroy
  BY <1>12, NoneOwed DEF Destroy, Threads
<1>13. CASE UNCHANGED vars
  BY <1>13 DEF vars, NoLostWakeup, Waiters, Awake, Notifiers
<1> QED
  BY <1>2, <1>3, <1>4, <1>5, <1>6, <1>7, <1>8, <1>9, <1>10, <1>11, <1>12, <1>13
     DEF Next, EnqueueStep, DequeueStep

(* The strengthened invariant of the queue holds in every reachable state. *)
THEOREM Invariance == Spec => []IInv
<1>1. IInv /\ [Next]_vars => IInv'
  BY NextTypeOK, NextPlacement, NextBlocks, NextWakeup DEF IInv
<1> QED
  BY <1>1, InitIInv, PTL DEF Spec

(* Every variable of the queue keeps its type. *)
THEOREM TypeCorrect == Spec => []TypeOK
BY Invariance, PTL DEF IInv

(* Concurrent enqueue, dequeue and try_dequeue calls leak and share no block. *)
THEOREM BlocksCorrect == Spec => []BlocksAccounted
BY Invariance, PTL DEF IInv

(* No wake-up is lost, for any number of producers and consumers. *)
THEOREM WakeupsCorrect == Spec => []NoLostWakeup
BY Invariance, PTL DEF IInv

(* Sequence numbers order the queued messages as their arrival does: they are *)
(* all below sequence, which restarts only when none is queued.               *)
Order ==
  /\ sequence <= arrivals
  /\ \A b \in queue : node[b].seq < sequence /\ node[b].no <= arrivals
  /\ \A a, b \in queue :
       /\ node[a].seq < node[b].seq <=> node[a].no < node[b].no
       /\ node[a].no = node[b].no => a = b

(* The nodes in the vector carry numbers. *)
LEMMA NodeNumbers ==
  ASSUME IInv, NEW b \in queue
  PROVE  b \in Blocks /\ node[b].prio \in Nat /\ node[b].seq \in Nat /\ node[b].no \in Nat
<1>1. b \in Blocks /\ node[b] \in Node \ {Blank}
  BY DEF IInv, TypeOK, Placement
<1>2. node[b] \in [prio : Priorities, seq : 0 .. SequenceMod - 1, no : 1 .. MaxEnqueues]
  BY <1>1 DEF Node
<1>3. node[b].prio \in Priorities /\ node[b].seq \in 0 .. SequenceMod - 1 /\ node[b].no \in 1 .. MaxEnqueues
  BY <1>2
<1>4. Priorities \subseteq Nat /\ 0 .. SequenceMod - 1 \subseteq Nat /\ 1 .. MaxEnqueues \subseteq Nat
  BY NumbersAssumption
<1> QED
  BY <1>1, <1>3, <1>4, Zenon

(* Order holds of the empty queue. *)
LEMMA InitOrder == Init => Order
BY DEF Init, Order

(* Nothing about the order changes when the messages, their nodes and the     *)
(* counters stay.                                                             *)
LEMMA SameOrder ==
  ASSUME Order, queue' = queue, node' = node, sequence' = sequence, arrivals' = arrivals
  PROVE  Order'
BY DEF Order

(* Every step keeps the order, as long as sequence cannot wrap. *)
LEMMA NextOrder ==
  ASSUME MaxEnqueues < SequenceMod
  PROVE  IInv /\ IInv' /\ Order /\ [Next]_vars => Order'
<1> SUFFICES ASSUME IInv, IInv', Order, [Next]_vars PROVE Order'
  OBVIOUS
<1> USE NumbersAssumption
<1>a. /\ sequence \in Nat /\ arrivals \in Nat /\ arrivals' \in Nat /\ arrivals' <= MaxEnqueues
      /\ queue \subseteq Blocks /\ node \in [Blocks -> Node]
  BY DEF IInv, TypeOK
<1>2. ASSUME NEW p \in Producers, NEW prio \in Priorities, Push(p, prio) PROVE Order'
  <2> PICK r : r = raw[p]
    OBVIOUS
  <2>1. r \in Blocks \ queue
    BY <1>2 DEF Push, Goto, IInv, BlocksAccounted, InFlight
  <2>2. sequence' = sequence + 1 /\ arrivals' = arrivals + 1
    <3>1. sequence + 1 \in 0 .. SequenceMod - 1
      BY <1>2, <1>a DEF Push, Order
    <3>2. (sequence + 1) % SequenceMod = sequence + 1
      BY <3>1, <1>a
    <3> QED
      BY <1>2, <3>2 DEF Push
  <2>3. queue' = queue \cup {r} /\ \A b \in queue : node'[b] = node[b]
    BY <1>2, <1>a, <2>1 DEF Push
  <2>4. node'[r].seq = sequence /\ node'[r].no = arrivals + 1
    BY <1>2, <1>a, <2>1 DEF Push
  <2> HIDE NumbersAssumption
  <2>5. \A b \in queue : node[b].seq \in Nat /\ node[b].no \in Nat
    BY NodeNumbers
  <2> QED
    BY <1>a, <2>1, <2>2, <2>3, <2>4, <2>5 DEF Order
<1>3. ASSUME NEW c \in Callers, NEW b \in Blocks, DequeueTake(c, b) \/ TryTake(c, b)
      PROVE  Order'
  <2>1. queue' = queue \ {b} /\ \A o \in queue' : node'[o] = node[o]
    BY <1>3, <1>a DEF DequeueTake, TryTake, Pop
  <2>2. sequence' = sequence \/ (sequence' = 0 /\ queue' = {})
    BY <1>3 DEF DequeueTake, TryTake, SequenceAfter
  <2>3. arrivals' = arrivals
    BY <1>3 DEF DequeueTake, TryTake, Pop
  <2> QED
    BY <1>a, <2>1, <2>2, <2>3 DEF Order
<1>4. ASSUME NEW c \in Callers, DequeueShutdown(c) PROVE Order'
  BY <1>4, <1>a DEF DequeueShutdown, Order
<1>5. CASE Destroy
  BY <1>5, <1>a DEF Destroy, Order
<1>6. ASSUME NEW p \in Producers,
             AllocateAborts(p) \/ NotifyOne(p) \/ \E b \in Blocks : Allocate(p, b)
      PROVE  Order'
  BY <1>6, SameOrder DEF AllocateAborts, NotifyOne, Allocate
<1>7. ASSUME NEW c \in Callers,
             \/ Call(c) \/ Test(c) \/ Block(c) \/ SpuriousWake(c) \/ Expire(c)
             \/ TryTimeout(c) \/ TryUndefined(c)
      PROVE  Order'
  BY <1>7, SameOrder DEF Call, Test, Block, SpuriousWake, Expire, TryTimeout, TryUndefined
<1>8. CASE NotifyShutdown \/ UNCHANGED vars
  BY <1>8, SameOrder DEF NotifyShutdown, vars
<1> QED
  BY <1>2, <1>3, <1>4, <1>5, <1>6, <1>7, <1>8 DEF Next, EnqueueStep, DequeueStep

(* The top of the heap is the message that must leave first. *)
LEMMA TopIsFirst ==
  ASSUME IInv, Order, NEW b \in Blocks, IsTop(b)
  PROVE  \A o \in queue : Message(o) = Message(b) \/ Promise!Before(Message(b), Message(o))
<1> TAKE o \in queue
<1>1. b \in queue /\ ~Below(node[b], node[o])
  BY DEF IsTop
<1>2. /\ node[b].prio \in Nat /\ node[b].seq \in Nat /\ node[b].no \in Nat
      /\ node[o].prio \in Nat /\ node[o].seq \in Nat /\ node[o].no \in Nat
  BY <1>1, NodeNumbers
<1>3. CASE o = b
  BY <1>3, SMTT(20)
<1>4. CASE o # b
  <2>1. /\ node[o].seq < node[b].seq <=> node[o].no < node[b].no
        /\ node[b].no # node[o].no
    BY <1>1, <1>4 DEF Order
  <2>2. node[b].prio > node[o].prio \/ (node[b].prio = node[o].prio /\ node[b].no < node[o].no)
    BY <1>1, <1>2, <2>1 DEF Below
  <2> QED
    BY <2>2 DEF Promise!Before, Message
<1> QED
  BY <1>3, <1>4

(* Every step of the queue is a step of the abstract priority queue. *)
LEMMA StepKeepsPromise == IInv /\ Order /\ [Next]_vars => [Promise!Next]_(Promise!vars)
<1> DEFINE pending == {Message(b) : b \in queue}
<1> SUFFICES ASSUME IInv, Order, [Next]_vars PROVE [Promise!Next]_(Promise!vars)
  OBVIOUS
<1>a. queue \subseteq Blocks /\ node \in [Blocks -> Node]
  BY DEF IInv, TypeOK
<1> USE DEF Promise!vars
<1>2. ASSUME NEW p \in Producers, NEW prio \in Priorities, Push(p, prio) PROVE Promise!Put(prio)
  <2> PICK r : r = raw[p]
    BY SMTT(20)
  <2>1. r \in Blocks \ queue
    BY <1>2 DEF Push, Goto, IInv, BlocksAccounted, InFlight
  <2>2. queue' = queue \cup {r} /\ \A b \in queue : Message(b)' = Message(b)
    BY <1>2, <1>a, <2>1 DEF Push, Message
  <2>3. Message(r)' = [prio |-> prio, no |-> arrivals + 1]
    BY <1>2, <1>a, <2>1 DEF Push, Message
  <2>4. pending' = pending \cup {[prio |-> prio, no |-> arrivals + 1]}
    BY <2>2, <2>3
  <2> QED
    BY <1>2, <2>4 DEF Push, Promise!Put
<1>3. ASSUME NEW c \in Callers, NEW b \in Blocks, DequeueTake(c, b) \/ TryTake(c, b)
      PROVE  Message(b) \in pending /\ Promise!Take(c, Message(b))
  <2>1. IsTop(b) /\ b \in queue
    BY <1>3 DEF DequeueTake, TryTake, Pop, IsTop
  <2>2. queue' = queue \ {b} /\ \A o \in queue' : Message(o)' = Message(o)
    BY <1>3, <1>a DEF DequeueTake, TryTake, Pop, Message
  <2>3. \A o \in queue : Message(o) = Message(b) => o = b
    <3> TAKE o \in queue
    <3>1. Message(o) = Message(b) => node[o].no = node[b].no
      BY DEF Message
    <3> QED
      BY <2>1, <3>1 DEF Order
  <2>4. pending' = pending \ {Message(b)}
    BY <2>2, <2>3
  <2>5. result' = [result EXCEPT ![c] = Message(b)] /\ UNCHANGED <<arrivals, shutdown>>
    BY <1>3 DEF DequeueTake, TryTake, Pop
  <2> QED
    BY <2>1, <2>4, <2>5, TopIsFirst, SMTT(20) DEF Promise!Take
<1>4. ASSUME NEW c \in Callers, DequeueShutdown(c) \/ TryTimeout(c) PROVE Promise!TakeNothing(c)
  <2>1. queue = {} /\ queue' = {} /\ UNCHANGED <<arrivals, shutdown>>
    BY <1>4 DEF DequeueShutdown, TryTimeout, Ready
  <2>2. c \in Consumers => shutdown
    BY <1>4, ThreadsAssumption DEF DequeueShutdown, TryTimeout, Goto, IInv, Placement
  <2>3. result' = [result EXCEPT ![c] = NullOpt]
    BY <1>4 DEF DequeueShutdown, TryTimeout
  <2> QED
    BY <2>1, <2>2, <2>3 DEF Promise!TakeNothing
<1>5. ASSUME NEW c \in Callers, Call(c) PROVE Promise!Call(c)
  BY <1>5 DEF Call, Promise!Call, Message
<1>6. CASE NotifyShutdown
  BY <1>6 DEF NotifyShutdown, Promise!Next, Promise!Close, Message
<1>7. CASE Destroy
  BY <1>7 DEF Destroy, Promise!Next, Promise!Drop
<1>8. ASSUME NEW p \in Producers,
             AllocateAborts(p) \/ NotifyOne(p) \/ \E b \in Blocks : Allocate(p, b)
      PROVE  UNCHANGED Promise!vars
  BY <1>8, ZenonT(30) DEF AllocateAborts, NotifyOne, Allocate, Message
<1>9. ASSUME NEW c \in Callers,
             Test(c) \/ Block(c) \/ SpuriousWake(c) \/ Expire(c) \/ TryUndefined(c)
      PROVE  UNCHANGED Promise!vars
  BY <1>9 DEF Test, Block, SpuriousWake, Expire, TryUndefined, Message
<1>10. CASE UNCHANGED vars
  BY <1>10, Zenon DEF vars, Message
<1> HIDE DEF pending, Promise!vars
<1> QED
  <2>1. ASSUME NEW c \in Callers, NEW b \in Blocks, DequeueTake(c, b) \/ TryTake(c, b)
        PROVE  Promise!Next
    BY <2>1, <1>3 DEF Promise!Next, Promise!Callers, Callers, pending
  <2>2. ASSUME NEW c \in Callers, Call(c) \/ DequeueShutdown(c) \/ TryTimeout(c)
        PROVE  Promise!Next
    BY <2>2, <1>4, <1>5 DEF Promise!Next, Promise!Callers, Callers
  <2>3. ASSUME NEW p \in Producers, NEW prio \in Priorities, Push(p, prio) PROVE Promise!Next
    BY <2>3, <1>2 DEF Promise!Next
  <2>4. CASE NotifyShutdown \/ Destroy
    BY <2>4, <1>6, <1>7 DEF Promise!Next
  <2> QED
    BY <2>1, <2>2, <2>3, <2>4, <1>8, <1>9, <1>10 DEF Next, EnqueueStep, DequeueStep

(* As long as fewer messages are enqueued than sequence has values, the queue *)
(* implements the abstract priority queue: priority first, FIFO within a      *)
(* priority, every message once. MCMessageQueueWrap shows what happens when   *)
(* the sequence wraps.                                                        *)
THEOREM QueueKeepsPromise ==
  ASSUME MaxEnqueues < SequenceMod
  PROVE  Spec => KeepsPromise
<1>1. Init => Promise!Init
  BY DEF Init, Promise!Init, Promise!Callers, Callers
<1>2. IInv /\ IInv' /\ Order /\ [Next]_vars => Order'
  BY NextOrder
<1> QED
  BY <1>1, <1>2, InitOrder, Invariance, StepKeepsPromise, PTL
     DEF Spec, KeepsPromise, Promise!Spec
================================================================================
