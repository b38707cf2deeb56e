----------------------------- MODULE BrokerProofs -----------------------------
(* The Broker implements Broadcast, for any tasks, types and number of        *)
(* publishes.                                                                 *)
EXTENDS Broker, TLAPS

(* subscribe never adds a task twice, so that publish comes to it once. *)
NoDuplicates ==
  \A y \in Types : \A i, j \in 1 .. Len(subscriber_lists[y]) :
    subscriber_lists[y][i] = subscriber_lists[y][j] => i = j

(* A thread inside publish has a message to deliver. *)
Published == sub_mutex => number >= 1

IInv == TypeOK /\ NoDuplicates /\ Published

(* What Append does, element by element. *)
LEMMA AppendFacts ==
  ASSUME NEW S, NEW q \in Seq(S), NEW x \in S
  PROVE  /\ Append(q, x) \in Seq(S) /\ Len(Append(q, x)) = Len(q) + 1
         /\ \A i \in 1 .. Len(q) : Append(q, x)[i] = q[i]
         /\ Append(q, x)[Len(q) + 1] = x
  OBVIOUS

(* A new element makes no duplicate. *)
LEMMA AppendDistinct ==
  ASSUME NEW S, NEW q \in Seq(S), NEW x \in S,
         \A i \in 1 .. Len(q) : q[i] # x,
         \A i, j \in 1 .. Len(q) : q[i] = q[j] => i = j
  PROVE  \A i, j \in 1 .. Len(Append(q, x)) : Append(q, x)[i] = Append(q, x)[j] => i = j
  <1> SUFFICES ASSUME NEW i \in 1 .. Len(Append(q, x)), NEW j \in 1 .. Len(Append(q, x)),
                      Append(q, x)[i] = Append(q, x)[j]
               PROVE  i = j
    OBVIOUS
  <1>1. Len(q) \in Nat /\ Len(Append(q, x)) = Len(q) + 1
    OBVIOUS
  <1>2. \A k \in 1 .. Len(q) + 1 : Append(q, x)[k] = IF k = Len(q) + 1 THEN x ELSE q[k]
    BY AppendFacts
  <1>3. i \in 1 .. Len(q) + 1 /\ j \in 1 .. Len(q) + 1
    BY <1>1, Zenon
  <1>4. CASE i = Len(q) + 1 \/ j = Len(q) + 1
    BY <1>1, <1>2, <1>3, <1>4
  <1>5. CASE i \in 1 .. Len(q) /\ j \in 1 .. Len(q)
    BY <1>1, <1>2, <1>3, <1>5
  <1> QED
    BY <1>1, <1>3, <1>4, <1>5

(* What concatenation does. *)
LEMMA ConcatFacts ==
  ASSUME NEW S, NEW p \in Seq(S), NEW q \in Seq(S)
  PROVE  /\ p \o q \in Seq(S) /\ Len(p \o q) = Len(p) + Len(q)
         /\ \A i \in 1 .. Len(p) : (p \o q)[i] = p[i]
         /\ \A i \in 1 .. Len(q) : (p \o q)[Len(p) + i] = q[i]
  OBVIOUS

(* What RemoveAt does, element by element. *)
LEMMA RemoveFacts ==
  ASSUME NEW S, NEW q \in Seq(S), NEW n \in 1 .. Len(q)
  PROVE  /\ RemoveAt(q, n) \in Seq(S) /\ Len(RemoveAt(q, n)) = Len(q) - 1
         /\ \A i \in 1 .. n - 1 : RemoveAt(q, n)[i] = q[i]
         /\ \A i \in n .. Len(q) - 1 : RemoveAt(q, n)[i] = q[i + 1]
  <1>1. /\ SubSeq(q, 1, n - 1) \in Seq(S) /\ Len(SubSeq(q, 1, n - 1)) = n - 1
        /\ \A i \in 1 .. n - 1 : SubSeq(q, 1, n - 1)[i] = q[i]
    OBVIOUS
  <1>2. /\ SubSeq(q, n + 1, Len(q)) \in Seq(S) /\ Len(SubSeq(q, n + 1, Len(q))) = Len(q) - n
        /\ \A i \in 1 .. Len(q) - n : SubSeq(q, n + 1, Len(q))[i] = q[n + i]
    OBVIOUS
  <1>3. \A a, b \in Seq(S) :
          /\ Len(a) = n - 1 /\ \A i \in 1 .. n - 1 : a[i] = q[i]
          /\ Len(b) = Len(q) - n /\ \A i \in 1 .. Len(q) - n : b[i] = q[n + i]
          => /\ a \o b \in Seq(S) /\ Len(a \o b) = Len(q) - 1
             /\ \A i \in 1 .. n - 1 : (a \o b)[i] = q[i]
             /\ \A i \in n .. Len(q) - 1 : (a \o b)[i] = q[i + 1]
    <2> TAKE a, b \in Seq(S)
    <2> HAVE /\ Len(a) = n - 1 /\ \A i \in 1 .. n - 1 : a[i] = q[i]
             /\ Len(b) = Len(q) - n /\ \A i \in 1 .. Len(q) - n : b[i] = q[n + i]
    <2>1. /\ a \o b \in Seq(S) /\ Len(a \o b) = Len(a) + Len(b)
          /\ \A i \in 1 .. Len(a) : (a \o b)[i] = a[i]
          /\ \A i \in 1 .. Len(b) : (a \o b)[Len(a) + i] = b[i]
      BY ONLY a \in Seq(S), b \in Seq(S), ConcatFacts
    <2>2. ASSUME NEW i \in n .. Len(q) - 1 PROVE (a \o b)[i] = q[i + 1]
      <3>1. i - (n - 1) \in 1 .. Len(q) - n /\ i = (n - 1) + (i - (n - 1))
        OBVIOUS
      <3>2. (a \o b)[i] = b[i - (n - 1)]
        <4>1. Len(a) + (i - (n - 1)) = i /\ i - (n - 1) \in 1 .. Len(b)
          BY <3>1, Zenon
        <4> QED
          BY <2>1, <4>1, Zenon
      <3>3. n + (i - (n - 1)) = i + 1
        OBVIOUS
      <3> QED
        BY <3>1, <3>2, <3>3, Zenon
    <2>3. Len(a \o b) = Len(q) - 1
      BY ONLY <2>1, q \in Seq(S), n \in 1 .. Len(q), Len(a) = n - 1, Len(b) = Len(q) - n
    <2>4. ASSUME NEW i \in 1 .. n - 1 PROVE (a \o b)[i] = q[i]
      BY <2>1, Zenon
    <2> QED
      BY <2>1, <2>2, <2>3, <2>4, Zenon
  <1> QED
    BY <1>1, <1>2, <1>3, Zenon DEF RemoveAt

(* Taking a message leaves messages. *)
LEMMA TailFacts ==
  ASSUME NEW S, NEW q \in Seq(S), q # <<>>
  PROVE  Tail(q) \in Seq(S)
  OBVIOUS

(* A message in front of the one to come is taken before it. *)
LEMMA TailAppend ==
  ASSUME NEW S, NEW q \in Seq(S), NEW x \in S, q # <<>>
  PROVE  Append(q, x) # <<>> /\ Tail(Append(q, x)) = Append(Tail(q), x)
  OBVIOUS

(* Nobody is subscribed yet, and no message is on its way. *)
LEMMA InitIInv == Init => IInv
  <1> SUFFICES ASSUME Init PROVE IInv
    OBVIOUS
  <1>1. /\ \A y \in Types : subscriber_lists[y] = <<>> /\ Len(subscriber_lists[y]) = 0
        /\ subscriber_lists \in [Types -> Seq(Tasks)]
    BY DEF Init
  <1>2. queue \in [Tasks -> [Types -> Seq(1 .. MaxPublishes)]]
    BY DEF Init, NoMessages
  <1>3. type \in Types /\ number \in 0 .. MaxPublishes /\ it \in 1 .. Len(list) + 1
    BY <1>1, BrokerAssumption DEF Init, list
  <1>4. TypeOK
    BY <1>1, <1>2, <1>3, BrokerAssumption, Zenon DEF Init, TypeOK
  <1> QED
    BY <1>1, <1>4 DEF Init, IInv, NoDuplicates, Published

(* Every step keeps the lists free of duplicates and the iterator inside. *)
LEMMA NextIInv == IInv /\ [Next]_vars => IInv'
  <1> SUFFICES ASSUME IInv, [Next]_vars PROVE IInv'
    OBVIOUS
  <1> USE BrokerAssumption
  <1> USE DEF walk
  <1>0. /\ list \in Seq(Tasks) /\ Len(list) \in Nat /\ it \in Nat /\ type \in Types
        /\ \A y \in Types : subscriber_lists[y] \in Seq(Tasks) /\ Len(subscriber_lists[y]) \in Nat
    BY DEF IInv, TypeOK, list
  <1>1. CASE initialize \/ AssertInitialized \/ DeliverAborts
    <2>1. UNCHANGED <<subscriber_lists, sub_mutex, type, number, it, subscriber, owned, queue>>
      BY <1>1, Zenon DEF initialize, AssertInitialized, DeliverAborts
    <2>2. initialized' \in BOOLEAN /\ fate' \in {"running", "aborted", "terminated"}
      BY <1>1, Zenon DEF initialize, AssertInitialized, DeliverAborts, IInv, TypeOK
    <2> QED
      BY <2>1, <2>2, Zenon DEF IInv, TypeOK, NoDuplicates, Published, list
  <1>2. ASSUME NEW t \in Tasks, NEW y \in Types, subscribe(t, y) PROVE IInv'
    <2>1. CASE Contains(subscriber_lists[y], t)
      BY <1>2, <2>1, Zenon DEF IInv, TypeOK, NoDuplicates, Published, list, subscribe
    <2>2. CASE ~Contains(subscriber_lists[y], t)
      <3>1. /\ subscriber_lists' = [subscriber_lists EXCEPT ![y] = Append(@, t)]
            /\ ~sub_mutex /\ subscriber = NoTask
            /\ UNCHANGED <<initialized, sub_mutex, type, number, it, subscriber, owned, queue, fate>>
        BY <1>2, <2>2, Zenon DEF IInv, TypeOK, subscribe, Unlocked
      <3>2. /\ subscriber_lists'[y] = Append(subscriber_lists[y], t)
            /\ \A z \in Types \ {y} : subscriber_lists'[z] = subscriber_lists[z]
        BY <3>1, Zenon DEF IInv, TypeOK
      <3>3. /\ subscriber_lists'[y] \in Seq(Tasks)
            /\ Len(subscriber_lists'[y]) = Len(subscriber_lists[y]) + 1
            /\ \A i \in 1 .. Len(subscriber_lists[y]) : subscriber_lists'[y][i] = subscriber_lists[y][i]
            /\ subscriber_lists'[y][Len(subscriber_lists[y]) + 1] = t
        BY <1>0, <3>2, AppendFacts
      <3>4. subscriber_lists' \in [Types -> Seq(Tasks)]
        BY <3>1, <3>3, <3>2, Zenon DEF IInv, TypeOK
      <3>5. it \in 1 .. Len(list') + 1
        BY <1>0, <3>1, <3>2, <3>3 DEF IInv, TypeOK, list
      <3>6. TypeOK'
        BY <3>1, <3>4, <3>5, Zenon DEF IInv, TypeOK
      <3>7. \A i, j \in 1 .. Len(subscriber_lists'[y]) :
              subscriber_lists'[y][i] = subscriber_lists'[y][j] => i = j
        <4>1. \A i \in 1 .. Len(subscriber_lists[y]) : subscriber_lists[y][i] # t
          BY <2>2 DEF Contains
        <4>2. \A i, j \in 1 .. Len(subscriber_lists[y]) :
                subscriber_lists[y][i] = subscriber_lists[y][j] => i = j
          BY Zenon DEF IInv, NoDuplicates, Published
        <4> QED
          BY <1>0, <3>2, <4>1, <4>2, AppendDistinct
      <3> QED
        BY <3>1, <3>2, <3>6, <3>7 DEF IInv, NoDuplicates, Published
    <2> QED
      BY <2>1, <2>2, Zenon
  <1>3. ASSUME NEW y \in Types, Publish(y) PROVE IInv'
    <2>1. it' = 1 /\ type' = y /\ it' \in 1 .. Len(list') + 1
      BY <1>0, <1>3 DEF Publish, list
    <2>2. TypeOK'
      BY <1>3, <2>1 DEF IInv, TypeOK, Publish, Unlocked
    <2>3. Published'
      BY <1>3 DEF IInv, TypeOK, Published, Publish
    <2>4. NoDuplicates'
      BY <1>3, Zenon DEF IInv, NoDuplicates, Publish
    <2> QED
      BY <2>2, <2>3, <2>4, Zenon DEF IInv
  <1>4. CASE LockEntry
    BY <1>4, Zenon DEF IInv, TypeOK, NoDuplicates, Published, list, LockEntry, Walking
  <1>5. CASE EraseExpired
    <2>1. /\ subscriber = NoTask /\ it \in 1 .. Len(list)
          /\ subscriber_lists' = [subscriber_lists EXCEPT ![type] = RemoveAt(@, it)]
          /\ UNCHANGED <<initialized, sub_mutex, type, number, it, subscriber, owned, queue, fate>>
      BY <1>0, <1>5 DEF IInv, TypeOK, EraseExpired, Walking
    <2>2. /\ list' = RemoveAt(list, it)
          /\ \A z \in Types \ {type} : subscriber_lists'[z] = subscriber_lists[z]
      BY <1>0, <2>1, Zenon DEF IInv, TypeOK, list
    <2>3. /\ list' \in Seq(Tasks) /\ Len(list') = Len(list) - 1
          /\ \A i \in 1 .. it - 1 : list'[i] = list[i]
          /\ \A i \in it .. Len(list) - 1 : list'[i] = list[i + 1]
      BY <1>0, <2>1, <2>2, RemoveFacts
    <2>4. subscriber_lists' \in [Types -> Seq(Tasks)]
      BY <2>1, <2>3, Zenon DEF IInv, TypeOK, list
    <2>5. TypeOK'
      BY <1>0, <2>1, <2>3, <2>4 DEF IInv, TypeOK
    <2>6. \A i, j \in 1 .. Len(list') : list'[i] = list'[j] => i = j
      <3>1. \A i, j \in 1 .. Len(list) : list[i] = list[j] => i = j
        BY <1>0, Zenon DEF IInv, NoDuplicates, Published, list
      <3> QED
        BY <1>0, <2>1, <2>3, <3>1
    <2> QED
      BY <2>1, <2>2, <2>5, <2>6 DEF IInv, NoDuplicates, Published, list
  <1>6. CASE Deliver
    <2>1. subscriber \in Tasks /\ it \in 1 .. Len(list) /\ it' = it + 1
      BY <1>0, <1>6 DEF IInv, TypeOK, Deliver
    <2>2. it' \in 1 .. Len(list) + 1
      BY <1>0, <2>1
    <2>3. number \in 1 .. MaxPublishes
      BY <2>1 DEF IInv, TypeOK, Published
    <2>4. Append(queue[subscriber][type], number) \in Seq(1 .. MaxPublishes)
      BY <1>0, <2>1, <2>3, AppendFacts DEF IInv, TypeOK
    <2>5. NoMessages \in [Types -> Seq(1 .. MaxPublishes)]
      BY DEF NoMessages
    <2>7. queue' \in [Tasks -> [Types -> Seq(1 .. MaxPublishes)]]
      <3>1. CASE subscriber \in owned
        <4>1. queue' = [queue EXCEPT ![subscriber][type] = Append(@, number)]
          BY <1>6, <3>1, Zenon DEF Deliver
        <4> QED
          BY <1>0, <2>1, <2>4, <4>1, Zenon DEF IInv, TypeOK
      <3>2. CASE subscriber \notin owned
        <4>1. queue' = [queue EXCEPT ![subscriber] = NoMessages]
          BY <1>6, <3>2, Zenon DEF Deliver
        <4> QED
          BY <2>1, <2>5, <4>1, Zenon DEF IInv, TypeOK
      <3> QED
        BY <3>1, <3>2, Zenon
    <2>8. fate' \in {"running", "aborted", "terminated"}
      BY <1>6, Zenon DEF IInv, TypeOK, Deliver, FateAfterDestroying
    <2> QED
      BY <1>6, <2>1, <2>2, <2>7, <2>8, Zenon DEF IInv, TypeOK, NoDuplicates, Published, list, Deliver
  <1>7. CASE PublishDone
    BY <1>7, Zenon DEF IInv, TypeOK, NoDuplicates, Published, list, PublishDone, Walking
  <1>8. ASSUME NEW t \in Tasks, Release(t) PROVE IInv'
    <2>1. fate' \in {"running", "aborted", "terminated"}
      BY <1>8, Zenon DEF IInv, TypeOK, Release, FateAfterDestroying
    <2>2. NoMessages \in [Types -> Seq(1 .. MaxPublishes)]
      BY DEF NoMessages
    <2>3. queue' = queue \/ queue' = [queue EXCEPT ![t] = NoMessages]
      BY <1>8, Zenon DEF Release
    <2>4. queue' \in [Tasks -> [Types -> Seq(1 .. MaxPublishes)]]
      BY <2>2, <2>3, Zenon DEF IInv, TypeOK
    <2> QED
      BY <1>8, <2>1, <2>4, Zenon DEF IInv, TypeOK, NoDuplicates, Published, list, Release
  <1>9. ASSUME NEW t \in Tasks, NEW y \in Types, Take(t, y) PROVE IInv'
    <2>1. Tail(queue[t][y]) \in Seq(1 .. MaxPublishes)
      <3>1. queue[t][y] \in Seq(1 .. MaxPublishes) /\ queue[t][y] # <<>>
        BY <1>9, Zenon DEF IInv, TypeOK, Take
      <3> QED
        BY <3>1, TailFacts, Zenon
    <2>2. queue' \in [Tasks -> [Types -> Seq(1 .. MaxPublishes)]]
      BY <1>9, <2>1, Zenon DEF IInv, TypeOK, Take
    <2> QED
      BY <1>9, <2>2, Zenon DEF IInv, TypeOK, NoDuplicates, Published, list, Take
  <1>10. CASE UNCHANGED vars
    BY <1>10, Zenon DEF IInv, TypeOK, NoDuplicates, Published, list, vars
  <1> QED
    BY <1>1, <1>2, <1>3, <1>4, <1>5, <1>6, <1>7, <1>8, <1>9, <1>10 DEF Next, WalkStep

(* A step that neither owner, subscriber nor message to take notices. *)
LEMMA Unnoticed ==
  ASSUME UNCHANGED owned,
         \A t \in owned, y \in Types :
           /\ Contains(subscriber_lists'[y], t) <=> Contains(subscriber_lists[y], t)
           /\ Pending(t, y)' = Pending(t, y)
  PROVE  UNCHANGED <<owned, Members, Box>>
  <1>1. Members' = Members
    BY Zenon DEF Members
  <1>2. ASSUME NEW t \in Tasks, NEW y \in Types PROVE Pending(t, y)' = Pending(t, y)
    BY Zenon DEF Pending
  <1>3. Box' = Box
    BY <1>2, Zenon DEF Box
  <1> QED
    BY <1>1, <1>3, Zenon

(* Outside publish nothing is ahead. *)
LEMMA NothingAhead ==
  ASSUME NEW t, NEW y
  PROVE  ~sub_mutex => ~Ahead(t, y)
  BY Zenon DEF Ahead

(* Every step of the Broker is a step of Broadcast or changes nothing there. *)
LEMMA StepKeepsPromise == IInv /\ IInv' /\ [Next]_vars => [Promise!Next]_(Promise!vars)
  <1> SUFFICES ASSUME IInv, IInv', [Next]_vars PROVE [Promise!Next]_(Promise!vars)
    OBVIOUS
  <1> USE BrokerAssumption
  <1> USE DEF walk
  <1>0. /\ list \in Seq(Tasks) /\ Len(list) \in Nat /\ it \in Nat /\ type \in Types
        /\ \A y \in Types : subscriber_lists[y] \in Seq(Tasks) /\ Len(subscriber_lists[y]) \in Nat
    BY DEF IInv, TypeOK, list
  <1>1. CASE initialize \/ AssertInitialized \/ DeliverAborts \/ LockEntry \/ UNCHANGED vars
    <2>1. UNCHANGED <<subscriber_lists, sub_mutex, type, number, it, owned, queue>>
      BY <1>1, Zenon DEF initialize, AssertInitialized, DeliverAborts, LockEntry, vars
    <2>2. UNCHANGED <<owned, Members, Box>>
      BY <2>1, Zenon DEF Members, Box, Pending, Ahead, list
    <2> QED
      BY <2>2, Zenon DEF Promise!vars
  <1>2. CASE PublishDone
    <2>1. /\ UNCHANGED <<subscriber_lists, type, number, it, owned, queue>>
          /\ it > Len(list) /\ ~sub_mutex'
      BY <1>2, Zenon DEF PublishDone
    <2>2. \A t, y : ~Ahead(t, y) /\ ~Ahead(t, y)'
      BY <1>0, <2>1 DEF Ahead
    <2>3. UNCHANGED <<owned, Members, Box>>
      BY <2>1, <2>2, Zenon DEF Members, Box, Pending
    <2> QED
      BY <2>3, Zenon DEF Promise!vars
  <1>3. ASSUME NEW t \in Tasks, NEW y \in Types, subscribe(t, y) PROVE Promise!Subscribe(t, y)
    <2>1. /\ UNCHANGED <<sub_mutex, type, number, it, owned, queue>> /\ ~sub_mutex /\ t \in owned
          /\ subscriber_lists' = IF Contains(subscriber_lists[y], t) THEN subscriber_lists
                                 ELSE [subscriber_lists EXCEPT ![y] = Append(@, t)]
      BY <1>3, Zenon DEF subscribe, Unlocked
    <2>2. Box' = Box
      <3>1. \A s, z : ~Ahead(s, z) /\ ~Ahead(s, z)'
        BY <2>1, Zenon DEF Ahead
      <3> QED
        BY <2>1, <3>1, Zenon DEF Box, Pending
    <2>3. ASSUME NEW z \in Types, NEW s \in Tasks
          PROVE  Contains(subscriber_lists'[z], s) <=>
                   Contains(subscriber_lists[z], s) \/ (z = y /\ s = t)
      <3>1. CASE Contains(subscriber_lists[y], t)
        BY <2>1, <3>1, Zenon
      <3>2. CASE ~Contains(subscriber_lists[y], t) /\ z = y
        <4>1. subscriber_lists'[z] = Append(subscriber_lists[y], t)
          BY <2>1, <3>2, Zenon DEF IInv, TypeOK
        <4>2. subscriber_lists[y] \in Seq(Tasks)
          BY <1>0, Zenon
        <4>3. \A q \in Seq(Tasks) : Contains(Append(q, t), s) <=> Contains(q, s) \/ s = t
          BY AppendFacts DEF Contains
        <4> QED
          BY <3>2, <4>1, <4>2, <4>3
      <3>3. CASE ~Contains(subscriber_lists[y], t) /\ z # y
        BY <2>1, <3>3, Zenon DEF IInv, TypeOK
      <3> QED
        BY <3>1, <3>2, <3>3, Zenon
    <2>4. Members' = [Members EXCEPT ![y] = @ \cup {t}]
      <3>1. owned' = owned /\ t \in owned /\ owned \subseteq Tasks
        BY <2>1, Zenon DEF IInv, TypeOK
      <3>2. ASSUME NEW z \in Types
            PROVE  {s \in owned : Contains(subscriber_lists'[z], s)} =
                     IF z = y THEN {s \in owned : Contains(subscriber_lists[z], s)} \cup {t}
                     ELSE {s \in owned : Contains(subscriber_lists[z], s)}
        BY <2>3, <3>1, Zenon
      <3> QED
        BY <3>1, <3>2, Zenon DEF Members
    <2> QED
      BY <2>1, <2>2, <2>4, Zenon DEF Promise!Subscribe
  <1>4. ASSUME NEW y \in Types, Publish(y) PROVE Promise!Publish(y, number')
    <2>1. /\ UNCHANGED <<subscriber_lists, owned, queue>> /\ ~sub_mutex /\ sub_mutex'
          /\ type' = y /\ it' = 1
      BY <1>4, Zenon DEF Publish, Unlocked
    <2>2. Members' = Members
      BY <2>1, Zenon DEF Members
    <2>3. ASSUME NEW t \in Tasks, NEW z \in Types
          PROVE  /\ ~Ahead(t, z)
                 /\ Ahead(t, z)' <=> z = y /\ Contains(subscriber_lists[y], t)
      BY <2>1, Zenon DEF Ahead, Contains, list
    <2>4. ASSUME NEW t \in Tasks, NEW z \in Types
          PROVE  Pending(t, z)' = IF t \in Members[y] /\ z = y THEN Append(Pending(t, z), number')
                                  ELSE Pending(t, z)
      BY <2>1, <2>3, Zenon DEF Pending, Members
    <2>5. Box' = [t \in Tasks |->
                    IF t \in Members[y] THEN [Box[t] EXCEPT ![y] = Append(@, number')] ELSE Box[t]]
      BY <2>4, Zenon DEF Box
    <2> QED
      BY <2>1, <2>2, <2>5, Zenon DEF Promise!Publish
  <1>5. CASE EraseExpired
    <2>1. /\ it \in 1 .. Len(list) /\ list[it] \notin owned
          /\ subscriber_lists' = [subscriber_lists EXCEPT ![type] = RemoveAt(@, it)]
          /\ UNCHANGED <<sub_mutex, type, number, it, owned, queue>>
      BY <1>0, <1>5 DEF IInv, TypeOK, EraseExpired, Walking
    <2>2. /\ list' = RemoveAt(list, it)
          /\ \A z \in Types \ {type} : subscriber_lists'[z] = subscriber_lists[z]
      BY <1>0, <2>1, Zenon DEF IInv, TypeOK, list
    <2>3. /\ Len(list') = Len(list) - 1
          /\ \A i \in 1 .. it - 1 : list'[i] = list[i]
          /\ \A i \in it .. Len(list) - 1 : list'[i] = list[i + 1]
      BY <1>0, <2>1, <2>2, RemoveFacts, ZenonT(30)
    <2>4. ASSUME NEW t \in owned
          PROVE  (\E i \in it .. Len(list') : list'[i] = t) <=> (\E i \in it .. Len(list) : list[i] = t)
      <3>1. ASSUME NEW i \in it .. Len(list), list[i] = t
            PROVE  \E j \in it .. Len(list') : list'[j] = t
        <4>1. i # it /\ i - 1 \in it .. Len(list) - 1 /\ (i - 1) + 1 = i
          BY <1>0, <2>1, <3>1
        <4>2. list'[i - 1] = t
          BY <2>3, <3>1, <4>1, Zenon
        <4> QED
          BY <2>3, <4>1, <4>2, Zenon
      <3>2. ASSUME NEW i \in it .. Len(list'), list'[i] = t
            PROVE  \E j \in it .. Len(list) : list[j] = t
        <4>1. i \in it .. Len(list) - 1 /\ i + 1 \in it .. Len(list)
          BY <1>0, <2>3
        <4> QED
          BY <2>3, <3>2, <4>1, Zenon
      <3> QED
        BY <3>1, <3>2, Zenon
    <2>5. ASSUME NEW t \in owned
          PROVE  Contains(list', t) <=> Contains(list, t)
      <3>1. Contains(list, t) <=> \/ \E i \in 1 .. it - 1 : list[i] = t
                                 \/ \E i \in it .. Len(list) : list[i] = t
        BY <1>0, <2>1 DEF Contains
      <3>2. Contains(list', t) <=> \/ \E i \in 1 .. it - 1 : list'[i] = t
                                  \/ \E i \in it .. Len(list') : list'[i] = t
        BY <1>0, <2>1, <2>3 DEF Contains
      <3> QED
        BY <2>3, <2>4, <3>1, <3>2, Zenon
    <2>6. ASSUME NEW t \in owned, NEW y \in Types
          PROVE  Contains(subscriber_lists'[y], t) <=> Contains(subscriber_lists[y], t)
      BY <2>1, <2>2, <2>5, Zenon DEF list
    <2>7. ASSUME NEW t \in owned, NEW y \in Types
          PROVE  Pending(t, y)' = Pending(t, y)
      <3>1. Ahead(t, y)' <=> Ahead(t, y)
        BY <2>1, <2>4, Zenon DEF Ahead
      <3> QED
        BY <2>1, <3>1, Zenon DEF Pending
    <2>8. UNCHANGED <<owned, Members, Box>>
      BY <2>1, <2>6, <2>7, Unnoticed, Zenon
    <2> QED
      BY <2>8, Zenon DEF Promise!vars
  <1>6. CASE Deliver
    <2>1. /\ UNCHANGED <<subscriber_lists, sub_mutex, type, number, owned>> /\ sub_mutex
          /\ subscriber \in Tasks /\ it \in 1 .. Len(list) /\ subscriber = list[it] /\ it' = it + 1
      BY <1>0, <1>6 DEF IInv, TypeOK, Deliver
    <2>2. ASSUME NEW t \in owned, NEW y \in Types PROVE Pending(t, y)' = Pending(t, y)
      <3>1. CASE t = subscriber /\ y = type
        <4>1. Ahead(t, y)
          BY <1>0, <2>1, <3>1 DEF Ahead
        <4>2. ~Ahead(t, y)'
          <5>1. \A i \in it + 1 .. Len(list) : list[i] # list[it]
            BY <1>0, <2>1 DEF IInv, NoDuplicates, list
          <5> QED
            BY <2>1, <3>1, <5>1, Zenon DEF Ahead, list
        <4>3. queue'[t][y] = Append(queue[t][y], number)
          BY <1>6, <3>1, <2>1 DEF Deliver, IInv, TypeOK
        <4> QED
          BY <2>1, <4>1, <4>2, <4>3, Zenon DEF Pending
      <3>2. CASE t # subscriber \/ y # type
        <4>1. Ahead(t, y)' <=> Ahead(t, y)
          <5>1. list' = list
            BY <2>1, Zenon DEF list
          <5>2. y = type => t # list[it]
            BY <2>1, <3>2, Zenon
          <5>3. t # list[it] => ((\E i \in it .. Len(list) : list[i] = t) <=>
                                \E i \in it + 1 .. Len(list) : list[i] = t)
            BY <1>0, <2>1
          <5> QED
            BY <2>1, <5>1, <5>2, <5>3, Zenon DEF Ahead
        <4>2. queue'[t][y] = queue[t][y]
          BY <1>6, <3>2, <2>1, Zenon DEF Deliver, IInv, TypeOK
        <4> QED
          BY <2>1, <4>1, <4>2, Zenon DEF Pending
      <3> QED
        BY <3>1, <3>2, Zenon
    <2>3. UNCHANGED <<owned, Members, Box>>
      BY <2>1, <2>2, Unnoticed, Zenon
    <2> QED
      BY <2>3, Zenon DEF Promise!vars
  <1>7. ASSUME NEW t \in Tasks, Release(t) PROVE Promise!Leave(t)
    <2>1. /\ UNCHANGED <<subscriber_lists, sub_mutex, type, number, it>>
          /\ t \in owned /\ owned' = owned \ {t}
          /\ \A s \in Tasks \ {t} : queue'[s] = queue[s]
      BY <1>7, Zenon DEF Release, IInv, TypeOK
    <2>2. Members' = [y \in Types |-> Members[y] \ {t}]
      BY <2>1, Zenon DEF Members
    <2>3. ASSUME NEW s \in Tasks, NEW y \in Types
          PROVE  Pending(s, y)' = IF s = t THEN <<>> ELSE Pending(s, y)
      <3>1. Ahead(s, y)' <=> Ahead(s, y)
        BY <2>1, Zenon DEF Ahead, list
      <3> QED
        BY <2>1, <3>1, Zenon DEF Pending
    <2>4. Box' = [Box EXCEPT ![t] = [y \in Types |-> <<>>]]
      BY <2>3, Zenon DEF Box
    <2> QED
      BY <2>1, <2>2, <2>4, Zenon DEF Promise!Leave
  <1>8. ASSUME NEW t \in Tasks, NEW y \in Types, Take(t, y) PROVE Promise!Take(t, y)
    <2>1. /\ UNCHANGED <<subscriber_lists, sub_mutex, type, number, it, owned>>
          /\ t \in owned /\ queue[t][y] # <<>>
          /\ queue[t][y] \in Seq(1 .. MaxPublishes) /\ queue'[t][y] = Tail(queue[t][y])
          /\ \A s \in Tasks, z \in Types : s # t \/ z # y => queue'[s][z] = queue[s][z]
      BY <1>8 DEF Take, IInv, TypeOK
    <2>2. \A s \in Tasks, z \in Types : Ahead(s, z)' <=> Ahead(s, z)
      BY <2>1, Zenon DEF Ahead, list
    <2>3. Pending(t, y) # <<>> /\ Pending(t, y)' = Tail(Pending(t, y))
      <3>1. CASE Ahead(t, y)
        <4>1. number \in 1 .. MaxPublishes
          BY <3>1 DEF IInv, TypeOK, Published, Ahead
        <4>2. /\ Append(queue[t][y], number) # <<>>
              /\ Tail(Append(queue[t][y], number)) = Append(Tail(queue[t][y]), number)
          BY <2>1, <4>1, TailAppend, Zenon
        <4> QED
          BY <2>1, <2>2, <3>1, <4>2, Zenon DEF Pending
      <3>2. CASE ~Ahead(t, y)
        BY <2>1, <2>2, <3>2, Zenon DEF Pending
      <3> QED
        BY <3>1, <3>2, Zenon
    <2>4. \A s \in Tasks, z \in Types : s # t \/ z # y => Pending(s, z)' = Pending(s, z)
      BY <2>1, <2>2 DEF Pending
    <2>5. Box' = [Box EXCEPT ![t][y] = Tail(@)]
      BY <2>3, <2>4 DEF Box
    <2>6. Box[t][y] # <<>> /\ Members' = Members
      BY <2>1, <2>3 DEF Box, Members
    <2> QED
      BY <2>1, <2>5, <2>6, Zenon DEF Promise!Take
  <1>9. \A y \in Types : Publish(y) => number' \in 1 .. MaxPublishes
    BY DEF Publish, IInv, TypeOK
  <1> QED
    BY <1>1, <1>2, <1>3, <1>4, <1>5, <1>6, <1>7, <1>8, <1>9 DEF Next, WalkStep, Promise!Next

(* The invariant holds in every state. *)
THEOREM Invariance == Spec => []IInv
  BY InitIInv, NextIInv, PTL DEF Spec

(* The Broker's variables keep their types: the iterator of publish stays     *)
(* inside its list, and a reference taken is the one to the task there.       *)
THEOREM TypeCorrect == Spec => []TypeOK
  <1>1. IInv => TypeOK
    BY Zenon DEF IInv
  <1> QED
    BY Invariance, <1>1, PTL

(* The walk of publish under sub_mutex, with tasks that go and act meanwhile, *)
(* implements a broadcast in one step.                                        *)
THEOREM BrokerKeepsPromise == Spec => KeepsPromise
  <1>1. Init => Promise!Init
    <2> SUFFICES ASSUME Init PROVE Promise!Init
      OBVIOUS
    <2>1. \A t \in Tasks, y \in Types : Pending(t, y) = <<>>
      BY Zenon DEF Init, Pending, Ahead, NoMessages
    <2>2. \A t \in Tasks, y \in Types : ~Contains(subscriber_lists[y], t)
      BY DEF Init, Contains
    <2> QED
      BY <2>1, <2>2, Zenon DEF Init, Promise!Init, Members, Box
  <1> QED
    BY <1>1, Invariance, StepKeepsPromise, PTL DEF Spec, KeepsPromise, Promise!Spec

(* Every step leaves a thread inside publish no more to do than it had, and   *)
(* every step of that thread less.                                            *)
LEMMA StepProgresses ==
  IInv /\ [Next]_vars => /\ sub_mutex => Left' <= Left
                         /\ WalkStep => Left' < Left \/ fate' # "running"
  <1> SUFFICES ASSUME IInv, [Next]_vars
               PROVE  /\ sub_mutex => Left' <= Left
                      /\ WalkStep => Left' < Left \/ fate' # "running"
    OBVIOUS
  <1> USE BrokerAssumption
  <1> USE DEF walk
  <1>0. /\ list \in Seq(Tasks) /\ Len(list) \in Nat /\ it \in Nat /\ it \in 1 .. Len(list) + 1
        /\ Left \in Nat /\ (sub_mutex => Left >= 1)
    <2>1. list \in Seq(Tasks) /\ Len(list) \in Nat /\ it \in 1 .. Len(list) + 1
      BY DEF IInv, TypeOK, list
    <2>2. subscriber # NoTask => it <= Len(list)
      BY Zenon DEF IInv, TypeOK
    <2> QED
      BY <2>1, <2>2 DEF Left
  <1>1. ASSUME UNCHANGED <<subscriber_lists, sub_mutex, type, it, subscriber>> PROVE Left' = Left
    BY <1>1, Zenon DEF Left, list
  <1>2. LockEntry => Left' < Left
    <2> SUFFICES ASSUME LockEntry PROVE Left' < Left
      OBVIOUS
    <2>1. /\ sub_mutex /\ sub_mutex' /\ subscriber = NoTask /\ it' = it /\ list' = list
          /\ it \in 1 .. Len(list)
      BY <1>0 DEF LockEntry, Walking, list
    <2>2. subscriber' # NoTask
      BY <1>0, <2>1 DEF LockEntry
    <2> QED
      BY <1>0, <2>1, <2>2 DEF Left
  <1>3. EraseExpired => Left' < Left
    <2> SUFFICES ASSUME EraseExpired PROVE Left' < Left
      OBVIOUS
    <2>1. /\ sub_mutex /\ sub_mutex' /\ subscriber = NoTask /\ subscriber' = NoTask /\ it' = it
          /\ it \in 1 .. Len(list) /\ list' = RemoveAt(list, it)
      BY <1>0 DEF IInv, TypeOK, EraseExpired, Walking, list
    <2>2. Len(list') = Len(list) - 1
      BY <1>0, <2>1, RemoveFacts, Zenon
    <2> QED
      BY <1>0, <2>1, <2>2 DEF Left
  <1>4. Deliver => Left' < Left
    <2> SUFFICES ASSUME Deliver PROVE Left' < Left
      OBVIOUS
    <2>1. /\ sub_mutex /\ sub_mutex' /\ subscriber # NoTask /\ subscriber' = NoTask /\ it' = it + 1
          /\ list' = list
      BY Zenon DEF IInv, TypeOK, Deliver, list
    <2> QED
      BY <1>0, <2>1 DEF Left
  <1>5. PublishDone => Left' < Left
    BY <1>0 DEF PublishDone, Walking, Left
  <1>6. DeliverAborts => Left' = Left /\ fate' # "running"
    BY <1>1, Zenon DEF DeliverAborts
  <1>7. ASSUME sub_mutex PROVE Left' <= Left
    <2>0. Left' \in Int
      <3>1. IInv'
        BY NextIInv, Zenon
      <3>2. Len(list') \in Nat /\ it' \in Nat
        BY <3>1 DEF IInv, TypeOK, list
      <3> QED
        BY <3>2 DEF Left
    <2>1. ASSUME NEW t \in Tasks, Release(t) \/ \E y \in Types : Take(t, y) PROVE Left' = Left
      BY <1>1, <2>1, Zenon DEF Release, Take
    <2>2. ~Unlocked
      BY <1>7, Zenon DEF Unlocked
    <2>3. UNCHANGED vars => Left' = Left
      BY <1>1, Zenon DEF vars
    <2>4. WalkStep => Left' <= Left
      BY <1>0, <1>2, <1>3, <1>4, <1>5, <1>6, <2>0 DEF WalkStep
    <2> QED
      BY <1>0, <2>1, <2>2, <2>3, <2>4 DEF Next, initialize, AssertInitialized, Publish, subscribe
  <1>8. WalkStep => Left' < Left \/ fate' # "running"
    BY <1>2, <1>3, <1>4, <1>5, <1>6 DEF WalkStep
  <1> QED
    BY <1>7, <1>8, Zenon

(* A walk over the subscribers never grows longer while it lasts, for any     *)
(* lists, tasks and steps of the others: the safety part of its end.          *)
THEOREM PublishProgressesCorrect == Spec => PublishProgresses
  BY Invariance, StepProgresses, PTL DEF Spec, PublishProgresses
================================================================================
