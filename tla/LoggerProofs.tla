----------------------------- MODULE LoggerProofs -----------------------------
(* The invariants of Logger for any number of threads, sinks and entries.     *)
EXTENDS Logger, TLAPS

(* InOrder place by place: the queue ends with the last entry, the one in the *)
(* worker's hand precedes it, and a sink has all those before from its first. *)
Numbered ==
  /\ Len(queue) + Len(entry) <= accepted
  /\ \A i \in 1 .. Len(queue) : queue[i] = accepted - Len(queue) + i
  /\ worker = "dispatch" => entry[1] = accepted - Len(queue)
  /\ \A s \in Writing :
       /\ Len(output[s]) = accepted - Len(queue) - first[s] - (IF s \in todo THEN 1 ELSE 0)
       /\ \A i \in 1 .. Len(output[s]) : output[s][i] = first[s] + i
  /\ \A s \in Sinks \ sinks : output[s] = <<>>

(* What the worker left behind came after stopping was set. *)
Ended == worker = "done" => stopping /\ kept <= accepted - Len(queue)

IInv == TypeOK /\ Numbered /\ Ended

(* Nothing has been logged, and there is no sink. *)
LEMMA InitIInv == Init => IInv
  <1> SUFFICES ASSUME Init PROVE IInv
    OBVIOUS
  <1>1. /\ queue = <<>> /\ entry = <<>> /\ Len(queue) = 0 /\ Len(entry) = 0
        /\ queue \in Seq(1 .. MaxEntries) /\ entry \in Seq(1 .. MaxEntries)
    BY DEF Init
  <1>2. output \in [Sinks -> Seq(1 .. MaxEntries)]
    BY DEF Init
  <1>3. TypeOK
    <2>1. pc \in [Threads -> {"out", "push", "notify"}] /\ accepted \in 0 .. MaxEntries /\ kept \in 0 .. accepted
      BY LoggerAssumption DEF Init
    <2>2. /\ min_level \in Levels \cup {MSG_TRAFFIC} /\ sinks \in SUBSET Sinks /\ stopping \in BOOLEAN
          /\ worker = "lock" /\ todo = {} /\ main = "out"
      BY DEF Init
    <2>3. first \in [Sinks -> 0 .. MaxEntries]
      BY LoggerAssumption DEF Init
    <2> QED
      BY <1>1, <1>2, <2>1, <2>2, <2>3 DEF TypeOK
  <1>4. Numbered /\ Ended
    BY <1>1 DEF Init, Numbered, Ended, Writing
  <1> QED
    BY <1>3, <1>4 DEF IInv

(* What Append does, element by element. *)
LEMMA AppendFacts ==
  ASSUME NEW S, NEW q \in Seq(S), NEW x \in S
  PROVE  /\ Append(q, x) \in Seq(S) /\ Len(Append(q, x)) = Len(q) + 1
         /\ \A i \in 1 .. Len(q) : Append(q, x)[i] = q[i]
         /\ Append(q, x)[Len(q) + 1] = x
  OBVIOUS

(* What Head and Tail do. *)
LEMMA TailFacts ==
  ASSUME NEW S, NEW q \in Seq(S), q # <<>>
  PROVE  /\ Tail(q) \in Seq(S) /\ Len(q) \in Nat \ {0} /\ Len(Tail(q)) = Len(q) - 1
         /\ \A i \in 1 .. Len(q) - 1 : Tail(q)[i] = q[i + 1]
         /\ Head(q) = q[1] /\ q[1] \in S
         /\ <<Head(q)>> \in Seq(S) /\ Len(<<Head(q)>>) = 1 /\ <<Head(q)>>[1] = q[1]
  OBVIOUS

(* What concatenation does. *)
LEMMA ConcatFacts ==
  ASSUME NEW S, NEW p \in Seq(S), NEW q \in Seq(S)
  PROVE  /\ p \o q \in Seq(S) /\ Len(p \o q) = Len(p) + Len(q)
         /\ \A i \in 1 .. Len(p) : (p \o q)[i] = p[i]
         /\ \A i \in 1 .. Len(q) : (p \o q)[Len(p) + i] = q[i]
  OBVIOUS

(* A sequence that counts from k on. *)
LEMMA Counting ==
  ASSUME NEW S, NEW q \in Seq(S), NEW n \in Nat, NEW k \in Nat, Len(q) = n,
         \A i \in 1 .. n : q[i] = k + i
  PROVE  q = [i \in 1 .. n |-> k + i]
  OBVIOUS

(* Every step keeps the strengthened invariant. *)
LEMMA NextIInv == IInv /\ [Next]_vars => IInv'
  <1> SUFFICES ASSUME IInv, [Next]_vars PROVE IInv'
    OBVIOUS
  <1> USE LoggerAssumption
  <1> USE DEF level_and_sinks, work, history, Writing
  <1>0. /\ queue \in Seq(1 .. MaxEntries) /\ Len(queue) \in Nat
        /\ entry \in Seq(1 .. MaxEntries) /\ Len(entry) \in Nat
        /\ \A s \in Sinks : output[s] \in Seq(1 .. MaxEntries) /\ Len(output[s]) \in Nat
        /\ accepted \in Nat /\ sinks \subseteq Sinks /\ todo \subseteq sinks
        /\ \A s \in Sinks : first[s] \in Nat
    BY DEF IInv, TypeOK
  <1>1. ASSUME NEW s \in Sinks, add_sink(s) PROVE IInv'
    <2>1. output[s] = <<>> /\ Len(output[s]) = 0 /\ s \notin todo
      BY <1>0, <1>1 DEF IInv, Numbered, add_sink
    <2>2. /\ first' = [first EXCEPT ![s] = accepted - Len(queue)] /\ sinks' = sinks \cup {s}
          /\ UNCHANGED <<queue, entry, worker, todo, output, accepted, stopping, kept, min_level, pc, main>>
      BY <1>1 DEF add_sink
    <2>3. accepted - Len(queue) \in 0 .. MaxEntries
      BY <1>0 DEF IInv, TypeOK, Numbered
    <2>4. first' \in [Sinks -> 0 .. MaxEntries] /\ first'[s] = accepted - Len(queue)
          /\ \A u \in Sinks \ {s} : first'[u] = first[u]
      BY <2>2, <2>3 DEF IInv, TypeOK
    <2>5. TypeOK'
      BY <2>2, <2>4 DEF IInv, TypeOK
    <2>6. Len(output[s]) = accepted - Len(queue) - first'[s] - 0
      BY ONLY <1>0, <2>1, <2>3, <2>4
    <2>7. Numbered'
      <3>1. ASSUME NEW u \in Writing'
            PROVE  /\ Len(output[u]) = accepted - Len(queue) - first'[u] - (IF u \in todo THEN 1 ELSE 0)
                   /\ \A i \in 1 .. Len(output[u]) : output[u][i] = first'[u] + i
        <4>1. CASE u = s
          BY <2>1, <2>6, <4>1
        <4>2. CASE u # s
          <5>1. u \in Writing /\ first'[u] = first[u]
            BY <1>0, <2>2, <2>4, <4>2
          <5> QED
            BY <5>1 DEF IInv, Numbered
        <4> QED
          BY <4>1, <4>2
      <3> QED
        BY <2>2, <3>1 DEF IInv, Numbered
    <2> QED
      BY <2>2, <2>5, <2>7 DEF IInv, Ended
  <1>2. ASSUME NEW l \in Levels, set_level(l) PROVE IInv'
    BY <1>2, Zenon DEF IInv, TypeOK, Numbered, Ended, set_level
  <1>3. ASSUME NEW t \in Threads, NEW l \in Levels, Log(t, l) PROVE IInv'
    BY <1>3 DEF IInv, TypeOK, Numbered, Ended, Log
  <1>4. ASSUME NEW t \in Threads, Push(t) PROVE IInv'
    <2>1. /\ accepted' = accepted + 1 /\ accepted' \in 1 .. MaxEntries
          /\ queue' = Append(queue, accepted')
      BY <1>4 DEF IInv, TypeOK, Push
    <2>2. /\ queue' \in Seq(1 .. MaxEntries) /\ Len(queue') = Len(queue) + 1
          /\ \A i \in 1 .. Len(queue) : queue'[i] = queue[i]
          /\ queue'[Len(queue) + 1] = accepted + 1
      BY <1>0, <2>1, AppendFacts
    <2>3. TypeOK'
      BY <1>4, <2>1, <2>2 DEF IInv, TypeOK, Push
    <2>4. Numbered'
      <3>1. \A i \in 1 .. Len(queue) : queue[i] = accepted - Len(queue) + i
        BY DEF IInv, Numbered
      <3>2. \A i \in 1 .. Len(queue') : queue'[i] = accepted' - Len(queue') + i
        BY ONLY <1>0, <2>1, <2>2, <3>1
      <3>3. UNCHANGED <<worker, entry, todo, output, sinks, first>>
        BY <1>4 DEF Push
      <3>4. accepted' - Len(queue') = accepted - Len(queue)
        BY ONLY <1>0, <2>1, <2>2
      <3>5. Len(queue') + Len(entry) <= accepted'
        BY <1>0, <2>1, <2>2 DEF IInv, Numbered
      <3> QED
        BY <3>2, <3>3, <3>4, <3>5 DEF IInv, Numbered
    <2>5. Ended'
      BY <1>0, <1>4, <2>1, <2>2 DEF IInv, TypeOK, Ended, Push
    <2> QED
      BY <2>3, <2>4, <2>5 DEF IInv
  <1>5. ASSUME NEW t \in Threads, Notify(t) PROVE IInv'
    BY <1>5 DEF IInv, TypeOK, Numbered, Ended, Notify
  <1>6. CASE WorkerTest \/ WorkerBlock \/ SpuriousWake \/ WorkerEnd
    <2>1. worker # "dispatch" /\ worker' # "dispatch"
      BY <1>6 DEF WorkerTest, WorkerBlock, SpuriousWake, WorkerEnd
    <2>2. UNCHANGED <<queue, entry, todo, output, accepted, sinks, first, kept, stopping>>
      BY <1>6 DEF WorkerTest, WorkerBlock, SpuriousWake, WorkerEnd
    <2>3. TypeOK'
      BY <1>6, <2>1, <2>2 DEF IInv, TypeOK, WorkerTest, WorkerBlock, SpuriousWake, WorkerEnd
    <2>4. Numbered'
      BY <2>1, <2>2 DEF IInv, Numbered
    <2>5. worker' = "done" => stopping /\ queue = <<>> /\ Len(queue) = 0
      BY <1>6 DEF WorkerTest, WorkerBlock, SpuriousWake, WorkerEnd
    <2>6. Ended'
      BY <2>2, <2>5 DEF IInv, TypeOK, Ended
    <2> QED
      BY <2>3, <2>4, <2>6 DEF IInv
  <1>7. CASE WorkerTake
    <2>1. /\ queue' = Tail(queue) /\ entry' = <<Head(queue)>> /\ queue # <<>>
          /\ worker = "lock" /\ worker' = "dispatch" /\ todo = {} /\ todo' = sinks
          /\ UNCHANGED <<min_level, sinks, first, output, accepted, kept, stopping, pc, main>>
      BY <1>7 DEF IInv, TypeOK, WorkerTake
    <2>2. /\ queue' \in Seq(1 .. MaxEntries) /\ Len(queue) \in Nat \ {0}
          /\ Len(queue') = Len(queue) - 1
          /\ \A i \in 1 .. Len(queue) - 1 : queue'[i] = queue[i + 1]
          /\ entry' \in Seq(1 .. MaxEntries) /\ Len(entry') = 1 /\ entry'[1] = queue[1]
      BY <1>0, <2>1, TailFacts
    <2>3. TypeOK'
      BY <2>1, <2>2 DEF IInv, TypeOK
    <2>4. Numbered'
      <3>1. \A i \in 1 .. Len(queue') : queue'[i] = accepted' - Len(queue') + i
        BY <2>1, <2>2 DEF IInv, TypeOK, Numbered
      <3>2. entry'[1] = accepted' - Len(queue')
        BY <2>1, <2>2 DEF IInv, TypeOK, Numbered
      <3>3. Len(queue') + Len(entry') <= accepted'
        BY <1>0, <2>1, <2>2 DEF IInv, TypeOK, Numbered
      <3>4. \A s \in Writing : Len(output[s]) = accepted - Len(queue') - first[s] - 1
        <4>1. \A s \in Writing : Len(output[s]) = accepted - Len(queue) - first[s]
          BY <1>0, <2>1 DEF IInv, Numbered
        <4>2. \A s \in Writing : accepted - Len(queue') - first[s] - 1 = accepted - Len(queue) - first[s]
          BY ONLY <1>0, <2>2 DEF Writing
        <4> QED
          BY <4>1, <4>2
      <3> QED
        BY <2>1, <3>1, <3>2, <3>3, <3>4 DEF IInv, Numbered
    <2> QED
      BY <2>1, <2>3, <2>4 DEF IInv, Ended
  <1>8. CASE WorkerNext
    BY <1>8 DEF IInv, TypeOK, Numbered, Ended, WorkerNext
  <1>9. ASSUME NEW s \in Sinks, WorkerDispatch(s) PROVE IInv'
    <2>1. /\ worker = "dispatch" /\ s \in todo /\ s \in sinks /\ todo' = todo \ {s}
          /\ UNCHANGED <<min_level, sinks, first, queue, stopping, pc, worker, entry, main, accepted, kept>>
      BY <1>9 DEF IInv, TypeOK, WorkerDispatch, StreamLog, SocketLog
    <2>2. Len(entry) = 1 /\ Head(entry) = entry[1] /\ entry[1] \in 1 .. MaxEntries
      <3>1. Len(entry) = 1
        BY <2>1 DEF IInv, TypeOK
      <3>2. entry # <<>>
        BY <3>1
      <3> QED
        BY ONLY <1>0, <3>1, <3>2, TailFacts
    <2>3. s \notin todo' /\ \A u \in Sinks \ {s} : u \in todo' <=> u \in todo
      BY <2>1
    <2>4. CASE s \in SocketSinks
      <3>1. output' = output
        BY <1>9, <2>4 DEF WorkerDispatch, StreamLog, SocketLog
      <3>2. TypeOK'
        BY <2>1, <3>1 DEF IInv, TypeOK
      <3>3. \A u \in Writing : u # s
        BY <2>4
      <3>4. Numbered'
        <4>1. ASSUME NEW u \in Writing
              PROVE  Len(output[u]) = accepted - Len(queue) - first[u] - (IF u \in todo' THEN 1 ELSE 0)
          BY <1>0, <2>3, <3>3 DEF IInv, Numbered
        <4> QED
          BY <2>1, <3>1, <4>1 DEF IInv, Numbered
      <3> QED
        BY <2>1, <3>2, <3>4 DEF IInv, Ended
    <2>5. CASE s \notin SocketSinks
      <3>0. output' = [output EXCEPT ![s] = Append(@, Head(entry))] /\ s \in Writing
        BY <1>9, <2>1, <2>5 DEF WorkerDispatch, StreamLog, SocketLog
      <3>1. /\ output'[s] \in Seq(1 .. MaxEntries) /\ Len(output'[s]) = Len(output[s]) + 1
            /\ \A i \in 1 .. Len(output[s]) : output'[s][i] = output[s][i]
            /\ output'[s][Len(output[s]) + 1] = entry[1]
        <4>1. output'[s] = Append(output[s], entry[1])
          BY <2>2, <3>0 DEF IInv, TypeOK
        <4> QED
          BY <1>0, <2>2, <4>1, AppendFacts
      <3>2. \A u \in Sinks \ {s} : output'[u] = output[u]
        BY <3>0 DEF IInv, TypeOK
      <3>3. TypeOK'
        <4>1. output' \in [Sinks -> Seq(1 .. MaxEntries)]
          BY <3>0, <3>1 DEF IInv, TypeOK
        <4> QED
          BY <2>1, <4>1 DEF IInv, TypeOK
      <3>4. /\ Len(output[s]) = accepted - Len(queue) - first[s] - 1 /\ entry[1] = accepted - Len(queue)
            /\ \A i \in 1 .. Len(output[s]) : output[s][i] = first[s] + i
        BY <2>1, <3>0 DEF IInv, Numbered
      <3>5. /\ Len(output[s]) \in Nat /\ Len(output'[s]) = accepted - Len(queue) - first[s]
            /\ entry[1] = first[s] + (Len(output[s]) + 1)
        <4>1. first[s] \in Nat /\ accepted \in Nat /\ Len(queue) \in Nat /\ Len(output[s]) \in Nat
          BY <1>0
        <4>2. Len(output'[s]) = Len(output[s]) + 1
          BY <3>1
        <4>3. Len(output[s]) = accepted - Len(queue) - first[s] - 1 /\ entry[1] = accepted - Len(queue)
          BY <3>4
        <4> QED
          BY ONLY <4>1, <4>2, <4>3
      <3>6. ASSUME NEW i \in 1 .. Len(output'[s]) PROVE output'[s][i] = first[s] + i
        <4>1. CASE i = Len(output[s]) + 1
          BY <3>1, <3>5, <4>1
        <4>2. CASE i \in 1 .. Len(output[s])
          BY <3>1, <3>4, <4>2
        <4> QED
          BY <3>1, <3>5, <4>1, <4>2
      <3>7. Numbered'
        <4>1. ASSUME NEW u \in Writing
              PROVE
                /\ Len(output'[u]) = accepted - Len(queue) - first[u] - (IF u \in todo' THEN 1 ELSE 0)
                /\ \A i \in 1 .. Len(output'[u]) : output'[u][i] = first[u] + i
          <5>1. CASE u = s
            BY <1>0, <2>3, <3>5, <3>6, <5>1
          <5>2. CASE u # s
            <6>1. output'[u] = output[u] /\ (u \in todo' <=> u \in todo)
              BY <1>0, <2>3, <3>2, <5>2
            <6> QED
              BY <6>1 DEF IInv, Numbered
          <5> QED
            BY <5>1, <5>2
        <4>2. \A u \in Sinks \ sinks : output'[u] = <<>>
          BY <2>1, <3>2 DEF IInv, Numbered
        <4> QED
          BY <2>1, <4>1, <4>2 DEF IInv, Numbered
      <3> QED
        BY <2>1, <3>3, <3>7 DEF IInv, Ended
    <2> QED
      BY <2>4, <2>5
  <1>10. ASSUME NEW next \in {"notify", "flush"}, Shutdown(next) PROVE IInv'
    BY <1>10, Zenon DEF IInv, TypeOK, Numbered, Ended, Shutdown
  <1>11. CASE ShutdownNotify \/ Join
    BY <1>11 DEF IInv, TypeOK, Numbered, Ended, ShutdownNotify, Join
  <1>12. CASE UNCHANGED vars
    BY <1>12 DEF IInv, TypeOK, Numbered, Ended, vars
  <1> QED
    BY <1>1, <1>2, <1>3, <1>4, <1>5, <1>6, <1>7, <1>8, <1>9, <1>10, <1>11, <1>12 DEF Next, WorkerStep

(* The strengthened invariant holds in every state of every behaviour of the  *)
(* Logger.                                                                    *)
THEOREM Invariance == Spec => []IInv
  BY InitIInv, NextIInv, PTL DEF Spec

(* The Logger's variables keep their types.                                   *)
THEOREM TypeCorrect == Spec => []TypeOK
  BY Invariance, PTL DEF IInv

(* What worker_loop has written, holds and has queued is all that was logged, *)
(* in order and without gaps.                                                 *)
THEOREM InOrderCorrect == Spec => []InOrder
  <1>1. ASSUME IInv, NEW s \in Writing
        PROVE  output[s] \o (IF s \in todo THEN entry ELSE <<>>) \o queue
                 = [i \in 1 .. accepted - first[s] |-> first[s] + i]
    <2> DEFINE hand == IF s \in todo THEN entry ELSE <<>>
    <2> DEFINE k == first[s]
    <2> DEFINE n == accepted - Len(queue) - k
    <2>0. /\ queue \in Seq(1 .. MaxEntries) /\ entry \in Seq(1 .. MaxEntries)
          /\ accepted \in Nat /\ s \in Sinks /\ output[s] \in Seq(1 .. MaxEntries)
          /\ k \in Nat
      BY <1>1 DEF IInv, TypeOK, Writing
    <2>1. hand \in Seq(1 .. MaxEntries) /\ Len(queue) \in Nat /\ Len(output[s]) \in Nat
      <3>1. <<>> \in Seq(1 .. MaxEntries)
        OBVIOUS
      <3>2. hand \in Seq(1 .. MaxEntries)
        BY <2>0, <3>1, Zenon
      <3> QED
        BY <2>0, <3>2
    <2>2. Len(hand) = IF s \in todo THEN 1 ELSE 0
      BY <1>1 DEF IInv, TypeOK
    <2>3. /\ \A i \in 1 .. Len(queue) : queue[i] = accepted - Len(queue) + i
          /\ s \in todo => hand[1] = accepted - Len(queue)
          /\ Len(output[s]) = n - (IF s \in todo THEN 1 ELSE 0)
          /\ \A i \in 1 .. Len(output[s]) : output[s][i] = k + i
      BY <1>1 DEF IInv, TypeOK, Numbered
    <2>4. /\ n \in Nat /\ accepted - Len(queue) = k + n /\ accepted - k = n + Len(queue)
      BY <2>0, <2>1, <2>3
    <2>5. /\ \A i \in 1 .. Len(queue) : queue[i] = k + (n + i)
          /\ s \in todo => hand[1] = k + n
      <3>1. \A i \in 1 .. Len(queue) : (k + n) + i = k + (n + i)
        BY <2>0, <2>4
      <3> QED
        BY <2>3, <2>4, <3>1
    <2> HIDE DEF hand, n, k
    <2> DEFINE written == output[s] \o hand
    <2>6. /\ written \in Seq(1 .. MaxEntries) /\ Len(written) = n
          /\ \A i \in 1 .. n : written[i] = k + i
      <3>1. /\ written \in Seq(1 .. MaxEntries) /\ Len(written) = Len(output[s]) + Len(hand)
            /\ \A i \in 1 .. Len(output[s]) : written[i] = output[s][i]
            /\ \A i \in 1 .. Len(hand) : written[Len(output[s]) + i] = hand[i]
        BY <2>0, <2>1, ConcatFacts
      <3> HIDE DEF written
      <3>2. CASE s \in todo
        <4>1. Len(hand) = 1 /\ n = Len(output[s]) + 1 /\ Len(written) = n /\ written[n] = k + n
          BY <2>1, <2>2, <2>3, <2>4, <2>5, <3>1, <3>2
        <4>2. \A i \in 1 .. n : i = n \/ i \in 1 .. Len(output[s])
          BY <2>1, <4>1
        <4> QED
          BY <2>3, <3>1, <4>1, <4>2
      <3>3. CASE s \notin todo
        <4>1. Len(hand) = 0 /\ n = Len(output[s]) /\ Len(written) = n
          BY <2>1, <2>2, <2>3, <2>4, <3>1, <3>3
        <4> QED
          BY <2>3, <3>1, <4>1
      <3> QED
        BY <3>2, <3>3
    <2> HIDE DEF written
    <2> DEFINE all == written \o queue
    <2>7. /\ all \in Seq(1 .. MaxEntries) /\ Len(all) = n + Len(queue)
          /\ \A i \in 1 .. n : all[i] = k + i
          /\ \A i \in 1 .. Len(queue) : all[n + i] = k + (n + i)
      <3>0. written \in Seq(1 .. MaxEntries) /\ queue \in Seq(1 .. MaxEntries)
        BY <2>0, <2>6
      <3>1. /\ all \in Seq(1 .. MaxEntries) /\ Len(all) = Len(written) + Len(queue)
            /\ \A i \in 1 .. Len(written) : all[i] = written[i]
            /\ \A i \in 1 .. Len(queue) : all[Len(written) + i] = queue[i]
        BY ONLY <3>0, ConcatFacts
      <3> HIDE DEF all
      <3> QED
        BY <2>5, <2>6, <3>1
    <2> HIDE DEF all
    <2>8. all = [i \in 1 .. n + Len(queue) |-> k + i]
      <3>1. \A i \in 1 .. n + Len(queue) :
              i \in 1 .. n \/ (i - n \in 1 .. Len(queue) /\ i = n + (i - n))
        BY <2>1, <2>4
      <3>2. \A i \in 1 .. n + Len(queue) : all[i] = k + i
        BY <2>7, <3>1
      <3>3. n + Len(queue) \in Nat
        BY <2>1, <2>4
      <3> QED
        BY <2>0, <2>7, <3>2, <3>3, Counting
    <2> QED
      BY <2>4, <2>8 DEF all, written, hand, k
  <1>2. IInv => InOrder
    BY <1>1 DEF InOrder
  <1> QED
    BY Invariance, <1>2, PTL

(* When worker_loop has ended, every sink has every entry that was queued     *)
(* before shutdown set stopping and was not taken before the sink was added.  *)
THEOREM FlushedCorrect == Spec => []Flushed
  <1>1. IInv => Flushed
    <2> SUFFICES ASSUME IInv, worker = "done", NEW s \in Writing, NEW i \in 1 .. kept - first[s]
                 PROVE  i \in 1 .. Len(output[s]) /\ output[s][i] = first[s] + i
      BY DEF Flushed
    <2>1. s \notin todo
      BY DEF IInv, TypeOK
    <2>2. kept \in Nat /\ accepted \in Nat /\ Len(queue) \in Nat /\ first[s] \in Nat
      BY DEF IInv, TypeOK, Writing
    <2>3. Len(output[s]) = accepted - Len(queue) - first[s] - 0 /\ kept <= accepted - Len(queue)
      BY <2>1 DEF IInv, Numbered, Ended
    <2>4. i \in 1 .. Len(output[s])
      BY ONLY <2>2, <2>3, i \in 1 .. kept - first[s]
    <2> QED
      BY <2>4 DEF IInv, Numbered
  <1> QED
    BY Invariance, <1>1, PTL

(* Between its test and its sleep the worker holds queue_mutex: what it found *)
(* is still so, and no notification can fall in between.                      *)
Tested == worker = "block" => queue = <<>> /\ ~stopping

(* Every step keeps the worker from sleeping through a notification.          *)
LEMMA NextNoLostWakeup == IInv /\ NoLostWakeup /\ Tested /\ [Next]_vars => NoLostWakeup' /\ Tested'
  <1> SUFFICES ASSUME IInv, NoLostWakeup, Tested, [Next]_vars PROVE NoLostWakeup' /\ Tested'
    OBVIOUS
  <1> USE DEF level_and_sinks, work, history, NoLostWakeup, Tested
  <1>0. pc \in [Threads -> {"out", "push", "notify"}]
    BY DEF IInv, TypeOK
  <1>1. ASSUME NEW t \in Threads, Push(t) PROVE NoLostWakeup' /\ Tested'
    <2>1. pc'[t] = "notify" /\ worker' = worker /\ worker # "block"
      BY <1>0, <1>1 DEF Push, QueueMutexFree
    <2> QED
      BY <2>1
  <1>2. ASSUME NEW t \in Threads, Notify(t) PROVE NoLostWakeup' /\ Tested'
    BY <1>2 DEF Notify
  <1>3. ASSUME NEW t \in Threads, NEW l \in Levels, Log(t, l) PROVE NoLostWakeup' /\ Tested'
    <2>1. \A u \in Threads : pc[u] = "notify" => pc'[u] = "notify"
      BY <1>0, <1>3 DEF Log
    <2> QED
      BY <1>3, <2>1 DEF Log
  <1>4. CASE WorkerTest \/ WorkerBlock \/ SpuriousWake \/ WorkerTake \/ WorkerNext \/ WorkerEnd
    BY <1>4 DEF WorkerTest, WorkerBlock, SpuriousWake, WorkerTake, WorkerNext, WorkerEnd
  <1>5. ASSUME NEW s \in Sinks, WorkerDispatch(s) \/ add_sink(s) PROVE NoLostWakeup' /\ Tested'
    BY <1>5 DEF WorkerDispatch, add_sink
  <1>6. ASSUME NEW next \in {"notify", "flush"}, Shutdown(next) PROVE NoLostWakeup' /\ Tested'
    BY <1>6 DEF Shutdown, QueueMutexFree
  <1>7. CASE ShutdownNotify \/ Join
    BY <1>7 DEF ShutdownNotify, Join
  <1>8. ASSUME NEW l \in Levels, set_level(l) PROVE NoLostWakeup' /\ Tested'
    BY <1>8 DEF set_level
  <1>9. CASE UNCHANGED vars
    BY <1>9 DEF vars
  <1> QED
    BY <1>1, <1>2, <1>3, <1>4, <1>5, <1>6, <1>7, <1>8, <1>9 DEF Next, WorkerStep

(* worker_loop never waits for a notification that has already been given:    *)
(* the safety part of the destructor's return and of the writing of every     *)
(* entry, for any number of threads that log.                                 *)
THEOREM NoLostWakeupCorrect == Spec => []NoLostWakeup
  <1>1. Init => NoLostWakeup /\ Tested
    BY DEF Init, NoLostWakeup, Tested
  <1> QED
    BY <1>1, Invariance, NextNoLostWakeup, PTL DEF Spec
================================================================================
