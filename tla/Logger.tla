-------------------------------- MODULE Logger --------------------------------
(* The Logger: threads that log, the queue of entries, the worker that writes *)
(* them to the sinks, shutdown, and the destructor, which runs at exit. An    *)
(* entry is the number of its push; time stamps and text are left out.        *)
EXTENDS Naturals, Sequences

CONSTANTS
  Threads,    \* the threads that log
  Sinks,
  SocketSinks, \* those that are SocketSinks, the others write to a file or to the console
  Levels,     \* the severities in use, as numbers in the order of the enum
  MaxEntries  \* bound: entries that are queued in a behaviour

ASSUME LoggerAssumption == Levels \subseteq 0 .. 4 /\ MaxEntries \in Nat

(* The last of LogLevel: DEBUG, INFO, WARN, ERROR, MSG_TRAFFIC. *)
MSG_TRAFFIC == 4

VARIABLES
  min_level, sinks,
  queue, stopping,
  pc,              \* a thread in log(): "out", "push", "notify"
  worker,          \* "lock", "block" (holds queue_mutex), "wait", "dispatch", "done"
  entry,           \* the entry the worker holds, a sequence of at most one
  todo,            \* the sinks that have still to get it
  output,          \* what each sink has been given
  main,            \* "out", "notify" in shutdown(); "flush", "join", "gone" in the destructor
  accepted, kept,  \* history: entries queued so far; and before stopping was set
  first            \* history: entries taken from the queue before each sink was added

level_and_sinks == <<min_level, sinks, first>>
work            == <<worker, entry, todo, output>>
history         == <<accepted, kept>>
vars == <<level_and_sinks, queue, stopping, pc, work, main, history>>

Init ==
  /\ min_level = MSG_TRAFFIC /\ sinks = {} /\ first = [s \in Sinks |-> 0]
  /\ queue = <<>> /\ stopping = FALSE
  /\ pc = [t \in Threads |-> "out"]
  /\ worker = "lock" /\ entry = <<>> /\ todo = {}
  /\ output = [s \in Sinks |-> <<>>]
  /\ main = "out"
  /\ accepted = 0 /\ kept = 0

QueueMutexFree == worker # "block"
Logging        == main # "gone"    \* nobody uses the Logger after its destructor

(* No lock is taken, so this must not run while the worker walks the sinks.   *)
add_sink(s) ==
  /\ Logging /\ worker # "dispatch" /\ s \notin sinks
  /\ sinks' = sinks \cup {s}
  /\ first' = [first EXCEPT ![s] = accepted - Len(queue)]
  /\ UNCHANGED <<min_level, queue, stopping, pc, work, main, history>>

set_level(l) ==
  /\ Logging /\ l # min_level
  /\ min_level' = l
  /\ UNCHANGED <<sinks, first, queue, stopping, pc, work, main, history>>

--------------------------------------------------------------------------------
(* log: an entry below min_level goes no further ... *)
Log(t, l) ==
  /\ Logging /\ pc[t] = "out" /\ l >= min_level
  /\ pc' = [pc EXCEPT ![t] = "push"]
  /\ UNCHANGED <<level_and_sinks, queue, stopping, work, main, history>>

(* Mutation: the entry is queued without queue_mutex. *)
PushUnlocked(t) ==
  /\ Logging /\ pc[t] = "push" /\ accepted < MaxEntries
  /\ accepted' = accepted + 1
  /\ queue' = Append(queue, accepted')
  /\ kept' = IF stopping THEN kept ELSE accepted'
  /\ pc' = [pc EXCEPT ![t] = "notify"]
  /\ UNCHANGED <<level_and_sinks, stopping, work, main>>

(* ... the others are queued ... *)
Push(t) ==
  /\ Logging /\ pc[t] = "push" /\ QueueMutexFree /\ accepted < MaxEntries
  /\ accepted' = accepted + 1
  /\ queue' = Append(queue, accepted')
  /\ kept' = IF stopping THEN kept ELSE accepted'
  /\ pc' = [pc EXCEPT ![t] = "notify"]
  /\ UNCHANGED <<level_and_sinks, stopping, work, main>>

(* Mutation: nobody is told. *)
NotifyNobody(t) ==
  /\ Logging /\ pc[t] = "notify"
  /\ pc' = [pc EXCEPT ![t] = "out"]
  /\ UNCHANGED <<level_and_sinks, queue, stopping, work, main, history>>

(* ... and the worker, the only one who waits, is notified after the unlock. *)
Notify(t) ==
  /\ Logging /\ pc[t] = "notify"
  /\ pc' = [pc EXCEPT ![t] = "out"]
  /\ worker' = IF worker = "wait" THEN "lock" ELSE worker
  /\ UNCHANGED <<level_and_sinks, queue, stopping, entry, todo, output, main, history>>

--------------------------------------------------------------------------------
(* worker_loop: the wait, which may end for no reason ... *)
WorkerTest ==
  /\ worker = "lock" /\ ~stopping /\ queue = <<>>
  /\ worker' = "block"
  /\ UNCHANGED <<level_and_sinks, queue, stopping, pc, entry, todo, output, main, history>>

WorkerBlock ==
  /\ worker = "block"
  /\ worker' = "wait"
  /\ UNCHANGED <<level_and_sinks, queue, stopping, pc, entry, todo, output, main, history>>

SpuriousWake ==
  /\ worker = "wait"
  /\ worker' = "lock"
  /\ UNCHANGED <<level_and_sinks, queue, stopping, pc, entry, todo, output, main, history>>

(* Mutation: the newest entry goes first. *)
WorkerTakeLast ==
  /\ worker = "lock" /\ queue # <<>>
  /\ entry' = <<queue[Len(queue)]>> /\ queue' = SubSeq(queue, 1, Len(queue) - 1)
  /\ todo' = sinks /\ worker' = "dispatch"
  /\ UNCHANGED <<level_and_sinks, stopping, pc, output, main, history>>

(* ... the oldest entry ... *)
WorkerTake ==
  /\ worker = "lock" /\ queue # <<>>
  /\ entry' = <<Head(queue)>> /\ queue' = Tail(queue)
  /\ todo' = sinks /\ worker' = "dispatch"
  /\ UNCHANGED <<level_and_sinks, stopping, pc, output, main, history>>

(* log of a FileSink or a ConsoleSink, which flushes, and of a SocketSink,    *)
(* which drops the entry.                                                     *)
StreamLog(s, e) == [output EXCEPT ![s] = Append(@, e)]
SocketLog(s, e) == output

(* ... goes to one sink after the other ... *)
WorkerDispatch(s) ==
  /\ worker = "dispatch" /\ s \in todo
  /\ output' = IF s \in SocketSinks THEN SocketLog(s, Head(entry))
               ELSE StreamLog(s, Head(entry))
  /\ todo' = todo \ {s}
  /\ UNCHANGED <<level_and_sinks, queue, stopping, pc, worker, entry, main, history>>

(* Mutation: the entry is not cleared, and would be written again. *)
WorkerNextKeeps ==
  /\ worker = "dispatch" /\ todo = {}
  /\ worker' = "lock"
  /\ UNCHANGED <<level_and_sinks, queue, stopping, pc, entry, todo, output, main, history>>

WorkerNext ==
  /\ worker = "dispatch" /\ todo = {}
  /\ worker' = "lock" /\ entry' = <<>>
  /\ UNCHANGED <<level_and_sinks, queue, stopping, pc, todo, output, main, history>>

(* Mutation: the loop ends as soon as stopping is set. *)
WorkerEndEarly ==
  /\ worker = "lock" /\ stopping
  /\ worker' = "done"
  /\ UNCHANGED <<level_and_sinks, queue, stopping, pc, entry, todo, output, main, history>>

(* ... until stopping is set and the queue is empty. *)
WorkerEnd ==
  /\ worker = "lock" /\ stopping /\ queue = <<>>
  /\ worker' = "done"
  /\ UNCHANGED <<level_and_sinks, queue, stopping, pc, entry, todo, output, main, history>>

--------------------------------------------------------------------------------
(* Mutation: stopping is set without queue_mutex. *)
ShutdownUnlocked(next) ==
  /\ main = "out"
  /\ stopping' = TRUE /\ main' = next
  /\ UNCHANGED <<level_and_sinks, queue, pc, work, history>>

(* shutdown, called by itself or by the destructor: stopping is set ... *)
Shutdown(next) ==
  /\ main = "out" /\ QueueMutexFree
  /\ stopping' = TRUE /\ main' = next
  /\ UNCHANGED <<level_and_sinks, queue, pc, work, history>>

(* ... and notified after the unlock. *)
ShutdownNotify ==
  /\ main \in {"notify", "flush"}
  /\ main' = IF main = "notify" THEN "out" ELSE "join"
  /\ worker' = IF worker = "wait" THEN "lock" ELSE worker
  /\ UNCHANGED <<level_and_sinks, queue, stopping, pc, entry, todo, output, history>>

(* The destructor joins the worker. *)
Join ==
  /\ main = "join" /\ worker = "done"
  /\ main' = "gone"
  /\ UNCHANGED <<level_and_sinks, queue, stopping, pc, work, history>>

--------------------------------------------------------------------------------
WorkerStep ==
  \/ WorkerTest \/ WorkerBlock \/ WorkerTake \/ WorkerNext \/ WorkerEnd
  \/ \E s \in Sinks : WorkerDispatch(s)

Next ==
  \/ \E s \in Sinks : add_sink(s)
  \/ \E l \in Levels : set_level(l) \/ \E t \in Threads : Log(t, l)
  \/ \E t \in Threads : Push(t) \/ Notify(t)
  \/ WorkerStep \/ SpuriousWake
  \/ \E next \in {"notify", "flush"} : Shutdown(next)
  \/ ShutdownNotify \/ Join

Spec == Init /\ [][Next]_vars

(* The worker is scheduled, and a call in progress goes on. Nobody has to     *)
(* call anything, and a spurious wake-up need not come.                       *)
FairSpec ==
  /\ Spec
  /\ WF_vars(WorkerStep) /\ WF_vars(ShutdownNotify) /\ WF_vars(Join)
  /\ \A t \in Threads : WF_vars(Notify(t))

--------------------------------------------------------------------------------
(* Every variable holds a value of its type; the worker has an entry exactly  *)
(* while it dispatches.                                                       *)
TypeOK ==
  /\ min_level \in Levels \cup {MSG_TRAFFIC} /\ sinks \in SUBSET Sinks
  /\ queue \in Seq(1 .. MaxEntries) /\ stopping \in BOOLEAN
  /\ pc \in [Threads -> {"out", "push", "notify"}]
  /\ worker \in {"lock", "block", "wait", "dispatch", "done"}
  /\ entry \in Seq(1 .. MaxEntries) /\ Len(entry) = IF worker = "dispatch" THEN 1 ELSE 0
  /\ todo \subseteq sinks /\ (worker # "dispatch" => todo = {})
  /\ output \in [Sinks -> Seq(1 .. MaxEntries)]
  /\ main \in {"out", "notify", "flush", "join", "gone"}
  /\ accepted \in 0 .. MaxEntries /\ kept \in 0 .. accepted
  /\ first \in [Sinks -> 0 .. MaxEntries]

Writing == sinks \ SocketSinks

(* No entry is lost, doubled or reordered on its way through the queue and    *)
(* the worker, also for a sink that comes late: what a sink has, what it is   *)
(* about to get and what is queued are together all entries that had not been *)
(* taken when it was added, in the order of their pushes.                     *)
InOrder ==
  \A s \in Writing :
    output[s] \o (IF s \in todo THEN entry ELSE <<>>) \o queue
      = [i \in 1 .. accepted - first[s] |-> first[s] + i]

(* shutdown and the destructor flush: when the worker has ended, every sink   *)
(* has every entry that was queued before stopping was set (and not taken     *)
(* before the sink was added), however the last pushes, the shutdown and the  *)
(* worker interleave.                                                         *)
Flushed ==
  worker = "done" =>
    \A s \in Writing : \A i \in 1 .. kept - first[s] :
      i \in 1 .. Len(output[s]) /\ output[s][i] = first[s] + i

(* The worker never sleeps through what it has to do: whenever it waits with  *)
(* an entry in the queue or stopping set, somebody who has not notified yet   *)
(* is on the way to it. log and shutdown notify only after the unlock, so a   *)
(* notification may well come when the worker is not waiting, and be lost.    *)
NoLostWakeup ==
  worker = "wait" /\ (queue # <<>> \/ stopping) =>
    (\E t \in Threads : pc[t] = "notify") \/ main \in {"notify", "flush"}

(* The worker writes what is queued while the Logger is in use. *)
EntriesWritten ==
  \A i \in 1 .. MaxEntries : \A s \in Sinks \ SocketSinks :
    (s \in sinks /\ kept >= i) ~> (Len(output[s]) >= i - first[s])

(* The destructor ends once no more is logged: the worker never sleeps        *)
(* through the notification of shutdown, which comes after the unlock.        *)
DestructorReturns == main = "flush" ~> main = "gone"
================================================================================
