------------------------------ MODULE MemoryPool ------------------------------
(* The fixed-size block allocator of memory_pool.cpp: an intrusive LIFO free  *)
(* list threaded through the first word of every free block, behind one       *)
(* mutex. A critical section is two steps, so that the mutex matters: the     *)
(* read (or write) of the link in the block, and the move of free_list. A     *)
(* client that holds a block may store anything in it, its first word         *)
(* included. A block is its index: address = pool_data + index * block_size.  *)
EXTENDS Integers, Functions

CONSTANTS
  BlockCount,  \* block_count
  Threads,     \* the threads that call allocate and deallocate
  Null,        \* nullptr
  Junk,        \* the first word of a block that holds client data
  NoThread     \* pool_mutex is not held

Blocks   == 0 .. BlockCount - 1
Pointers == Blocks \cup {Null}
Words    == Pointers \cup {Junk}

\* assert(block_count > 0) of the constructor; the other values are distinct.
ASSUME BlockCountAssumption == BlockCount \in Nat \ {0}
ASSUME DistinctAssumption ==
  /\ Null \notin Blocks
  /\ Junk \notin Pointers
  /\ NoThread \notin Threads

VARIABLES
  free_list,   \* head of the free list
  link,        \* link[b]: the first word of block b
  pool_mutex,  \* the thread that holds pool_mutex, or NoThread
  pc,          \* where each thread is: "idle", or inside a critical section
  arg,         \* allocated_block of allocate, byte_ptr of deallocate
  lent,        \* the blocks the clients hold
  answer       \* what the last allocate of each thread returned

vars == <<free_list, link, pool_mutex, pc, arg, lent, answer>>

(* Mutation: the constructor does not end the chain at the last block. *)
InitChainOpen ==
  /\ free_list = 0
  /\ link = [b \in Blocks |-> b + 1]
  /\ pool_mutex = NoThread
  /\ pc = [t \in Threads |-> "idle"]
  /\ arg = [t \in Threads |-> Null]
  /\ lent = {}
  /\ answer = [t \in Threads |-> Null]

(* The constructor links every block to the next one. *)
Init ==
  /\ free_list = 0
  /\ link = [b \in Blocks |-> IF b = BlockCount - 1 THEN Null ELSE b + 1]
  /\ pool_mutex = NoThread
  /\ pc = [t \in Threads |-> "idle"]
  /\ arg = [t \in Threads |-> Null]
  /\ lent = {}
  /\ answer = [t \in Threads |-> Null]

Enter(t, section) ==
  /\ pc[t] = "idle"
  /\ pool_mutex = NoThread
  /\ pool_mutex' = t
  /\ pc' = [pc EXCEPT ![t] = section]

Leave(t, section) ==
  /\ pc[t] = section
  /\ pool_mutex' = NoThread
  /\ pc' = [pc EXCEPT ![t] = "idle"]

(* allocate() on an empty list. *)
AllocateNull(t) ==
  /\ pc[t] = "idle"
  /\ pool_mutex = NoThread
  /\ free_list = Null
  /\ answer' = [answer EXCEPT ![t] = Null]
  /\ UNCHANGED <<free_list, link, pool_mutex, pc, arg, lent>>

(* Mutation: allocate() without its lock_guard. *)
AllocateHeadUnlocked(t) ==
  /\ pc[t] = "idle"
  /\ free_list # Null
  /\ pc' = [pc EXCEPT ![t] = "unlink"]
  /\ arg' = [arg EXCEPT ![t] = free_list]
  /\ UNCHANGED <<free_list, link, pool_mutex, lent, answer>>

(* allocate(), up to the read of the head. *)
AllocateHead(t) ==
  /\ Enter(t, "unlink")
  /\ free_list # Null
  /\ arg' = [arg EXCEPT ![t] = free_list]
  /\ UNCHANGED <<free_list, link, lent, answer>>

(* allocate(), the rest: free_list moves to the link stored in the head. *)
AllocateUnlink(t) ==
  /\ Leave(t, "unlink")
  /\ free_list' = link[free_list]
  /\ lent' = lent \cup {arg[t]}
  /\ answer' = [answer EXCEPT ![t] = arg[t]]
  /\ UNCHANGED <<link, arg>>

(* deallocate(b), up to the write of the link: blocks travel between threads, *)
(* so any thread may give back any lent block.                                *)
DeallocateLink(t, b) ==
  /\ Enter(t, "push")
  /\ b \in lent
  /\ link' = [link EXCEPT ![b] = free_list]
  /\ arg' = [arg EXCEPT ![t] = b]
  /\ lent' = lent \ {b}
  /\ UNCHANGED <<free_list, answer>>

(* Mutation: the block is freed but the list keeps its old head. *)
DeallocatePushLost(t) ==
  /\ Leave(t, "push")
  /\ UNCHANGED <<free_list, link, arg, lent, answer>>

(* deallocate(b), the rest: b becomes the head. *)
DeallocatePush(t) ==
  /\ Leave(t, "push")
  /\ free_list' = arg[t]
  /\ UNCHANGED <<link, arg, lent, answer>>

(* A client writes its data into a block it holds (placement new). *)
Scribble(b, word) ==
  /\ b \in lent
  /\ link' = [link EXCEPT ![b] = word]
  /\ UNCHANGED <<free_list, pool_mutex, pc, arg, lent, answer>>

Next ==
  \/ \E t \in Threads :
       \/ AllocateNull(t)
       \/ AllocateHead(t)
       \/ AllocateUnlink(t)
       \/ \E b \in Blocks : DeallocateLink(t, b)
       \/ DeallocatePush(t)
  \/ \E b \in Blocks, word \in Words : Scribble(b, word)

Spec == Init /\ [][Next]_vars

--------------------------------------------------------------------------------
(* Every variable of the pool holds a value of its C++ type. *)
TypeOK ==
  /\ free_list \in Words
  /\ link \in [Blocks -> Words]
  /\ pool_mutex \in Threads \cup {NoThread}
  /\ pc \in [Threads -> {"idle", "unlink", "push"}]
  /\ arg \in [Threads -> Pointers]
  /\ lent \in SUBSET Blocks
  /\ answer \in [Threads -> Pointers]

InTransit == {arg[t] : t \in {u \in Threads : pc[u] = "push"}}
FreeSet   == Blocks \ (lent \cup InTransit)

(* s lists the blocks met when the links are followed from free_list. *)
Follows(s, k) ==
  /\ free_list = IF k = 0 THEN Null ELSE s[1]
  /\ \A i \in 1 .. k : link[s[i]] = IF i = k THEN Null ELSE s[i + 1]

(* Following the links from free_list visits every block that no client holds *)
(* exactly once and ends at nullptr, whatever clients write into the blocks   *)
(* they hold. It is what the range assertion of allocate and the thread       *)
(* safety test of the pool look for: no block lost, none listed twice, no     *)
(* cycle, no client data taken for a link.                                    *)
FreeListIntegrity ==
  \E k \in 0 .. BlockCount : \E s \in Bijection(1 .. k, FreeSet) : Follows(s, k)

Promise == INSTANCE BlockPool

(* The pool keeps the promise of BlockPool however the critical sections of   *)
(* the threads interleave: allocate never lends a block that a client still   *)
(* holds, and it answers nullptr only when every block is lent.               *)
KeepsPromise == Promise!Spec
================================================================================
