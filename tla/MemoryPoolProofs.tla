--------------------------- MODULE MemoryPoolProofs ---------------------------
(* Proofs about MemoryPool for every block count and every set of threads.    *)
EXTENDS MemoryPool, FiniteSetTheorems, TLAPS

(* What the thread inside a critical section of pool_mutex knows: an          *)
(* allocation has the head in hand, a deallocation has linked its block, which *)
(* nobody holds any more, in front of the head.                               *)
Locking ==
  \A t \in Threads :
    /\ pc[t] # "idle" => pool_mutex = t
    /\ pc[t] = "unlink" => free_list # Null /\ arg[t] = free_list
    /\ pc[t] = "push" => arg[t] \in Blocks \ lent /\ link[arg[t]] = free_list

IInv == TypeOK /\ Locking /\ FreeListIntegrity

(* An injective listing of blocks is no longer than the pool. *)
LEMMA ChainLength ==
  ASSUME NEW k \in Nat, NEW S \in SUBSET Blocks, NEW s \in Bijection(1 .. k, S)
  PROVE  k \in 0 .. BlockCount
<1>1. s \in Injection(1 .. k, Blocks)
  BY DEF Bijection, Injection
<1>2. IsFiniteSet(Blocks) /\ Cardinality(Blocks) = BlockCount
  BY FS_Interval, BlockCountAssumption DEF Blocks
<1>3. Cardinality(1 .. k) <= Cardinality(Blocks)
  BY <1>1, <1>2, FS_Injection
<1>4. Cardinality(1 .. k) = k
  BY FS_Interval
<1> QED
  BY <1>2, <1>3, <1>4, BlockCountAssumption

(* Two threads are never inside critical sections together. *)
LEMMA Exclusion ==
  ASSUME IInv, NEW t \in Threads, NEW u \in Threads, pc[t] # "idle", pc[u] # "idle"
  PROVE  t = u
BY DEF IInv, Locking

(* While pool_mutex is free no block is on its way back to the list. *)
LEMMA NothingInTransit ==
  ASSUME IInv, pool_mutex = NoThread
  PROVE  InTransit = {}
BY DistinctAssumption DEF IInv, Locking, InTransit

(* The head of the list is nullptr or a block nobody holds, and so is its link. *)
LEMMA HeadIsFree ==
  ASSUME IInv
  PROVE  /\ free_list \in FreeSet \cup {Null}
         /\ free_list # Null => link[free_list] \in FreeSet \cup {Null}
<1> PICK k \in 0 .. BlockCount : \E s \in Bijection(1 .. k, FreeSet) : Follows(s, k)
  BY DEF IInv, FreeListIntegrity
<1> PICK s \in Bijection(1 .. k, FreeSet) : Follows(s, k)
  OBVIOUS
<1> QED
  BY BlockCountAssumption DEF Follows, Bijection, Injection

(* The constructor's chain lists every block once. *)
LEMMA InitIInv == Init => IInv
<1> SUFFICES ASSUME Init PROVE IInv
  OBVIOUS
<1> USE BlockCountAssumption, DistinctAssumption
<1>1. TypeOK
  BY DEF Init, TypeOK, Blocks, Pointers, Words
<1>2. Locking
  BY DEF Init, Locking
<1>3. FreeListIntegrity
  <2> DEFINE s == [i \in 1 .. BlockCount |-> i - 1]
  <2>1. FreeSet = Blocks
    BY DEF Init, FreeSet, InTransit
  <2>2. s \in Bijection(1 .. BlockCount, Blocks)
    <3>1. s \in Injection(1 .. BlockCount, Blocks)
      BY DEF Injection, IsInjective, Blocks
    <3>2. \A b \in Blocks : b + 1 \in 1 .. BlockCount /\ s[b + 1] = b
      BY DEF Blocks
    <3>3. s \in Surjection(1 .. BlockCount, Blocks)
      BY <3>1, <3>2 DEF Injection, Surjection
    <3> QED
      BY <3>1, <3>3 DEF Bijection
  <2>3. Follows(s, BlockCount)
    BY DEF Init, Follows, Blocks
  <2> QED
    BY <2>1, <2>2, <2>3 DEF FreeListIntegrity
<1> QED
  BY <1>1, <1>2, <1>3 DEF IInv

(* The list is untouched when neither the head, nor the free blocks, nor their *)
(* links change.                                                              *)
LEMMA SameList ==
  ASSUME IInv, free_list' = free_list, FreeSet' = FreeSet,
         \A b \in FreeSet : link'[b] = link[b]
  PROVE  FreeListIntegrity'
<1> PICK k \in 0 .. BlockCount : \E s \in Bijection(1 .. k, FreeSet) : Follows(s, k)
  BY DEF IInv, FreeListIntegrity
<1> PICK s \in Bijection(1 .. k, FreeSet) : Follows(s, k)
  OBVIOUS
<1>1. \A i \in 1 .. k : s[i] \in FreeSet
  BY DEF Bijection, Injection
<1>2. Follows(s, k)'
  BY <1>1 DEF Follows
<1> QED
  BY <1>2 DEF FreeListIntegrity

(* allocate drops the head of the list. *)
LEMMA UnlinkList ==
  ASSUME IInv, NEW t \in Threads, AllocateUnlink(t)
  PROVE  FreeListIntegrity'
<1> USE BlockCountAssumption
<1> PICK k \in 0 .. BlockCount : \E s \in Bijection(1 .. k, FreeSet) : Follows(s, k)
  BY DEF IInv, FreeListIntegrity
<1> PICK s \in Bijection(1 .. k, FreeSet) : Follows(s, k)
  OBVIOUS
<1> DEFINE r == [i \in 1 .. k - 1 |-> s[i + 1]]
<1>1. free_list # Null /\ arg[t] = free_list /\ pc[t] = "unlink"
  BY DEF IInv, Locking, AllocateUnlink, Leave
<1>2. k > 0 /\ free_list = s[1]
  BY <1>1 DEF Follows
<1>3. InTransit = {} /\ InTransit' = {}
  BY <1>1, Exclusion DEF InTransit, AllocateUnlink, Leave, IInv, TypeOK
<1>4. FreeSet' = FreeSet \ {s[1]}
  BY <1>1, <1>2, <1>3 DEF FreeSet, AllocateUnlink
<1>5. r \in Bijection(1 .. k - 1, FreeSet')
  <2>1. s \in [1 .. k -> FreeSet] /\ \A i, j \in 1 .. k : s[i] = s[j] => i = j
    BY DEF Bijection, Injection, IsInjective
  <2>2. \A b \in FreeSet : \E i \in 1 .. k : s[i] = b
    BY DEF Bijection, Surjection
  <2>3. r \in Injection(1 .. k - 1, FreeSet')
    BY <1>2, <1>4, <2>1 DEF Injection, IsInjective
  <2>4. \A b \in FreeSet' : \E i \in 1 .. k - 1 : r[i] = b
    <3> TAKE b \in FreeSet'
    <3>1. PICK i \in 1 .. k : s[i] = b /\ i # 1
      BY <1>4, <2>2
    <3> QED
      BY <3>1 , i - 1 \in 1 .. k - 1
  <2> QED
    BY <2>3, <2>4 DEF Bijection, Injection, Surjection
<1>6. Follows(r, k - 1)'
  BY <1>2 DEF Follows, AllocateUnlink
<1> QED
  BY <1>2, <1>5, <1>6 DEF FreeListIntegrity

(* deallocate puts its block in front of the list. *)
LEMMA PushList ==
  ASSUME IInv, NEW t \in Threads, DeallocatePush(t)
  PROVE  FreeListIntegrity'
<1> USE BlockCountAssumption
<1> PICK k \in 0 .. BlockCount : \E s \in Bijection(1 .. k, FreeSet) : Follows(s, k)
  BY DEF IInv, FreeListIntegrity
<1> PICK s \in Bijection(1 .. k, FreeSet) : Follows(s, k)
  OBVIOUS
<1> PICK b : b = arg[t]
  OBVIOUS
<1> DEFINE r == [i \in 1 .. k + 1 |-> IF i = 1 THEN b ELSE s[i - 1]]
<1>1. pc[t] = "push" /\ b \in Blocks \ lent /\ link[b] = free_list
  BY DEF IInv, Locking, DeallocatePush, Leave
<1>2. InTransit = {b} /\ InTransit' = {}
  BY <1>1, Exclusion DEF InTransit, DeallocatePush, Leave, IInv, TypeOK
<1>3. FreeSet' = FreeSet \cup {b} /\ b \notin FreeSet
  BY <1>1, <1>2 DEF FreeSet, DeallocatePush
<1>4. r \in Bijection(1 .. k + 1, FreeSet')
  <2>1. s \in [1 .. k -> FreeSet] /\ \A i, j \in 1 .. k : s[i] = s[j] => i = j
    BY DEF Bijection, Injection, IsInjective
  <2>2. \A c \in FreeSet : \E i \in 1 .. k : s[i] = c
    BY DEF Bijection, Surjection
  <2>3. r \in [1 .. k + 1 -> FreeSet']
    BY <1>3, <2>1
  <2>4. \A i, j \in 1 .. k + 1 : r[i] = r[j] => i = j
    BY <1>3, <2>1
  <2>5. \A c \in FreeSet' : \E i \in 1 .. k + 1 : r[i] = c
    <3> TAKE c \in FreeSet'
    <3>1. CASE c = b
      BY <3>1, 1 \in 1 .. k + 1, r[1] = b
    <3>2. CASE c # b
      <4>1. PICK i \in 1 .. k : s[i] = c
        BY <1>3, <2>2, <3>2
      <4> QED
        BY <4>1, i + 1 \in 1 .. k + 1, r[i + 1] = c
    <3> QED
      BY <3>1, <3>2
  <2> QED
    BY <2>3, <2>4, <2>5 DEF Bijection, Injection, Surjection, IsInjective
<1>5. k + 1 \in 0 .. BlockCount
  BY <1>4, ChainLength DEF FreeSet
<1>6. Follows(r, k + 1)'
  <2>1. free_list' = r[1]
    BY DEF DeallocatePush
  <2>2. link[r[1]] = IF k = 0 THEN Null ELSE r[2]
    BY <1>1 DEF Follows
  <2>3. \A i \in 2 .. k + 1 : link[r[i]] = IF i = k + 1 THEN Null ELSE r[i + 1]
    BY DEF Follows
  <2> HIDE DEF r
  <2>4. \A i \in 1 .. k + 1 : link[r[i]] = IF i = k + 1 THEN Null ELSE r[i + 1]
    BY <2>2, <2>3
  <2> QED
    BY <2>1, <2>4 DEF Follows, DeallocatePush
<1> QED
  BY <1>4, <1>5, <1>6 DEF FreeListIntegrity

(* Every step keeps the inductive invariant. *)
LEMMA NextIInv == IInv /\ [Next]_vars => IInv'
<1> SUFFICES ASSUME IInv, [Next]_vars PROVE IInv'
  OBVIOUS
<1> USE DistinctAssumption
<1>1. TypeOK /\ Locking
  BY DEF IInv
<1>2. ASSUME NEW t \in Threads, AllocateNull(t) PROVE IInv'
  <2>1. TypeOK'
    BY <1>1, <1>2 DEF TypeOK, AllocateNull, Pointers
  <2>2. Locking'
    BY <1>1, <1>2 DEF Locking, AllocateNull
  <2>3. FreeListIntegrity'
    BY <1>2, SameList DEF AllocateNull, FreeSet, InTransit
  <2> QED
    BY <2>1, <2>2, <2>3 DEF IInv
<1>3. ASSUME NEW t \in Threads, AllocateHead(t) PROVE IInv'
  <2>1. TypeOK'
    BY <1>1, <1>3, HeadIsFree DEF TypeOK, AllocateHead, Enter, FreeSet, Pointers
  <2>2. Locking'
    BY <1>1, <1>3 DEF TypeOK, Locking, AllocateHead, Enter
  <2>3. InTransit = {} /\ InTransit' = {}
    BY <1>1, <1>3, NothingInTransit, <2>2 DEF TypeOK, Locking, AllocateHead, Enter, InTransit
  <2>4. FreeListIntegrity'
    BY <1>3, <2>3, SameList DEF AllocateHead, FreeSet
  <2> QED
    BY <2>1, <2>2, <2>4 DEF IInv
<1>4. ASSUME NEW t \in Threads, AllocateUnlink(t) PROVE IInv'
  <2>1. pc[t] = "unlink" /\ free_list # Null /\ arg[t] = free_list
    BY <1>1, <1>4 DEF Locking, AllocateUnlink, Leave
  <2>2. TypeOK'
    BY <1>1, <1>4, <2>1, HeadIsFree DEF TypeOK, AllocateUnlink, Leave, FreeSet, Pointers, Words
  <2>3. Locking'
    BY <1>1, <1>4, <2>1, Exclusion DEF TypeOK, Locking, AllocateUnlink, Leave
  <2> QED
    BY <1>4, <2>2, <2>3, UnlinkList DEF IInv
<1>5. ASSUME NEW t \in Threads, NEW b \in Blocks, DeallocateLink(t, b) PROVE IInv'
  <2>1. TypeOK'
    BY <1>1, <1>5, HeadIsFree DEF TypeOK, DeallocateLink, Enter, FreeSet, Pointers, Words
  <2>2. Locking'
    BY <1>1, <1>5 DEF TypeOK, Locking, DeallocateLink, Enter
  <2>3. InTransit = {} /\ InTransit' = {b}
    BY <1>1, <1>5, NothingInTransit DEF TypeOK, Locking, DeallocateLink, Enter, InTransit
  <2>4. FreeListIntegrity'
    BY <1>1, <1>5, <2>3, SameList DEF TypeOK, DeallocateLink, FreeSet
  <2> QED
    BY <2>1, <2>2, <2>4 DEF IInv
<1>6. ASSUME NEW t \in Threads, DeallocatePush(t) PROVE IInv'
  <2>1. TypeOK'
    BY <1>1, <1>6 DEF TypeOK, DeallocatePush, Leave, Pointers, Words
  <2>2. Locking'
    BY <1>1, <1>6, Exclusion DEF TypeOK, Locking, DeallocatePush, Leave
  <2> QED
    BY <1>6, <2>1, <2>2, PushList DEF IInv
<1>7. ASSUME NEW b \in Blocks, NEW word \in Words, Scribble(b, word) PROVE IInv'
  <2>1. TypeOK'
    BY <1>1, <1>7 DEF TypeOK, Scribble
  <2>2. Locking'
    BY <1>1, <1>7 DEF TypeOK, Locking, Scribble
  <2>3. FreeListIntegrity'
    BY <1>1, <1>7, SameList DEF TypeOK, Scribble, FreeSet, InTransit
  <2> QED
    BY <2>1, <2>2, <2>3 DEF IInv
<1>8. CASE UNCHANGED vars
  BY <1>8, SameList DEF vars, IInv, TypeOK, Locking, FreeSet, InTransit
<1> QED
  BY <1>2, <1>3, <1>4, <1>5, <1>6, <1>7, <1>8 DEF Next

(* The strengthened invariant of the pool holds in every reachable state. *)
THEOREM Invariance == Spec => []IInv
BY InitIInv, NextIInv, PTL DEF Spec

(* Every variable keeps its type, the head of the free list included. *)
THEOREM TypeCorrect == Spec => []TypeOK
BY Invariance, PTL DEF IInv

(* The free list stays a simple chain of exactly the blocks nobody holds. *)
THEOREM FreeListCorrect == Spec => []FreeListIntegrity
BY Invariance, PTL DEF IInv

(* MemoryPool implements BlockPool: no block is lent twice, and nullptr means *)
(* that every block is lent.                                                  *)
THEOREM PoolKeepsPromise == Spec => KeepsPromise
<1>1. Init => Promise!Init
  BY DEF Init, Promise!Init
<1>2. IInv /\ [Next]_vars => [Promise!Next]_(Promise!vars)
  <2> SUFFICES ASSUME IInv, [Next]_vars PROVE [Promise!Next]_(Promise!vars)
    OBVIOUS
  <2>1. ASSUME NEW t \in Threads, AllocateNull(t) PROVE Promise!AllocateFails(t)
    <3>1. InTransit = {}
      BY <2>1, NothingInTransit DEF AllocateNull
    <3>2. FreeSet = {}
      BY <2>1, DistinctAssumption DEF IInv, FreeListIntegrity, Follows, AllocateNull,
         Bijection, Injection, Surjection, FreeSet
    <3> QED
      BY <2>1, <3>1, <3>2 DEF IInv, TypeOK, FreeSet, AllocateNull, Promise!AllocateFails
  <2>2. ASSUME NEW t \in Threads, AllocateUnlink(t)
        PROVE  arg[t] \in Blocks /\ Promise!Allocate(t, arg[t])
    <3>1. arg[t] \in FreeSet
      BY <2>2, HeadIsFree DEF IInv, Locking, AllocateUnlink, Leave
    <3> QED
      BY <2>2, <3>1 DEF FreeSet, AllocateUnlink, Promise!Allocate
  <2>3. ASSUME NEW t \in Threads, NEW b \in Blocks, DeallocateLink(t, b)
        PROVE  Promise!Deallocate(b)
    BY <2>3 DEF DeallocateLink, Promise!Deallocate
  <2>4. ASSUME NEW t \in Threads, AllocateHead(t) \/ DeallocatePush(t)
        PROVE  UNCHANGED Promise!vars
    BY <2>4 DEF AllocateHead, DeallocatePush, Promise!vars
  <2>5. ASSUME NEW b \in Blocks, NEW word \in Words, Scribble(b, word)
        PROVE  UNCHANGED Promise!vars
    BY <2>5 DEF Scribble, Promise!vars
  <2>6. CASE UNCHANGED vars
    BY <2>6 DEF vars, Promise!vars
  <2> QED
    BY <2>1, <2>2, <2>3, <2>4, <2>5, <2>6 DEF Next, Promise!Next
<1> QED
  BY <1>1, <1>2, Invariance, PTL DEF Spec, KeepsPromise, Promise!Spec
================================================================================
