------------------------------ MODULE Selection ------------------------------
(* The messages of one type in a queue, in their order: what SelectSeq gives  *)
(* for a test of the type, written without recursion so that one can reason   *)
(* about it. A message is found by how many of its type come up to it.        *)
EXTENDS Integers, Sequences, FiniteSets

(* The queue without its i-th message (RemoveAt of SequencesExt; that module  *)
(* would weigh on every step of the proofs).                                  *)
Without(q, i) == SubSeq(q, 1, i - 1) \o SubSeq(q, i + 1, Len(q))

(* Where the messages of a type are. *)
Places(q, type) == {i \in 1 .. Len(q) : q[i].type = type}

(* How many of the places P come up to i. *)
Rank(P, i) == Cardinality({j \in P : j <= i})

(* The n-th of the places P. *)
Nth(P, n) == CHOOSE i \in P : Rank(P, i) = n

OfType(q, type) ==
  [n \in 1 .. Cardinality(Places(q, type)) |-> q[Nth(Places(q, type), n)]]
================================================================================
