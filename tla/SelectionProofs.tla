--------------------------- MODULE SelectionProofs ---------------------------
(* What OfType gives for a queue that one message is appended to, and for one *)
(* that the first message of a type is taken from. The numbers that Rank      *)
(* gives to the places are 1, 2, ... without a gap, by the pigeonhole         *)
(* principle; that takes the place of an induction over the queue.            *)
EXTENDS Selection, FiniteSetTheorems, TLAPS

(* The places of a queue are finitely many. *)
LEMMA PlacesFinite ==
  ASSUME NEW L \in Nat, NEW P \in SUBSET (1 .. L)
  PROVE  /\ IsFiniteSet(P) /\ Cardinality(P) \in Nat
         /\ \A i : IsFiniteSet({j \in P : j <= i}) /\ Rank(P, i) \in Nat
  <1>1. IsFiniteSet(P)
    <2>1. 1 \in Int /\ L \in Int
      OBVIOUS
    <2>2. IsFiniteSet(1 .. L)
      BY ONLY <2>1, FS_Interval
    <2> QED
      BY <2>2, FS_Subset
  <1>2. \A i : IsFiniteSet({j \in P : j <= i})
    BY <1>1, FS_Subset
  <1> QED
    BY <1>1, <1>2, FS_CardinalityType, Zenon DEF Rank

(* A place further on has a higher rank, and no rank exceeds the number of    *)
(* places.                                                                    *)
LEMMA RankGrows ==
  ASSUME NEW L \in Nat, NEW P \in SUBSET (1 .. L), NEW i \in P
  PROVE  /\ Rank(P, i) \in 1 .. Cardinality(P)
         /\ \A j \in P : i < j => Rank(P, i) < Rank(P, j)
  <1>0. i \in Int /\ \A k \in P : k \in Int
    OBVIOUS
  <1> DEFINE U(k) == {j \in P : j <= k}
  <1>1. /\ IsFiniteSet(P) /\ Cardinality(P) \in Nat
        /\ \A k : IsFiniteSet(U(k)) /\ Rank(P, k) \in Nat /\ Rank(P, k) = Cardinality(U(k))
    BY PlacesFinite, Zenon DEF Rank
  <1>2. Rank(P, i) <= Cardinality(P)
    <2>1. U(i) \in SUBSET P
      OBVIOUS
    <2> HIDE DEF U
    <2> QED
      BY <1>1, <2>1, FS_Subset
  <1>3. Rank(P, i) # 0
    BY <1>0, <1>1, FS_EmptySet, i \in U(i)
  <1>4. ASSUME NEW j \in P, i < j PROVE Rank(P, i) < Rank(P, j)
    <2>1. U(i) \in SUBSET U(j) /\ j \in U(j) /\ j \notin U(i)
      <3>1. j <= j /\ ~(j <= i) /\ \A k \in P : k <= i => k <= j
        BY <1>0, <1>4
      <3> QED
        BY <3>1, Zenon
    <2> HIDE DEF U
    <2>2. Cardinality(U(i)) <= Cardinality(U(j)) /\ Cardinality(U(j)) # Cardinality(U(i))
      BY <1>1, <2>1, FS_Subset
    <2> QED
      BY <1>1, <2>2
  <1>5. Rank(P, i) \in 1 .. Cardinality(P)
    <2>1. Rank(P, i) \in Nat /\ Cardinality(P) \in Nat
      BY <1>1
    <2> QED
      BY ONLY <1>2, <1>3, <2>1
  <1> QED
    BY <1>4, <1>5

(* The ranks number the places: Nth undoes Rank, and Rank undoes Nth.         *)
LEMMA Numbering ==
  ASSUME NEW L \in Nat, NEW P \in SUBSET (1 .. L)
  PROVE  /\ \A n \in 1 .. Cardinality(P) : Nth(P, n) \in P /\ Rank(P, Nth(P, n)) = n
         /\ \A i \in P : Nth(P, Rank(P, i)) = i
  <1>0. IsFiniteSet(P) /\ Cardinality(P) \in Nat /\ \A k \in P : k \in Int
    BY PlacesFinite
  <1>1. \A i, j \in P : Rank(P, i) = Rank(P, j) => i = j
    <2> SUFFICES ASSUME NEW i \in P, NEW j \in P, Rank(P, i) = Rank(P, j) PROVE i = j
      OBVIOUS
    <2>1. (i < j => Rank(P, i) < Rank(P, j)) /\ (j < i => Rank(P, j) < Rank(P, i))
      BY RankGrows, Zenon
    <2>2. Rank(P, i) \in Nat /\ Rank(P, j) \in Nat /\ i \in Int /\ j \in Int
      BY <1>0, PlacesFinite
    <2> QED
      BY ONLY Rank(P, i) = Rank(P, j), <2>1, <2>2
  <1> DEFINE f == [i \in P |-> Rank(P, i)]
  <1>2. f \in Injection(P, 1 .. Cardinality(P))
    BY <1>1, RankGrows DEF Injection, IsInjective
  <1>3. IsFiniteSet(1 .. Cardinality(P)) /\ Cardinality(1 .. Cardinality(P)) = Cardinality(P)
    BY <1>0, FS_Interval
  <1> HIDE DEF f
  <1>4. f \in Surjection(P, 1 .. Cardinality(P))
    BY <1>2, <1>3, FS_Injection
  <1>5. \A n \in 1 .. Cardinality(P) : \E i \in P : Rank(P, i) = n
    BY <1>4 DEF Surjection, f
  <1>6. \A n \in 1 .. Cardinality(P) : Nth(P, n) \in P /\ Rank(P, Nth(P, n)) = n
    BY <1>5 DEF Nth
  <1>7. \A i \in P : Nth(P, Rank(P, i)) = i
    BY <1>1, <1>6, RankGrows
  <1> QED
    BY <1>6, <1>7

(* s lists the messages of a type, the n-th of which is at f[n]. *)
Lists(s, f, q, type) ==
  /\ f \in [1 .. Len(s) -> Places(q, type)]
  /\ \A n, m \in 1 .. Len(s) : n < m => f[n] < f[m]
  /\ \A i \in Places(q, type) : \E n \in 1 .. Len(s) : f[n] = i
  /\ \A n \in 1 .. Len(s) : s[n] = q[f[n]]

(* A sequence that lists the messages of a type in the order of their places  *)
(* is the one that OfType gives.                                              *)
LEMMA Listing ==
  ASSUME NEW S, NEW q \in Seq(S), NEW type, NEW s \in Seq(S), NEW f, Lists(s, f, q, type)
  PROVE  s = OfType(q, type)
  <1> USE DEF Lists
  <1> DEFINE P == Places(q, type)
  <1> DEFINE l == Len(s)
  <1>0. Len(q) \in Nat /\ P \in SUBSET (1 .. Len(q)) /\ l \in Nat /\ \A i \in P : i \in Int
    BY DEF Places
  <1> HIDE DEF P
  <1>1. \A n, m \in 1 .. l : f[n] <= f[m] <=> n <= m
    <2> SUFFICES ASSUME NEW n \in 1 .. l, NEW m \in 1 .. l PROVE f[n] <= f[m] <=> n <= m
      OBVIOUS
    <2>1. f[n] \in Int /\ f[m] \in Int /\ n \in Int /\ m \in Int
      BY <1>0 DEF P
    <2>2. (n < m => f[n] < f[m]) /\ (m < n => f[m] < f[n]) /\ (n = m => f[n] = f[m])
      OBVIOUS
    <2> QED
      BY ONLY <2>1, <2>2
  <1>2. \A n, m \in 1 .. l : f[n] = f[m] => n = m
    <2> SUFFICES ASSUME NEW n \in 1 .. l, NEW m \in 1 .. l, f[n] = f[m] PROVE n = m
      OBVIOUS
    <2>1. f[n] \in Int /\ n \in Int /\ m \in Int
      BY <1>0 DEF P
    <2>2. n <= m /\ m <= n
      BY <1>1, <2>1
    <2> QED
      BY ONLY <2>1, <2>2
  <1>3. ASSUME NEW n \in 1 .. l PROVE Rank(P, f[n]) = n
    <2> DEFINE g == [k \in 1 .. n |-> f[k]]
    <2> DEFINE U == {j \in P : j <= f[n]}
    <2>1. n \in Nat /\ 1 .. n \subseteq 1 .. l
      BY <1>0
    <2>2. g \in [1 .. n -> U]
      BY <1>1, <2>1 DEF P
    <2>3. \A k, m \in 1 .. n : g[k] = g[m] => k = m
      BY <1>2, <2>1
    <2>4. \A j \in U : \E k \in 1 .. n : g[k] = j
      <3> SUFFICES ASSUME NEW j \in U PROVE \E k \in 1 .. n : g[k] = j
        OBVIOUS
      <3>1. PICK k \in 1 .. l : f[k] = j
        BY DEF P
      <3>2. k <= n
        BY <1>1, <3>1
      <3>3. k \in 1 .. n
        BY <3>2, <2>1
      <3> QED
        BY <3>1, <3>3
    <2>5. ExistsBijection(1 .. n, U)
      <3> HIDE DEF g, U
      <3> QED
        BY <2>2, <2>3, <2>4, SMTT(20) DEF ExistsBijection, Bijection, Injection, Surjection, IsInjective
    <2> HIDE DEF U
    <2>6. Cardinality(U) = n
      BY <2>1, <2>5, FS_CountingElements
    <2> QED
      BY <2>6 DEF Rank, U
  <1>4. Cardinality(P) = l
    <2>1. ExistsBijection(1 .. l, P)
      <3> HIDE DEF l
      <3>1. f \in [1 .. l -> P] /\ \A i \in P : \E n \in 1 .. l : f[n] = i
        BY DEF P, l
      <3> QED
        BY ONLY <1>2, <3>1 DEF ExistsBijection, Bijection, Injection, Surjection, IsInjective
    <2> QED
      BY <1>0, <2>1, FS_CountingElements
  <1>5. \A n \in 1 .. l : Nth(P, n) = f[n]
    <2>1. \A n \in 1 .. l : f[n] \in P
      BY DEF P
    <2>2. \A i \in P : Nth(P, Rank(P, i)) = i
      BY <1>0, Numbering
    <2> QED
      BY ONLY <1>3, <2>1, <2>2
  <1>6. OfType(q, type) = [n \in 1 .. l |-> s[n]]
    <2>1. OfType(q, type) = [n \in 1 .. Cardinality(P) |-> q[Nth(P, n)]]
      BY DEF OfType, P
    <2> QED
      BY <1>4, <1>5, <2>1
  <1> QED
    BY <1>6

(* What Listing needs is what OfType has: it is a sequence, as long as there  *)
(* are places, and runs through them in their order.                          *)
LEMMA Listed ==
  ASSUME NEW S, NEW q \in Seq(S), NEW type, NEW P, P = Places(q, type),
         NEW s, s = OfType(q, type)
  PROVE  /\ s \in Seq(S) /\ Len(s) = Cardinality(P) /\ Len(s) \in Nat
         /\ P \in SUBSET (1 .. Len(q)) /\ Len(q) \in Nat
         /\ \A n \in 1 .. Len(s) : Nth(P, n) \in P /\ s[n] = q[Nth(P, n)]
         /\ \A n, m \in 1 .. Len(s) : n < m => Nth(P, n) < Nth(P, m)
         /\ \A i \in P : Rank(P, i) \in 1 .. Len(s) /\ Nth(P, Rank(P, i)) = i
  <1> DEFINE c == Cardinality(P)
  <1>0. /\ Len(q) \in Nat /\ P \in SUBSET (1 .. Len(q)) /\ \A i \in P : i \in Int /\ q[i] \in S
        /\ s = [n \in 1 .. c |-> q[Nth(P, n)]]
    BY DEF Places, OfType
  <1>1. c \in Nat
    BY <1>0, PlacesFinite
  <1>2. \A n \in 1 .. c : Nth(P, n) \in P /\ Rank(P, Nth(P, n)) = n
    BY <1>0, Numbering
  <1>3. \A i \in P : Rank(P, i) \in 1 .. c /\ Nth(P, Rank(P, i)) = i
    BY <1>0, Numbering, RankGrows
  <1>4. s \in Seq(S) /\ Len(s) = c
    <2>1. \A n \in 1 .. c : q[Nth(P, n)] \in S
      BY <1>0, <1>2
    <2>2. s \in [1 .. c -> S]
      BY ONLY <1>0, <2>1
    <2> HIDE DEF c
    <2> QED
      BY ONLY <1>1, <2>2
  <1>5. ASSUME NEW n \in 1 .. c, NEW m \in 1 .. c, n < m PROVE Nth(P, n) < Nth(P, m)
    <2>1. /\ Nth(P, n) \in P /\ Rank(P, Nth(P, n)) = n
          /\ Nth(P, m) \in P /\ Rank(P, Nth(P, m)) = m
      BY <1>2
    <2>2. Nth(P, m) < Nth(P, n) => m < n
      BY <1>0, <2>1, RankGrows
    <2>3. Nth(P, m) = Nth(P, n) => m = n
      BY <2>1
    <2>4. Nth(P, n) \in Int /\ Nth(P, m) \in Int
      BY <1>0, <2>1
    <2>5. n \in Int /\ m \in Int
      BY <1>1
    <2> QED
      BY ONLY <2>2, <2>3, <2>4, <2>5, n < m
  <1>6. \A n \in 1 .. c : s[n] = q[Nth(P, n)]
    BY <1>0
  <1> HIDE DEF c
  <1> QED
    BY <1>0, <1>1, <1>2, <1>3, <1>4, <1>5, <1>6 DEF c

(* A message of another type, appended, changes nothing; one of the type is   *)
(* appended to those of its type.                                             *)
LEMMA OfTypeAppend ==
  ASSUME NEW S, NEW q \in Seq(S), NEW x \in S, NEW type
  PROVE  OfType(Append(q, x), type) =
           IF x.type = type THEN Append(OfType(q, type), x) ELSE OfType(q, type)
  <1> DEFINE P == Places(q, type)
  <1> DEFINE s == OfType(q, type)
  <1> DEFINE r == Append(q, x)
  <1> DEFINE R == Places(r, type)
  <1> DEFINE L == Len(q)
  <1>1. /\ s \in Seq(S) /\ Len(s) \in Nat /\ P \in SUBSET (1 .. L) /\ L \in Nat
        /\ \A n \in 1 .. Len(s) : Nth(P, n) \in P /\ s[n] = q[Nth(P, n)]
        /\ \A n, m \in 1 .. Len(s) : n < m => Nth(P, n) < Nth(P, m)
        /\ \A i \in P : Rank(P, i) \in 1 .. Len(s) /\ Nth(P, Rank(P, i)) = i
    BY Listed
  <1>2. /\ r \in Seq(S) /\ Len(r) = L + 1
        /\ \A i \in 1 .. L : r[i] = q[i]
        /\ r[L + 1] = x
    OBVIOUS
  <1>3. R = P \cup (IF x.type = type THEN {L + 1} ELSE {})
    <2> HIDE DEF r
    <2>1. \A i \in 1 .. L + 1 : i \in 1 .. L \/ i = L + 1
      BY <1>1
    <2>2. \A i \in 1 .. L : i \in 1 .. L + 1 /\ i # L + 1
      BY <1>1
    <2>3. L + 1 \in 1 .. L + 1
      BY <1>1
    <2> HIDE DEF L
    <2>4. P = {i \in 1 .. L : q[i].type = type} /\ R = {i \in 1 .. L + 1 : r[i].type = type}
      BY <1>2 DEF Places, L
    <2> QED
      BY <1>2, <2>1, <2>2, <2>3, <2>4
  <1> HIDE DEF P, R, s, r, L
  <1>4. CASE x.type # type
    <2> DEFINE f == [n \in 1 .. Len(s) |-> Nth(P, n)]
    <2>1. R = P
      BY <1>3, <1>4
    <2>2. f \in [1 .. Len(s) -> R]
      BY <1>1, <2>1
    <2>3. \A n, m \in 1 .. Len(s) : n < m => f[n] < f[m]
      BY <1>1
    <2>4. \A i \in R : \E n \in 1 .. Len(s) : f[n] = i
      BY <1>1, <2>1
    <2>5. \A n \in 1 .. Len(s) : s[n] = r[f[n]]
      BY <1>1, <1>2
    <2> HIDE DEF f
    <2>6. s = OfType(r, type)
      <3>1. Lists(s, f, r, type)
        BY <2>2, <2>3, <2>4, <2>5 DEF Lists, R
      <3> QED
        BY <1>1, <1>2, <3>1, Listing
    <2> QED
      BY <1>4, <2>6 DEF s, r
  <1>5. CASE x.type = type
    <2> DEFINE t == Append(s, x)
    <2> DEFINE k == Len(s)
    <2> DEFINE f == [n \in 1 .. k + 1 |-> IF n = k + 1 THEN L + 1 ELSE Nth(P, n)]
    <2>1. R = P \cup {L + 1}
      BY <1>3, <1>5
    <2>2. t \in Seq(S) /\ Len(t) = k + 1 /\ (\A n \in 1 .. k : t[n] = s[n]) /\ t[k + 1] = x
      BY <1>1
    <2>3. /\ k \in Nat /\ \A n \in 1 .. k + 1 : n = k + 1 \/ n \in 1 .. k
          /\ \A n \in 1 .. k : n # k + 1 /\ n \in 1 .. k + 1
          /\ k + 1 \in 1 .. k + 1
      BY <1>1
    <2> HIDE DEF k, t
    <2>4. f \in [1 .. k + 1 -> R]
      BY <1>1, <2>1, <2>3 DEF k
    <2>5. ASSUME NEW n \in 1 .. k + 1, NEW m \in 1 .. k + 1, n < m PROVE f[n] < f[m]
      <3>1. n \in 1 .. k /\ f[n] = Nth(P, n) /\ Nth(P, n) \in 1 .. L
        <4>1. n \in Int /\ m \in Int /\ m <= k + 1
          BY <2>3
        <4>2. n # k + 1
          BY ONLY <2>3, <2>5, <4>1
        <4> QED
          BY <1>1, <2>3, <4>2 DEF k
      <3>2. CASE m = k + 1
        BY <1>1, <3>1, <3>2
      <3>3. CASE m \in 1 .. k
        BY <1>1, <2>3, <2>5, <3>1, <3>3 DEF k
      <3> QED
        BY <2>3, <3>2, <3>3
    <2>6. \A i \in R : \E n \in 1 .. k + 1 : f[n] = i
      <3> SUFFICES ASSUME NEW i \in R PROVE \E n \in 1 .. k + 1 : f[n] = i
        OBVIOUS
      <3>1. CASE i = L + 1
        BY <2>3, <3>1
      <3>2. CASE i \in P
        BY <1>1, <2>3, <3>2 DEF k
      <3> QED
        BY <2>1, <3>1, <3>2
    <2>7. \A n \in 1 .. k + 1 : t[n] = r[f[n]]
      <3>1. \A n \in 1 .. k : t[n] = r[f[n]]
        BY <1>1, <1>2, <2>2, <2>3 DEF k
      <3>2. t[k + 1] = r[f[k + 1]]
        BY <1>2, <2>2, <2>3
      <3> QED
        BY <2>3, <3>1, <3>2, Zenon
    <2> HIDE DEF f
    <2>8. t = OfType(r, type)
      <3>1. Lists(t, f, r, type)
        BY <2>2, <2>4, <2>5, <2>6, <2>7 DEF Lists, R
      <3> QED
        BY <1>2, <2>2, <3>1, Listing
    <2> QED
      BY <1>5, <2>8 DEF t, s, r
  <1> QED
    BY <1>4, <1>5

(* What concatenation does. *)
LEMMA ConcatFacts ==
  ASSUME NEW S, NEW p \in Seq(S), NEW q \in Seq(S)
  PROVE  /\ p \o q \in Seq(S) /\ Len(p \o q) = Len(p) + Len(q)
         /\ \A i \in 1 .. Len(p) : (p \o q)[i] = p[i]
         /\ \A i \in 1 .. Len(q) : (p \o q)[Len(p) + i] = q[i]
  OBVIOUS

(* Taking a message out of a queue leaves a queue that is shorter by one, in  *)
(* which the later ones have moved up.                                        *)
LEMMA RemoveFacts ==
  ASSUME NEW S, NEW q \in Seq(S), NEW i \in 1 .. Len(q)
  PROVE  /\ Without(q, i) \in Seq(S) /\ Len(Without(q, i)) = Len(q) - 1 /\ q[i] \in S
         /\ \A j \in 1 .. i - 1 : Without(q, i)[j] = q[j]
         /\ \A j \in i .. Len(q) - 1 : Without(q, i)[j] = q[j + 1]
  <1> DEFINE a == SubSeq(q, 1, i - 1)
  <1> DEFINE b == SubSeq(q, i + 1, Len(q))
  <1>0. q[i] \in S /\ Len(q) \in Nat /\ i \in Nat
    OBVIOUS
  <1>1. a \in Seq(S) /\ Len(a) = i - 1 /\ \A j \in 1 .. i - 1 : a[j] = q[j]
    OBVIOUS
  <1>2. b \in Seq(S) /\ Len(b) = Len(q) - i /\ \A j \in 1 .. Len(q) - i : b[j] = q[i + j]
    OBVIOUS
  <1>3. Without(q, i) = a \o b
    BY DEF Without
  <1> HIDE DEF a, b
  <1>4. /\ a \o b \in Seq(S) /\ Len(a \o b) = Len(a) + Len(b)
        /\ \A j \in 1 .. Len(a) : (a \o b)[j] = a[j]
        /\ \A j \in 1 .. Len(b) : (a \o b)[Len(a) + j] = b[j]
    <2>1. a \in Seq(S) /\ b \in Seq(S)
      BY <1>1, <1>2
    <2> QED
      BY ONLY <2>1, ConcatFacts
  <1>5. Len(a \o b) = Len(q) - 1
    BY ONLY <1>0, <1>1, <1>2, <1>4
  <1>6. ASSUME NEW j \in i .. Len(q) - 1 PROVE (a \o b)[j] = q[j + 1]
    <2>1. j - i + 1 \in 1 .. Len(q) - i /\ j = (i - 1) + (j - i + 1) /\ i + (j - i + 1) = j + 1
      BY <1>0
    <2>2. (a \o b)[(i - 1) + (j - i + 1)] = b[j - i + 1] /\ b[j - i + 1] = q[i + (j - i + 1)]
      BY ONLY <1>1, <1>2, <1>4, <2>1
    <2> QED
      BY ONLY <2>1, <2>2
  <1> QED
    BY <1>0, <1>1, <1>3, <1>4, <1>5, <1>6

(* Where the message at m is once the one at i is gone. *)
Down(i, m) == IF m < i THEN m ELSE m - 1

(* The places of a type, the removed one excepted, move up in their order.    *)
LEMMA RemovePlaces ==
  ASSUME NEW S, NEW q \in Seq(S), NEW i \in 1 .. Len(q), NEW type,
         NEW r, r = Without(q, i), NEW P, P = Places(q, type) \ {i}
  PROVE  /\ \A m \in P : Down(i, m) \in Places(r, type) /\ r[Down(i, m)] = q[m]
         /\ \A j \in Places(r, type) : \E m \in P : Down(i, m) = j
         /\ \A m, o \in P : m < o => Down(i, m) < Down(i, o)
  <1> DEFINE L == Len(q)
  <1>1. /\ Len(r) = L - 1
        /\ \A j \in 1 .. i - 1 : r[j] = q[j]
        /\ \A j \in i .. L - 1 : r[j] = q[j + 1]
    BY RemoveFacts
  <1>2. L \in Nat /\ i \in 1 .. L
    OBVIOUS
  <1> HIDE DEF L
  <1>3. ASSUME NEW m \in P PROVE Down(i, m) \in Places(r, type) /\ r[Down(i, m)] = q[m]
    <2>1. m \in 1 .. L /\ m # i /\ q[m].type = type
      BY DEF Places, L
    <2>2. CASE m < i
      <3>1. Down(i, m) = m /\ m \in 1 .. i - 1 /\ m \in 1 .. L - 1
        BY <1>2, <2>1, <2>2 DEF Down
      <3> QED
        BY <1>1, <2>1, <3>1 DEF Places
    <2>3. CASE ~(m < i)
      <3>1. Down(i, m) = m - 1 /\ m - 1 \in i .. L - 1 /\ m - 1 \in 1 .. L - 1 /\ (m - 1) + 1 = m
        BY <1>2, <2>1, <2>3 DEF Down
      <3>2. r[m - 1] = q[m]
        BY <1>1, <3>1
      <3> QED
        BY <1>1, <2>1, <3>1, <3>2 DEF Places
    <2> QED
      BY <2>2, <2>3
  <1>4. ASSUME NEW j \in Places(r, type) PROVE \E m \in P : Down(i, m) = j
    <2>1. j \in 1 .. L - 1 /\ r[j].type = type
      BY <1>1 DEF Places
    <2>2. CASE j < i
      <3>1. j \in 1 .. i - 1 /\ j \in 1 .. L /\ j # i /\ Down(i, j) = j
        BY <1>2, <2>1, <2>2 DEF Down
      <3>2. j \in P
        BY <1>1, <2>1, <3>1 DEF Places, L
      <3> QED
        BY <3>1, <3>2
    <2>3. CASE ~(j < i)
      <3>1. j \in i .. L - 1 /\ j + 1 \in 1 .. L /\ j + 1 # i /\ Down(i, j + 1) = j
        BY <1>2, <2>1, <2>3 DEF Down
      <3>2. j + 1 \in P
        BY <1>1, <2>1, <3>1 DEF Places, L
      <3> QED
        BY <3>1, <3>2
    <2> QED
      BY <2>2, <2>3
  <1>5. ASSUME NEW m \in P, NEW o \in P, m < o PROVE Down(i, m) < Down(i, o)
    <2>1. m \in Int /\ o \in Int /\ m # i /\ o # i /\ i \in Int
      BY <1>2 DEF Places
    <2> QED
      BY ONLY <2>1, <1>5 DEF Down
  <1> QED
    BY <1>3, <1>4, <1>5

(* Taking a message of another type changes nothing. *)
LEMMA OfTypeRemoveOther ==
  ASSUME NEW S, NEW q \in Seq(S), NEW i \in 1 .. Len(q), NEW type, q[i].type # type
  PROVE  OfType(Without(q, i), type) = OfType(q, type)
  <1> DEFINE P == Places(q, type)
  <1> DEFINE s == OfType(q, type)
  <1> DEFINE r == Without(q, i)
  <1> DEFINE R == Places(r, type)
  <1>1. /\ s \in Seq(S) /\ Len(s) \in Nat
        /\ \A n \in 1 .. Len(s) : Nth(P, n) \in P /\ s[n] = q[Nth(P, n)]
        /\ \A n, m \in 1 .. Len(s) : n < m => Nth(P, n) < Nth(P, m)
        /\ \A k \in P : Rank(P, k) \in 1 .. Len(s) /\ Nth(P, Rank(P, k)) = k
    BY Listed
  <1>2. r \in Seq(S)
    BY RemoveFacts
  <1>3. P \ {i} = P
    BY DEF Places
  <1>4. /\ \A m \in P : Down(i, m) \in R /\ r[Down(i, m)] = q[m]
        /\ \A j \in R : \E m \in P : Down(i, m) = j
        /\ \A m, o \in P : m < o => Down(i, m) < Down(i, o)
    <2>1. /\ \A m \in P \ {i} : Down(i, m) \in R /\ r[Down(i, m)] = q[m]
          /\ \A j \in R : \E m \in P \ {i} : Down(i, m) = j
          /\ \A m, o \in P \ {i} : m < o => Down(i, m) < Down(i, o)
      BY RemovePlaces
    <2> HIDE DEF P, R, r
    <2> QED
      BY <1>3, <2>1
  <1> HIDE DEF P, R, s, r
  <1> DEFINE f == [n \in 1 .. Len(s) |-> Down(i, Nth(P, n))]
  <1>5. f \in [1 .. Len(s) -> R]
    BY <1>1, <1>4
  <1>6. \A n, m \in 1 .. Len(s) : n < m => f[n] < f[m]
    BY <1>1, <1>4
  <1>7. \A j \in R : \E n \in 1 .. Len(s) : f[n] = j
    BY <1>1, <1>4
  <1>8. \A n \in 1 .. Len(s) : s[n] = r[f[n]]
    BY <1>1, <1>4
  <1> HIDE DEF f
  <1>9. s = OfType(r, type)
    <2>1. Lists(s, f, r, type)
      BY <1>5, <1>6, <1>7, <1>8 DEF Lists, R
    <2> QED
      BY <1>1, <1>2, <2>1, Listing
  <1> QED
    BY <1>9 DEF s, r

(* Taking the first message of a type takes it from the front of those of its *)
(* type.                                                                      *)
LEMMA OfTypeRemoveFirst ==
  ASSUME NEW S, NEW q \in Seq(S), NEW type, NEW i \in Places(q, type),
         \A j \in Places(q, type) : i <= j
  PROVE  /\ OfType(q, type) # <<>>
         /\ Head(OfType(q, type)) = q[i]
         /\ Tail(OfType(q, type)) = OfType(Without(q, i), type)
  <1> DEFINE P == Places(q, type)
  <1> DEFINE s == OfType(q, type)
  <1> DEFINE r == Without(q, i)
  <1> DEFINE R == Places(r, type)
  <1>0. i \in 1 .. Len(q) /\ i \in P /\ \A j \in P : i <= j /\ j \in Int
    BY DEF Places
  <1>1. /\ s \in Seq(S) /\ Len(s) \in Nat
        /\ \A n \in 1 .. Len(s) : Nth(P, n) \in P /\ s[n] = q[Nth(P, n)]
        /\ \A n, m \in 1 .. Len(s) : n < m => Nth(P, n) < Nth(P, m)
        /\ \A k \in P : Rank(P, k) \in 1 .. Len(s) /\ Nth(P, Rank(P, k)) = k
    BY Listed
  <1>2. r \in Seq(S)
    BY <1>0, RemoveFacts
  <1>3. /\ \A m \in P \ {i} : Down(i, m) \in R /\ r[Down(i, m)] = q[m]
        /\ \A j \in R : \E m \in P \ {i} : Down(i, m) = j
        /\ \A m, o \in P \ {i} : m < o => Down(i, m) < Down(i, o)
    BY <1>0, RemovePlaces
  <1> HIDE DEF P, R, s, r
  <1>4. Rank(P, i) = 1
    <2>1. Rank(P, i) \in 1 .. Len(s) /\ Nth(P, Rank(P, i)) = i
      BY <1>0, <1>1
    <2>2. 1 \in 1 .. Len(s) /\ Rank(P, i) \in Int
      BY <1>1, <2>1
    <2>3. 1 < Rank(P, i) => Nth(P, 1) < i
      BY <1>1, <2>1, <2>2
    <2>4. i <= Nth(P, 1) /\ i \in Int /\ Nth(P, 1) \in Int
      BY <1>0, <1>1, <2>2
    <2> QED
      BY ONLY <2>1, <2>2, <2>3, <2>4, <1>1
  <1>5. 1 \in 1 .. Len(s) /\ Nth(P, 1) = i /\ s[1] = q[i]
    BY <1>0, <1>1, <1>4
  <1>6. s # <<>> /\ Head(s) = q[i]
    BY <1>1, <1>5
  <1> DEFINE t == Tail(s)
  <1> DEFINE k == Len(s) - 1
  <1>7. /\ t \in Seq(S) /\ Len(t) = k /\ k \in Nat /\ \A n \in 1 .. k : t[n] = s[n + 1]
    BY <1>1, <1>6
  <1>8. \A n \in 1 .. k : n + 1 \in 1 .. Len(s) /\ 1 < n + 1
    BY <1>1
  <1>9. \A n \in 1 .. k : Nth(P, n + 1) \in P \ {i}
    <2> SUFFICES ASSUME NEW n \in 1 .. k PROVE Nth(P, n + 1) \in P \ {i}
      OBVIOUS
    <2> HIDE DEF k
    <2>1. Nth(P, n + 1) \in P /\ Nth(P, 1) < Nth(P, n + 1)
      BY <1>1, <1>5, <1>8
    <2>2. Nth(P, n + 1) \in Int /\ i \in Int
      BY <1>0, <2>1
    <2> QED
      BY <1>5, <2>1, <2>2
  <1> HIDE DEF t, k
  <1> DEFINE f == [n \in 1 .. k |-> Down(i, Nth(P, n + 1))]
  <1>10. f \in [1 .. k -> R]
    BY <1>3, <1>9
  <1>11. ASSUME NEW n \in 1 .. k, NEW m \in 1 .. k, n < m PROVE f[n] < f[m]
    <2>1. n + 1 < m + 1
      BY <1>7, <1>11
    <2>2. Nth(P, n + 1) < Nth(P, m + 1)
      BY <1>1, <1>8, <2>1
    <2> QED
      BY <1>3, <1>9, <2>2
  <1>12. ASSUME NEW j \in R PROVE \E n \in 1 .. k : f[n] = j
    <2>1. PICK m \in P \ {i} : Down(i, m) = j
      BY <1>3
    <2>2. Rank(P, m) \in 1 .. Len(s) /\ Nth(P, Rank(P, m)) = m
      BY <1>1
    <2>3. Rank(P, m) # 1
      BY <1>5, <2>2
    <2>4. Rank(P, m) - 1 \in 1 .. k /\ (Rank(P, m) - 1) + 1 = Rank(P, m)
      BY <1>1, <2>2, <2>3 DEF k
    <2>5. f[Rank(P, m) - 1] = j
      BY <2>1, <2>2, <2>4
    <2> QED
      BY <2>4, <2>5
  <1>13. \A n \in 1 .. k : t[n] = r[f[n]]
    <2>1. \A n \in 1 .. k : t[n] = q[Nth(P, n + 1)]
      BY <1>1, <1>7, <1>8
    <2>2. \A n \in 1 .. k : r[Down(i, Nth(P, n + 1))] = q[Nth(P, n + 1)]
      BY <1>3, <1>9
    <2> QED
      BY <2>1, <2>2
  <1> HIDE DEF f
  <1>14. Lists(t, f, r, type)
    BY <1>7, <1>10, <1>11, <1>12, <1>13 DEF Lists, R
  <1>15. t = OfType(r, type)
    BY <1>2, <1>7, <1>14, Listing
  <1> QED
    BY <1>6, <1>15 DEF s, r, t
================================================================================
