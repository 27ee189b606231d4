---------------------------- MODULE OrderingProofs ----------------------------
(***************************************************************************)
(* What the operators of Ordering return, for every finite set of numbers  *)
(* and every sequence.  The proofs about the timeline and about the lists  *)
(* and the stream of the console rest on these facts.                      *)
(***************************************************************************)
EXTENDS Ordering, Sequences, FiniteSetTheorems, TLAPS

\* Each element of a finite set of numbers has a rank of its own, and every
\* rank up to the size of the set is taken.
LEMMA Ranks ==
    ASSUME NEW S, IsFiniteSet(S), S \subseteq Int
    PROVE  /\ Cardinality(S) \in Nat
           /\ \A n \in S : Cardinality({m \in S : m <= n}) \in 1 .. Cardinality(S)
           /\ \A a, b \in S : a < b => Cardinality({m \in S : m <= a}) < Cardinality({m \in S : m <= b})
           /\ \A i \in 1 .. Cardinality(S) : \E n \in S : Cardinality({m \in S : m <= n}) = i
<1> DEFINE Below(n) == {m \in S : m <= n}
           rank == [n \in S |-> Cardinality(Below(n))]
<1>1. Cardinality(S) \in Nat
  BY FS_CardinalityType
<1>2. \A n \in S : /\ IsFiniteSet(Below(n)) /\ Cardinality(Below(n)) \in Nat
                   /\ Cardinality(Below(n)) <= Cardinality(S)
  <2> TAKE n \in S
  <2>1. Below(n) \in SUBSET S
    OBVIOUS
  <2> HIDE DEF Below
  <2> QED
    BY <2>1, FS_Subset, FS_CardinalityType
<1>3. \A n \in S : Cardinality(Below(n)) \in 1 .. Cardinality(S)
  <2> TAKE n \in S
  <2>1. n \in Below(n)
    OBVIOUS
  <2>2. Below(n) # {}
    BY <2>1
  <2> HIDE DEF Below
  <2>3. Cardinality(Below(n)) # 0
    BY <1>2, <2>2, FS_EmptySet
  <2> QED
    BY <1>1, <1>2, <2>3
<1>4. \A a, b \in S : a < b => Cardinality(Below(a)) < Cardinality(Below(b))
  <2> SUFFICES ASSUME NEW a \in S, NEW b \in S, a < b
               PROVE  Cardinality(Below(a)) < Cardinality(Below(b))
    OBVIOUS
  <2>1. Below(a) \in SUBSET Below(b) /\ b \in Below(b) /\ b \notin Below(a)
    <3>1. \A m \in S : m <= a => m <= b
      OBVIOUS
    <3>2. b <= b /\ ~(b <= a)
      OBVIOUS
    <3> QED
      BY <3>1, <3>2
  <2> HIDE DEF Below
  <2>2. Cardinality(Below(a)) <= Cardinality(Below(b)) /\ Cardinality(Below(a)) # Cardinality(Below(b))
    BY <1>2, <2>1, FS_Subset
  <2> QED
    BY <1>2, <2>2
<1>5. \A i \in 1 .. Cardinality(S) : \E n \in S : Cardinality(Below(n)) = i
  <2> HIDE DEF Below
  <2>1. rank \in [S -> 1 .. Cardinality(S)]
    BY <1>3
  <2>2. \A a, b \in S : rank[a] = rank[b] => a = b
    <3> SUFFICES ASSUME NEW a \in S, NEW b \in S, Cardinality(Below(a)) = Cardinality(Below(b)), a # b
                 PROVE  FALSE
      OBVIOUS
    <3>1. a < b \/ b < a
      OBVIOUS
    <3> QED
      BY <3>1, <1>2, <1>4
  <2>3. rank \in Injection(S, 1 .. Cardinality(S))
    BY <2>1, <2>2 DEF Injection, IsInjective
  <2>4. IsFiniteSet(1 .. Cardinality(S)) /\ Cardinality(1 .. Cardinality(S)) = Cardinality(S)
    BY <1>1, FS_Interval
  <2>5. rank \in Surjection(S, 1 .. Cardinality(S))
    BY <2>3, <2>4, FS_Injection
  <2> QED
    BY <2>5 DEF Surjection
<1> QED
  BY <1>1, <1>3, <1>4, <1>5

\* A set in order: every element has one place, and larger elements come
\* later.
LEMMA AscendingOrder ==
    ASSUME NEW S, IsFiniteSet(S), S \subseteq Int
    PROVE  /\ Cardinality(S) \in Nat
           /\ Ascending(S) \in [1 .. Cardinality(S) -> S]
           /\ \A n \in S : \E i \in 1 .. Cardinality(S) : Ascending(S)[i] = n
           /\ \A i, j \in 1 .. Cardinality(S) : i < j <=> Ascending(S)[i] < Ascending(S)[j]
<1> DEFINE R(n) == Cardinality({m \in S : m <= n})
<1>1. /\ Cardinality(S) \in Nat
      /\ \A n \in S : R(n) \in 1 .. Cardinality(S)
      /\ \A a, b \in S : a < b => R(a) < R(b)
      /\ \A i \in 1 .. Cardinality(S) : \E n \in S : R(n) = i
  BY Ranks
<1> DEFINE nth(i) == CHOOSE n \in S : R(n) = i
<1>2. Ascending(S) = [i \in 1 .. Cardinality(S) |-> nth(i)]
  BY DEF Ascending
<1> HIDE DEF R
<1>3. \A i \in 1 .. Cardinality(S) : nth(i) \in S /\ R(nth(i)) = i
  BY <1>1
<1> HIDE DEF nth
<1>4. \A a, b \in S : R(a) < R(b) => a < b
  <2> SUFFICES ASSUME NEW a \in S, NEW b \in S, R(a) < R(b), ~(a < b)
               PROVE  FALSE
    OBVIOUS
  <2>1. a = b \/ b < a
    OBVIOUS
  <2> QED
    BY <2>1, <1>1
<1>5. \A n \in S : \E i \in 1 .. Cardinality(S) : nth(i) = n
  <2> SUFFICES ASSUME NEW n \in S
               PROVE  nth(R(n)) = n
    BY <1>1
  <2>1. nth(R(n)) \in S /\ R(nth(R(n))) = R(n) /\ R(n) \in 1 .. Cardinality(S)
    BY <1>1, <1>3
  <2> DEFINE m == nth(R(n))
  <2> HIDE DEF m
  <2>2. m \in S /\ R(m) = R(n) /\ R(n) \in Int /\ m \in Int /\ n \in Int
    <3>1. R(n) \in 1 .. Cardinality(S) /\ n \in Int
      BY <1>1
    <3>2. m \in S /\ R(m) = R(n)
      BY <2>1 DEF m
    <3> QED
      BY <3>1, <3>2
  <2>3. ~(m < n) /\ ~(n < m)
    BY <2>2, <1>1
  <2> QED
    BY <2>2, <2>3 DEF m
<1>6. \A i, j \in 1 .. Cardinality(S) : i < j <=> nth(i) < nth(j)
  <2> TAKE i, j \in 1 .. Cardinality(S)
  <2>1. /\ nth(i) \in S /\ R(nth(i)) = i /\ i \in Int
        /\ nth(j) \in S /\ R(nth(j)) = j /\ j \in Int
    BY <1>1, <1>3
  <2>2. i < j => nth(i) < nth(j)
    BY <2>1, <1>4
  <2>3. nth(i) < nth(j) => i < j
    BY <2>1, <1>1
  <2> QED
    BY <2>2, <2>3
<1> QED
  BY <1>1, <1>2, <1>3, <1>5, <1>6

\* A set from the largest element down.
LEMMA DescendingOrder ==
    ASSUME NEW S, IsFiniteSet(S), S \subseteq Int
    PROVE  /\ Cardinality(S) \in Nat
           /\ Descending(S) \in [1 .. Cardinality(S) -> S]
           /\ \A n \in S : \E i \in 1 .. Cardinality(S) : Descending(S)[i] = n
           /\ \A i, j \in 1 .. Cardinality(S) : i < j <=> Descending(S)[i] > Descending(S)[j]
<1> DEFINE up == Ascending(S)
           c  == Cardinality(S)
<1>1. /\ c \in Nat /\ up \in [1 .. c -> S]
      /\ \A n \in S : \E i \in 1 .. c : up[i] = n
      /\ \A i, j \in 1 .. c : i < j <=> up[i] < up[j]
  BY AscendingOrder
<1>2. Descending(S) = [i \in 1 .. c |-> up[c + 1 - i]]
  BY DEF Descending
<1> HIDE DEF up, c
<1>3. \A i \in 1 .. c : c + 1 - i \in 1 .. c /\ c + 1 - (c + 1 - i) = i
  BY <1>1
<1>4. \A n \in S : \E i \in 1 .. c : up[c + 1 - i] = n
  <2> TAKE n \in S
  <2>1. PICK i \in 1 .. c : up[i] = n
    BY <1>1
  <2>2. c + 1 - i \in 1 .. c /\ up[c + 1 - (c + 1 - i)] = n
    BY <2>1, <1>3
  <2> QED
    BY <2>2
<1>5. \A i, j \in 1 .. c : i < j <=> up[c + 1 - i] > up[c + 1 - j]
  <2> TAKE i, j \in 1 .. c
  <2>1. (c + 1 - j < c + 1 - i) <=> up[c + 1 - j] < up[c + 1 - i]
    BY <1>1, <1>3
  <2>2. i < j <=> c + 1 - j < c + 1 - i
    BY <1>1
  <2>3. up[c + 1 - i] \in Int /\ up[c + 1 - j] \in Int
    BY <1>1, <1>3
  <2> QED
    BY <2>1, <2>2, <2>3
<1> QED
  BY <1>1, <1>2, <1>3, <1>4, <1>5 DEF c

\* What a filter keeps of a sequence: its elements are those at the kept
\* positions, each of them once and in their order.
LEMMA SubsequenceOf ==
    ASSUME NEW T, NEW s \in Seq(T), NEW P \in SUBSET DOMAIN s
    PROVE  \E place \in [1 .. Cardinality(P) -> P] :
              /\ Cardinality(P) \in 0 .. Len(s)
              /\ Subsequence(s, P) \in Seq(T) /\ Len(Subsequence(s, P)) = Cardinality(P)
              /\ \A i \in 1 .. Cardinality(P) : Subsequence(s, P)[i] = s[place[i]]
              /\ \A p \in P : \E i \in 1 .. Cardinality(P) : place[i] = p
              /\ \A i, j \in 1 .. Cardinality(P) : i < j <=> place[i] < place[j]
              /\ Cardinality(P) = Len(s) => P = DOMAIN s
<1> DEFINE place == Ascending(P)
           c  == Cardinality(P)
<1>1. IsFiniteSet(DOMAIN s) /\ Cardinality(DOMAIN s) = Len(s) /\ DOMAIN s = 1 .. Len(s) /\ Len(s) \in Nat
  <2>1. DOMAIN s = 1 .. Len(s) /\ Len(s) \in Nat
    OBVIOUS
  <2>2. IsFiniteSet(1 .. Len(s)) /\ Cardinality(1 .. Len(s)) = Len(s)
    <3> DEFINE n == Len(s)
    <3>1. n \in Nat /\ 1 \in Int /\ n \in Int
      BY <2>1
    <3> HIDE DEF n
    <3>2. IsFiniteSet(1 .. n) /\ Cardinality(1 .. n) = IF 1 > n THEN 0 ELSE n - 1 + 1
      BY <3>1, FS_Interval
    <3>3. IsFiniteSet(1 .. n) /\ Cardinality(1 .. n) = n
      BY <3>1, <3>2
    <3> QED
      BY <3>3 DEF n
  <2> QED
    BY <2>1, <2>2
<1>2. IsFiniteSet(P) /\ c \in Nat /\ c <= Len(s) /\ (c = Len(s) => P = DOMAIN s)
  BY <1>1, FS_Subset, FS_CardinalityType
<1>3. P \subseteq Int
  BY <1>1
<1>4. /\ place \in [1 .. c -> P]
      /\ \A n \in P : \E i \in 1 .. c : place[i] = n
      /\ \A i, j \in 1 .. c : i < j <=> place[i] < place[j]
  BY <1>2, <1>3, AscendingOrder
<1>5. Subsequence(s, P) = [i \in 1 .. c |-> s[place[i]]]
  BY DEF Subsequence
<1> HIDE DEF place, c
<1>6. \A i \in 1 .. c : s[place[i]] \in T
  BY <1>4
<1>7. Subsequence(s, P) \in Seq(T) /\ Len(Subsequence(s, P)) = c
  BY <1>2, <1>5, <1>6
<1>8. \A i \in 1 .. c : Subsequence(s, P)[i] = s[place[i]]
  BY <1>5
<1>9. c \in 0 .. Len(s)
  BY <1>1, <1>2
<1> QED
  BY <1>2, <1>4, <1>7, <1>8, <1>9 DEF c
=============================================================================
