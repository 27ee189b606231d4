---------------------------- MODULE LimiterProofs ----------------------------
(***************************************************************************)
(* What holds of the limiter for every set of callers, every set of limits *)
(* and every number of rounds.                                             *)
(***************************************************************************)
EXTENDS Limiter, FiniteSetTheorems, SequenceTheorems, TLAPS

\* Removing one entry of the waiter list leaves a list of callers.
LEMMA RemoveAtType ==
    ASSUME NEW S, NEW s \in Seq(S), NEW i \in 1..Len(s)
    PROVE  RemoveAt(s, i) \in Seq(S)
  BY DEF RemoveAt

\* Every variable keeps the type limiter.go gives it.
THEOREM TypeCorrect == Spec => []TypeOK
  <1> USE LimiterAssumption DEF TypeOK, PCs, Waiting, Idle, Entering, Queued,
        Parked, Woken, Held, Refused, Gone
  <1>1. Init => TypeOK
    BY DEF Init
  <1>2. TypeOK /\ [Next]_vars => TypeOK'
    <2> SUFFICES ASSUME TypeOK, [Next]_vars
                 PROVE  TypeOK'
      OBVIOUS
    <2>0. \A l \in LimitChoices : l[1] \in Nat /\ l[2] \in Nat
      OBVIOUS
    <2>1. ASSUME NEW c \in Callers, ReadLimits(c) PROVE TypeOK'
      BY <2>1 DEF ReadLimits
    <2>2. ASSUME NEW c \in Callers, EnterFast(c) PROVE TypeOK'
      BY <2>2 DEF EnterFast
    <2>3. ASSUME NEW c \in Callers, EnterRefused(c) PROVE TypeOK'
      BY <2>3 DEF EnterRefused
    <2>4. ASSUME NEW c \in Callers, EnterQueue(c) PROVE TypeOK'
      BY <2>4 DEF EnterQueue
    <2>5. ASSUME NEW c \in Callers, Take(c) PROVE TypeOK'
      <3>1. waiters' \in Seq(Callers)
        BY <2>5 DEF Take, CanTake
      <3>2. pc' \in [Callers -> PCs]
        BY <2>5 DEF Take, Signal
      <3>3. QED
        BY <2>5, <3>1, <3>2, SMTT(30) DEF Take
    <2>6. ASSUME NEW c \in Callers, Park(c) PROVE TypeOK'
      BY <2>6 DEF Park
    <2>7. ASSUME NEW c \in Callers, Abandon(c) PROVE TypeOK'
      <3>1. waiters' \in Seq(Callers)
        BY <2>7, RemoveAtType DEF Abandon
      <3>2. QED
        BY <2>7, <3>1 DEF Abandon, Signal
    <2>8. ASSUME NEW c \in Callers, Release(c) PROVE TypeOK'
      BY <2>8 DEF Release, Signal
    <2>9. ASSUME NEW c \in Callers, Cancel(c) PROVE TypeOK'
      BY <2>9 DEF Cancel
    <2>10. CASE Reload
      BY <2>10 DEF Reload
    <2>11. CASE UNCHANGED vars
      BY <2>11 DEF vars
    <2>12. QED
      BY <2>1, <2>2, <2>3, <2>4, <2>5, <2>6, <2>7, <2>8, <2>9, <2>10, <2>11
         DEF Next, Enter, Loop
  <1>3. QED
    BY <1>1, <1>2, PTL DEF Spec

-----------------------------------------------------------------------------
\* The callers that own a permit.
Owners == {c \in Callers : pc[c] = Held}

\* Limiter.active counts the owners of a permit in every reachable state.
\* It is inductive together with the types: a permit is counted in the same
\* critical section that makes the caller an owner, and given back once.
THEOREM PermitsAccounted == Spec => []PermitAccounting
  <1> USE LimiterAssumption
  <1>a. ASSUME TypeOK PROVE IsFiniteSet(Owners)
    BY FS_Subset DEF Owners
  <1>1. Init => PermitAccounting
    <2> SUFFICES ASSUME Init PROVE PermitAccounting
      OBVIOUS
    <2>1. {c \in Callers : pc[c] = Held} = {}
      BY DEF Init, Idle, Held
    <2>2. QED
      BY <2>1, FS_EmptySet DEF Init, PermitAccounting
  <1>2. TypeOK /\ PermitAccounting /\ [Next]_vars => PermitAccounting'
    <2> SUFFICES ASSUME TypeOK, PermitAccounting, [Next]_vars
                 PROVE  PermitAccounting'
      OBVIOUS
    <2> DEFINE Same == Owners' = Owners /\ active' = active
    <2>s. ASSUME Same PROVE PermitAccounting'
      BY <2>s DEF PermitAccounting, Owners
    <2>g. ASSUME NEW c \in Callers, c \notin Owners,
                 Owners' = Owners \cup {c}, active' = active + 1
          PROVE  PermitAccounting'
      BY <2>g, <1>a, FS_AddElement DEF PermitAccounting, Owners, TypeOK
    <2>1. ASSUME NEW c \in Callers, ReadLimits(c) PROVE PermitAccounting'
      BY <2>1, <2>s DEF ReadLimits, TypeOK, Owners, Idle, Refused, Gone, Entering, Held
    <2>2. ASSUME NEW c \in Callers, EnterFast(c) PROVE PermitAccounting'
      BY <2>2, <2>g DEF EnterFast, TypeOK, Owners, Entering, Held
    <2>3. ASSUME NEW c \in Callers, EnterRefused(c) PROVE PermitAccounting'
      BY <2>3, <2>s DEF EnterRefused, TypeOK, Owners, Entering, Refused, Held
    <2>4. ASSUME NEW c \in Callers, EnterQueue(c) PROVE PermitAccounting'
      BY <2>4, <2>s DEF EnterQueue, TypeOK, Owners, Entering, Queued, Held
    <2>5. ASSUME NEW c \in Callers, Take(c) PROVE PermitAccounting'
      BY <2>5, <2>g DEF Take, Signal, TypeOK, Owners, Queued, Woken, Parked, Held
    <2>6. ASSUME NEW c \in Callers, Park(c) PROVE PermitAccounting'
      BY <2>6, <2>s DEF Park, TypeOK, Owners, Queued, Woken, Parked, Held
    <2>7. ASSUME NEW c \in Callers, Abandon(c) PROVE PermitAccounting'
      BY <2>7, <2>s DEF Abandon, Signal, TypeOK, Owners, Woken, Parked, Gone, Held
    <2>8. ASSUME NEW c \in Callers, Release(c) PROVE PermitAccounting'
      <3>1. Owners' = Owners \ {c} /\ c \in Owners
        BY <2>8 DEF Release, Signal, TypeOK, Owners, Woken, Parked, Idle, Held
      <3>2. Cardinality(Owners') = Cardinality(Owners) - 1
        BY <3>1, <1>a, FS_RemoveElement
      <3>3. Cardinality(Owners') \in Nat /\ Cardinality(Owners) \in Nat
        BY <3>1, <1>a, FS_RemoveElement, FS_CardinalityType
      <3>4. QED
        BY <2>8, <3>2, <3>3 DEF Release, PermitAccounting, Owners
    <2>9. ASSUME NEW c \in Callers, Cancel(c) PROVE PermitAccounting'
      BY <2>9, <2>s DEF Cancel, Owners
    <2>10. CASE Reload
      BY <2>10, <2>s DEF Reload, Owners
    <2>11. CASE UNCHANGED vars
      BY <2>11, <2>s DEF vars, Owners
    <2>12. QED
      BY <2>1, <2>2, <2>3, <2>4, <2>5, <2>6, <2>7, <2>8, <2>9, <2>10, <2>11
         DEF Next, Enter, Loop
  <1>3. QED
    BY <1>1, <1>2, TypeCorrect, PTL DEF Spec

-----------------------------------------------------------------------------
\* A step that does not reload the limits leaves no caller asleep beside a
\* free permit that was not asleep before: whatever makes CanTake true of a
\* parked caller wakes everyone.  The invariant is type correctness.
THEOREM WakeupsNotLost == Spec => NoLostWakeup
  <1>1. TypeOK /\ [Next]_vars =>
          [\A c \in Callers : Asleep(c)' => Asleep(c) \/ limits' # limits]_vars
    <2> DEFINE Good == \A d \in Callers : Asleep(d)' => Asleep(d) \/ limits' # limits
    <2> SUFFICES ASSUME TypeOK, Next PROVE Good
      OBVIOUS
    <2> USE LimiterAssumption DEF Asleep, CanTake, Parked, Woken
    <2>w. ASSUME NEW c \in Callers, NEW p, p # Parked, pc' = [Signal EXCEPT ![c] = p]
          PROVE  Good
      BY <2>w DEF Signal, TypeOK
    <2>1. ASSUME NEW c \in Callers, ReadLimits(c) PROVE Good
      BY <2>1 DEF ReadLimits, TypeOK, Entering
    <2>2. ASSUME NEW c \in Callers, EnterFast(c) PROVE Good
      BY <2>2 DEF EnterFast, TypeOK, Held
    <2>3. ASSUME NEW c \in Callers, EnterRefused(c) PROVE Good
      BY <2>3 DEF EnterRefused, TypeOK, Refused
    <2>4. ASSUME NEW c \in Callers, EnterQueue(c) PROVE Good
      <3>1. waiters # <<>> => Head(waiters') = Head(waiters)
        BY <2>4 DEF EnterQueue, TypeOK
      <3>2. waiters = <<>> => Head(waiters') = c
        BY <2>4 DEF EnterQueue, TypeOK
      <3>3. QED
        BY <2>4, <3>1, <3>2 DEF EnterQueue, TypeOK, Queued
    <2>5. ASSUME NEW c \in Callers, Take(c) PROVE Good
      BY <2>5, <2>w DEF Take, Held
    <2>6. ASSUME NEW c \in Callers, Park(c) PROVE Good
      BY <2>6 DEF Park, TypeOK
    <2>7. ASSUME NEW c \in Callers, Abandon(c) PROVE Good
      BY <2>7, <2>w DEF Abandon, Gone
    <2>8. ASSUME NEW c \in Callers, Release(c) PROVE Good
      BY <2>8, <2>w DEF Release, Idle
    <2>9. ASSUME NEW c \in Callers, Cancel(c) PROVE Good
      BY <2>9 DEF Cancel
    <2>10. CASE Reload
      BY <2>10 DEF Reload
    <2>12. QED
      BY <2>1, <2>2, <2>3, <2>4, <2>5, <2>6, <2>7, <2>8, <2>9, <2>10
         DEF Next, Enter, Loop
  <1>2. QED
    BY <1>1, TypeCorrect, PTL DEF Spec, NoLostWakeup
-----------------------------------------------------------------------------
\* A new element at the end of a list without duplicates: EnterQueue.
LEMMA AppendNew ==
    ASSUME NEW S, NEW s \in Seq(S), NEW e \in S, IsInjective(s), e \notin Range(s)
    PROVE  /\ IsInjective(Append(s, e))
           /\ Range(Append(s, e)) = Range(s) \cup {e}
  <1> DEFINE t == Append(s, e)
  <1>1. DOMAIN t = 1..(Len(s) + 1) /\ DOMAIN s = 1..Len(s) /\ Len(s) \in Nat
    OBVIOUS
  <1>2. \A i \in 1..Len(s) : t[i] = s[i]
    OBVIOUS
  <1>3. t[Len(s) + 1] = e
    OBVIOUS
  <1> HIDE DEF t
  <1>4. IsInjective(t)
    BY <1>1, <1>2, <1>3 DEF IsInjective, Range
  <1>5. Range(t) = Range(s) \cup {e}
    BY <1>1, <1>2, <1>3 DEF Range
  <1> QED
    BY <1>4, <1>5 DEF t

\* The list without its head: Take.
LEMMA TailDrops ==
    ASSUME NEW S, NEW s \in Seq(S), s # <<>>, IsInjective(s)
    PROVE  /\ IsInjective(Tail(s))
           /\ Range(Tail(s)) = Range(s) \ {Head(s)}
           /\ Len(Tail(s)) = Len(s) - 1
  <1> DEFINE t == Tail(s)
  <1>1. /\ Len(s) \in Nat \ {0}
        /\ DOMAIN t = 1..(Len(s) - 1)
        /\ DOMAIN s = 1..Len(s)
        /\ Head(s) = s[1]
        /\ Len(t) = Len(s) - 1
    OBVIOUS
  <1>2. \A i \in 1..(Len(s) - 1) : t[i] = s[i + 1]
    OBVIOUS
  <1> HIDE DEF t
  <1>4. IsInjective(t)
    BY <1>1, <1>2, SMTT(30) DEF IsInjective
  <1>5. ASSUME NEW x \in Range(t) PROVE x \in Range(s) \ {Head(s)}
    <2>1. PICK i \in 1..(Len(s) - 1) : x = s[i + 1]
      BY <1>1, <1>2 DEF Range
    <2>2. i + 1 \in 1..Len(s) /\ 1 \in 1..Len(s) /\ i + 1 # 1
      BY <1>1
    <2>3. s[i + 1] # s[1]
      BY <2>2, <1>1 DEF IsInjective
    <2> QED
      BY <2>1, <2>2, <2>3, <1>1 DEF Range
  <1>6. ASSUME NEW x \in Range(s) \ {Head(s)} PROVE x \in Range(t)
    <2>1. PICK i \in 1..Len(s) : x = s[i]
      BY <1>1 DEF Range
    <2>2. i # 1
      BY <2>1, <1>1
    <2>3. i - 1 \in 1..(Len(s) - 1) /\ (i - 1) + 1 = i
      BY <2>2, <1>1
    <2> QED
      BY <2>1, <2>3, <1>1, <1>2 DEF Range
  <1> QED
    BY <1>1, <1>4, <1>5, <1>6 DEF t

\* A section of a list, by position.
LEMMA Section ==
    ASSUME NEW S, NEW s \in Seq(S), NEW m \in 1..(Len(s) + 1), NEW n \in 0..Len(s),
           m <= n + 1
    PROVE  /\ SubSeq(s, m, n) \in Seq(S)
           /\ Len(SubSeq(s, m, n)) = n - m + 1
           /\ \A j \in 1..(n - m + 1) : SubSeq(s, m, n)[j] = s[j + m - 1]
  <1>1. Len(s) \in Nat /\ m \in Int /\ n \in Int /\ \A j \in m..n : s[j] \in S
    OBVIOUS
  <1>2. /\ SubSeq(s, m, n) \in Seq(S)
        /\ Len(SubSeq(s, m, n)) = IF m <= n THEN n - m + 1 ELSE 0
        /\ \A j \in 1..(n - m + 1) : SubSeq(s, m, n)[j] = s[m + j - 1]
    BY <1>1, SubSeqProperties
  <1> QED
    BY <1>1, <1>2

\* The list without the entry at i, what removeWaiter leaves: the elements
\* before i stay where they are and those behind it move up.
LEMMA RemoveAtDrops ==
    ASSUME NEW S, NEW s \in Seq(S), NEW i \in 1..Len(s), IsInjective(s)
    PROVE  /\ IsInjective(RemoveAt(s, i))
           /\ Range(RemoveAt(s, i)) = Range(s) \ {s[i]}
           /\ Len(RemoveAt(s, i)) = Len(s) - 1
  <1> DEFINE a == SubSeq(s, 1, i - 1)
             b == SubSeq(s, i + 1, Len(s))
             t == a \o b
  <1>0. Len(s) \in Nat /\ i \in Nat /\ i >= 1 /\ i <= Len(s) /\ DOMAIN s = 1..Len(s)
    OBVIOUS
  <1>1. a \in Seq(S) /\ Len(a) = i - 1 /\ \A j \in 1..(i - 1) : a[j] = s[j]
    <2>1. 1 \in 1..(Len(s) + 1) /\ i - 1 \in 0..Len(s) /\ 1 <= (i - 1) + 1
      BY <1>0
    <2>2. /\ a \in Seq(S)
          /\ Len(a) = (i - 1) - 1 + 1
          /\ \A j \in 1..((i - 1) - 1 + 1) : a[j] = s[j + 1 - 1]
      BY <2>1, Section, Zenon
    <2> HIDE DEF a
    <2> QED
      BY <1>0, <2>2
  <1>2. b \in Seq(S) /\ Len(b) = Len(s) - i /\ \A j \in 1..(Len(s) - i) : b[j] = s[j + i]
    <2>1. i + 1 \in 1..(Len(s) + 1) /\ Len(s) \in 0..Len(s) /\ i + 1 <= Len(s) + 1
      BY <1>0
    <2>2. /\ b \in Seq(S)
          /\ Len(b) = Len(s) - (i + 1) + 1
          /\ \A j \in 1..(Len(s) - (i + 1) + 1) : b[j] = s[j + (i + 1) - 1]
      BY <2>1, Section, Zenon
    <2>3. Len(s) - (i + 1) + 1 = Len(s) - i
      BY <1>0
    <2>4. \A j \in 1..(Len(s) - i) : j + (i + 1) - 1 = j + i
      BY <1>0
    <2> HIDE DEF b
    <2> QED
      BY <2>2, <2>3, <2>4
  <1>3. /\ t \in Seq(S)
        /\ Len(t) = Len(a) + Len(b)
        /\ \A j \in 1..(Len(a) + Len(b)) : t[j] = IF j <= Len(a) THEN a[j] ELSE b[j - Len(a)]
    <2> HIDE DEF a, b, t
    <2> QED BY <1>1, <1>2, ConcatProperties, Zenon DEF t
  <1> HIDE DEF a, b, t
  <1>d. Len(t) = Len(s) - 1 /\ DOMAIN t = 1..(Len(s) - 1)
    BY <1>0, <1>1, <1>2, <1>3
  <1>4. \A j \in 1..(Len(s) - 1) : t[j] = IF j < i THEN s[j] ELSE s[j + 1]
    <2> SUFFICES ASSUME NEW j \in 1..(Len(s) - 1)
                 PROVE  t[j] = IF j < i THEN s[j] ELSE s[j + 1]
      OBVIOUS
    <2>1. CASE j < i
      <3>1. j \in 1..(i - 1) /\ j <= Len(a) /\ j \in 1..(Len(a) + Len(b))
        BY <2>1, <1>0, <1>1, <1>2
      <3> QED
        BY <2>1, <3>1, <1>1, <1>3
    <2>2. CASE ~(j < i)
      <3>1. /\ ~(j <= Len(a)) /\ j \in 1..(Len(a) + Len(b))
            /\ j - Len(a) \in 1..(Len(s) - i) /\ (j - Len(a)) + i = j + 1
        BY <2>2, <1>0, <1>1, <1>2
      <3> QED
        BY <2>2, <3>1, <1>2, <1>3
    <2> QED
      BY <2>1, <2>2
  <1>5. IsInjective(t)
    <2> SUFFICES ASSUME NEW j \in 1..(Len(s) - 1), NEW k \in 1..(Len(s) - 1), t[j] = t[k]
                 PROVE  j = k
      BY <1>d DEF IsInjective
    <2> DEFINE p(x) == IF x < i THEN x ELSE x + 1
    <2>1. p(j) \in DOMAIN s /\ p(k) \in DOMAIN s
      BY <1>0
    <2>2. t[j] = s[p(j)] /\ t[k] = s[p(k)]
      BY <1>4
    <2>3. p(j) = p(k)
      BY <2>1, <2>2 DEF IsInjective
    <2> QED
      BY <2>3, <1>0
  <1>6. ASSUME NEW x \in Range(t) PROVE x \in Range(s) \ {s[i]}
    <2>1. PICK j \in 1..(Len(s) - 1) : x = t[j]
      BY <1>d DEF Range
    <2> DEFINE k == IF j < i THEN j ELSE j + 1
    <2>2. k \in 1..Len(s) /\ k # i
      BY <1>0
    <2>3. x = s[k]
      BY <2>1, <1>4
    <2> QED
      BY <2>2, <2>3, <1>0 DEF Range, IsInjective
  <1>7. ASSUME NEW x \in Range(s) \ {s[i]} PROVE x \in Range(t)
    <2>1. PICK k \in 1..Len(s) : x = s[k]
      BY <1>0 DEF Range
    <2>2. k # i
      BY <2>1
    <2> DEFINE j == IF k < i THEN k ELSE k - 1
    <2>3. j \in 1..(Len(s) - 1) /\ k = IF j < i THEN j ELSE j + 1
      BY <1>0, <2>2
    <2>4. t[j] = s[k]
      BY <2>3, <1>4
    <2> QED
      BY <2>1, <2>3, <2>4, <1>d DEF Range
  <1>8. RemoveAt(s, i) = t
    BY DEF RemoveAt, t, a, b
  <1> QED
    BY <1>d, <1>5, <1>6, <1>7, <1>8

\* A list without duplicates has as many entries as it has elements.
LEMMA InjectiveLength ==
    ASSUME NEW S, NEW s \in Seq(S), IsInjective(s)
    PROVE  Cardinality(Range(s)) = Len(s)
  <1>1. s \in [1..Len(s) -> Range(s)] /\ Len(s) \in Nat
    BY DEF Range
  <1>2. s \in Bijection(1..Len(s), Range(s))
    BY <1>1 DEF Bijection, Injection, Surjection, Range
  <1> QED
    BY <1>1, <1>2, FS_CountingElements DEF ExistsBijection

\* The list without duplicates counts the callers inside the waiter loop.
LEMMA QueueLength ==
    ASSUME TypeOK, QueueAccounting
    PROVE  Cardinality(InLine) = Len(waiters)
  BY InjectiveLength DEF TypeOK, QueueAccounting, InLine

\* A caller is in the list exactly as long as it is inside the waiter loop,
\* and neither the list nor the owners outgrow limits that were configured
\* when the caller read them: the three are inductive together, because every
\* critical section that moves a caller into or out of the loop edits the list.
THEOREM QueueIsSound == Spec => []QueueSound
  <1> USE LimiterAssumption
  <1>1. Init => QueueSound
    <2> SUFFICES ASSUME Init PROVE QueueSound
      OBVIOUS
    <2>1. TypeOK
      BY DEF Init, TypeOK, PCs, Idle
    <2>2. QueueAccounting
      BY DEF Init, QueueAccounting, IsInjective, Range, Waiting, Idle, Queued, Parked, Woken
    <2>3. Bounded
      <3>1. PICK l \in LimitChoices : TRUE
        OBVIOUS
      <3>2. 0 <= l[1] /\ Len(<<>>) <= l[2]
        BY <3>1
      <3> QED
        BY <3>2 DEF Init, Bounded
    <2> QED
      BY <2>1, <2>2, <2>3 DEF QueueSound
  <1>2. TypeOK' /\ QueueSound /\ [Next]_vars => QueueSound'
    <2> SUFFICES ASSUME TypeOK', TypeOK, QueueAccounting, Bounded, [Next]_vars
                 PROVE  QueueAccounting' /\ Bounded'
      BY DEF QueueSound
    <2>0. /\ \A l \in LimitChoices : l[1] \in Nat /\ l[2] \in Nat
          /\ Len(waiters) \in Nat /\ active \in Nat
          /\ \A c \in Callers : read[c] \in LimitChoices
          /\ limits \in LimitChoices
      BY DEF TypeOK
    <2> DEFINE Same == waiters' = waiters /\ InLine' = InLine
    <2>s. ASSUME Same PROVE QueueAccounting'
      BY <2>s DEF QueueAccounting, InLine
    <2>b. ASSUME active' <= active, Len(waiters') <= Len(waiters) PROVE Bounded'
      BY <2>0, <2>b DEF Bounded, TypeOK
    <2> USE DEF InLine, Waiting, Idle, Entering, Queued, Parked, Woken, Held, Refused, Gone
    <2>1. ASSUME NEW c \in Callers, ReadLimits(c) PROVE QueueAccounting' /\ Bounded'
      BY <2>1, <2>s, <2>b, <2>0 DEF ReadLimits, TypeOK
    <2>2. ASSUME NEW c \in Callers, EnterFast(c) PROVE QueueAccounting' /\ Bounded'
      <3>1. QueueAccounting'
        BY <2>2, <2>s DEF EnterFast, TypeOK
      <3>2. active' <= read[c][1]
        BY <2>2, <2>0 DEF EnterFast
      <3> QED
        BY <2>2, <2>0, <3>1, <3>2 DEF EnterFast, Bounded
    <2>3. ASSUME NEW c \in Callers, EnterRefused(c) PROVE QueueAccounting' /\ Bounded'
      BY <2>3, <2>s, <2>b, <2>0 DEF EnterRefused, TypeOK
    <2>4. ASSUME NEW c \in Callers, EnterQueue(c) PROVE QueueAccounting' /\ Bounded'
      <3>1. c \notin Range(waiters)
        BY <2>4 DEF EnterQueue, QueueAccounting
      <3>2. IsInjective(waiters') /\ Range(waiters') = Range(waiters) \cup {c}
        <4>1. waiters \in Seq(Callers) /\ IsInjective(waiters) /\ waiters' = Append(waiters, c)
          BY <2>4 DEF EnterQueue, QueueAccounting, TypeOK
        <4> QED
          BY <4>1, <3>1, AppendNew, ZenonT(60)
      <3>3. InLine' = InLine \cup {c}
        BY <2>4 DEF EnterQueue, TypeOK
      <3>4. Len(waiters') <= read[c][2]
        BY <2>4, <2>0 DEF EnterQueue, TypeOK
      <3> QED
        BY <2>4, <2>0, <3>2, <3>3, <3>4 DEF EnterQueue, Bounded, QueueAccounting
    <2>5. ASSUME NEW c \in Callers, Take(c) PROVE QueueAccounting' /\ Bounded'
      <3>1. /\ IsInjective(waiters') /\ Range(waiters') = Range(waiters) \ {c}
            /\ Len(waiters') = Len(waiters) - 1
        BY <2>5, TailDrops DEF Take, CanTake, QueueAccounting, TypeOK
      <3>2. InLine' = InLine \ {c}
        BY <2>5 DEF Take, Signal, TypeOK
      <3>3. active' <= limits[1]
        BY <2>5, <2>0 DEF Take, CanTake
      <3>4. \E l \in LimitChoices : Len(waiters') <= l[2]
        BY <3>1, <2>0 DEF Bounded
      <3> QED
        BY <2>5, <2>0, <3>1, <3>2, <3>3, <3>4 DEF Take, Bounded, QueueAccounting
    <2>6. ASSUME NEW c \in Callers, Park(c) PROVE QueueAccounting' /\ Bounded'
      BY <2>6, <2>s, <2>b, <2>0 DEF Park, TypeOK
    <2>7. ASSUME NEW c \in Callers, Abandon(c) PROVE QueueAccounting' /\ Bounded'
      <3>0. PICK i \in 1..Len(waiters) : waiters[i] = c /\ waiters' = RemoveAt(waiters, i)
        BY <2>7 DEF Abandon
      <3>1. /\ IsInjective(waiters') /\ Range(waiters') = Range(waiters) \ {c}
            /\ Len(waiters') = Len(waiters) - 1
        BY <3>0, RemoveAtDrops DEF QueueAccounting, TypeOK
      <3>2. InLine' = InLine \ {c}
        BY <2>7 DEF Abandon, Signal, TypeOK
      <3>3. QueueAccounting'
        BY <3>1, <3>2 DEF QueueAccounting
      <3> QED
        BY <2>7, <2>b, <2>0, <3>1, <3>3 DEF Abandon
    <2>8. ASSUME NEW c \in Callers, Release(c) PROVE QueueAccounting' /\ Bounded'
      <3>1. QueueAccounting'
        BY <2>8, <2>s DEF Release, Signal, TypeOK
      <3> QED
        BY <2>8, <2>b, <2>0, <3>1 DEF Release
    <2>9. ASSUME NEW c \in Callers, Cancel(c) PROVE QueueAccounting' /\ Bounded'
      BY <2>9, <2>s, <2>b, <2>0 DEF Cancel
    <2>10. CASE Reload
      BY <2>10, <2>s, <2>b, <2>0 DEF Reload
    <2>11. CASE UNCHANGED vars
      BY <2>11, <2>s, <2>b, <2>0 DEF vars
    <2>12. QED
      BY <2>1, <2>2, <2>3, <2>4, <2>5, <2>6, <2>7, <2>8, <2>9, <2>10, <2>11
         DEF Next, Enter, Loop
  <1>3. QED
    BY <1>1, <1>2, TypeCorrect, PTL DEF Spec

-----------------------------------------------------------------------------
\* The pool counts with the same Cardinality.
LEMMA SameCount == \A S : Pool!Cardinality(S) = Cardinality(S)
  BY DEF Pool!Cardinality, Cardinality

\* Acquire and Release implement the pool of permits, whatever is canceled or
\* reloaded in between: the counter and the list stand for the sets of the pool
\* (PermitAccounting, QueueAccounting), so a test of the counter against limits
\* that were read earlier is a test some configured limits allow.
THEOREM LimiterIsPool == Spec => ImplementsPool
  <1> USE LimiterAssumption
  <1>1. Init => Pool!PoolInit
    BY DEF Init, Pool!PoolInit, Owning, InLine, Waiting, Idle, Queued, Parked, Woken, Held
  <1>2. QueueSound /\ PermitAccounting /\ [Next]_vars => [Pool!PoolNext]_(Pool!poolVars)
    <2> SUFFICES ASSUME TypeOK, QueueAccounting, PermitAccounting, [Next]_vars
                 PROVE  [Pool!PoolNext]_(Pool!poolVars)
      BY DEF QueueSound
    <2>0. /\ \A c \in Callers : read[c] \in LimitChoices
          /\ limits \in LimitChoices
          /\ active = Cardinality(Owning)
          /\ Len(waiters) = Cardinality(InLine)
      BY QueueLength DEF TypeOK, PermitAccounting, Owning
    <2>n. \A l \in LimitChoices : l[1] \in Nat /\ l[2] \in Nat
      OBVIOUS
    <2>f. active \in Nat /\ Len(waiters) \in Nat
      BY DEF TypeOK
    <2>s. ASSUME Owning' = Owning, InLine' = InLine
          PROVE  [Pool!PoolNext]_(Pool!poolVars)
      BY <2>s DEF Pool!poolVars
    <2> USE DEF Owning, InLine, Waiting, Idle, Entering, Queued, Parked, Woken, Held, Refused, Gone
    <2>1. ASSUME NEW c \in Callers, ReadLimits(c) PROVE [Pool!PoolNext]_(Pool!poolVars)
      BY <2>1, <2>s DEF ReadLimits, TypeOK
    <2>2. ASSUME NEW c \in Callers, EnterFast(c) PROVE [Pool!PoolNext]_(Pool!poolVars)
      <3>1. Owning' = Owning \cup {c} /\ InLine' = InLine /\ c \notin Owning /\ c \notin InLine
        BY <2>2 DEF EnterFast, TypeOK
      <3> HIDE DEF Owning, InLine
      <3>2. Pool!Grab(c)
        BY <2>2, <2>0, <3>1, SameCount DEF EnterFast, Pool!Grab, Pool!Outside, Pool!Free
      <3> QED
        BY <3>2 DEF Pool!PoolNext
    <2>3. ASSUME NEW c \in Callers, EnterRefused(c) PROVE [Pool!PoolNext]_(Pool!poolVars)
      BY <2>3, <2>s DEF EnterRefused, TypeOK
    <2>4. ASSUME NEW c \in Callers, EnterQueue(c) PROVE [Pool!PoolNext]_(Pool!poolVars)
      <3>1. Owning' = Owning /\ InLine' = InLine \cup {c} /\ c \notin Owning /\ c \notin InLine
        BY <2>4 DEF EnterQueue, TypeOK
      <3>2. ~(active < read[c][1]) /\ Len(waiters) < read[c][2]
        BY <2>4, <2>0, <2>n, <2>f DEF EnterQueue
      <3> HIDE DEF Owning, InLine
      <3>3. Pool!Enqueue(c)
        BY <2>0, <3>1, <3>2, SameCount DEF Pool!Enqueue, Pool!Outside, Pool!Free, Pool!Room
      <3> QED
        BY <3>3 DEF Pool!PoolNext
    <2>5. ASSUME NEW c \in Callers, Take(c) PROVE [Pool!PoolNext]_(Pool!poolVars)
      <3>1. Owning' = Owning \cup {c} /\ InLine' = InLine \ {c} /\ c \in InLine
        BY <2>5 DEF Take, Signal, TypeOK
      <3> HIDE DEF Owning, InLine
      <3>2. Pool!Grant(c)
        BY <2>5, <2>0, <3>1, SameCount DEF Take, CanTake, Pool!Grant, Pool!Free
      <3> QED
        BY <3>2 DEF Pool!PoolNext
    <2>6. ASSUME NEW c \in Callers, Park(c) PROVE [Pool!PoolNext]_(Pool!poolVars)
      BY <2>6, <2>s DEF Park, TypeOK
    <2>7. ASSUME NEW c \in Callers, Abandon(c) PROVE [Pool!PoolNext]_(Pool!poolVars)
      <3>1. Owning' = Owning /\ InLine' = InLine \ {c} /\ c \in InLine
        BY <2>7 DEF Abandon, Signal, TypeOK
      <3> HIDE DEF Owning, InLine
      <3> QED
        BY <3>1 DEF Pool!PoolNext, Pool!Quit
    <2>8. ASSUME NEW c \in Callers, Release(c) PROVE [Pool!PoolNext]_(Pool!poolVars)
      <3>1. Owning' = Owning \ {c} /\ InLine' = InLine /\ c \in Owning
        BY <2>8 DEF Release, Signal, TypeOK
      <3> HIDE DEF Owning, InLine
      <3> QED
        BY <3>1 DEF Pool!PoolNext, Pool!GiveBack
    <2>9. ASSUME NEW c \in Callers, Cancel(c) PROVE [Pool!PoolNext]_(Pool!poolVars)
      BY <2>9, <2>s DEF Cancel
    <2>10. CASE Reload
      BY <2>10, <2>s DEF Reload
    <2>11. CASE UNCHANGED vars
      BY <2>11, <2>s DEF vars
    <2>12. QED
      BY <2>1, <2>2, <2>3, <2>4, <2>5, <2>6, <2>7, <2>8, <2>9, <2>10, <2>11
         DEF Next, Enter, Loop
  <1>3. QED
    BY <1>1, <1>2, QueueIsSound, PermitsAccounted, PTL DEF Spec, ImplementsPool, Pool!PoolSpec
=============================================================================
