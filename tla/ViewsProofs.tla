----------------------------- MODULE ViewsProofs -----------------------------
(***************************************************************************)
(* Theorems about the parts of the console that Views puts side by side,   *)
(* each with the inductive invariant its proof needs, for any number of    *)
(* requests, captures, saved filters, scenes, words, tasks, crashes,       *)
(* policies, domains, records and calls under way.  The last section       *)
(* carries them over to ViewsSpec.                                         *)
(***************************************************************************)
EXTENDS Views, OrderingProofs, SequenceTheorems

------------------------------------------------------------------------------
\* Lists, as the panels and the topology use them.

\* A section of a list, by position.
LEMMA Section ==
    ASSUME NEW S, NEW s \in Seq(S), NEW m \in 1..(Len(s) + 1), NEW n \in 0..Len(s),
           m <= n + 1
    PROVE  /\ SubSeq(s, m, n) \in Seq(S)
           /\ Len(SubSeq(s, m, n)) = n - m + 1
           /\ \A j \in 1..(n - m + 1) : SubSeq(s, m, n)[j] = s[j + m - 1]
  <1>1. Len(s) \in Nat /\ m \in Int /\ n \in Int /\ \A j \in m..n : s[j] \in S
    OBVIOUS
  <1>2. /\ SubSeq(s, m, n) \in Seq(S)
        /\ Len(SubSeq(s, m, n)) = IF m <= n THEN n - m + 1 ELSE 0
        /\ \A j \in 1..(n - m + 1) : SubSeq(s, m, n)[j] = s[m + j - 1]
    BY <1>1, SubSeqProperties
  <1> QED
    BY <1>1, <1>2

\* A list without its entry at i: what stood behind it moves up.
LEMMA RemovedAt ==
    ASSUME NEW S, NEW s \in Seq(S), NEW i \in 1..Len(s)
    PROVE  /\ RemoveAt(s, i) \in Seq(S)
           /\ Len(RemoveAt(s, i)) = Len(s) - 1
           /\ \A j \in 1..(Len(s) - 1) : RemoveAt(s, i)[j] = s[IF j < i THEN j ELSE j + 1]
  <1> DEFINE a == SubSeq(s, 1, i - 1)
             b == SubSeq(s, i + 1, Len(s))
             t == a \o b
  <1>0. Len(s) \in Nat /\ i \in Nat /\ i >= 1 /\ i <= Len(s) /\ DOMAIN s = 1..Len(s)
    OBVIOUS
  <1>1. /\ 1 \in 1..(Len(s) + 1) /\ i - 1 \in 0..Len(s) /\ 1 <= (i - 1) + 1
        /\ i + 1 \in 1..(Len(s) + 1) /\ Len(s) \in 0..Len(s) /\ i + 1 <= Len(s) + 1
    BY <1>0
  <1>2. /\ a \in Seq(S)
        /\ Len(a) = (i - 1) - 1 + 1
        /\ \A j \in 1..((i - 1) - 1 + 1) : a[j] = s[j + 1 - 1]
    BY <1>1, Section, Zenon
  <1>3. /\ b \in Seq(S)
        /\ Len(b) = Len(s) - (i + 1) + 1
        /\ \A j \in 1..(Len(s) - (i + 1) + 1) : b[j] = s[j + (i + 1) - 1]
    BY <1>1, Section, Zenon
  <1> HIDE DEF a, b
  <1>4. /\ t \in Seq(S)
        /\ Len(t) = Len(a) + Len(b)
        /\ \A j \in 1..(Len(a) + Len(b)) : t[j] = IF j <= Len(a) THEN a[j] ELSE b[j - Len(a)]
    BY <1>2, <1>3, ConcatProperties, Zenon
  <1> HIDE DEF t
  <1>5. Len(a) = i - 1 /\ Len(b) = Len(s) - i /\ Len(t) = Len(s) - 1
    BY <1>0, <1>2, <1>3, <1>4
  <1>6. ASSUME NEW j \in 1..(Len(s) - 1)
        PROVE  t[j] = s[IF j < i THEN j ELSE j + 1]
    <2>1. CASE j < i
      <3>1. j \in 1..((i - 1) - 1 + 1) /\ j <= Len(a) /\ j \in 1..(Len(a) + Len(b)) /\ j + 1 - 1 = j
        BY <2>1, <1>0, <1>5
      <3> QED
        BY <2>1, <3>1, <1>2, <1>4
    <2>2. CASE ~(j < i)
      <3>1. /\ ~(j <= Len(a)) /\ j \in 1..(Len(a) + Len(b))
            /\ j - Len(a) \in 1..(Len(s) - (i + 1) + 1) /\ (j - Len(a)) + (i + 1) - 1 = j + 1
        BY <2>2, <1>0, <1>5
      <3> QED
        BY <2>2, <3>1, <1>3, <1>4
    <2> QED
      BY <2>1, <2>2
  <1>7. RemoveAt(s, i) = t
    BY DEF RemoveAt, t, a, b
  <1> QED
    BY <1>4, <1>5, <1>6, <1>7

\* A list without duplicates, less its entry at i, has none and no longer has
\* that element.
LEMMA RemovedInjective ==
    ASSUME NEW S, NEW s \in Seq(S), NEW i \in 1..Len(s), IsInjective(s)
    PROVE  IsInjective(RemoveAt(s, i)) /\ s[i] \notin Range(RemoveAt(s, i))
  <1> DEFINE t == RemoveAt(s, i)
             p(j) == IF j < i THEN j ELSE j + 1
  <1>1. /\ t \in Seq(S) /\ Len(t) = Len(s) - 1
        /\ \A j \in 1..(Len(s) - 1) : t[j] = s[p(j)]
    BY RemovedAt
  <1> HIDE DEF t
  <1>2. DOMAIN t = 1..(Len(s) - 1) /\ DOMAIN s = 1..Len(s) /\ Len(s) \in Nat
    BY <1>1
  <1>3. \A j \in 1..(Len(s) - 1) : p(j) \in 1..Len(s) /\ p(j) # i
    BY <1>2
  <1>4. \A j, k \in 1..(Len(s) - 1) : p(j) = p(k) => j = k
    BY <1>2
  <1> HIDE DEF p
  <1>5. \A j \in 1..(Len(s) - 1) : t[j] # s[i]
    BY <1>1, <1>2, <1>3 DEF IsInjective
  <1>6. IsInjective(t)
    BY <1>1, <1>2, <1>3, <1>4, SMTT(30) DEF IsInjective
  <1>7. s[i] \notin Range(t)
    BY <1>2, <1>5 DEF Range
  <1> QED
    BY <1>6, <1>7 DEF t

------------------------------------------------------------------------------
\* SignalTopology: a scene is alive only while it is owned.

Mount == [scene : Nat \ {0}, pc : {"import", "returned", "failed"}]

\* Mounts stand in the order of their effects, none of them newer than the last.
MountsOrdered ==
    /\ \A i, j \in DOMAIN mounts : i < j => mounts[i].scene < mounts[j].scene
    /\ \A i \in DOMAIN mounts : mounts[i].scene <= effect

\* A live scene belongs to the last effect or to a mount about to settle.
LiveOwned ==
    \A s \in live : \/ s = control
                    \/ \E i \in DOMAIN mounts : mounts[i] = [scene |-> s, pc |-> "returned"]

TopologyInv ==
    /\ {mounted, compact, themed, ran} \subseteq BOOLEAN
    /\ effect \in Nat /\ control \in {0, effect}
    /\ live \subseteq Nat \ {0} /\ host \in live \cup {0}
    /\ mounts \in Seq(Mount)
    /\ MountsOrdered
    /\ LiveOwned
    /\ (~mounted \/ ran) => control = 0
    /\ (mounted /\ ran) => \A i \in DOMAIN mounts : mounts[i].scene # effect
    /\ (mounted /\ renderState = "ready") =>
          /\ effect \in live /\ host = effect
          /\ ~themed => drawn = resolved
          /\ \A i \in DOMAIN mounts : mounts[i].pc # "import"

\* A mount of the list, by position.
LEMMA MountTyped ==
    ASSUME mounts \in Seq(Mount), NEW i \in DOMAIN mounts
    PROVE  /\ mounts[i] \in Mount /\ mounts[i].scene \in Nat /\ mounts[i].scene # 0
           /\ i \in 1..Len(mounts) /\ DOMAIN mounts = 1..Len(mounts) /\ Len(mounts) \in Nat
  <1>1. mounts[i] \in Mount
    OBVIOUS
  <1>2. mounts[i].scene \in Nat /\ mounts[i].scene # 0
    BY <1>1 DEF Mount
  <1> QED
    BY <1>1, <1>2

\* Between two events only the scene of the last effect is live.
LEMMA QuietLive ==
    ASSUME TopologyInv, BetweenEvents
    PROVE  live \subseteq {control}
  BY DEF TopologyInv, BetweenEvents, LiveOwned

\* The invariant says what SceneOwned asks for.
LEMMA TopologyInvOwned == TopologyInv => SceneOwned
  <1> SUFFICES ASSUME TopologyInv, BetweenEvents
               PROVE  /\ live \subseteq {effect} /\ host \in live \cup {0}
                      /\ (~mounted \/ ran) => live = {}
                      /\ (mounted /\ renderState = "ready") =>
                            /\ live = {effect} /\ host = effect
                            /\ ~themed => drawn = resolved
    BY DEF SceneOwned, EffectDue, TopologyInv
  <1>1. live \subseteq {control} /\ 0 \notin live
    BY QuietLive DEF TopologyInv
  <1> QED
    BY <1>1 DEF TopologyInv

\* The effect runs anew: whatever its predecessor owned is disposed of, and the
\* mount it starts is the newest.
LEMMA EffectKeeps ==
    ASSUME TopologyInv, BetweenEvents, NEW narrow \in BOOLEAN, RunEffect(narrow),
           mounted' = TRUE, compact' \in BOOLEAN
    PROVE  TopologyInv'
  <1>1. live' = {} /\ host' = 0 /\ control' = 0 /\ effect' = effect + 1 /\ effect' \in Nat
    BY QuietLive DEF TopologyInv, RunEffect, Cleaned, LiveWithout, HostWithout
  <1>2. renderState' # "ready" /\ themed' = FALSE /\ ran' = narrow
    BY DEF RunEffect
  <1>3. CASE narrow
    <2>1. mounts' = mounts
      BY <1>3 DEF RunEffect
    <2>2. MountsOrdered' /\ \A i \in DOMAIN mounts' : mounts'[i].scene # effect'
      <3>1. \A i \in DOMAIN mounts : mounts[i].scene \in Nat
        BY MountTyped DEF TopologyInv
      <3> QED
        BY <1>1, <2>1, <3>1 DEF TopologyInv, MountsOrdered
    <2> QED
      BY <1>1, <1>2, <2>1, <2>2 DEF TopologyInv, LiveOwned
  <1>4. CASE ~narrow
    <2> DEFINE m == [scene |-> effect + 1, pc |-> "import"]
    <2>1. mounts' = Append(mounts, m) /\ m \in Mount
      BY <1>4, <1>1 DEF RunEffect, Mount, TopologyInv
    <2>2. /\ mounts' \in Seq(Mount)
          /\ DOMAIN mounts = 1..Len(mounts) /\ Len(mounts) \in Nat
          /\ DOMAIN mounts' = 1..(Len(mounts) + 1)
          /\ \A i \in 1..Len(mounts) : mounts'[i] = mounts[i]
          /\ mounts'[Len(mounts) + 1] = m
      BY <2>1 DEF TopologyInv
    <2>3. MountsOrdered'
      <3>1. \A i \in DOMAIN mounts : mounts[i].scene \in Nat /\ mounts[i].scene <= effect
        BY MountTyped DEF TopologyInv, MountsOrdered
      <3>2. effect \in Nat /\ \A i, j \in DOMAIN mounts : i < j => mounts[i].scene < mounts[j].scene
        BY DEF TopologyInv, MountsOrdered
      <3>3. m.scene = effect + 1
        OBVIOUS
      <3> HIDE DEF m
      <3>4. \A i, j \in DOMAIN mounts' : i < j => mounts'[i].scene < mounts'[j].scene
        BY <2>2, <3>1, <3>2, <3>3
      <3>5. \A i \in DOMAIN mounts' : mounts'[i].scene <= effect'
        BY <1>1, <2>2, <3>1, <3>2, <3>3
      <3> QED
        BY <3>4, <3>5 DEF MountsOrdered
    <2> QED
      BY <1>1, <1>2, <1>4, <2>2, <2>3 DEF TopologyInv, LiveOwned
  <1> QED
    BY <1>3, <1>4

\* What is left of the mounts when the one at i has settled.
LEMMA WithoutMount ==
    ASSUME mounts \in Seq(Mount), NEW i \in DOMAIN mounts
    PROVE  /\ Without(i) \in Seq(Mount)
           /\ DOMAIN Without(i) = 1..(Len(mounts) - 1)
           /\ \A j \in 1..(Len(mounts) - 1) :
                 Without(i)[j] = mounts[IF j < i THEN j ELSE j + 1]
  <1> DEFINE a == SubSeq(mounts, 1, i - 1)
             b == SubSeq(mounts, i + 1, Len(mounts))
             t == a \o b
  <1>0. Len(mounts) \in Nat /\ i \in Nat /\ i >= 1 /\ i <= Len(mounts) /\ DOMAIN mounts = 1..Len(mounts)
    OBVIOUS
  <1>1. /\ 1 \in Int /\ i - 1 \in Int /\ i + 1 \in Int /\ Len(mounts) \in Int
        /\ \A j \in 1..(i - 1) : mounts[j] \in Mount
        /\ \A j \in (i + 1)..Len(mounts) : mounts[j] \in Mount
    BY <1>0
  <1>2. /\ a \in Seq(Mount)
        /\ Len(a) = IF 1 <= i - 1 THEN i - 1 - 1 + 1 ELSE 0
        /\ \A j \in 1..(i - 1 - 1 + 1) : a[j] = mounts[1 + j - 1]
    BY <1>1, SubSeqProperties
  <1>3. /\ b \in Seq(Mount)
        /\ Len(b) = IF i + 1 <= Len(mounts) THEN Len(mounts) - (i + 1) + 1 ELSE 0
        /\ \A j \in 1..(Len(mounts) - (i + 1) + 1) : b[j] = mounts[(i + 1) + j - 1]
    BY <1>1, SubSeqProperties
  <1> HIDE DEF a, b
  <1>4. /\ t \in Seq(Mount)
        /\ Len(t) = Len(a) + Len(b)
        /\ \A j \in 1..(Len(a) + Len(b)) : t[j] = IF j <= Len(a) THEN a[j] ELSE b[j - Len(a)]
    BY <1>2, <1>3, ConcatProperties, Zenon
  <1> HIDE DEF t
  <1>5. Len(a) = i - 1 /\ Len(b) = Len(mounts) - i
    BY <1>0, <1>2, <1>3
  <1>6. DOMAIN t = 1..(Len(mounts) - 1)
    BY <1>0, <1>4, <1>5
  <1>7. ASSUME NEW j \in 1..(Len(mounts) - 1)
        PROVE  t[j] = mounts[IF j < i THEN j ELSE j + 1]
    <2>1. CASE j < i
      <3>1. j \in 1..(i - 1 - 1 + 1) /\ j <= Len(a) /\ j \in 1..(Len(a) + Len(b)) /\ 1 + j - 1 = j
        BY <2>1, <1>0, <1>5
      <3> QED
        BY <2>1, <3>1, <1>2, <1>4
    <2>2. CASE ~(j < i)
      <3>1. /\ ~(j <= Len(a)) /\ j \in 1..(Len(a) + Len(b))
            /\ j - Len(a) \in 1..(Len(mounts) - (i + 1) + 1) /\ (i + 1) + (j - Len(a)) - 1 = j + 1
        BY <2>2, <1>0, <1>5, SMTT(30)
      <3> QED
        BY <2>2, <3>1, <1>3, <1>4
    <2> QED
      BY <2>1, <2>2
  <1>8. Without(i) = t
    BY DEF Without, t, a, b
  <1> QED
    BY <1>4, <1>6, <1>7, <1>8

\* A mount goes on to its callback: it keeps its place and its scene.
LEMMA MountMarked ==
    ASSUME mounts \in Seq(Mount), NEW i \in DOMAIN mounts,
           NEW q \in {"returned", "failed"}, mounts' = [mounts EXCEPT ![i].pc = q]
    PROVE  /\ mounts' \in Seq(Mount) /\ DOMAIN mounts' = DOMAIN mounts
           /\ \A j \in DOMAIN mounts : mounts'[j].scene = mounts[j].scene
           /\ \A j \in DOMAIN mounts \ {i} : mounts'[j] = mounts[j]
           /\ mounts'[i] = [scene |-> mounts[i].scene, pc |-> q]
  <1> DEFINE m == [mounts[i] EXCEPT !.pc = q]
  <1>1. m \in Mount /\ m = [scene |-> mounts[i].scene, pc |-> q] /\ mounts[i] \in Mount
    BY MountTyped DEF Mount
  <1>2. mounts' = [mounts EXCEPT ![i] = m]
    OBVIOUS
  <1> HIDE DEF m
  <1>3. mounts' \in Seq(Mount) /\ DOMAIN mounts' = DOMAIN mounts
    <2>1. i \in 1..Len(mounts) /\ DOMAIN mounts = 1..Len(mounts)
      BY MountTyped
    <2>2. [mounts EXCEPT ![i] = m] \in Seq(Mount)
      BY <1>1, <2>1, ExceptSeq
    <2>3. mounts' \in Seq(Mount)
      BY <1>2, <2>2, Zenon
    <2> QED
      BY <1>2, <2>3
  <1>4. mounts'[i] = m /\ \A j \in DOMAIN mounts \ {i} : mounts'[j] = mounts[j]
    BY <1>2
  <1>5. m.scene = mounts[i].scene
    BY <1>1
  <1> QED
    BY <1>1, <1>3, <1>4, <1>5

\* An import is answered.  The mounts in front of it are past theirs, so when
\* the mount of the last effect goes on no import is left.
LEMMA ContinueKeeps ==
    ASSUME TopologyInv, NEW i \in DOMAIN mounts, mountContinues(i)
    PROVE  TopologyInv'
  <1> DEFINE scene == mounts[i].scene
  <1>0. /\ mounts \in Seq(Mount) /\ mounts[i] \in Mount /\ scene \in Nat \ {0} /\ mounts[i].pc = "import"
        /\ DOMAIN mounts = 1..Len(mounts) /\ Len(mounts) \in Nat
    BY MountTyped DEF TopologyInv, mountContinues
  <1>1. UNCHANGED <<mounted, compact, themed, ran, effect, control, resolved>>
    BY DEF mountContinues, themeVars
  <1>2. ~(mounted /\ renderState = "ready")
    BY <1>0 DEF TopologyInv
  <1>3. CASE mounts' = [mounts EXCEPT ![i].pc = "returned"] /\ live' = live \cup {scene}
             /\ host' = scene /\ drawn' = resolved
             /\ renderState' = IF Cancelled(scene) THEN renderState ELSE "ready"
    <2>1. /\ mounts' \in Seq(Mount) /\ DOMAIN mounts' = DOMAIN mounts
          /\ \A j \in DOMAIN mounts : mounts'[j].scene = mounts[j].scene
          /\ \A j \in DOMAIN mounts \ {i} : mounts'[j] = mounts[j]
          /\ mounts'[i] = [scene |-> scene, pc |-> "returned"]
      BY <1>0, <1>3, MountMarked
    <2>2. MountsOrdered'
      BY <1>1, <2>1 DEF TopologyInv, MountsOrdered
    <2>3. LiveOwned'
      <3> SUFFICES ASSUME NEW s \in live'
                   PROVE  s = control' \/ \E j \in DOMAIN mounts' : mounts'[j] = [scene |-> s, pc |-> "returned"]
        BY DEF LiveOwned
      <3>1. CASE s = scene
        BY <3>1, <2>1
      <3>2. CASE s \in live /\ s # control
        <4>1. PICK j \in DOMAIN mounts : mounts[j] = [scene |-> s, pc |-> "returned"]
          BY <3>2 DEF TopologyInv, LiveOwned
        <4>2. j # i
          BY <4>1, <1>0
        <4> QED
          BY <4>1, <4>2, <2>1
      <3>3. CASE s \in live /\ s = control
        BY <3>3, <1>1
      <3> QED
        BY <1>3, <3>1, <3>2, <3>3
    <2>4. ASSUME mounted', renderState' = "ready"
          PROVE  effect' \in live' /\ host' = effect' /\ drawn' = resolved'
                 /\ \A j \in DOMAIN mounts' : mounts'[j].pc # "import"
      <3>1. scene = effect
        BY <2>4, <1>1, <1>2, <1>3 DEF Cancelled
      <3>2. ASSUME NEW j \in DOMAIN mounts, j # i PROVE mounts[j].pc # "import"
        <4>1. CASE j < i
          BY <4>1, <1>0, <3>2 DEF mountContinues, FirstImport
        <4>2. CASE i < j
          <5>1. mounts[i].scene < mounts[j].scene /\ mounts[j].scene <= effect /\ mounts[j].scene \in Nat
            BY <4>2, <1>0, MountTyped DEF TopologyInv, MountsOrdered
          <5> QED
            BY <5>1, <3>1, <1>0
        <4> QED
          BY <4>1, <4>2, <3>2, <1>0
      <3> QED
        BY <1>1, <1>3, <2>1, <3>1, <3>2
    <2>5. live' \subseteq Nat \ {0} /\ host' \in live' \cup {0}
      BY <1>0, <1>3 DEF TopologyInv
    <2> QED
      BY <1>1, <2>1, <2>2, <2>3, <2>4, <2>5 DEF TopologyInv
  <1>4. CASE mounts' = [mounts EXCEPT ![i].pc = "failed"] /\ UNCHANGED <<live, host, drawn, renderState>>
    <2>1. /\ mounts' \in Seq(Mount) /\ DOMAIN mounts' = DOMAIN mounts
          /\ \A j \in DOMAIN mounts : mounts'[j].scene = mounts[j].scene
          /\ \A j \in DOMAIN mounts \ {i} : mounts'[j] = mounts[j]
          /\ mounts'[i] = [scene |-> scene, pc |-> "failed"]
      BY <1>0, <1>4, MountMarked
    <2>2. MountsOrdered'
      BY <1>1, <2>1 DEF TopologyInv, MountsOrdered
    <2>3. LiveOwned'
      <3> SUFFICES ASSUME NEW s \in live, s # control
                   PROVE  \E j \in DOMAIN mounts' : mounts'[j] = [scene |-> s, pc |-> "returned"]
        BY <1>1, <1>4 DEF LiveOwned
      <3>1. PICK j \in DOMAIN mounts : mounts[j] = [scene |-> s, pc |-> "returned"]
        BY DEF TopologyInv, LiveOwned
      <3>2. j # i
        BY <3>1, <1>0
      <3> QED
        BY <3>1, <3>2, <2>1
    <2> QED
      BY <1>1, <1>2, <1>4, <2>1, <2>2, <2>3 DEF TopologyInv
  <1> QED
    BY <1>3, <1>4 DEF mountContinues

\* A mount settles: the last effect takes its scene over, or it is disposed of.
LEMMA SettleKeeps ==
    ASSUME TopologyInv, NEW i \in DOMAIN mounts, mountSettles(i)
    PROVE  TopologyInv'
  <1> DEFINE scene == mounts[i].scene
  <1>0. /\ mounts \in Seq(Mount) /\ mounts[i] \in Mount /\ scene \in Nat \ {0}
        /\ DOMAIN mounts = 1..Len(mounts) /\ Len(mounts) \in Nat /\ i \in 1..Len(mounts)
    BY MountTyped DEF TopologyInv
  <1>1. UNCHANGED <<mounted, compact, themed, ran, effect, resolved, drawn>>
    BY DEF mountSettles, themeVars
  <1>2. /\ mounts' \in Seq(Mount) /\ DOMAIN mounts' = 1..(Len(mounts) - 1)
        /\ \A j \in 1..(Len(mounts) - 1) : mounts'[j] = mounts[IF j < i THEN j ELSE j + 1]
    BY <1>0, WithoutMount DEF mountSettles
  <1>3. \A j \in DOMAIN mounts' : \E k \in DOMAIN mounts \ {i} : mounts'[j] = mounts[k]
    <2> SUFFICES ASSUME NEW j \in DOMAIN mounts'
                 PROVE  \E k \in DOMAIN mounts \ {i} : mounts'[j] = mounts[k]
      OBVIOUS
    <2>1. (IF j < i THEN j ELSE j + 1) \in DOMAIN mounts \ {i}
      BY <1>0, <1>2
    <2> QED
      BY <2>1, <1>2
  <1>4. \A k \in DOMAIN mounts \ {i} : \E j \in DOMAIN mounts' : mounts'[j] = mounts[k]
    <2> SUFFICES ASSUME NEW k \in DOMAIN mounts \ {i}
                 PROVE  \E j \in DOMAIN mounts' : mounts'[j] = mounts[k]
      OBVIOUS
    <2> DEFINE j == IF k < i THEN k ELSE k - 1
    <2>1. j \in 1..(Len(mounts) - 1) /\ k = IF j < i THEN j ELSE j + 1
      BY <1>0
    <2> QED
      BY <2>1, <1>2
  <1>5. \A k \in DOMAIN mounts \ {i} : mounts[k].scene # scene
    <2> SUFFICES ASSUME NEW k \in DOMAIN mounts, k # i PROVE mounts[k].scene # scene
      OBVIOUS
    <2>1. k < i \/ i < k
      BY <1>0
    <2>2. mounts[k].scene \in Nat
      BY <1>0, MountTyped
    <2> QED
      BY <2>1, <2>2, <1>0 DEF TopologyInv, MountsOrdered
  <1>6. MountsOrdered'
    <2>1. ASSUME NEW j \in DOMAIN mounts', NEW k \in DOMAIN mounts', j < k
          PROVE  mounts'[j].scene < mounts'[k].scene
      <3> DEFINE p(x) == IF x < i THEN x ELSE x + 1
      <3>1. p(j) \in DOMAIN mounts /\ p(k) \in DOMAIN mounts /\ p(j) < p(k)
        BY <2>1, <1>0, <1>2
      <3>2. mounts'[j] = mounts[p(j)] /\ mounts'[k] = mounts[p(k)]
        BY <1>2
      <3> HIDE DEF p
      <3> QED
        BY <3>1, <3>2 DEF TopologyInv, MountsOrdered
    <2>2. \A j \in DOMAIN mounts' : mounts'[j].scene <= effect'
      BY <1>1, <1>3 DEF TopologyInv, MountsOrdered
    <2> QED
      BY <2>1, <2>2 DEF MountsOrdered
  <1>7. ASSUME NEW s \in live, s # control, s # scene
        PROVE  \E j \in DOMAIN mounts' : mounts'[j] = [scene |-> s, pc |-> "returned"]
    <2>1. PICK k \in DOMAIN mounts : mounts[k] = [scene |-> s, pc |-> "returned"]
      BY <1>7 DEF TopologyInv, LiveOwned
    <2>2. k # i
      BY <2>1, <1>7
    <2> QED
      BY <2>1, <2>2, <1>4
  <1>8. (mounted' /\ ran') => \A j \in DOMAIN mounts' : mounts'[j].scene # effect'
    BY <1>1, <1>3 DEF TopologyInv
  <1>9. (mounted' /\ renderState = "ready") => \A j \in DOMAIN mounts' : mounts'[j].pc # "import"
    BY <1>1, <1>3 DEF TopologyInv
  <1>10. CASE mounts[i].pc = "returned" /\ Cancelled(scene)
    <2>1. /\ live' = live \ {scene} /\ host' = (IF host = scene THEN 0 ELSE host)
          /\ control' = control /\ renderState' = renderState
      BY <1>10 DEF mountSettles, Returned, LiveWithout, HostWithout
    <2>2. LiveOwned'
      BY <1>7, <2>1 DEF LiveOwned
    <2>3. live' \subseteq Nat \ {0} /\ host' \in live' \cup {0}
      BY <2>1 DEF TopologyInv
    <2>4. ASSUME mounted', renderState' = "ready"
          PROVE  effect' \in live' /\ host' = effect' /\ (~themed' => drawn' = resolved')
      <3>1. scene # effect
        BY <2>4, <1>1, <1>10 DEF Cancelled
      <3> QED
        BY <3>1, <2>1, <2>4, <1>1 DEF TopologyInv
    <2> QED
      BY <1>1, <1>2, <1>6, <1>8, <1>9, <2>1, <2>2, <2>3, <2>4 DEF TopologyInv
  <1>11. CASE mounts[i].pc = "returned" /\ ~Cancelled(scene)
    <2>1. live' = live /\ host' = host /\ control' = scene /\ renderState' = renderState
      BY <1>11 DEF mountSettles, Returned, TakeOver
    <2>2. mounted /\ scene = effect /\ ~ran
      BY <1>0, <1>11 DEF Cancelled, TopologyInv
    <2>3. LiveOwned'
      <3> SUFFICES ASSUME NEW s \in live, s # scene
                   PROVE  \E j \in DOMAIN mounts' : mounts'[j] = [scene |-> s, pc |-> "returned"]
        BY <2>1 DEF LiveOwned
      <3>1. s # control
        BY <1>0, <2>2 DEF TopologyInv
      <3> QED
        BY <3>1, <1>7
    <2> QED
      BY <1>1, <1>2, <1>6, <1>8, <1>9, <2>1, <2>2, <2>3 DEF TopologyInv
  <1>12. CASE mounts[i].pc # "returned"
    <2>1. /\ live' = live /\ host' = host /\ control' = control
          /\ renderState' \in {renderState, "fallback"}
      BY <1>12 DEF mountSettles
    <2>2. LiveOwned'
      <3> SUFFICES ASSUME NEW s \in live, s # control
                   PROVE  \E j \in DOMAIN mounts' : mounts'[j] = [scene |-> s, pc |-> "returned"]
        BY <2>1 DEF LiveOwned
      <3>1. PICK k \in DOMAIN mounts : mounts[k] = [scene |-> s, pc |-> "returned"]
        BY DEF TopologyInv, LiveOwned
      <3>2. k # i
        BY <3>1, <1>12
      <3> QED
        BY <3>1, <3>2, <1>4
    <2> QED
      BY <1>1, <1>2, <1>6, <1>8, <1>9, <2>1, <2>2 DEF TopologyInv
  <1> QED
    BY <1>10, <1>11, <1>12

\* One renderer at most, that of the last effect, whatever happens while
\* imports are under way.
THEOREM SceneIsOwned == TopologySpec => []SceneOwned
  <1>1. TopologyInit => TopologyInv
    <2> SUFFICES ASSUME TopologyInit PROVE TopologyInv
      OBVIOUS
    <2>1. mounts \in Seq(Mount) /\ DOMAIN mounts = {}
      BY DEF TopologyInit
    <2> QED
      BY <2>1 DEF TopologyInit, TopologyInv, MountsOrdered, LiveOwned
  <1>2. TopologyInv /\ [TopologyNext]_topologyVars => TopologyInv'
    <2> SUFFICES ASSUME TopologyInv, [TopologyNext]_topologyVars
                 PROVE  TopologyInv'
      OBVIOUS
    <2>t. ASSUME UNCHANGED <<mounted, sceneVars>>, compact' \in BOOLEAN, themed' \in BOOLEAN,
                 (mounted /\ ~themed') => (~themed /\ resolved' = resolved)
          PROVE  TopologyInv'
      BY <2>t DEF sceneVars, TopologyInv, MountsOrdered, LiveOwned
    <2>1. CASE openOverview
      <3>1. BetweenEvents /\ RunEffect(compact) /\ mounted' = TRUE /\ compact' \in BOOLEAN /\ compact \in BOOLEAN
        BY <2>1 DEF openOverview, TopologyInv
      <3> QED
        BY <3>1, EffectKeeps
    <2>2. CASE closeOverview
      <3>1. live' = {} /\ host' = 0 /\ control' = 0 /\ mounted' = FALSE
        BY <2>2, QuietLive DEF closeOverview, Cleaned, LiveWithout
      <3>2. UNCHANGED <<effect, mounts, compact, ran>> /\ themed' = FALSE
        BY <2>2 DEF closeOverview
      <3> QED
        BY <3>1, <3>2 DEF TopologyInv, MountsOrdered, LiveOwned
    <2>3. CASE changeWidth
      <3>1. UNCHANGED <<mounted, sceneVars>> /\ themed' = themed /\ resolved' = resolved /\ compact' = ~compact
        BY <2>3 DEF changeWidth, themeVars
      <3>2. themed' \in BOOLEAN /\ compact' \in BOOLEAN
        BY <3>1 DEF TopologyInv
      <3> QED
        BY <2>t, <3>1, <3>2, Zenon
    <2>4. ASSUME NEW m \in {"system"} \cup Themes, setMode(m) PROVE TopologyInv'
      BY <2>4, <2>t DEF setMode, applyTheme, TopologyInv
    <2>5. CASE preferenceChanges
      BY <2>5, <2>t DEF preferenceChanges, applyTheme, TopologyInv
    <2>e. CASE runEffect
      <3>1. /\ BetweenEvents /\ RunEffect(compact) /\ mounted' = TRUE
            /\ compact' \in BOOLEAN /\ compact \in BOOLEAN
        BY <2>e DEF runEffect, EffectDue, TopologyInv
      <3> QED
        BY <3>1, EffectKeeps
    <2>6. ASSUME NEW i \in DOMAIN mounts, mountContinues(i) PROVE TopologyInv'
      BY <2>6, ContinueKeeps
    <2>7. ASSUME NEW i \in DOMAIN mounts, mountSettles(i) PROVE TopologyInv'
      BY <2>7, SettleKeeps
    <2>8. CASE contextLost
      <3>1. PICK scene \in live :
               /\ live' = LiveWithout(scene) /\ host' = HostWithout(scene)
               /\ renderState' = IF Cancelled(scene) THEN renderState ELSE "fallback"
        BY <2>8 DEF contextLost
      <3>2. scene = control /\ scene = effect /\ live' = {} /\ host' = 0
        BY <2>8, <3>1, QuietLive DEF contextLost, TopologyInv, LiveWithout, HostWithout
      <3>3. ~(mounted /\ renderState' = "ready")
        BY <3>1, <3>2 DEF Cancelled
      <3> QED
        BY <2>8, <3>2, <3>3 DEF contextLost, TopologyInv, MountsOrdered, LiveOwned
    <2>9. CASE UNCHANGED topologyVars
      BY <2>9, <2>t DEF topologyVars, sceneVars, TopologyInv
    <2> QED
      BY <2>1, <2>2, <2>3, <2>4, <2>5, <2>e, <2>6, <2>7, <2>8, <2>9 DEF TopologyNext
  <1>3. QED
    BY <1>1, <1>2, TopologyInvOwned, PTL DEF TopologySpec

------------------------------------------------------------------------------
\* GlobalSearch: what is shown answers what stands in the box.

\* Only the calls of the effect that stands may be stored, and those ask for
\* the query that stands; a timer is set only while there is something to ask.
SearchInv ==
    /\ SearchTypeOK
    /\ timer => open /\ query \in SearchWords
    /\ searches \subseteq [word : SearchWords, disposed : BOOLEAN]
    /\ \A call \in searches : ~call.disposed => open /\ call.word = query
    /\ found \in [SearchCalls -> SUBSET SearchItems]

\* At most MaxResults results are listed.
LEMMA ResultsBounded ==
    ASSUME NEW word \in SearchWords \cup {Blank}, NEW page, NEW remote
    PROVE  /\ Len(ResultsOf(word, page, remote)) \in 0..MaxResults
           /\ ResultsOf(word, page, remote) # <<>> => Len(ResultsOf(word, page, remote)) # 0
  <1> DEFINE matches == MatchesOf(word, page, remote)
             n == IF Cardinality(matches) < MaxResults THEN Cardinality(matches) ELSE MaxResults
  <1>1. matches \subseteq SearchItems
    BY SearchAssumption DEF MatchesOf, Includes
  <1>2. Cardinality(matches) \in Nat
    BY <1>1, SearchAssumption, FS_Subset, FS_CardinalityType
  <1>3. n \in 0..MaxResults
    BY <1>2, SearchAssumption
  <1> DEFINE e(i) == CHOOSE x \in matches : Cardinality({f \in matches : f < x}) = i - 1
             r == [i \in 1..n |-> e(i)]
  <1>4. ResultsOf(word, page, remote) = r
    BY DEF ResultsOf
  <1> HIDE DEF n, e
  <1>5. Len(r) = n /\ (r # <<>> => n # 0)
    BY <1>3
  <1> QED
    BY <1>3, <1>4, <1>5

\* The highlighted result is one of those listed, or none.
LEMMA HighlightTyped ==
    ASSUME SearchTypeOK, query' \in SearchWords \cup {Blank}, Highlight
    PROVE  activeIndex' \in -1 .. MaxResults
  BY SearchAssumption DEF SearchTypeOK, Highlight, FirstOf

\* Effect: another query, or closing, disposes of every call under way.
LEMMA EffectDisposes ==
    ASSUME SearchInv, NEW word \in SearchWords \cup {Blank}, NEW isOpen \in BOOLEAN,
           Effect(word, isOpen), UNCHANGED found, Highlight
    PROVE  SearchInv'
  <1>1. query' = word /\ open' = isOpen
    BY DEF Effect
  <1>2. activeIndex' \in -1 .. MaxResults
    BY <1>1, HighlightTyped DEF SearchInv
  <1>3. CASE word = query /\ isOpen = open
    BY <1>1, <1>2, <1>3 DEF SearchInv, SearchTypeOK, Effect
  <1>4. CASE ~(word = query /\ isOpen = open)
    <2>1. /\ timer' = (isOpen /\ word \notin ShortWords \cup {Blank})
          /\ searches' = {[c EXCEPT !.disposed = TRUE] : c \in searches}
      BY <1>4 DEF Effect
    <2>2. /\ searches' \subseteq [word : SearchWords, disposed : BOOLEAN]
          /\ \A call \in searches' : call.disposed
      BY <2>1 DEF SearchInv
    <2>3. timer' \in BOOLEAN /\ (timer' => isOpen /\ word \in SearchWords)
      BY <2>1, SearchAssumption
    <2> QED
      BY <1>1, <1>2, <2>2, <2>3 DEF SearchInv, SearchTypeOK
  <1> QED
    BY <1>3, <1>4

\* An answer is stored only for the query that stands in the field.
THEOREM SearchAnswersMatch == SearchSpec => SearchMatches
  <1> DEFINE Good == /\ SearchTypeOK'
                     /\ \A c \in SearchCalls : found'[c] # found[c] => open /\ found'[c] = AnswerTo(query)[c]
  <1>1. SearchInit => SearchInv
    <2> SUFFICES ASSUME SearchInit PROVE SearchInv
      OBVIOUS
    <2>1. activeIndex \in -1 .. MaxResults
      BY SearchAssumption DEF SearchInit
    <2> QED
      BY <2>1 DEF SearchInit, SearchInv, SearchTypeOK
  <1>2. SearchInv /\ [SearchNext]_searchVars => SearchInv' /\ [Good]_searchVars
    <2> SUFFICES ASSUME SearchInv, [SearchNext]_searchVars
                 PROVE  SearchInv' /\ (\A c \in SearchCalls : found'[c] # found[c] => open /\ found'[c] = AnswerTo(query)[c])
      BY DEF SearchInv
    <2> DEFINE Goal == SearchInv' /\ (\A c \in SearchCalls : found'[c] # found[c] => open /\ found'[c] = AnswerTo(query)[c])
    <2>q. query \in SearchWords \cup {Blank} /\ activeIndex \in -1 .. MaxResults
      BY DEF SearchInv, SearchTypeOK
    <2>r. /\ Len(results) \in 0..MaxResults
          /\ results # <<>> => Len(results) # 0
      BY <2>q, ResultsBounded DEF results
    <2>k. ASSUME UNCHANGED <<query, open, timer, found, searches>>, activeIndex' \in -1 .. MaxResults
          PROVE  Goal
      BY <2>k DEF SearchInv, SearchTypeOK
    <2>1. ASSUME NEW word \in SearchWords \cup {Blank}, typeQuery(word) PROVE Goal
      BY <2>1, EffectDisposes DEF typeQuery
    <2>2. CASE focusSearch
      BY <2>2, <2>q, EffectDisposes DEF focusSearch
    <2>3. CASE escape
      BY <2>3, <2>q, EffectDisposes DEF escape
    <2>4. CASE timerFires
      <3>1. UNCHANGED <<query, open, found, activeIndex>> /\ open /\ query \in SearchWords /\ timer' = FALSE
        BY <2>4 DEF timerFires, SearchInv
      <3>2. searches' = searches \cup {[word |-> query, disposed |-> FALSE]}
        BY <2>4 DEF timerFires
      <3>3. /\ searches' \subseteq [word : SearchWords, disposed : BOOLEAN]
            /\ \A call \in searches' : ~call.disposed => call.word = query
        <4> DEFINE c == [word |-> query, disposed |-> FALSE]
        <4>1. c \in [word : SearchWords, disposed : BOOLEAN] /\ c.word = query
          BY <3>1
        <4> HIDE DEF c
        <4>2. searches' = searches \cup {c}
          BY <3>2 DEF c
        <4> QED
          BY <4>1, <4>2 DEF SearchInv
      <3> QED
        BY <3>1, <3>3 DEF SearchInv, SearchTypeOK
    <2>5. ASSUME NEW call \in searches, searchLands(call) PROVE Goal
      <3>1. UNCHANGED <<query, open, timer>> /\ searches' = searches \ {call} /\ Stored(call) /\ Highlight
        BY <2>5 DEF searchLands
      <3>2. activeIndex' \in -1 .. MaxResults
        BY <3>1, <2>q, HighlightTyped DEF SearchInv
      <3>3. AnswerTo(call.word) \in [SearchCalls -> SUBSET SearchItems]
        BY DEF AnswerTo
      <3>4. found' \in [SearchCalls -> SUBSET SearchItems]
        BY <3>1, <3>3 DEF SearchInv, Stored
      <3>5. ASSUME NEW c \in SearchCalls, found'[c] # found[c]
            PROVE  open /\ found'[c] = AnswerTo(query)[c]
        <4>1. ~call.disposed
          BY <3>1, <3>5 DEF Stored
        <4>2. open /\ call.word = query
          BY <4>1 DEF SearchInv
        <4>3. PICK fulfilled \in SUBSET SearchCalls :
                 found' = [d \in SearchCalls |-> IF d \in fulfilled THEN AnswerTo(call.word)[d] ELSE found[d]]
          BY <3>1, <4>1 DEF Stored
        <4> QED
          BY <3>5, <4>2, <4>3
      <3> QED
        BY <3>1, <3>2, <3>4, <3>5 DEF SearchInv, SearchTypeOK
    <2>6. CASE pageChanges
      <3>1. UNCHANGED <<query, open, timer, found, searches>> /\ Highlight
        BY <2>6 DEF pageChanges
      <3>2. activeIndex' \in -1 .. MaxResults
        BY <3>1, <2>q, HighlightTyped DEF SearchInv
      <3> QED
        BY <3>1, <3>2, <2>k
    <2>7. ASSUME NEW direction \in {-1, 1}, moveHighlight(direction) PROVE Goal
      <3>1. Len(results) \in 1..MaxResults
        BY <2>7, <2>r DEF moveHighlight
      <3>2. activeIndex' = (activeIndex + direction + Len(results)) % Len(results)
        BY <2>7 DEF moveHighlight
      <3> HIDE DEF results
      <3>3. activeIndex' \in -1 .. MaxResults
        BY <3>1, <3>2, <2>q, SearchAssumption
      <3> QED
        BY <2>7, <3>3, <2>k DEF moveHighlight
    <2>8. CASE pointAt
      <3>1. activeIndex' \in -1 .. MaxResults
        BY <2>8, <2>r, SearchAssumption DEF pointAt
      <3> QED
        BY <2>8, <3>1, <2>k DEF pointAt
    <2>9. CASE select
      BY <2>9, EffectDisposes DEF select
    <2>10. CASE UNCHANGED searchVars
      BY <2>10, <2>k, <2>q DEF searchVars
    <2> QED
      BY <2>1, <2>2, <2>3, <2>4, <2>5, <2>6, <2>7, <2>8, <2>9, <2>10 DEF SearchNext
  <1>3. QED
    BY <1>1, <1>2, PTL DEF SearchSpec, SearchMatches

------------------------------------------------------------------------------
\* Panels: a paused log stays as it is.

\* The calls of the two views, each kind with the fields its answer needs.
LogCalls     == [for : {"log"}, filter : LogFilters, paused : BOOLEAN, pc : {"asked"}]
LogAnswers   == [for : {"log"}, paused : BOOLEAN, page : SUBSET (1 .. MaxEntries), pc : {"read"}]
RecordsCalls == [for : {"records"}, records : (SUBSET Captures) \cup {None}, active : BOOLEAN \cup {None},
                 busy : BOOLEAN, pc : {"asked", "read"}]
SwitchCalls  == [for : {"start", "stop"}, pc : {"asked", "read"}]
PreviewCalls == [for : {"preview"}, which : Captures, pc : {"asked", "read"}]
DeleteCalls  == [for : {"delete"}, which : SUBSET Captures, preview : Captures \cup {None},
                 pc : {"asked", "read"}]
CleanCalls   == [for : {"expired", "rewrap"}, which : SUBSET Captures, pc : {"asked", "read"}]
PanelCalls == LogCalls \cup LogAnswers \cup RecordsCalls \cup SwitchCalls
                  \cup PreviewCalls \cup DeleteCalls \cup CleanCalls

\* A load of the captures goes on only when both of its answers are there.
Whole(call) == (call.for = "records" /\ call.pc = "read") => call.records # None

LogStates == [filter : LogFilters, paused : BOOLEAN, entries : SUBSET (1 .. MaxEntries),
              pending : SUBSET (1 .. MaxEntries), newCount : Nat]
CaptureStates == [records : SUBSET Captures, active : BOOLEAN \cup {None}, preview : Captures \cup {None},
                  keys : BOOLEAN, busy : BOOLEAN]

\* A log that is not paused has no pending entries of its own, and the count
\* is always that of the entries a press of the button would add.
Counted(l) == /\ l.newCount = Cardinality(l.pending \ l.entries)
              /\ ~l.paused => l.entries = l.pending

\* The types that PausedFrozen speaks of.
PanelsInv ==
    /\ PanelsTypeOK
    /\ log \in LogStates /\ captures \in CaptureStates
    /\ Counted(log)
    /\ capturing \in BOOLEAN
    /\ calls \subseteq PanelCalls
    /\ \A call \in calls : Whole(call)

\* Which kind a call is shows in its name and in how far it is.
LEMMA CallKinds ==
    ASSUME NEW call \in PanelCalls
    PROVE  /\ call.pc \in {"asked", "read"}
           /\ call.for = "log" /\ call.pc = "asked" => call \in LogCalls
           /\ call.for = "log" /\ call.pc = "read" => call \in LogAnswers
           /\ call.for = "records" => call \in RecordsCalls
           /\ call.for \in {"start", "stop"} => call \in SwitchCalls
           /\ call.for = "preview" => call \in PreviewCalls
           /\ call.for = "delete" => call \in DeleteCalls
           /\ call.for \in {"expired", "rewrap"} => call \in CleanCalls
  <1>1. CASE call \in LogCalls
    BY <1>1 DEF LogCalls
  <1>2. CASE call \in LogAnswers
    BY <1>2 DEF LogAnswers
  <1>3. CASE call \in RecordsCalls
    BY <1>3 DEF RecordsCalls
  <1>4. CASE call \in SwitchCalls
    BY <1>4 DEF SwitchCalls
  <1>5. CASE call \in PreviewCalls
    BY <1>5 DEF PreviewCalls
  <1>6. CASE call \in DeleteCalls
    BY <1>6 DEF DeleteCalls
  <1>7. CASE call \in CleanCalls
    BY <1>7 DEF CleanCalls
  <1> QED
    BY <1>1, <1>2, <1>3, <1>4, <1>5, <1>6, <1>7 DEF PanelCalls

\* The count of a set of log entries is a number.
LEMMA EntriesCounted == \A S \in SUBSET (1 .. MaxEntries) : Cardinality(S) \in Nat
  <1> SUFFICES ASSUME NEW S \in SUBSET (1 .. MaxEntries) PROVE Cardinality(S) \in Nat
    OBVIOUS
  <1>1. IsFiniteSet(1 .. MaxEntries)
    BY PanelsAssumption, FS_Interval
  <1> QED
    BY <1>1, FS_Subset, FS_CardinalityType

\* What a call for the log is.
LEMMA LogCallTyped ==
    ASSUME log \in LogStates, NEW filter \in LogFilters
    PROVE  LogCall(filter) \in PanelCalls /\ Whole(LogCall(filter))
  <1>1. LogCall(filter) \in LogCalls /\ LogCall(filter).for = "log"
    BY DEF LogCall, LogCalls, LogStates
  <1> QED
    BY <1>1 DEF PanelCalls, Whole

\* What a call for the captures is.
LEMMA RecordsCallTyped ==
    ASSUME NEW busy \in BOOLEAN
    PROVE  RecordsCall(busy) \in PanelCalls /\ Whole(RecordsCall(busy))
  <1>1. RecordsCall(busy) \in RecordsCalls /\ RecordsCall(busy).pc = "asked"
    BY DEF RecordsCall, RecordsCalls
  <1> QED
    BY <1>1 DEF PanelCalls, Whole

\* A new filter in front of a list without duplicates leaves no duplicates.
LEMMA KeptFirstTyped ==
    ASSUME NEW f \in LogFilters, NEW others \in Seq(LogFilters), IsInjective(others), f \notin Range(others)
    PROVE  /\ KeptFirst(f, others) \in Seq(LogFilters)
           /\ Len(KeptFirst(f, others)) <= MaxSaved
           /\ IsInjective(KeptFirst(f, others))
  <1> DEFINE kept == <<f>> \o others
             n == IF Len(kept) < MaxSaved THEN Len(kept) ELSE MaxSaved
             t == SubSeq(kept, 1, n)
  <1>1. <<f>> \in Seq(LogFilters) /\ Len(<<f>>) = 1 /\ <<f>>[1] = f
    OBVIOUS
  <1>2. /\ kept \in Seq(LogFilters)
        /\ Len(kept) = Len(<<f>>) + Len(others)
        /\ \A i \in 1 .. Len(<<f>>) + Len(others) :
              kept[i] = IF i <= Len(<<f>>) THEN <<f>>[i] ELSE others[i - Len(<<f>>)]
    BY <1>1, ConcatProperties, Zenon
  <1> HIDE DEF kept
  <1>3. /\ Len(kept) = 1 + Len(others) /\ Len(others) \in Nat
        /\ kept[1] = f
        /\ \A i \in 2 .. (1 + Len(others)) : kept[i] = others[i - 1]
    <2>1. Len(kept) = 1 + Len(others) /\ Len(others) \in Nat
      BY <1>1, <1>2
    <2>2. kept[1] = f
      BY <1>1, <1>2, <2>1
    <2>3. ASSUME NEW i \in 2 .. (1 + Len(others)) PROVE kept[i] = others[i - 1]
      <3>1. i \in 1 .. Len(<<f>>) + Len(others) /\ ~(i <= Len(<<f>>)) /\ i - Len(<<f>>) = i - 1
        BY <1>1, <2>1
      <3> QED
        BY <3>1, <1>2
    <2> QED
      BY <2>1, <2>2, <2>3
  <1>4. n \in 0 .. Len(kept) /\ n <= MaxSaved /\ 1 \in 1 .. (Len(kept) + 1) /\ 1 <= n + 1 /\ n \in Nat
    BY <1>3, PanelsAssumption
  <1> HIDE DEF n
  <1>5. t \in Seq(LogFilters) /\ Len(t) = n - 1 + 1 /\ \A j \in 1 .. (n - 1 + 1) : t[j] = kept[j + 1 - 1]
    BY <1>2, <1>4, Section, ZenonT(60)
  <1> HIDE DEF t
  <1>6. /\ Len(t) = n /\ DOMAIN t = 1 .. n /\ DOMAIN others = 1 .. Len(others)
        /\ \A j \in 1 .. n : t[j] = kept[j]
    BY <1>4, <1>5
  <1>7. \A i \in 2 .. (1 + Len(others)) : kept[i] # f
    BY <1>3, <1>6 DEF Range
  <1>8. \A i, j \in 2 .. (1 + Len(others)) : kept[i] = kept[j] => i = j
    <2> SUFFICES ASSUME NEW i \in 2 .. (1 + Len(others)), NEW j \in 2 .. (1 + Len(others)), kept[i] = kept[j]
                 PROVE  i = j
      OBVIOUS
    <2>1. i - 1 \in DOMAIN others /\ j - 1 \in DOMAIN others /\ others[i - 1] = others[j - 1]
      BY <1>3, <1>6
    <2>2. i - 1 = j - 1
      BY <2>1 DEF IsInjective
    <2> QED
      BY <2>2, <1>3
  <1>9. IsInjective(t)
    <2> SUFFICES ASSUME NEW i \in 1 .. n, NEW j \in 1 .. n, kept[i] = kept[j]
                 PROVE  i = j
      BY <1>6 DEF IsInjective
    <2>1. /\ i = 1 \/ i \in 2 .. (1 + Len(others))
          /\ j = 1 \/ j \in 2 .. (1 + Len(others))
      BY <1>3, <1>4
    <2> QED
      BY <2>1, <1>3, <1>7, <1>8
  <1>10. KeptFirst(f, others) = t
    BY DEF KeptFirst, kept, n, t
  <1> QED
    BY <1>4, <1>5, <1>6, <1>9, <1>10

\* A step that leaves the log, the saved filters and the captures on the page
\* alone and adds or drops typed calls keeps the invariant.
LEMMA CallsKeep ==
    ASSUME PanelsInv, UNCHANGED <<log, saved>>,
           view' \in {"logs", "captures"}, shownPage' \in BOOLEAN, logged' \in 0 .. MaxEntries,
           stored' \subseteq Captures, capturing' \in BOOLEAN, captures' \in CaptureStates,
           \A call \in calls' : call \in calls \/ (call \in PanelCalls /\ Whole(call))
    PROVE  PanelsInv' /\ log' = log
  <1>1. {captures'.busy, captures'.keys} \subseteq BOOLEAN /\ captures'.records \subseteq Captures
        /\ captures'.preview \in Captures \cup {None}
    BY DEF CaptureStates
  <1> QED
    BY <1>1 DEF PanelsInv, PanelsTypeOK

\* Serve: an answer is typed, and what the server carries out leaves captures
\* that there were.
LEMMA ServeKeeps ==
    ASSUME PanelsInv, NEW call \in calls, Serve(call)
    PROVE  PanelsInv' /\ log' = log
  <1>0. /\ call \in PanelCalls /\ Whole(call) /\ stored \subseteq Captures /\ capturing \in BOOLEAN
        /\ captures \in CaptureStates
        /\ view \in {"logs", "captures"} /\ shownPage \in BOOLEAN /\ logged \in 0 .. MaxEntries
    BY DEF PanelsInv, PanelsTypeOK
  <1>u. UNCHANGED <<view, shownPage, logged, log, saved, captures>> /\ call.pc = "asked"
    BY DEF Serve, logPart
  <1>a. ASSUME NEW answer, Answered(call, answer), answer \in PanelCalls, Whole(answer)
        PROVE  \A c \in calls' : c \in calls \/ (c \in PanelCalls /\ Whole(c))
    BY <1>a DEF Answered
  <1>1. CASE /\ call.for = "log"
             /\ Answered(call, [for |-> "log", paused |-> call.paused, page |-> Entries(call.filter), pc |-> "read"])
             /\ UNCHANGED <<stored, capturing>>
    <2> DEFINE answer == [for |-> "log", paused |-> call.paused, page |-> Entries(call.filter), pc |-> "read"]
    <2>1. call.paused \in BOOLEAN /\ call.filter \subseteq 1 .. MaxEntries
      BY <1>0, <1>1, <1>u, CallKinds, PanelsAssumption DEF LogCalls
    <2>2. Entries(call.filter) \subseteq 1 .. MaxEntries
      BY <2>1 DEF Entries
    <2>3. answer \in LogAnswers /\ answer.for = "log"
      BY <2>1, <2>2 DEF LogAnswers
    <2>4. answer \in PanelCalls /\ Whole(answer)
      BY <2>3 DEF PanelCalls, Whole
    <2> QED
      BY <1>0, <1>1, <1>u, <1>a, <2>4, CallsKeep
  <1>2. CASE /\ call.for = "records"
             /\ \/ call.records = None /\ Answered(call, Joined([call EXCEPT !.records = stored]))
                \/ call.active = None /\ Answered(call, Joined([call EXCEPT !.active = capturing]))
             /\ UNCHANGED <<stored, capturing>>
    <2>1. call \in RecordsCalls
      BY <1>0, <1>2, CallKinds
    <2>2. ASSUME NEW c \in RecordsCalls, c.pc = "asked" PROVE Joined(c) \in PanelCalls /\ Whole(Joined(c))
      <3>1. Joined(c) \in RecordsCalls
        BY <2>2 DEF Joined, RecordsCalls
      <3>2. Joined(c).pc = "read" => Joined(c).records # None
        BY <2>2 DEF Joined, RecordsCalls
      <3> QED
        BY <3>1, <3>2 DEF PanelCalls, Whole
    <2>3. /\ [call EXCEPT !.records = stored] \in RecordsCalls
          /\ [call EXCEPT !.records = stored].pc = "asked"
          /\ [call EXCEPT !.active = capturing] \in RecordsCalls
          /\ [call EXCEPT !.active = capturing].pc = "asked"
      BY <2>1, <1>0, <1>u DEF RecordsCalls
    <2>4. \A c \in calls' : c \in calls \/ (c \in PanelCalls /\ Whole(c))
      BY <1>2, <1>a, <2>2, <2>3
    <2> QED
      BY <1>0, <1>2, <1>u, <2>4, CallsKeep
  <1>3. CASE /\ call.for \in {"start", "stop"}
             /\ capturing' = (call.for = "start")
             /\ Answered(call, [call EXCEPT !.pc = "read"])
             /\ UNCHANGED stored
    <2>1. call \in SwitchCalls
      BY <1>0, <1>3, CallKinds
    <2>2. [call EXCEPT !.pc = "read"] \in SwitchCalls /\ [call EXCEPT !.pc = "read"].for # "records"
      BY <2>1, <1>3 DEF SwitchCalls
    <2>3. \A c \in calls' : c \in calls \/ (c \in PanelCalls /\ Whole(c))
      BY <1>3, <1>a, <2>2 DEF PanelCalls, Whole
    <2>4. capturing' \in BOOLEAN
      BY <1>3
    <2> QED
      BY <1>0, <1>3, <1>u, <2>3, <2>4, CallsKeep
  <1>4. CASE /\ call.for \in {"delete", "expired", "rewrap"}
             /\ stored' = stored \ call.which
             /\ Answered(call, [call EXCEPT !.pc = "read"])
             /\ UNCHANGED capturing
    <2>1. call \in DeleteCalls \cup CleanCalls
      BY <1>0, <1>4, CallKinds
    <2>2. [call EXCEPT !.pc = "read"] \in DeleteCalls \cup CleanCalls /\ [call EXCEPT !.pc = "read"].for # "records"
      <3>1. CASE call \in DeleteCalls
        BY <3>1 DEF DeleteCalls
      <3>2. CASE call \in CleanCalls
        BY <3>2 DEF CleanCalls
      <3> QED
        BY <2>1, <3>1, <3>2
    <2>3. \A c \in calls' : c \in calls \/ (c \in PanelCalls /\ Whole(c))
      BY <1>4, <1>a, <2>2 DEF PanelCalls, Whole
    <2> QED
      BY <1>0, <1>4, <1>u, <2>3, CallsKeep
  <1>5. CASE /\ call.for = "preview"
             /\ calls' = (calls \ {call}) \cup {[call EXCEPT !.pc = "read"] : r \in stored \cap {call.which}}
             /\ UNCHANGED <<stored, capturing>>
    <2>1. call \in PreviewCalls
      BY <1>0, <1>5, CallKinds
    <2>2. [call EXCEPT !.pc = "read"] \in PreviewCalls /\ [call EXCEPT !.pc = "read"].for # "records"
      BY <2>1 DEF PreviewCalls
    <2>3. \A c \in calls' : c \in calls \/ (c \in PanelCalls /\ Whole(c))
      BY <1>5, <2>2 DEF PanelCalls, Whole
    <2> QED
      BY <1>0, <1>5, <1>u, <2>3, CallsKeep
  <1> QED
    BY <1>1, <1>2, <1>3, <1>4, <1>5 DEF Serve

\* capturesLand: the page shows captures that the server has or had.
LEMMA CapturesLandKeep ==
    ASSUME PanelsInv, NEW call \in calls, capturesLand(call)
    PROVE  PanelsInv' /\ log' = log
  <1>0. /\ call \in PanelCalls /\ Whole(call) /\ stored \subseteq Captures /\ capturing \in BOOLEAN
        /\ captures \in CaptureStates
        /\ view \in {"logs", "captures"} /\ shownPage \in BOOLEAN /\ logged \in 0 .. MaxEntries
    BY DEF PanelsInv, PanelsTypeOK
  <1>u. UNCHANGED <<view, shownPage, logged, log, saved, stored, capturing>> /\ call.pc = "read"
    BY DEF capturesLand, logPart
  <1>k. ASSUME captures' \in CaptureStates,
               calls' = calls \ {call}
                 \/ \E busy \in BOOLEAN : Answered(call, RecordsCall(busy))
        PROVE  PanelsInv' /\ log' = log
    <2>1. \A c \in calls' : c \in calls \/ (c \in PanelCalls /\ Whole(c))
      BY <1>k, RecordsCallTyped DEF Answered
    <2> QED
      BY <1>0, <1>u, <1>k, <2>1, CallsKeep
  <1>1. CASE /\ call.for = "records"
             /\ captures' = [captures EXCEPT !.records = call.records, !.active = call.active,
                                               !.keys = TRUE, !.busy = @ /\ ~call.busy]
             /\ calls' = calls \ {call}
    <2>1. call.records \subseteq Captures /\ call.active \in BOOLEAN \cup {None} /\ call.busy \in BOOLEAN
      BY <1>0, <1>1, <1>u, CallKinds DEF RecordsCalls, Whole
    <2>2. captures' \in CaptureStates
      BY <1>0, <1>1, <2>1 DEF CaptureStates
    <2> QED
      BY <1>1, <1>k, <2>2
  <1>2. CASE /\ call.for \in {"start", "stop"}
             /\ captures' = [captures EXCEPT !.active = (call.for = "start"), !.busy = FALSE]
             /\ calls' = calls \ {call}
    <2>1. captures' \in CaptureStates
      BY <1>0, <1>2 DEF CaptureStates
    <2> QED
      BY <1>2, <1>k, <2>1
  <1>3. CASE /\ call.for = "preview"
             /\ captures' = [captures EXCEPT !.preview = call.which]
             /\ calls' = calls \ {call}
    <2>1. call.which \in Captures
      BY <1>0, <1>3, CallKinds DEF PreviewCalls
    <2>2. captures' \in CaptureStates
      BY <1>0, <1>3, <2>1 DEF CaptureStates
    <2> QED
      BY <1>3, <1>k, <2>2
  <1>4. CASE /\ call.for = "delete"
             /\ captures' = [captures EXCEPT !.preview = PreviewAfter(call)]
             /\ Answered(call, RecordsCall(FALSE))
    <2>1. captures' \in CaptureStates
      BY <1>0, <1>4 DEF CaptureStates, PreviewAfter
    <2> QED
      BY <1>4, <1>k, <2>1
  <1>5. CASE /\ call.for \in {"expired", "rewrap"}
             /\ Answered(call, RecordsCall(TRUE))
             /\ UNCHANGED captures
    BY <1>0, <1>5, <1>k
  <1> QED
    BY <1>1, <1>2, <1>3, <1>4, <1>5 DEF capturesLand

\* logsLand: a paused log keeps its entries and counts what is new.
LEMMA LogsLandKeep ==
    ASSUME PanelsInv, NEW call \in calls, logsLand(call)
    PROVE  PanelsInv' /\ log'.paused = log.paused /\ (log.paused => log'.entries = log.entries)
  <1>1. call.page \subseteq 1 .. MaxEntries
    BY CallKinds DEF logsLand, PanelsInv, LogAnswers
  <1>2. log \in LogStates /\ log' = Applied(call)
    BY DEF logsLand, PanelsInv
  <1>3. Cardinality(call.page \ log.entries) \in Nat /\ Cardinality({}) = 0
    BY <1>1, EntriesCounted, FS_EmptySet
  <1>4. log' \in LogStates /\ log'.filter = log.filter /\ log'.paused = log.paused
    BY <1>1, <1>2, <1>3 DEF Applied, LogStates
  <1>5. /\ log.paused => log'.entries = log.entries /\ log'.pending = call.page
                         /\ log'.newCount = Cardinality(call.page \ log.entries)
        /\ ~log.paused => log'.entries = call.page /\ log'.pending = call.page /\ log'.newCount = 0
    BY <1>2 DEF Applied, LogStates
  <1>6. call.page \ call.page = {}
    OBVIOUS
  <1>7. Counted(log)'
    <2>1. CASE log.paused
      BY <2>1, <1>4, <1>5 DEF Counted
    <2>2. CASE ~log.paused
      BY <2>2, <1>3, <1>4, <1>5, <1>6 DEF Counted
    <2> QED
      BY <2>1, <2>2
  <1>8. /\ UNCHANGED <<view, shownPage, logged, saved, stored, capturing, captures>>
        /\ calls' = calls \ {call}
    BY DEF logsLand, capturePart
  <1>9. PanelsInv'
    BY <1>4, <1>7, <1>8 DEF PanelsInv, PanelsTypeOK
  <1> QED
    BY <1>4, <1>5, <1>9

\* Another filter, pausing and going on leave the log counted.
LEMMA LogEditKeeps ==
    ASSUME PanelsInv, log' \in LogStates, Counted(log)',
           UNCHANGED <<view, shownPage, logged, saved, stored, capturing, captures>>,
           \A call \in calls' : call \in calls \/ (call \in PanelCalls /\ Whole(call))
    PROVE  PanelsInv'
  <1>1. log'.filter \in LogFilters
    BY DEF LogStates
  <1> QED
    BY <1>1 DEF PanelsInv, PanelsTypeOK

\* A paused log does not move, whatever arrives, and its count is right.
THEOREM PausedLogFrozen == PanelsSpec => PausedFrozen
  <1> DEFINE Frozen == (log.paused /\ log'.paused) =>
                          /\ log'.entries = log.entries
                          /\ log'.newCount = Cardinality(log'.pending \ log'.entries)
  <1>1. PanelsInit => PanelsInv
    <2> SUFFICES ASSUME PanelsInit PROVE PanelsInv
      OBVIOUS
    <2>1. log \in LogStates /\ Counted(log)
      <3>1. log = NewLog /\ ({} \ {}) = {} /\ Cardinality({}) = 0
        BY FS_EmptySet DEF PanelsInit
      <3> QED
        BY <3>1, PanelsAssumption DEF NewLog, LogStates, Counted
    <2>2. captures \in CaptureStates
      BY DEF PanelsInit, NewCaptures, CaptureStates
    <2>3. saved \in Seq(LogFilters) /\ Len(saved) <= MaxSaved /\ IsInjective(saved)
      BY PanelsAssumption DEF PanelsInit, IsInjective
    <2>4. logged \in 0 .. MaxEntries
      BY PanelsAssumption DEF PanelsInit
    <2>5. PanelsTypeOK
      BY <2>1, <2>2, <2>3, <2>4 DEF PanelsInit, PanelsTypeOK, CaptureStates, LogStates
    <2> QED
      BY <2>1, <2>2, <2>5 DEF PanelsInit, PanelsInv
  <1>2. PanelsInv /\ [PanelsNext]_panelVars => PanelsInv' /\ Frozen
    <2> SUFFICES ASSUME PanelsInv, [PanelsNext]_panelVars
                 PROVE  PanelsInv' /\ Frozen
      OBVIOUS
    <2>0. /\ log \in LogStates /\ captures \in CaptureStates /\ stored \subseteq Captures
          /\ view \in {"logs", "captures"} /\ shownPage \in BOOLEAN /\ logged \in 0 .. MaxEntries
          /\ saved \in Seq(LogFilters) /\ Len(saved) <= MaxSaved /\ IsInjective(saved)
          /\ capturing \in BOOLEAN /\ calls \subseteq PanelCalls /\ log.filter \in LogFilters
      BY DEF PanelsInv, PanelsTypeOK
    <2>s. ASSUME PanelsInv', log' = log PROVE PanelsInv' /\ Frozen
      BY <2>s DEF PanelsInv, Counted
    <2>f. ASSUME PanelsInv', log'.paused => log'.entries = log.entries PROVE PanelsInv' /\ Frozen
      BY <2>f DEF PanelsInv, Counted
    <2>c. ASSUME NEW call, Asked(call), call \in PanelCalls, Whole(call)
          PROVE  \A c \in calls' : c \in calls \/ (c \in PanelCalls /\ Whole(c))
      BY <2>c DEF Asked
    <2> USE DEF logPart, capturePart
    <2>1. CASE pollLogs
      <3>1. \A c \in calls' : c \in calls \/ (c \in PanelCalls /\ Whole(c))
        BY <2>1, <2>0, <2>c, LogCallTyped DEF pollLogs
      <3> QED
        BY <2>1, <2>0, <2>s, <3>1, CallsKeep DEF pollLogs
    <2>2. CASE pollCaptures
      <3>1. \A c \in calls' : c \in calls \/ (c \in PanelCalls /\ Whole(c))
        BY <2>2, <2>c, RecordsCallTyped DEF pollCaptures
      <3> QED
        BY <2>2, <2>0, <2>s, <3>1, CallsKeep DEF pollCaptures
    <2>3. CASE reloadByHand
      <3>1. \A c \in calls' : c \in calls \/ (c \in PanelCalls /\ Whole(c))
        BY <2>3, <2>0, <2>c, LogCallTyped, RecordsCallTyped DEF reloadByHand
      <3> QED
        BY <2>3, <2>0, <2>s, <3>1, CallsKeep DEF reloadByHand
    <2>4. CASE changePageVisible
      BY <2>4, <2>0, <2>s, CallsKeep DEF changePageVisible
    <2>5. CASE openView
      <3>1. log' = NewLog /\ captures' = NewCaptures /\ ~log'.paused
        BY <2>5 DEF openView, NewLog
      <3>2. log' \in LogStates /\ Counted(log)'
        <4>1. ({} \ {}) = {} /\ Cardinality({}) = 0
          BY FS_EmptySet
        <4> QED
          BY <4>1, <3>1, PanelsAssumption DEF NewLog, LogStates, Counted
      <3>3. captures' \in CaptureStates
        BY <3>1 DEF NewCaptures, CaptureStates
      <3>4. calls' \subseteq PreviewCalls
        BY <2>5 DEF openView, PreviewCalls
      <3>5. calls' \subseteq PanelCalls /\ \A call \in calls' : Whole(call)
        BY <3>4 DEF PanelCalls, PreviewCalls, Whole
      <3>6. PanelsTypeOK'
        BY <2>5, <2>0, <3>2, <3>3 DEF openView, PanelsTypeOK, CaptureStates, LogStates
      <3>7. PanelsInv'
        BY <2>5, <2>0, <3>2, <3>3, <3>5, <3>6 DEF openView, PanelsInv
      <3> QED
        BY <3>1, <3>7
    <2>6. CASE Answering
      BY <2>6, <2>s, ServeKeeps DEF Answering
    <2>7. CASE Landing
      <3>1. PICK call \in calls : logsLand(call) \/ capturesLand(call)
        BY <2>7 DEF Landing
      <3>2. CASE logsLand(call)
        BY <3>2, <2>f, LogsLandKeep
      <3>3. CASE capturesLand(call)
        BY <3>3, <2>s, CapturesLandKeep
      <3> QED
        BY <3>1, <3>2, <3>3
    <2>8. ASSUME NEW call \in calls, Fails(call) PROVE PanelsInv' /\ Frozen
      <3>1. captures' \in CaptureStates
        BY <2>8, <2>0 DEF Fails, CaptureStates
      <3> QED
        BY <2>8, <2>0, <2>s, <3>1, CallsKeep DEF Fails
    <2>9. CASE newEntry
      <3>1. logged' \in 0 .. MaxEntries
        BY <2>9, <2>0, PanelsAssumption DEF newEntry
      <3> QED
        BY <2>9, <2>0, <2>s, <3>1, CallsKeep DEF newEntry
    <2>10. CASE togglePaused
      <3>1. CASE log.paused
        <4>1. log' = [log EXCEPT !.paused = FALSE, !.entries = log.pending, !.newCount = 0]
          BY <2>10, <3>1 DEF togglePaused
        <4>2. log' \in LogStates /\ ~log'.paused /\ log'.entries = log.pending /\ log'.pending = log.pending
              /\ log'.newCount = 0
          BY <4>1, <2>0 DEF LogStates
        <4>3. log.pending \ log.pending = {} /\ Cardinality({}) = 0
          BY FS_EmptySet
        <4>4. Counted(log)'
          BY <4>2, <4>3 DEF Counted
        <4>5. PanelsInv'
          BY <2>10, <4>2, <4>4, LogEditKeeps DEF togglePaused
        <4> QED
          BY <4>2, <4>5
      <3>2. CASE ~log.paused
        <4>1. log' = [log EXCEPT !.paused = TRUE]
          BY <2>10, <3>2 DEF togglePaused
        <4>2. log' \in LogStates /\ log'.paused /\ log'.entries = log.entries /\ log'.pending = log.pending
              /\ log'.newCount = log.newCount
          BY <4>1, <2>0 DEF LogStates
        <4>3. Counted(log)'
          BY <4>2 DEF Counted, PanelsInv
        <4>4. PanelsInv'
          BY <2>10, <4>2, <4>3, LogEditKeeps DEF togglePaused
        <4> QED
          BY <3>2, <4>4
      <3> QED
        BY <3>1, <3>2
    <2>11. ASSUME NEW filter \in LogFilters, applyFilter(filter) PROVE PanelsInv' /\ Frozen
      <3>1. log' = [log EXCEPT !.filter = filter]
        BY <2>11 DEF applyFilter
      <3>2. log' \in LogStates /\ log'.entries = log.entries /\ log'.pending = log.pending
            /\ log'.newCount = log.newCount /\ log'.paused = log.paused
        BY <3>1, <2>0 DEF LogStates
      <3>3. Counted(log)'
        BY <3>2 DEF Counted, PanelsInv
      <3>4. \A c \in calls' : c \in calls \/ (c \in PanelCalls /\ Whole(c))
        BY <2>11, <2>0, <2>c, LogCallTyped DEF applyFilter
      <3>5. PanelsInv'
        BY <2>11, <3>2, <3>3, <3>4, LogEditKeeps DEF applyFilter
      <3> QED
        BY <3>2, <3>5, <2>f
    <2>v. ASSUME saved' \in Seq(LogFilters), Len(saved') <= MaxSaved, IsInjective(saved)',
                 UNCHANGED <<view, shownPage, logged, log, stored, capturing, captures, calls>>
          PROVE  PanelsInv' /\ Frozen
      <3>1. PanelsInv'
        BY <2>v DEF PanelsInv, PanelsTypeOK
      <3> QED
        BY <2>v, <3>1, <2>s
    <2>12. CASE saveFilter
      <3>1. UNCHANGED <<view, shownPage, logged, log, stored, capturing, captures, calls>>
        BY <2>12 DEF saveFilter
      <3>2. CASE log.filter \notin Range(saved) /\ saved' = KeptFirst(log.filter, saved)
        BY <2>0, <2>v, <3>1, <3>2, KeptFirstTyped
      <3>3. ASSUME NEW i \in DOMAIN saved, saved[i] = log.filter,
                   saved' = KeptFirst(log.filter, RemoveAt(saved, i))
            PROVE  PanelsInv' /\ Frozen
        <4>1. i \in 1 .. Len(saved)
          BY <2>0
        <4>2. /\ RemoveAt(saved, i) \in Seq(LogFilters) /\ IsInjective(RemoveAt(saved, i))
              /\ log.filter \notin Range(RemoveAt(saved, i))
          BY <4>1, <2>0, <3>3, RemovedAt, RemovedInjective
        <4> QED
          BY <2>0, <2>v, <3>1, <3>3, <4>2, KeptFirstTyped
      <3> QED
        BY <2>12, <3>2, <3>3 DEF saveFilter
    <2>13. ASSUME NEW i \in DOMAIN saved, removeFilter(i) PROVE PanelsInv' /\ Frozen
      <3>1. i \in 1 .. Len(saved) /\ Len(saved) \in Nat /\ MaxSaved \in Nat
        BY <2>0, PanelsAssumption
      <3>2. RemoveAt(saved, i) \in Seq(LogFilters) /\ Len(RemoveAt(saved, i)) = Len(saved) - 1
            /\ IsInjective(RemoveAt(saved, i))
        BY <2>0, <3>1, RemovedAt, RemovedInjective
      <3>3. UNCHANGED <<view, shownPage, logged, log, stored, capturing, captures, calls>>
            /\ saved' = RemoveAt(saved, i)
        BY <2>13 DEF removeFilter
      <3>4. Len(saved') <= MaxSaved
        BY <2>0, <3>1, <3>2, <3>3
      <3> QED
        BY <2>v, <3>2, <3>3, <3>4
    <2>b. ASSUME NEW call \in SwitchCalls \cup CleanCalls, Asked(call),
                 captures' = [captures EXCEPT !.busy = TRUE],
                 UNCHANGED <<view, shownPage, logged, log, saved, stored, capturing>>
          PROVE  PanelsInv' /\ Frozen
      <3>1. captures' \in CaptureStates
        BY <2>b, <2>0 DEF CaptureStates
      <3>2. call.for # "records"
        BY DEF SwitchCalls, CleanCalls
      <3>3. call \in PanelCalls /\ Whole(call)
        BY <3>2 DEF PanelCalls, Whole
      <3>4. \A c \in calls' : c \in calls \/ (c \in PanelCalls /\ Whole(c))
        BY <2>b, <2>c, <3>3
      <3> QED
        BY <2>b, <2>0, <2>s, <3>1, <3>4, CallsKeep
    <2>14. CASE startCapture
      <3> DEFINE call == [for |-> IF captures.active THEN "stop" ELSE "start", pc |-> "asked"]
      <3>1. call \in SwitchCalls
        BY DEF SwitchCalls
      <3> HIDE DEF call
      <3>2. Asked(call)
        BY <2>14 DEF startCapture, call
      <3> QED
        BY <2>14, <2>b, <3>1, <3>2 DEF startCapture
    <2>15. CASE cleanExpired
      <3> DEFINE call == [for |-> "expired", which |-> Expired, pc |-> "asked"]
      <3>1. call \in CleanCalls
        BY PanelsAssumption DEF CleanCalls
      <3> HIDE DEF call
      <3>2. Asked(call)
        BY <2>15 DEF cleanExpired, call
      <3> QED
        BY <2>15, <2>b, <3>1, <3>2 DEF cleanExpired
    <2>16. CASE rewrapKeys
      <3> DEFINE call == [for |-> "rewrap", which |-> {}, pc |-> "asked"]
      <3>1. call \in CleanCalls
        BY DEF CleanCalls
      <3> HIDE DEF call
      <3>2. Asked(call)
        BY <2>16 DEF rewrapKeys, call
      <3> QED
        BY <2>16, <2>b, <3>1, <3>2 DEF rewrapKeys
    <2>17. CASE captureEnds
      BY <2>17, <2>0, <2>s, CallsKeep DEF captureEnds
    <2>18. ASSUME NEW record \in Captures, showPreview(record) PROVE PanelsInv' /\ Frozen
      <3> DEFINE call == [for |-> "preview", which |-> record, pc |-> "asked"]
      <3>1. call \in PreviewCalls /\ call.for # "records"
        BY DEF PreviewCalls
      <3>2. call \in PanelCalls /\ Whole(call)
        BY <3>1 DEF PanelCalls, Whole
      <3>3. \A c \in calls' : c \in calls \/ (c \in PanelCalls /\ Whole(c))
        BY <2>18, <2>c, <3>2 DEF showPreview
      <3> QED
        BY <2>18, <2>0, <2>s, <3>3, CallsKeep DEF showPreview
    <2>19. ASSUME NEW record \in Captures, removeCapture(record) PROVE PanelsInv' /\ Frozen
      <3> DEFINE call == [for |-> "delete", which |-> {record}, preview |-> captures.preview, pc |-> "asked"]
      <3>1. call \in DeleteCalls /\ call.for # "records"
        BY <2>0 DEF DeleteCalls, CaptureStates
      <3>2. call \in PanelCalls /\ Whole(call)
        BY <3>1 DEF PanelCalls, Whole
      <3>3. \A c \in calls' : c \in calls \/ (c \in PanelCalls /\ Whole(c))
        BY <2>19, <2>c, <3>2 DEF removeCapture
      <3> QED
        BY <2>19, <2>0, <2>s, <3>3, CallsKeep DEF removeCapture
    <2>20. CASE UNCHANGED panelVars
      BY <2>20, <2>0, <2>s, CallsKeep DEF panelVars
    <2> QED
      BY <2>1, <2>2, <2>3, <2>4, <2>5, <2>6, <2>7, <2>8, <2>9, <2>10, <2>11, <2>12, <2>13,
         <2>14, <2>15, <2>16, <2>17, <2>18, <2>19, <2>20 DEF PanelsNext
  <1>3. PanelsInv => PanelsTypeOK
    BY DEF PanelsInv
  <1>4. QED
    BY <1>1, <1>2, <1>3, PTL DEF PanelsSpec, PausedFrozen

------------------------------------------------------------------------------
\* Requests: no decision without a preview, and none twice.

\* A confirmation token, and the dialog and the calls that carry one.
Tokens   == [request : Requests, action : Decisions, number : Nat]
Unsures  == [request : Requests \cup {Unset}, stage : {"action", "confirm"}, action : Decisions,
             token : Tokens \cup {Unset}, busy : BOOLEAN]
Asks     == [what : {"preview", "resolve"}, request : Requests, action : Decisions,
             token : Tokens \cup {Unset}, own : BOOLEAN, pc : {"sent", "answered", "refused"}]
Ops      == [what : {"retry", "policy", "reset", "cancel"}, ids : SUBSET Requests,
             policy : Policies \cup {Unset}, overwrite : BOOLEAN, retry : BOOLEAN, pc : {"confirm", "sent"},
             asking : Requests \cup {Unset}, putting : Requests \cup {Unset}]

ViewTyped == /\ reqs \in [Requests -> RequestInfo] /\ status \in [Requests -> RequestInfo]
             /\ selected \subseteq Requests /\ targets \subseteq [id : Requests, info : RequestInfo]
             /\ op \in {Idle} \cup Ops
             /\ unsure \in Unsures /\ asks \subseteq Asks

\* The tokens of one request and one decision that were issued and not used.
TokensOf(k) == {token \in tokens : token.request = k[1] /\ token.action = k[2]}

\* A token is numbered among the previews of its request and decision, and the
\* previews are enough for the decisions taken and the tokens still out.
TokensCounted ==
    /\ issued \in [Requests \X Decisions -> Nat] /\ decided \in [Requests \X Decisions -> Nat]
    /\ tokens \subseteq Tokens /\ IsFiniteSet(tokens)
    /\ \A token \in tokens : token.number <= issued[<<token.request, token.action>>]
    /\ \A k \in Requests \X Decisions : decided[k] + Cardinality(TokensOf(k)) <= issued[k]

RequestsInv == ViewTyped /\ TokensCounted

\* There are finitely many tokens of a kind.
LEMMA TokensFinite ==
    ASSUME TokensCounted, NEW k
    PROVE  IsFiniteSet(TokensOf(k)) /\ Cardinality(TokensOf(k)) \in Nat
  BY FS_Subset, FS_CardinalityType DEF TokensCounted, TokensOf

\* What is counted is enough.
LEMMA RequestsInvPreviewed == RequestsInv => DecisionsPreviewed
  <1> SUFFICES ASSUME RequestsInv PROVE DecisionsPreviewed
    OBVIOUS
  <1>1. RequestsTypeOK
    BY DEF RequestsInv, ViewTyped, RequestsTypeOK, Unsures
  <1>2. ASSUME NEW k \in Requests \X Decisions PROVE decided[k] <= issued[k]
    <2>1. Cardinality(TokensOf(k)) \in Nat
      BY TokensFinite DEF RequestsInv
    <2>2. decided[k] \in Nat /\ issued[k] \in Nat /\ decided[k] + Cardinality(TokensOf(k)) <= issued[k]
      BY DEF RequestsInv, TokensCounted
    <2> QED
      BY <2>1, <2>2
  <1> QED
    BY <1>1, <1>2 DEF DecisionsPreviewed

\* Tokens that are dropped without a decision are only fewer.
LEMMA TokenDropped ==
    ASSUME TokensCounted, NEW token, tokens' = tokens \ {token}, UNCHANGED <<issued, decided>>
    PROVE  TokensCounted'
  <1>1. tokens' \subseteq tokens /\ IsFiniteSet(tokens')
    BY FS_Subset DEF TokensCounted
  <1>2. ASSUME NEW k \in Requests \X Decisions
        PROVE  decided'[k] + Cardinality(TokensOf(k)') <= issued'[k]
    <2>1. TokensOf(k)' \subseteq TokensOf(k)
      BY <1>1 DEF TokensOf
    <2>2. /\ Cardinality(TokensOf(k)') <= Cardinality(TokensOf(k))
          /\ Cardinality(TokensOf(k)') \in Nat /\ Cardinality(TokensOf(k)) \in Nat
      BY <2>1, TokensFinite, FS_Subset, FS_CardinalityType
    <2>3. decided[k] \in Nat /\ issued[k] \in Nat /\ decided[k] + Cardinality(TokensOf(k)) <= issued[k]
      BY DEF TokensCounted
    <2> QED
      BY <2>2, <2>3
  <1> QED
    BY <1>1, <1>2 DEF TokensCounted

\* Issue: a new number makes a new token, and one preview more.
LEMMA TokenIssued ==
    ASSUME TokensCounted, NEW r \in Requests, NEW action \in Decisions,
           tokens' = tokens \cup {Issue(r, action)},
           issued' = [issued EXCEPT ![<<r, action>>] = @ + 1], UNCHANGED decided
    PROVE  TokensCounted' /\ Issue(r, action) \in Tokens
  <1> DEFINE token == Issue(r, action)
             key == <<r, action>>
  <1>0. /\ key \in Requests \X Decisions /\ key[1] = r /\ key[2] = action
        /\ issued \in [Requests \X Decisions -> Nat] /\ issued[key] \in Nat
    BY DEF TokensCounted
  <1>1. token \in Tokens /\ token.request = r /\ token.action = action /\ token.number = issued[key] + 1
    BY <1>0 DEF Issue, Tokens
  <1>2. token \notin tokens
    BY <1>0, <1>1 DEF TokensCounted, Tokens
  <1>3. issued' \in [Requests \X Decisions -> Nat] /\ issued'[key] = issued[key] + 1
        /\ \A k \in (Requests \X Decisions) \ {key} : issued'[k] = issued[k]
    BY <1>0
  <1> HIDE DEF token, key
  <1>t. tokens' = tokens \cup {token} /\ tokens' \subseteq Tokens /\ IsFiniteSet(tokens')
    <2>1. tokens' = tokens \cup {token}
      BY DEF token
    <2> QED
      BY <2>1, <1>1, FS_AddElement DEF TokensCounted
  <1>4. ASSUME NEW t \in tokens' PROVE t.number <= issued'[<<t.request, t.action>>]
    <2>1. CASE t = token
      BY <2>1, <1>0, <1>1, <1>3 DEF key
    <2>2. CASE t \in tokens
      <3>1. /\ <<t.request, t.action>> \in Requests \X Decisions
            /\ t.number \in Nat /\ t.number <= issued[<<t.request, t.action>>]
            /\ issued[<<t.request, t.action>>] \in Nat
        BY <2>2 DEF TokensCounted, Tokens
      <3> DEFINE j == <<t.request, t.action>>
      <3>2. issued'[j] = issued[j] \/ issued'[j] = issued[j] + 1
        BY <3>1, <1>3
      <3> QED
        BY <3>1, <3>2
    <2> QED
      BY <1>t, <2>1, <2>2
  <1>5. ASSUME NEW k \in Requests \X Decisions
        PROVE  decided'[k] + Cardinality(TokensOf(k)') <= issued'[k]
    <2>0. /\ decided[k] \in Nat /\ issued[k] \in Nat /\ decided[k] + Cardinality(TokensOf(k)) <= issued[k]
          /\ decided'[k] = decided[k]
          /\ IsFiniteSet(TokensOf(k)) /\ Cardinality(TokensOf(k)) \in Nat
      BY TokensFinite DEF TokensCounted
    <2>1. CASE k = key
      <3>1. TokensOf(k)' = TokensOf(k) \cup {token} /\ token \notin TokensOf(k)
        BY <2>1, <1>0, <1>1, <1>2, <1>t DEF TokensOf
      <3>2. Cardinality(TokensOf(k)') = Cardinality(TokensOf(k)) + 1
        BY <3>1, <2>0, FS_AddElement
      <3> QED
        BY <2>0, <2>1, <3>2, <1>3
    <2>2. CASE k # key
      <3>1. ~(token.request = k[1] /\ token.action = k[2])
        BY <2>2, <1>1 DEF key
      <3>2. TokensOf(k)' = TokensOf(k)
        BY <3>1, <1>t DEF TokensOf
      <3> QED
        BY <2>0, <2>2, <3>2, <1>3
    <2> QED
      BY <2>1, <2>2
  <1> QED
    BY <1>1, <1>3, <1>4, <1>5, <1>t DEF TokensCounted, token

\* Consume: a decision uses up a token of its own request and decision.
LEMMA TokenConsumed ==
    ASSUME TokensCounted, NEW r \in Requests, NEW action \in Decisions, NEW token,
           Consume(token, r, action), tokens' = tokens \ {token},
           decided' = [decided EXCEPT ![<<r, action>>] = @ + 1], UNCHANGED issued
    PROVE  TokensCounted'
  <1> DEFINE key == <<r, action>>
  <1>0. /\ key \in Requests \X Decisions /\ key[1] = r /\ key[2] = action
        /\ token \in tokens /\ token.request = r /\ token.action = action
        /\ decided \in [Requests \X Decisions -> Nat]
    BY DEF TokensCounted, Consume
  <1>1. decided' \in [Requests \X Decisions -> Nat] /\ decided'[key] = decided[key] + 1
        /\ \A k \in (Requests \X Decisions) \ {key} : decided'[k] = decided[k]
    BY <1>0
  <1>2. tokens' \subseteq tokens /\ IsFiniteSet(tokens')
    BY FS_Subset DEF TokensCounted
  <1> HIDE DEF key
  <1>3. ASSUME NEW k \in Requests \X Decisions
        PROVE  decided'[k] + Cardinality(TokensOf(k)') <= issued'[k]
    <2>0. /\ decided[k] \in Nat /\ issued[k] \in Nat /\ decided[k] + Cardinality(TokensOf(k)) <= issued[k]
          /\ issued'[k] = issued[k]
          /\ IsFiniteSet(TokensOf(k)) /\ Cardinality(TokensOf(k)) \in Nat
      BY TokensFinite DEF TokensCounted
    <2>1. CASE k = key
      <3>1. TokensOf(k)' = TokensOf(k) \ {token} /\ token \in TokensOf(k)
        BY <2>1, <1>0 DEF TokensOf
      <3>2. Cardinality(TokensOf(k)') = Cardinality(TokensOf(k)) - 1
        BY <3>1, <2>0, FS_RemoveElement
      <3> QED
        BY <2>0, <2>1, <3>2, <1>1
    <2>2. CASE k # key
      <3>1. TokensOf(k)' \subseteq TokensOf(k)
        BY <1>2 DEF TokensOf
      <3>2. /\ Cardinality(TokensOf(k)') <= Cardinality(TokensOf(k)) /\ Cardinality(TokensOf(k)') \in Nat
        BY <3>1, <2>0, FS_Subset, FS_CardinalityType
      <3> QED
        BY <2>0, <2>2, <3>2, <1>1
    <2> QED
      BY <2>1, <2>2
  <1> QED
    BY <1>1, <1>2, <1>3 DEF TokensCounted

-----------------------------------------------------------------------------
\* What an operation or a worker makes of a request is a request.  An
\* operation leaves an uncertain request alone, a decision wakes it only to
\* compensate, and a worker without a token can only leave.
LEMMA OperationsTyped ==
    ASSUME ViewTyped, NEW info \in RequestInfo
    PROVE  /\ op.pc = "sent" =>
                 Performed(info) \in RequestInfo /\ (info.state = "uncertain" => Performed(info) = info)
           /\ \A d \in Decisions :
                 LET settled == ResolveUncertain(info, d)
                 IN  /\ settled \in RequestInfo /\ settled.state = info.state /\ settled.policy = info.policy
                     /\ (info.resolution = "none" /\ ~info.retry /\ settled.retry) =>
                           settled.resolution = "request_compensation"
           /\ WorkerMoves(info) \subseteq RequestInfo
           /\ (info.state = "uncertain" /\ ~info.retry) => WorkerMoves(info) = {Gone}
           /\ TokenPut(info) \in RequestInfo /\ Gone \in RequestInfo
  <1> USE DEF RequestInfo, States, Decisions
  <1>1. Gone \in RequestInfo /\ TokenPut(info) \in RequestInfo
    BY DEF Gone, TokenPut
  <1>2. ASSUME op.pc = "sent"
        PROVE  op \in Ops
    <2>1. Idle.pc = "idle"
      BY DEF Idle
    <2> QED
      BY <1>2, <2>1 DEF ViewTyped
  <1>3. ASSUME op.pc = "sent"
        PROVE  /\ applyRetryPolicy(info, op.policy, op.overwrite) \in RequestInfo
               /\ info.state = "uncertain" => applyRetryPolicy(info, op.policy, op.overwrite) = info
    <2>1. op.policy \in Policies \cup {Unset}
      BY <1>2, <1>3 DEF Ops
    <2>2. info.state = "uncertain" => ~PolicyAccepted(info, op.overwrite)
      BY DEF PolicyAccepted, canSetRetryPolicy
    <2> QED
      BY <2>1, <2>2 DEF applyRetryPolicy
  <1>4. ClearRetryPolicy(info) \in RequestInfo /\ (info.state = "uncertain" => ClearRetryPolicy(info) = info)
    BY DEF ClearRetryPolicy, canSetRetryPolicy
  <1>5. CancelChecked(info) \in RequestInfo /\ (info.state = "uncertain" => CancelChecked(info) = info)
    BY <1>1 DEF CancelChecked, CanCancel
  <1>6. ASSUME NEW d \in Decisions
        PROVE  /\ ResolveUncertain(info, d) \in RequestInfo
               /\ ResolveUncertain(info, d).state = info.state
               /\ ResolveUncertain(info, d).policy = info.policy
               /\ (info.resolution = "none" /\ ~info.retry /\ ResolveUncertain(info, d).retry) =>
                     ResolveUncertain(info, d).resolution = "request_compensation"
    BY DEF ResolveUncertain
  <1>7. WorkerMoves(info) \subseteq RequestInfo
    <2>1. Sent(info) \in RequestInfo
      BY DEF Sent
    <2>2. Woken(info) \in RequestInfo
      BY DEF Woken
    <2>3. \A s \in {"waiting", "uncertain"} : [info EXCEPT !.state = s] \in RequestInfo
      OBVIOUS
    <2> QED
      BY <1>1, <2>1, <2>2, <2>3, ZenonT(60) DEF WorkerMoves
  <1>8. ASSUME info.state = "uncertain", ~info.retry
        PROVE  WorkerMoves(info) = {Gone}
    BY <1>8 DEF WorkerMoves
  <1>9. ASSUME op.pc = "sent"
        PROVE  Performed(info) \in RequestInfo /\ (info.state = "uncertain" => Performed(info) = info)
    <2>1. op.what \in {"retry", "policy", "reset", "cancel"}
      BY <1>2, <1>9 DEF Ops
    <2> QED
      BY <2>1, <1>3, <1>4, <1>5, <1>9, ZenonT(60) DEF Performed
  <1> QED
    BY <1>1, <1>6, <1>7, <1>8, <1>9

\* A call that loses its dialog is still a call.
LEMMA OrphansTyped == ASSUME NEW S \in SUBSET Asks PROVE Orphaned(S) \subseteq Asks
  BY DEF Orphaned, Asks

\* Begin: the operation carries the requests it was begun for.
LEMMA BeginTyped ==
    ASSUME NEW what \in {"retry", "policy", "reset", "cancel"}, NEW ids \in SUBSET Requests,
           NEW confirm \in BOOLEAN, NEW policy \in Policies \cup {Unset},
           NEW overwrite \in BOOLEAN, NEW retry \in BOOLEAN,
           Begin(what, ids, confirm, policy, overwrite, retry)
    PROVE  op' \in Ops /\ op'.putting = Unset
  BY DEF Begin, Ops

\* A request in doubt as UncertainUntouched has it.
Untouched(r) ==
    (InDoubt(r) /\ op.putting # r) =>
       /\ \/ reqs'[r].state = "uncertain" /\ reqs'[r].policy = reqs[r].policy
          \/ reqs'[r].state = "gone" /\ moves' # moves
       /\ reqs'[r].retry => reqs'[r].resolution = "request_compensation"
       /\ op'.putting # r

\* Every step keeps the counts of tokens and decisions, and leaves a request
\* in doubt alone.
LEMMA RequestsStep ==
    ASSUME RequestsInv, [RequestsNext]_requestVars
    PROVE  RequestsInv' /\ \A r \in Requests : Untouched(r)
  <1> DEFINE Kept == \A r \in Requests : Untouched(r)
             Goal == RequestsInv' /\ Kept
  <1>0. ViewTyped /\ TokensCounted /\ Unset \notin Requests
    BY RequestsAssumption DEF RequestsInv
  <1>i. Idle.pc = "idle" /\ Idle.putting = Unset /\ Idle.asking = Unset
    BY DEF Idle
  <1>k. ASSUME UNCHANGED reqs, op'.putting \in {op.putting, Unset} PROVE Kept
    BY <1>0, <1>k DEF Untouched, InDoubt
  <1>t. ASSUME UNCHANGED <<tokens, issued, decided>> PROVE TokensCounted'
    BY <1>0, <1>t DEF TokensCounted, TokensOf
  <1>v. ASSUME UNCHANGED serverVars, ViewTyped', op'.putting \in {op.putting, Unset} PROVE Goal
    BY <1>v, <1>k, <1>t DEF serverVars, RequestsInv
  <1>o. ASSUME UNCHANGED <<serverVars, pageVars, targets, unsure, asks>>, op' \in Ops \cup {Idle},
               op'.putting \in {op.putting, Unset}
        PROVE  Goal
    BY <1>0, <1>o, <1>v DEF serverVars, pageVars, ViewTyped
  <1>s. /\ Shown \subseteq Requests /\ scopeRequests \subseteq Requests /\ policyCapable \subseteq Requests
        /\ eligibleTargets \subseteq Requests
    BY <1>0 DEF Shown, Live, scopeRequests, policyCapable, eligibleTargets, eligible, ViewTyped
  <1>c. Closed \in Unsures /\ \A r \in Requests \cup {Unset} : Opened(r) \in Unsures
    BY DEF Closed, Opened, Unsures, Decisions
  <1>n. ASSUME NewStatus, UNCHANGED reqs
        PROVE  status' \in [Requests -> RequestInfo] /\ selected' \subseteq Requests
    <2>1. \A info \in RequestInfo : [info EXCEPT !.retry = FALSE] \in RequestInfo
      BY DEF RequestInfo
    <2> QED
      BY <1>0, <1>n, <2>1 DEF NewStatus, Reported, ViewTyped
  <1>d. ASSUME DialogRenewed PROVE unsure' \in Unsures /\ asks' \subseteq Asks
    <2>1. unsure.request \in Requests \cup {Unset}
      BY <1>0 DEF ViewTyped, Unsures
    <2> QED
      BY <1>0, <1>c, <1>d, <2>1, OrphansTyped DEF DialogRenewed, ViewTyped
  <1>1. ASSUME NEW r \in Requests, workerMoves(r) PROVE Goal
    <2>1. moves' # moves /\ UNCHANGED op
      BY <1>1, RequestsAssumption DEF workerMoves, Move
    <2>2. PICK moved \in WorkerMoves(reqs[r]) : reqs' = [reqs EXCEPT ![r] = moved]
      BY <1>1 DEF workerMoves
    <2>3. /\ moved \in RequestInfo
          /\ (reqs[r].state = "uncertain" /\ ~reqs[r].retry) => moved = Gone
      BY <1>0, <2>2, OperationsTyped DEF ViewTyped
    <2>4. /\ reqs' \in [Requests -> RequestInfo] /\ reqs'[r] = moved
          /\ \A q \in Requests \ {r} : reqs'[q] = reqs[q]
      BY <1>0, <2>2, <2>3 DEF ViewTyped
    <2>5. ViewTyped' /\ TokensCounted'
      BY <1>0, <1>1, <1>t, <2>4 DEF workerMoves, ViewTyped, pageVars
    <2>6. Kept
      BY <2>1, <2>3, <2>4 DEF Untouched, InDoubt, Gone
    <2> QED
      BY <2>5, <2>6 DEF RequestsInv
  <1>2. ASSUME NEW r \in Requests, otherDecides(r) PROVE Goal
    <2>1. PICK d \in Decisions : reqs' = [reqs EXCEPT ![r] = ResolveUncertain(reqs[r], d)]
      BY <1>2 DEF otherDecides, Decisions
    <2> DEFINE settled == ResolveUncertain(reqs[r], d)
    <2>2. /\ settled \in RequestInfo /\ settled.state = reqs[r].state /\ settled.policy = reqs[r].policy
          /\ (reqs[r].resolution = "none" /\ ~reqs[r].retry /\ settled.retry) =>
                settled.resolution = "request_compensation"
      BY <1>0, <2>1, OperationsTyped DEF ViewTyped
    <2> HIDE DEF settled
    <2>3. /\ reqs' \in [Requests -> RequestInfo] /\ reqs'[r] = settled
          /\ \A q \in Requests \ {r} : reqs'[q] = reqs[q]
      BY <1>0, <2>1, <2>2 DEF ViewTyped, settled
    <2>4. ViewTyped' /\ TokensCounted' /\ UNCHANGED op
      BY <1>0, <1>2, <1>t, <2>3 DEF otherDecides, ViewTyped, pageVars
    <2>5. Kept
      BY <2>2, <2>3, <2>4 DEF Untouched, InDoubt
    <2> QED
      BY <2>4, <2>5 DEF RequestsInv
  <1>3. CASE statusArrives
    <2>1. ViewTyped'
      BY <1>0, <1>3, <1>n, <1>d DEF statusArrives, serverVars, ViewTyped
    <2> QED
      BY <1>3, <1>v, <2>1 DEF statusArrives
  <1>4. ASSUME NEW r \in Requests, toggle(r) PROVE Goal
    <2>1. ViewTyped'
      BY <1>0, <1>4 DEF toggle, serverVars, ViewTyped
    <2> QED
      BY <1>4, <1>v, <2>1 DEF toggle
  <1>5. CASE toggleAll
    <2>1. ViewTyped'
      BY <1>0, <1>5, <1>s DEF toggleAll, serverVars, ViewTyped
    <2> QED
      BY <1>5, <1>v, <2>1 DEF toggleAll
  <1>6. CASE pickState
    <2>1. ViewTyped'
      BY <1>0, <1>6 DEF pickState, serverVars, ViewTyped
    <2> QED
      BY <1>6, <1>v, <2>1 DEF pickState
  <1>7. ASSUME NEW ids \in SUBSET Requests, retryTargets(ids) PROVE Goal
    <2> DEFINE able == {r \in ids : canRetry(r)}
    <2>1. Begin("retry", able, Cardinality(able) > Unasked, Unset, FALSE, FALSE)
      BY <1>7 DEF retryTargets
    <2>2. able \in SUBSET Requests /\ (Cardinality(able) > Unasked) \in BOOLEAN
      OBVIOUS
    <2> HIDE DEF able
    <2>3. op' \in Ops /\ op'.putting = Unset
      BY <2>1, <2>2, BeginTyped
    <2> QED
      BY <1>7, <1>o, <2>3 DEF retryTargets
  <1>8. CASE applyQuickPolicy
    <2>1. PICK policy \in Policies : Begin("policy", policyCapable, TRUE, policy, TRUE, FALSE)
      BY <1>8 DEF applyQuickPolicy
    <2>2. op' \in Ops /\ op'.putting = Unset
      BY <1>s, <2>1, BeginTyped
    <2> QED
      BY <1>8, <1>o, <2>2 DEF applyQuickPolicy
  <1>9. CASE resetPolicies
    <2> DEFINE ids == {r \in policyCapable : hasRetryPolicy(r)}
    <2>1. Begin("reset", ids, FALSE, Unset, FALSE, FALSE) /\ ids \in SUBSET Requests
      BY <1>9, <1>s DEF resetPolicies
    <2> HIDE DEF ids
    <2>2. op' \in Ops /\ op'.putting = Unset
      BY <2>1, BeginTyped
    <2> QED
      BY <1>9, <1>o, <2>2 DEF resetPolicies
  <1>10. ASSUME NEW r \in Requests, cancelRequest(r) PROVE Goal
    <2>1. Begin("cancel", {r}, FALSE, Unset, FALSE, FALSE) /\ {r} \in SUBSET Requests
      BY <1>10 DEF cancelRequest
    <2>2. op' \in Ops /\ op'.putting = Unset
      BY <2>1, BeginTyped
    <2> QED
      BY <1>10, <1>o, <2>2 DEF cancelRequest
  <1>11. CASE openPolicy
    <2>1. targets' \subseteq [id : Requests, info : RequestInfo]
      BY <1>0, <1>11, <1>s DEF openPolicy, ViewTyped
    <2>2. ViewTyped'
      BY <1>0, <1>11, <2>1 DEF openPolicy, serverVars, pageVars, ViewTyped
    <2> QED
      BY <1>11, <1>v, <2>2 DEF openPolicy
  <1>12. CASE submitPolicy
    <2>1. PICK policy \in Policies, confirm \in BOOLEAN, overwrite \in BOOLEAN, retry \in BOOLEAN :
             Begin("policy", eligibleTargets, confirm, policy, overwrite, retry /\ Cardinality(eligibleTargets) > 1)
      BY <1>12 DEF submitPolicy
    <2>2. (retry /\ Cardinality(eligibleTargets) > 1) \in BOOLEAN
      OBVIOUS
    <2>3. op' \in Ops /\ op'.putting = Unset
      BY <1>s, <2>1, <2>2, BeginTyped
    <2> QED
      BY <1>12, <1>o, <2>3 DEF submitPolicy
  <1>13. CASE resetTargets
    <2>1. op' \in Ops /\ op'.putting = Unset
      BY <1>13, <1>s, BeginTyped DEF resetTargets
    <2> QED
      BY <1>13, <1>o, <2>1 DEF resetTargets
  <1>14. CASE closePolicy
    <2>1. ViewTyped'
      BY <1>0, <1>14 DEF closePolicy, serverVars, pageVars, ViewTyped
    <2> QED
      BY <1>14, <1>v, <2>1 DEF closePolicy
  <1>15. CASE opConfirmed
    <2>1. op \in Ops
      BY <1>0, <1>15, <1>i DEF opConfirmed, ViewTyped
    <2>2. [op EXCEPT !.pc = "sent"] \in Ops /\ [op EXCEPT !.pc = "sent"].putting = op.putting
      BY <2>1 DEF Ops
    <2> QED
      BY <1>15, <1>i, <1>o, <2>2 DEF opConfirmed
  <1>16. CASE opServed
    <2>1. op \in Ops /\ op.pc = "sent" /\ op.putting = Unset
      BY <1>0, <1>16, <1>i DEF opServed, ViewTyped
    <2>2. PICK r \in op.ids :
             /\ reqs' = [reqs EXCEPT ![r] = Performed(reqs[r])]
             /\ op' = [op EXCEPT !.ids = @ \ {r}, !.asking = IF AsksRetry(reqs[r]) THEN r ELSE Unset]
      BY <1>16, Zenon DEF opServed
    <2>3. r \in Requests /\ op' \in Ops /\ op'.putting = Unset
      <3>1. r \in Requests
        BY <2>1, <2>2 DEF Ops
      <3>2. (IF AsksRetry(reqs[r]) THEN r ELSE Unset) \in Requests \cup {Unset}
        BY <3>1
      <3> QED
        BY <2>1, <2>2, <3>1, <3>2 DEF Ops
    <2>4. /\ Performed(reqs[r]) \in RequestInfo
          /\ reqs[r].state = "uncertain" => Performed(reqs[r]) = reqs[r]
      BY <1>0, <2>1, <2>3, OperationsTyped DEF ViewTyped
    <2>5. reqs' \in [Requests -> RequestInfo] /\ reqs'[r] = Performed(reqs[r])
          /\ \A q \in Requests \ {r} : reqs'[q] = reqs[q]
      BY <1>0, <2>2, <2>3, <2>4 DEF ViewTyped
    <2>6. ViewTyped' /\ TokensCounted'
      BY <1>0, <1>16, <1>t, <2>3, <2>5 DEF opServed, pageVars, ViewTyped
    <2>7. Kept
      BY <1>0, <2>3, <2>4, <2>5 DEF Untouched, InDoubt
    <2> QED
      BY <2>6, <2>7 DEF RequestsInv
  <1>a. CASE retryChecked
    <2>1. op \in Ops /\ op.asking \in Requests
      BY <1>0, <1>a, <1>i DEF retryChecked, ViewTyped, Ops
    <2>2. op'.putting \in Requests \cup {Unset} /\ op' \in Ops /\ UNCHANGED reqs
      BY <1>a, <2>1 DEF retryChecked, Ops, serverVars
    <2>3. op'.putting # Unset => reqs[op'.putting].state = "waiting"
      BY <1>a, <2>1 DEF retryChecked, RetryNowChecked, canRetryNow, Ops
    <2>4. Kept
      BY <1>0, <2>2, <2>3 DEF Untouched, InDoubt
    <2>5. ViewTyped' /\ TokensCounted'
      BY <1>0, <1>a, <1>t, <2>2 DEF retryChecked, serverVars, pageVars, ViewTyped
    <2> QED
      BY <2>4, <2>5 DEF RequestsInv
  <1>b. CASE retryPut
    <2>1. op \in Ops /\ op.putting \in Requests
      BY <1>0, <1>b, <1>i DEF retryPut, ViewTyped, Ops
    <2>2. op' \in Ops /\ op'.putting = Unset
      BY <1>b, <2>1 DEF retryPut, Ops
    <2>3. TokenPut(reqs[op.putting]) \in RequestInfo
      BY <1>0, <2>1, OperationsTyped DEF ViewTyped
    <2>4. reqs' \in [Requests -> RequestInfo] /\ \A q \in Requests \ {op.putting} : reqs'[q] = reqs[q]
      BY <1>0, <1>b, <2>1, <2>3 DEF retryPut, ViewTyped
    <2>5. ViewTyped' /\ TokensCounted'
      BY <1>0, <1>b, <1>t, <2>2, <2>4 DEF retryPut, pageVars, ViewTyped
    <2>6. Kept
      BY <1>0, <2>1, <2>2, <2>4 DEF Untouched, InDoubt
    <2> QED
      BY <2>5, <2>6 DEF RequestsInv
  <1>17. CASE opAnswered
    <2>1. ViewTyped'
      BY <1>0, <1>17, <1>n, <1>d DEF opAnswered, serverVars, ViewTyped
    <2> QED
      BY <1>17, <1>i, <1>v, <2>1 DEF opAnswered
  <1>18. CASE opFails
    BY <1>18, <1>i, <1>o DEF opFails
  <1>u. ASSUME UNCHANGED <<serverVars, pageVars, op, targets>>, unsure' \in Unsures, asks' \subseteq Asks
        PROVE  Goal
    BY <1>0, <1>u, <1>v DEF serverVars, pageVars, ViewTyped
  <1>w. unsure \in Unsures /\ asks \subseteq Asks /\ \A S \in SUBSET asks : Orphaned(S) \subseteq Asks
    BY <1>0, OrphansTyped DEF ViewTyped
  <1>19. ASSUME NEW r \in Requests, openUnsure(r) PROVE Goal
    BY <1>19, <1>c, <1>u, <1>w DEF openUnsure
  <1>20. CASE closeUnsure
    BY <1>20, <1>c, <1>u, <1>w DEF closeUnsure
  <1>21. ASSUME NEW action \in Decisions, pickAction(action) PROVE Goal
    <2>1. unsure' \in Unsures
      BY <1>21, <1>w DEF pickAction, Unsures
    <2> QED
      BY <1>21, <1>u, <1>w, <2>1 DEF pickAction
  <1>22. CASE changeAction
    <2>1. unsure' \in Unsures
      BY <1>22, <1>w DEF changeAction, Unsures
    <2> QED
      BY <1>22, <1>u, <1>w, <2>1 DEF changeAction
  <1>23. ASSUME NEW what \in {"preview", "resolve"}, Sends(what) PROVE Goal
    <2>1. unsure' \in Unsures
      BY <1>23, <1>w DEF Sends, Unsures
    <2> DEFINE call == [what |-> what, request |-> unsure.request, action |-> unsure.action,
                        token |-> unsure.token, own |-> TRUE, pc |-> "sent"]
    <2>2. unsure.request \in Requests /\ unsure.action \in Decisions /\ unsure.token \in Tokens \cup {Unset}
      BY <1>23, <1>w DEF Sends, Mounted, Unsures
    <2>3. call \in Asks
      BY <2>2 DEF Asks
    <2>4. asks' \subseteq Asks
      BY <1>23, <1>w, <2>3 DEF Sends
    <2> QED
      BY <1>23, <1>u, <2>1, <2>4 DEF Sends
  <1>24. CASE tokenExpires
    <2>1. TokensCounted'
      BY <1>0, <1>24, TokenDropped DEF tokenExpires
    <2>2. ViewTyped' /\ UNCHANGED <<reqs, op>>
      BY <1>0, <1>24 DEF tokenExpires, pageVars, ViewTyped
    <2> QED
      BY <1>k, <2>1, <2>2 DEF RequestsInv
  <1>25. ASSUME NEW call \in asks, previewUncertainResolution(call) PROVE Goal
    <2>0. call \in Asks /\ call.request \in Requests /\ call.action \in Decisions
      BY <1>w DEF Asks
    <2>1. UNCHANGED <<reqs, decided, pageVars, op, targets, unsure>>
      BY <1>25 DEF previewUncertainResolution
    <2> DEFINE token == Issue(call.request, call.action)
    <2>2. CASE reqs[call.request].state = "uncertain" /\ reqs[call.request].resolution = "none"
      <3>1. /\ tokens' = tokens \cup {token}
            /\ issued' = [issued EXCEPT ![<<call.request, call.action>>] = @ + 1]
            /\ Replied(call, [call EXCEPT !.pc = "answered", !.token = token])
        BY <1>25, <2>2 DEF previewUncertainResolution
      <3>2. TokensCounted' /\ token \in Tokens
        BY <1>0, <2>0, <2>1, <3>1, TokenIssued
      <3> HIDE DEF token
      <3>3. [call EXCEPT !.pc = "answered", !.token = token] \in Asks
        BY <2>0, <3>2 DEF Asks
      <3>4. asks' \subseteq Asks
        BY <1>w, <3>1, <3>3 DEF Replied
      <3>5. ViewTyped'
        BY <1>0, <2>1, <3>4 DEF ViewTyped, pageVars
      <3> QED
        BY <1>k, <2>1, <3>2, <3>5 DEF RequestsInv
    <2>3. CASE ~(reqs[call.request].state = "uncertain" /\ reqs[call.request].resolution = "none")
      <3>1. UNCHANGED <<tokens, issued>> /\ Replied(call, [call EXCEPT !.pc = "refused"])
        BY <1>25, <2>3 DEF previewUncertainResolution
      <3>2. [call EXCEPT !.pc = "refused"] \in Asks
        BY <2>0 DEF Asks
      <3>3. asks' \subseteq Asks
        BY <1>w, <3>1, <3>2 DEF Replied
      <3>4. ViewTyped'
        BY <1>0, <2>1, <3>3 DEF ViewTyped, pageVars
      <3> QED
        BY <1>k, <1>t, <2>1, <3>1, <3>4 DEF RequestsInv
    <2> QED
      BY <2>2, <2>3
  <1>26. ASSUME NEW call \in asks, resolveUncertain(call) PROVE Goal
    <2>0. call \in Asks /\ call.request \in Requests /\ call.action \in Decisions
      BY <1>w DEF Asks
    <2>1. UNCHANGED <<issued, pageVars, op, targets, unsure>> /\ tokens' = tokens \ {call.token}
      BY <1>26 DEF resolveUncertain
    <2>2. [call EXCEPT !.pc = "answered"] \in Asks /\ [call EXCEPT !.pc = "refused"] \in Asks
      BY <2>0 DEF Asks
    <2> DEFINE r == call.request
               settled == ResolveUncertain(reqs[r], call.action)
    <2>3. /\ settled \in RequestInfo /\ settled.state = reqs[r].state /\ settled.policy = reqs[r].policy
          /\ (reqs[r].resolution = "none" /\ ~reqs[r].retry /\ settled.retry) =>
                settled.resolution = "request_compensation"
      <3>1. reqs[r] \in RequestInfo
        BY <1>0, <2>0 DEF ViewTyped
      <3> HIDE DEF r
      <3> QED
        BY <1>0, <2>0, <3>1, OperationsTyped
    <2>4. CASE Consume(call.token, r, call.action) /\ settled # reqs[r]
      <3>1. /\ reqs' = [reqs EXCEPT ![r] = settled]
            /\ decided' = [decided EXCEPT ![<<r, call.action>>] = @ + 1]
            /\ Replied(call, [call EXCEPT !.pc = "answered"])
        BY <1>26, <2>4 DEF resolveUncertain
      <3>2. TokensCounted'
        BY <1>0, <2>0, <2>1, <2>4, <3>1, TokenConsumed
      <3>3. asks' \subseteq Asks
        BY <1>w, <2>2, <3>1 DEF Replied
      <3> HIDE DEF settled
      <3>4. reqs' \in [Requests -> RequestInfo] /\ reqs'[r] = settled
            /\ \A q \in Requests \ {r} : reqs'[q] = reqs[q]
        BY <1>0, <2>0, <2>3, <3>1 DEF ViewTyped
      <3>5. ViewTyped'
        BY <1>0, <2>1, <3>3, <3>4 DEF ViewTyped, pageVars
      <3>6. Kept
        BY <2>1, <2>3, <3>4 DEF Untouched, InDoubt
      <3> QED
        BY <3>2, <3>5, <3>6 DEF RequestsInv
    <2>5. CASE ~(Consume(call.token, r, call.action) /\ settled # reqs[r])
      <3>1. UNCHANGED <<reqs, decided>> /\ Replied(call, [call EXCEPT !.pc = "refused"])
        BY <1>26, <2>5 DEF resolveUncertain
      <3>2. TokensCounted'
        BY <1>0, <2>1, <3>1, TokenDropped
      <3>3. asks' \subseteq Asks
        BY <1>w, <2>2, <3>1 DEF Replied
      <3>4. ViewTyped'
        BY <1>0, <2>1, <3>1, <3>3 DEF ViewTyped, pageVars
      <3> QED
        BY <1>k, <2>1, <3>1, <3>2, <3>4 DEF RequestsInv
    <2> QED
      BY <2>4, <2>5
  <1>27. ASSUME NEW call \in asks, previewLands(call) PROVE Goal
    <2>1. call.token \in Tokens \cup {Unset}
      BY <1>w DEF Asks
    <2>2. unsure' \in Unsures
      BY <1>27, <1>w, <2>1 DEF previewLands, Unsures
    <2> QED
      BY <1>27, <1>u, <1>w, <2>2 DEF previewLands
  <1>28. ASSUME NEW call \in asks, resolveLands(call) PROVE Goal
    <2>1. asks' \subseteq Asks /\ unsure' \in Unsures
      BY <1>28, <1>c, <1>w DEF resolveLands
    <2>2. ViewTyped'
      BY <1>0, <1>28, <1>n, <2>1 DEF resolveLands, serverVars, ViewTyped
    <2> QED
      BY <1>28, <1>v, <2>2 DEF resolveLands
  <1>29. ASSUME NEW call \in asks, askFails(call) PROVE Goal
    <2>1. unsure' \in Unsures
      BY <1>29, <1>w DEF askFails, Unsures
    <2> QED
      BY <1>29, <1>u, <1>w, <2>1 DEF askFails
  <1>30. CASE UNCHANGED requestVars
    BY <1>30, <1>u, <1>w DEF requestVars, serverVars, pageVars
  <1>31. CASE RequestsNext
    <2>1. CASE previewAction \/ resolve
      BY <2>1, <1>23 DEF previewAction, resolve
    <2>2. CASE retryTargets(scopeRequests) \/ \E r \in Shown : retryTargets({r})
      <3>1. \A r \in Shown : {r} \in SUBSET Requests
        BY <1>s
      <3> QED
        BY <2>2, <3>1, <1>s, <1>7
    <2> QED
      BY <1>31, <2>1, <2>2, <1>1, <1>2, <1>3, <1>4, <1>5, <1>6, <1>8, <1>9, <1>10, <1>11, <1>12,
         <1>13, <1>14, <1>15, <1>16, <1>a, <1>b, <1>17, <1>18, <1>19, <1>20, <1>21, <1>22, <1>24,
         <1>25, <1>26, <1>27, <1>28, <1>29 DEF RequestsNext
  <1> QED
    BY <1>30, <1>31

\* The invariant holds at the start, when nothing was previewed.
LEMMA RequestsStart == RequestsInit => RequestsInv
  <1> SUFFICES ASSUME RequestsInit PROVE RequestsInv
    OBVIOUS
  <1>1. ViewTyped
    <2>1. reqs \in [Requests -> RequestInfo]
      <3>1. PICK start \in Starts :
               reqs = [r \in Requests |-> [state |-> start[r], policy |-> Unset, resolution |-> "none", retry |-> FALSE]]
        BY DEF RequestsInit
      <3>2. \A r \in Requests : start[r] \in States
        BY <3>1, RequestsAssumption
      <3>3. \A r \in Requests : [state |-> start[r], policy |-> Unset, resolution |-> "none", retry |-> FALSE] \in RequestInfo
        BY <3>2 DEF RequestInfo
      <3> QED
        BY <3>1, <3>3
    <2>2. Closed \in Unsures
      BY DEF Closed, Unsures, Decisions
    <2> QED
      BY <2>1, <2>2 DEF RequestsInit, ViewTyped
  <1>2. TokensCounted
    <2>1. \A k \in Requests \X Decisions : TokensOf(k) = {} /\ decided[k] = 0 /\ issued[k] = 0
      BY DEF RequestsInit, TokensOf
    <2>2. Cardinality({}) = 0 /\ IsFiniteSet({})
      BY FS_EmptySet
    <2>3. issued \in [Requests \X Decisions -> Nat] /\ decided \in [Requests \X Decisions -> Nat] /\ tokens = {}
      BY DEF RequestsInit
    <2>4. \A k \in Requests \X Decisions : decided[k] + Cardinality(TokensOf(k)) <= issued[k]
      <3> SUFFICES ASSUME NEW k \in Requests \X Decisions
                   PROVE  decided[k] + Cardinality(TokensOf(k)) <= issued[k]
        OBVIOUS
      <3>1. Cardinality(TokensOf(k)) = 0
        BY <2>1, <2>2
      <3> QED
        BY <2>1, <3>1
    <2> QED
      BY <2>2, <2>3, <2>4 DEF TokensCounted
  <1> QED
    BY <1>1, <1>2 DEF RequestsInv

\* No decision is taken that was not previewed.
THEOREM DecisionsArePreviewed == RequestsSpec => []DecisionsPreviewed
  <1>1. RequestsInv /\ [RequestsNext]_requestVars => RequestsInv'
    BY RequestsStep
  <1>2. QED
    BY <1>1, RequestsStart, RequestsInvPreviewed, PTL DEF RequestsSpec

\* No operation of the console takes a request in doubt out of that state, or
\* wakes its worker without a compensation, unless a retry was granted while
\* it was waiting.
THEOREM UncertainIsUntouched == RequestsSpec => UncertainUntouched
  <1> DEFINE Kept == \A r \in Requests : Untouched(r)
  <1>1. RequestsInv /\ [RequestsNext]_requestVars => RequestsInv' /\ [Kept]_requestVars
    BY RequestsStep
  <1>2. QED
    BY <1>1, RequestsStart, PTL DEF RequestsSpec, UncertainUntouched, Untouched

------------------------------------------------------------------------------
\* Repeat tasks: what RepeatSound and EndedForGood say holds for any number of
\* tasks, requests, crashes and failing writes.
\*
\* The inductive invariant RepeatInv says of every task what its snapshot and
\* its goroutine have to do with it: as long as the journal works the two
\* agree, the task is counted exactly, and its goroutine can run it; once the
\* journal has failed nothing is sent any more, and a restart finds in the
\* journal what was sent.

\* The calls that create a task.
Calls == [which : Sources, input : CreateInput, number : Nat, checked : BOOLEAN]

\* What every variable of Repeat holds.
RepeatTypes ==
    /\ tasks \in [Tasks -> Task \cup {Absent}] /\ snapshots \in [Tasks -> Task \cup {Absent}]
    /\ worker \in [Tasks -> {"none", "next", "wait", "begin", "execute"}]
    /\ manager \in {"up", "closed", "down"} /\ sources \in [Sources -> {"live", "uncertain", "gone"}]
    /\ cancelled \in [Tasks -> BOOLEAN] /\ launched \in [Tasks -> Nat] /\ degraded \in BOOLEAN
    /\ creating \subseteq Calls /\ presses \in Nat

\* One task, its snapshot and its goroutine: the journal is ahead of the
\* memory only once it has failed, and while it works a task is counted
\* exactly and has a goroutine that can run it.
InJournal(task, snap, sent) ==
    /\ task # Absent => snap # Absent /\ snap.input = task.input /\ task.executions <= sent
    /\ snap = Absent => sent = 0
    /\ snap # Absent => snap.executions <= sent
                        /\ (snap.input.executions > 0 => sent <= snap.input.executions)
Allowed(task) ==
    Active(task) => /\ ~Reached(task.input.tokens, task.tokens)
                    /\ task.input.tokens = 0 => ~Reached(task.input.failures, task.failures)
Agreed(state, broken, task, snap, place, sent) ==
    /\ (~broken /\ state # "down") => task = snap \/ Ended(task)
    /\ (~broken /\ Active(task)) =>
          /\ task.inFlight <=> place = "execute"
          /\ sent = task.executions + (IF task.inFlight THEN 1 ELSE 0)
    /\ place = "execute" => snap # Absent /\ (snap.inFlight \/ Ended(snap))
Attended(state, broken, task, place, off) ==
    /\ task = Absent => place = "none" /\ ~off
    /\ state = "down" => task = Absent
    /\ (state = "up" /\ Active(task) /\ (~broken \/ task.state = "running")) => place # "none" /\ ~off
TaskSound(state, broken, task, snap, place, off, sent) ==
    /\ InJournal(task, snap, sent) /\ Allowed(task)
    /\ Agreed(state, broken, task, snap, place, sent) /\ Attended(state, broken, task, place, off)

\* The inductive invariant of the repeat tasks.
RepeatInv ==
    /\ RepeatTypes /\ OneActiveTask
    /\ \A t \in Tasks : TaskSound(manager, degraded, tasks[t], snapshots[t], worker[t], cancelled[t], launched[t])

\* A journal that fails takes nothing away from a task it says nothing of.
LEMMA BrokenSound ==
    ASSUME NEW state, NEW broken \in BOOLEAN, NEW task, NEW snap, NEW place, NEW off, NEW sent,
           TaskSound(state, broken, task, snap, place, off, sent)
    PROVE  TaskSound(state, TRUE, task, snap, place, off, sent)
<1>1. Agreed(state, TRUE, task, snap, place, sent)
    BY Zenon DEF TaskSound, Agreed
<1>2. Attended(state, TRUE, task, place, off)
    BY Zenon DEF TaskSound, Attended
<1> QED
    BY <1>1, <1>2, Zenon DEF TaskSound

\* A step that is about one task keeps the invariant when it leaves that task
\* as it should be, and nothing else changes but that the journal may fail.
LEMMA TaskMoves ==
    ASSUME RepeatInv, RepeatTypes', OneActiveTask', NEW t \in Tasks,
           manager' = manager, degraded' \in {degraded, TRUE},
           \A u \in Tasks \ {t} : /\ tasks'[u] = tasks[u] /\ snapshots'[u] = snapshots[u]
                                  /\ worker'[u] = worker[u] /\ cancelled'[u] = cancelled[u]
                                  /\ launched'[u] = launched[u],
           TaskSound(manager, degraded', tasks'[t], snapshots'[t], worker'[t], cancelled'[t], launched'[t])
    PROVE  RepeatInv'
<1>1. ASSUME NEW u \in Tasks
      PROVE  TaskSound(manager', degraded', tasks'[u], snapshots'[u], worker'[u], cancelled'[u], launched'[u])
    <2>1. CASE u = t
        BY <2>1, Zenon
    <2>2. CASE u # t
        <3>1. TaskSound(manager, degraded, tasks'[u], snapshots'[u], worker'[u], cancelled'[u], launched'[u])
            BY <2>2, Zenon DEF RepeatInv
        <3>2. degraded \in BOOLEAN
            BY Zenon DEF RepeatInv, RepeatTypes
        <3>3. TaskSound(manager, TRUE, tasks'[u], snapshots'[u], worker'[u], cancelled'[u], launched'[u])
            BY <3>1, <3>2, BrokenSound, Zenon
        <3> QED
            BY <3>1, <3>3, Zenon
    <2> QED
        BY <2>1, <2>2, Zenon
<1> QED
    BY <1>1, Zenon DEF RepeatInv

\* The same, of a task that was there before and is still of its request.
LEMMA OneTaskMoves ==
    ASSUME RepeatInv, RepeatTypes', NEW t \in Tasks,
           manager' = manager, degraded' \in {degraded, TRUE},
           \A u \in Tasks \ {t} : /\ tasks'[u] = tasks[u] /\ snapshots'[u] = snapshots[u]
                                  /\ worker'[u] = worker[u] /\ cancelled'[u] = cancelled[u]
                                  /\ launched'[u] = launched[u],
           TaskSound(manager, degraded', tasks'[t], snapshots'[t], worker'[t], cancelled'[t], launched'[t]),
           Active(tasks'[t]) => Active(tasks[t]) /\ tasks'[t].source = tasks[t].source
    PROVE  RepeatInv'
<1>1. OneActiveTask'
    <2> SUFFICES ASSUME NEW u \in Tasks, NEW v \in Tasks, Active(tasks'[u]), Active(tasks'[v]),
                        tasks'[u].source = tasks'[v].source
                 PROVE  u = v
        BY Zenon DEF OneActiveTask, Active
    <2>1. ASSUME NEW w \in Tasks, Active(tasks'[w])
          PROVE  Active(tasks[w]) /\ tasks'[w].source = tasks[w].source
        BY <2>1, Zenon
    <2>2. Active(tasks[u]) /\ Active(tasks[v]) /\ tasks[u].source = tasks[v].source
        BY <2>1, Zenon
    <2> QED
        BY <2>2, Zenon DEF RepeatInv, OneActiveTask
<1> QED
    BY <1>1, TaskMoves, Zenon

\* The four parts of RepeatSound are in the invariant.
LEMMA RepeatInvSound == RepeatInv => RepeatSound
<1> SUFFICES ASSUME RepeatInv PROVE RepeatSound
    OBVIOUS
<1>1. RepeatTypeOK
    BY DEF RepeatInv, RepeatTypes, RepeatTypeOK, Calls
<1>2. WithinLimits
    <2> SUFFICES ASSUME NEW t \in Tasks, tasks[t] # Absent
                 PROVE  /\ tasks[t].executions <= launched[t]
                        /\ tasks[t].input.executions > 0 => launched[t] <= tasks[t].input.executions
                        /\ (worker[t] = "execute" /\ Active(tasks[t])) =>
                              /\ ~Reached(tasks[t].input.tokens, tasks[t].tokens)
                              /\ tasks[t].input.tokens = 0 => ~Reached(tasks[t].input.failures, tasks[t].failures)
        BY Zenon DEF WithinLimits
    <2>1. InJournal(tasks[t], snapshots[t], launched[t]) /\ Allowed(tasks[t])
        BY Zenon DEF RepeatInv, TaskSound
    <2> QED
        BY <2>1, Zenon DEF InJournal, Allowed
<1>3. RunningRuns
    BY Zenon DEF RepeatInv, TaskSound, Attended, RunningRuns
<1>4. RecordedFirst
    BY Zenon DEF RepeatInv, TaskSound, Agreed, RecordedFirst
<1> QED
    BY <1>1, <1>2, <1>3, <1>4, Zenon DEF RepeatInv, RepeatSound

\* The changes that end a task or suspend it leave its request and its counts.
LEMMA EndingTyped ==
    ASSUME NEW task \in Task
    PROVE  /\ finishLocked(task) \in Task /\ Suspended(task) \in Task
           /\ finishLocked(task) # Absent /\ Suspended(task) # Absent /\ task # Absent
           /\ Ended(finishLocked(task)) /\ Active(Suspended(task))
           /\ finishLocked(task).input = task.input /\ Suspended(task).input = task.input
           /\ finishLocked(task).executions = task.executions /\ Suspended(task).executions = task.executions
           /\ finishLocked(task).source = task.source /\ Suspended(task).source = task.source
           /\ Suspended(task).tokens = task.tokens /\ Suspended(task).failures = task.failures
           /\ Suspended(task).state = "paused" /\ ~Suspended(task).inFlight
    BY InputAssumption DEF finishLocked, Suspended, Task, TaskStates, Ended, Active, terminal

\* What a button of the panel makes of a task.
LEMMA ChangedTyped ==
    ASSUME NEW task \in Task, NEW what \in {"pause", "resume", "run", "stop"}
    PROVE  /\ Changed(task, what) \in Task /\ Changed(task, what) # Absent
           /\ Changed(task, what).input = task.input
           /\ Changed(task, what).executions = task.executions
           /\ Changed(task, what).source = task.source
           /\ Changed(task, what).tokens = task.tokens /\ Changed(task, what).failures = task.failures
           /\ what # "stop" => Changed(task, what).inFlight = task.inFlight
           /\ Ended(Changed(task, what)) <=> what = "stop"
<1>1. CASE what = "pause"
    BY <1>1, InputAssumption DEF Changed, Task, TaskStates, Ended, terminal
<1>2. CASE what = "resume"
    <2>1. Changed(task, what) = [task EXCEPT !.state = "running", !.consecutive = 0]
        BY <1>2, Zenon DEF Changed
    <2>2. Changed(task, what) \in Task /\ Changed(task, what).inFlight = task.inFlight
        <3>1. Changed(task, what) =
                 [source |-> task.source, input |-> task.input, state |-> "running", inFlight |-> task.inFlight,
                  executions |-> task.executions, failures |-> task.failures, consecutive |-> 0, tokens |-> task.tokens]
            BY <2>1 DEF Task
        <3>2. /\ task.source \in Sources /\ task.input \in CreateInput /\ task.inFlight \in BOOLEAN
              /\ task.executions \in Nat /\ task.failures \in Nat /\ task.tokens \in Nat
            BY DEF Task
        <3> QED
            BY <3>1, <3>2 DEF Task, TaskStates
    <2>3. /\ Changed(task, what).input = task.input /\ Changed(task, what).state = "running"
          /\ Changed(task, what).executions = task.executions /\ Changed(task, what).source = task.source
          /\ Changed(task, what).tokens = task.tokens /\ Changed(task, what).failures = task.failures
        BY <2>1 DEF Task
    <2> QED
        BY <2>2, <2>3, <1>2, InputAssumption DEF Ended, terminal
<1>3. CASE what = "run"
    BY <1>3, InputAssumption DEF Changed, Task, TaskStates, Ended, terminal
<1>4. CASE what = "stop"
    BY <1>4, InputAssumption DEF Changed, Task, TaskStates, Ended, terminal
<1> QED
    BY <1>1, <1>2, <1>3, <1>4

\* What a result makes of a task: one execution more, and a task that goes on
\* is within its tokens, and within its failures unless its tokens are limited.
LEMMA FinishedTyped ==
    ASSUME NEW task \in Task, Active(task), NEW result \in Results, Allowed(task)
    PROVE  /\ Finished(task, result) \in Task /\ Finished(task, result) # Absent
           /\ Finished(task, result).input = task.input
           /\ Finished(task, result).source = task.source
           /\ Finished(task, result).executions = task.executions + 1
           /\ ~Finished(task, result).inFlight
           /\ Allowed(Finished(task, result))
<1> DEFINE counted == CountedResult(task, result)
           ends    == finishLocked(counted)
           pauses  == [counted EXCEPT !.state = "paused"]
<1>1. /\ counted \in Task /\ counted.input = task.input /\ counted.source = task.source
      /\ counted.executions = task.executions + 1 /\ counted.inFlight = FALSE
      /\ counted.state = task.state
      /\ (task.input.tokens = 0 \/ result.usage = Absent) => counted.tokens = task.tokens
    <2>1. PICK failures \in Nat : failures = IF result.success THEN task.failures ELSE task.failures + 1
        BY DEF Task
    <2>2. PICK consecutive \in Nat : consecutive = IF result.success THEN 0 ELSE task.consecutive + 1
        BY DEF Task
    <2>3. PICK spent \in Nat :
             spent = IF task.input.tokens > 0 /\ result.usage # Absent THEN task.tokens + result.usage ELSE task.tokens
        <3>1. task.tokens \in Nat /\ result.usage \in {Absent, 1}
            BY DEF Task, Results
        <3> QED
            BY <3>1
    <2>4. counted = [task EXCEPT !.inFlight = FALSE, !.executions = task.executions + 1, !.failures = failures,
                                 !.consecutive = consecutive, !.tokens = spent]
        BY <2>1, <2>2, <2>3 DEF CountedResult, Task
    <2>5. (task.input.tokens = 0 \/ result.usage = Absent) => spent = task.tokens
        BY <2>3
    <2>6. counted \in Task
        <3>1. counted = [source |-> task.source, input |-> task.input, state |-> task.state, inFlight |-> FALSE,
                         executions |-> task.executions + 1, failures |-> failures, consecutive |-> consecutive,
                         tokens |-> spent]
            BY <2>4 DEF Task
        <3>2. /\ task.source \in Sources /\ task.input \in CreateInput /\ task.state \in TaskStates
              /\ task.executions + 1 \in Nat
            BY DEF Task
        <3> HIDE DEF counted
        <3> QED
            BY <3>1, <3>2 DEF Task
    <2>7. /\ counted.input = task.input /\ counted.source = task.source /\ counted.state = task.state
          /\ counted.executions = task.executions + 1 /\ counted.tokens = spent
        BY <2>4 DEF Task
    <2>8. counted.inFlight = FALSE
        BY <2>4 DEF Task
    <2> QED
        BY <2>5, <2>6, <2>7, <2>8
<1> HIDE DEF counted
<1>2. /\ pauses \in Task /\ pauses.input = task.input /\ pauses.source = task.source
      /\ pauses.executions = task.executions + 1 /\ pauses.inFlight = FALSE
      /\ pauses.tokens = counted.tokens /\ pauses.failures = counted.failures
    BY <1>1 DEF Task, TaskStates
<1>3. /\ ends \in Task /\ ends.input = task.input /\ ends.source = task.source
      /\ ends.executions = task.executions + 1 /\ ends.inFlight = FALSE
      /\ ends.state = "expired"
    BY <1>1 DEF Task, TaskStates, finishLocked
<1> HIDE DEF ends, pauses
<1>4. /\ task.input.tokens \in Nat /\ task.tokens \in Nat /\ task.input.failures \in Nat
      /\ counted.tokens \in Nat /\ counted.failures \in Nat
    BY <1>1 DEF Task, CreateInput
<1>5. ~Reached(task.input.tokens, task.tokens)
    BY Zenon DEF Allowed
<1>6. Finished(task, result) \in {counted, ends, pauses}
    BY DEF Finished, counted, ends, pauses
<1>7. ASSUME Finished(task, result) # ends
      PROVE  /\ ~Reached(task.input.tokens, counted.tokens)
             /\ task.input.tokens = 0 => ~Reached(task.input.failures, counted.failures)
    <2>1. CASE task.input.tokens > 0 /\ result.usage = Absent
        BY <2>1, <1>1, <1>4, <1>5
    <2>2. CASE ~(task.input.tokens > 0 /\ result.usage = Absent)
        <3>1. ~Reached(task.input.tokens, counted.tokens)
            BY <2>2, <1>7 DEF Finished, counted, ends
        <3>2. ~Reached(task.input.failures, counted.failures)
            BY <2>2, <3>1, <1>7 DEF Finished, counted, ends
        <3> QED
            BY <3>1, <3>2, Zenon
    <2> QED
        BY <2>1, <2>2
<1>8. Allowed(Finished(task, result))
    <2>1. CASE Finished(task, result) = ends
        BY <2>1, <1>3 DEF Allowed, Active, terminal
    <2>2. CASE Finished(task, result) # ends
        BY <2>2, <1>1, <1>2, <1>6, <1>7, Zenon DEF Allowed
    <2> QED
        BY <2>1, <2>2, Zenon
<1>9. /\ Finished(task, result) \in Task
      /\ Finished(task, result).input = task.input
      /\ Finished(task, result).source = task.source
      /\ Finished(task, result).executions = task.executions + 1
      /\ ~Finished(task, result).inFlight
    BY <1>1, <1>2, <1>3, <1>6, Zenon
<1> QED
    BY <1>8, <1>9, InputAssumption, Zenon

\* What an append leaves of the journal, whether it succeeds or not.
LEMMA JournalTyped ==
    ASSUME RepeatTypes, NEW t \in Tasks, NEW task \in Task, Written(t, task) \/ NotWritten(t, task)
    PROVE  /\ snapshots' \in [Tasks -> Task \cup {Absent}] /\ degraded' \in BOOLEAN
           /\ degraded' \in {degraded, TRUE}
           /\ \A u \in Tasks \ {t} : snapshots'[u] = snapshots[u]
           /\ snapshots'[t] \in {snapshots[t], task}
           /\ degraded => snapshots'[t] = snapshots[t]
           /\ Written(t, task) => ~degraded /\ ~degraded' /\ snapshots'[t] = task
<1>1. [snapshots EXCEPT ![t] = task] \in [Tasks -> Task \cup {Absent}]
    BY DEF RepeatTypes
<1>2. snapshots' \in {snapshots, [snapshots EXCEPT ![t] = task]} /\ degraded' \in {degraded, TRUE}
    BY DEF Written, NotWritten
<1>3. degraded => snapshots' = snapshots
    BY Zenon DEF Written, NotWritten
<1>4. Written(t, task) => ~degraded /\ degraded' = degraded /\ snapshots' = [snapshots EXCEPT ![t] = task]
    BY Zenon DEF Written
<1>5. degraded \in BOOLEAN /\ snapshots \in [Tasks -> Task \cup {Absent}]
    BY Zenon DEF RepeatTypes
<1>6. /\ \A u \in Tasks \ {t} : snapshots'[u] = snapshots[u]
      /\ snapshots'[t] \in {snapshots[t], task}
    BY <1>2, <1>5
<1>7. snapshots' = [snapshots EXCEPT ![t] = task] => snapshots'[t] = task
    BY <1>5
<1> QED
    BY <1>1, <1>2, <1>3, <1>4, <1>5, <1>6, <1>7, Zenon

\* The invariant, of one task.
LEMMA TaskFacts ==
    ASSUME RepeatInv, NEW t \in Tasks
    PROVE  /\ RepeatTypes
           /\ tasks[t] = Absent \/ tasks[t] \in Task
           /\ snapshots[t] = Absent \/ snapshots[t] \in Task
           /\ launched[t] \in Nat /\ cancelled[t] \in BOOLEAN /\ degraded \in BOOLEAN
           /\ TaskSound(manager, degraded, tasks[t], snapshots[t], worker[t], cancelled[t], launched[t])
    BY Zenon DEF RepeatInv, RepeatTypes

\* commitLocked, of a task that is not at its end and has just been counted:
\* recorded, or suspended with its goroutine told to leave.
LEMMA CommitKeeps ==
    ASSUME RepeatInv, NEW t \in Tasks, Active(tasks[t]), NEW task \in Task,
           commitLocked(t, task, tasks[t]),
           task.input = tasks[t].input, task.source = tasks[t].source, Allowed(task), ~task.inFlight,
           ~degraded => task.executions = launched[t],
           NEW place \in {"next", "none"}, Moves(t, place), place = "none" => Ended(task),
           UNCHANGED <<manager, sources, launched, consoleVars>>
    PROVE  RepeatInv'
<1>1. /\ RepeatTypes /\ launched[t] \in Nat /\ tasks[t] \in Task /\ degraded \in BOOLEAN
      /\ snapshots[t] = Absent \/ snapshots[t] \in Task
      /\ TaskSound(manager, degraded, tasks[t], snapshots[t], worker[t], cancelled[t], launched[t])
    BY TaskFacts, Zenon DEF Active
<1>2. Written(t, task) \/ NotWritten(t, task)
    BY Zenon DEF commitLocked
<1>3. /\ snapshots' \in [Tasks -> Task \cup {Absent}] /\ degraded' \in BOOLEAN
      /\ degraded' \in {degraded, TRUE}
      /\ \A u \in Tasks \ {t} : snapshots'[u] = snapshots[u]
      /\ snapshots'[t] \in {snapshots[t], task}
      /\ degraded => snapshots'[t] = snapshots[t]
      /\ Written(t, task) => ~degraded /\ ~degraded' /\ snapshots'[t] = task
    BY <1>1, <1>2, JournalTyped
<1>4. /\ worker' = [worker EXCEPT ![t] = place]
      /\ cancelled' = cancelled \/ cancelled' = [cancelled EXCEPT ![t] = TRUE]
      /\ tasks' \in {[tasks EXCEPT ![t] = task], [tasks EXCEPT ![t] = Suspended(tasks[t])]}
    BY Zenon DEF commitLocked, Moves, Cancels, Becomes
<1>5. task # Absent /\ Suspended(tasks[t]) \in Task
    BY <1>1, EndingTyped, InputAssumption, Zenon
<1>6. RepeatTypes'
    BY <1>1, <1>3, <1>4, <1>5, ZenonT(60) DEF RepeatTypes, consoleVars
<1>7. \A u \in Tasks \ {t} : /\ tasks'[u] = tasks[u] /\ worker'[u] = worker[u]
                             /\ cancelled'[u] = cancelled[u] /\ launched'[u] = launched[u]
    BY <1>1, <1>4 DEF RepeatTypes
<1>8. worker'[t] = place /\ launched'[t] = launched[t]
    BY <1>1, <1>4 DEF RepeatTypes
<1>9. CASE Written(t, task) /\ Becomes(t, task) /\ (IF Ended(task) THEN Cancels(t) ELSE UNCHANGED cancelled)
    <2>1. tasks'[t] = task /\ snapshots'[t] = task /\ ~degraded /\ ~degraded'
        BY <1>1, <1>3, <1>9 DEF Becomes, RepeatTypes
    <2>2. Active(task) => cancelled'[t] = cancelled[t]
        BY <1>9, Zenon DEF Active, Ended
    <2>3. InJournal(task, task, launched[t])
        <3>1. task.input.executions > 0 => launched[t] <= task.input.executions
            BY <1>1, Zenon DEF TaskSound, InJournal, Active
        <3>2. task.executions <= launched[t]
            BY <1>1, <2>1
        <3> QED
            BY <1>5, <3>1, <3>2, Zenon DEF InJournal
    <2>4. Agreed(manager, FALSE, task, task, place, launched[t])
        BY <1>1, <2>1 DEF TaskSound, Agreed, Task
    <2>5. Attended(manager, FALSE, task, place, cancelled'[t])
        BY <1>1, <1>5, <2>1, <2>2, Zenon DEF TaskSound, Attended, Active, Ended
    <2>6. TaskSound(manager, degraded', tasks'[t], snapshots'[t], worker'[t], cancelled'[t], launched'[t])
        <3>1. degraded' = FALSE
            BY <2>1, <1>3, Zenon
        <3> QED
            BY <1>8, <2>1, <2>3, <2>4, <2>5, <3>1, Zenon DEF TaskSound
    <2> QED
        BY <1>3, <1>6, <1>7, <2>1, <2>6, OneTaskMoves, Zenon
<1>10. CASE NotWritten(t, task) /\ Becomes(t, Suspended(tasks[t])) /\ Cancels(t)
    <2> DEFINE left == Suspended(tasks[t])
    <2>1. tasks'[t] = left /\ degraded' = TRUE
        BY <1>1, <1>10 DEF Becomes, RepeatTypes, NotWritten
    <2>2. /\ left # Absent /\ left.input = tasks[t].input /\ left.executions = tasks[t].executions
          /\ left.source = tasks[t].source /\ left.tokens = tasks[t].tokens /\ left.failures = tasks[t].failures
          /\ left.state = "paused"
        BY <1>1, EndingTyped, Zenon
    <2> HIDE DEF left
    <2>3. tasks[t] # Absent
        BY Zenon DEF Active
    <2>4. InJournal(left, snapshots'[t], launched[t])
        <3>1. CASE snapshots'[t] = snapshots[t]
            BY <1>1, <2>2, <2>3, <3>1, Zenon DEF TaskSound, InJournal
        <3>2. CASE snapshots'[t] = task /\ ~degraded
            BY <1>1, <1>5, <2>2, <2>3, <3>2 DEF TaskSound, InJournal, Task, CreateInput
        <3> QED
            BY <1>1, <1>3, <3>1, <3>2, Zenon
    <2>5. Allowed(left)
        BY <1>1, <2>2, Zenon DEF TaskSound, Allowed
    <2>6. Agreed(manager, TRUE, left, snapshots'[t], place, launched[t])
        BY Zenon DEF Agreed
    <2>7. Attended(manager, TRUE, left, place, cancelled'[t])
        BY <1>1, <2>2, <2>3, Zenon DEF Attended, TaskSound
    <2>8. TaskSound(manager, degraded', tasks'[t], snapshots'[t], worker'[t], cancelled'[t], launched'[t])
        BY <1>8, <2>1, <2>4, <2>5, <2>6, <2>7, Zenon DEF TaskSound
    <2> QED
        BY <1>3, <1>6, <1>7, <2>1, <2>2, <2>8, OneTaskMoves, Zenon
<1> QED
    BY <1>9, <1>10, Zenon DEF commitLocked

\* A step of one goroutine that changes neither the task nor the journal.
LEMMA PlaceKeeps ==
    ASSUME RepeatInv, NEW t \in Tasks, NEW place \in {"none", "next", "wait", "begin"}, Moves(t, place),
           worker[t] \notin {"none", "execute"},
           place = "none" => Ended(tasks[t]) \/ cancelled[t],
           UNCHANGED <<manager, sources, taskVars, cancelled, launched, consoleVars>>
    PROVE  RepeatInv'
<1>1. /\ RepeatTypes /\ cancelled[t] \in BOOLEAN
      /\ TaskSound(manager, degraded, tasks[t], snapshots[t], worker[t], cancelled[t], launched[t])
    BY TaskFacts, Zenon
<1>2. worker' = [worker EXCEPT ![t] = place] /\ worker'[t] = place
    BY <1>1 DEF RepeatTypes, Moves
<1>3. RepeatTypes'
    BY <1>1, <1>2 DEF RepeatTypes, taskVars, consoleVars
<1>4. \A u \in Tasks \ {t} : worker'[u] = worker[u]
    BY <1>1, <1>2 DEF RepeatTypes
<1>5. tasks' = tasks /\ snapshots' = snapshots /\ degraded' = degraded
    BY Zenon DEF taskVars
<1>6. Agreed(manager, degraded, tasks[t], snapshots[t], place, launched[t])
    BY <1>1 DEF TaskSound, Agreed
<1>7. Attended(manager, degraded, tasks[t], place, cancelled[t])
    BY <1>1, Zenon DEF TaskSound, Attended, Active, Ended
<1>8. TaskSound(manager, degraded', tasks'[t], snapshots'[t], worker'[t], cancelled'[t], launched'[t])
    BY <1>1, <1>2, <1>5, <1>6, <1>7, Zenon DEF TaskSound
<1> QED
    BY <1>3, <1>4, <1>5, <1>8, OneTaskMoves, Zenon

\* A step in which neither the tasks, nor the journal, nor the goroutines are
\* touched.
LEMMA RestKeeps ==
    ASSUME RepeatInv, RepeatTypes',
           UNCHANGED <<manager, tasks, snapshots, degraded, worker, cancelled, launched>>
    PROVE  RepeatInv'
    BY Zenon DEF RepeatInv, OneActiveTask

\* next.
LEMMA NextKeeps ==
    ASSUME RepeatInv, NEW t \in Tasks, next(t)
    PROVE  RepeatInv'
<1>1. worker[t] = "next" /\ UNCHANGED <<manager, sources, launched, consoleVars>>
    BY Zenon DEF next
<1>2. CASE Ended(tasks[t]) /\ Moves(t, "none") /\ UNCHANGED <<taskVars, cancelled>>
    BY <1>1, <1>2, PlaceKeeps
<1>3. CASE Moves(t, "wait") /\ UNCHANGED <<taskVars, cancelled>>
    BY <1>1, <1>3, PlaceKeeps
<1>4. CASE Active(tasks[t]) /\ expireLocked(t) /\ Moves(t, "none")
    <2>1. tasks[t] \in Task
        BY <1>4, TaskFacts, Zenon DEF Active
    <2> DEFINE ended == finishLocked(tasks[t])
    <2>2. /\ ended \in Task /\ ended.input = tasks[t].input /\ ended.source = tasks[t].source
          /\ ended.executions = tasks[t].executions /\ Ended(ended)
        BY <2>1, EndingTyped, Zenon
    <2>3. ~ended.inFlight
        BY <2>1 DEF finishLocked, Task
    <2>4. Allowed(ended)
        BY <2>2, Zenon DEF Allowed, Ended, Active
    <2>5. ~degraded => ended.executions = launched[t]
        <3>1. /\ TaskSound(manager, degraded, tasks[t], snapshots[t], worker[t], cancelled[t], launched[t])
              /\ launched[t] \in Nat /\ tasks[t].executions \in Nat
            BY <2>1, TaskFacts DEF Task
        <3> QED
            BY <1>1, <1>4, <2>2, <3>1 DEF TaskSound, Agreed
    <2>6. commitLocked(t, ended, tasks[t])
        BY <1>4, Zenon DEF expireLocked
    <2> HIDE DEF ended
    <2>7. "none" \in {"next", "none"}
        OBVIOUS
    <2> QED
        BY <1>1, <1>4, <2>2, <2>3, <2>4, <2>5, <2>6, <2>7, CommitKeeps, Zenon
<1> QED
    BY <1>2, <1>3, <1>4, Zenon DEF next

\* waitFor.
LEMMA WaitKeeps ==
    ASSUME RepeatInv, NEW t \in Tasks, waitFor(t)
    PROVE  RepeatInv'
<1>1. /\ worker[t] = "wait" /\ UNCHANGED <<manager, sources, taskVars, cancelled, launched, consoleVars>>
      /\ (cancelled[t] /\ Moves(t, "none")) \/ Moves(t, "begin")
    BY Zenon DEF waitFor
<1> QED
    BY <1>1, PlaceKeeps

\* beginExecution: nothing is begun that is not in the journal.
LEMMA BeginKeeps ==
    ASSUME RepeatInv, NEW t \in Tasks, beginExecution(t)
    PROVE  RepeatInv'
<1> DEFINE task   == tasks[t]
           begun  == [task EXCEPT !.inFlight = TRUE]
           paused == [task EXCEPT !.state = "paused"]
           ended  == finishLocked(task)
<1>1. worker[t] = "begin" /\ UNCHANGED <<manager, sources, consoleVars>>
    BY Zenon DEF beginExecution
<1>2. /\ RepeatTypes /\ launched[t] \in Nat /\ cancelled[t] \in BOOLEAN /\ degraded \in BOOLEAN
      /\ TaskSound(manager, degraded, task, snapshots[t], worker[t], cancelled[t], launched[t])
      /\ snapshots[t] = Absent \/ snapshots[t] \in Task
    BY TaskFacts, Zenon
<1>3. task # Absent /\ task \in Task
    <2>1. task # Absent
        BY <1>1, <1>2 DEF TaskSound, Attended
    <2> QED
        BY <2>1, TaskFacts, Zenon
<1>4. /\ ended \in Task /\ ended # Absent /\ ended.input = task.input /\ ended.source = task.source
      /\ ended.executions = task.executions /\ Ended(ended)
    BY <1>3, EndingTyped, Zenon
<1>5. ~ended.inFlight
    BY <1>3 DEF finishLocked, Task
<1>6. ~Active(ended) /\ Allowed(ended)
    BY <1>4, Zenon DEF Allowed, Ended, Active
<1>7. MayBegin(task) => Active(task)
    BY <1>3 DEF MayBegin, Active, terminal
<1>8. (MayBegin(task) /\ ~degraded) => task.executions = launched[t] /\ task = snapshots[t]
    <2>1. task.executions \in Nat
        BY <1>3 DEF Task
    <2>2. ASSUME MayBegin(task), ~degraded PROVE task = snapshots[t]
        BY <1>2, <1>3, <1>7, <2>2, Zenon DEF TaskSound, Agreed, Attended, Active, Ended
    <2> QED
        BY <1>2, <1>7, <2>1, <2>2 DEF TaskSound, Agreed, MayBegin
<1>9. CASE Moves(t, "next") /\ UNCHANGED <<taskVars, cancelled, launched>>
    BY <1>1, <1>9, PlaceKeeps
<1>10. CASE /\ MayBegin(task) /\ Becomes(t, ended) /\ Cancels(t) /\ Moves(t, "next")
            /\ UNCHANGED <<snapshots, degraded, faults, launched>>
    <2> HIDE DEF ended
    <2>1. /\ worker' = [worker EXCEPT ![t] = "next"] /\ tasks' = [tasks EXCEPT ![t] = ended]
          /\ cancelled' = [cancelled EXCEPT ![t] = TRUE]
        BY <1>10, Zenon DEF Moves, Becomes, Cancels
    <2>2. RepeatTypes'
        BY <1>1, <1>2, <1>4, <1>10, <2>1 DEF RepeatTypes, consoleVars
    <2>3. /\ worker'[t] = "next" /\ tasks'[t] = ended
          /\ \A u \in Tasks \ {t} : /\ tasks'[u] = tasks[u] /\ worker'[u] = worker[u]
                                    /\ cancelled'[u] = cancelled[u]
        BY <1>2, <2>1 DEF RepeatTypes
    <2>4. InJournal(ended, snapshots[t], launched[t])
        BY <1>2, <1>3, <1>4, Zenon DEF TaskSound, InJournal
    <2>5. Agreed(manager, degraded, ended, snapshots[t], "next", launched[t])
        BY <1>4, <1>6 DEF Agreed
    <2>6. Attended(manager, degraded, ended, "next", cancelled'[t])
        BY <1>2, <1>3, <1>4, <1>6, Zenon DEF TaskSound, Attended
    <2>7. TaskSound(manager, degraded', tasks'[t], snapshots'[t], worker'[t], cancelled'[t], launched'[t])
        BY <1>6, <1>10, <2>3, <2>4, <2>5, <2>6, Zenon DEF TaskSound
    <2> QED
        BY <1>1, <1>6, <1>10, <2>2, <2>3, <2>7, OneTaskMoves, Zenon
<1>11. CASE MayBegin(task) /\ expireLocked(t) /\ Moves(t, "next") /\ UNCHANGED launched
    <2>1. commitLocked(t, ended, tasks[t])
        BY <1>11, Zenon DEF expireLocked
    <2>2. "next" \in {"next", "none"} /\ "next" # "none"
        OBVIOUS
    <2>3. ~degraded => ended.executions = launched[t]
        BY <1>4, <1>8, <1>11, Zenon
    <2> HIDE DEF ended
    <2> QED
        BY <1>1, <1>4, <1>5, <1>6, <1>7, <1>11, <2>1, <2>2, <2>3, CommitKeeps, Zenon
<1>12. /\ begun \in Task /\ begun.input = task.input /\ begun.source = task.source
       /\ begun.executions = task.executions /\ begun.state = task.state /\ begun.inFlight = TRUE
       /\ begun.tokens = task.tokens /\ begun.failures = task.failures
    BY <1>3 DEF Task
<1>13. /\ paused \in Task /\ paused.input = task.input /\ paused.source = task.source
       /\ paused.executions = task.executions /\ paused.state = "paused"
       /\ paused.tokens = task.tokens /\ paused.failures = task.failures
    BY <1>3 DEF Task, TaskStates
<1>14. begun # Absent /\ paused # Absent
    BY <1>12, <1>13, InputAssumption, Zenon
<1>15. CASE /\ MayBegin(task) /\ ~Exhausted(task)
            /\ Written(t, begun) /\ Becomes(t, begun) /\ Moves(t, "execute")
            /\ launched' = [launched EXCEPT ![t] = launched[t] + 1] /\ UNCHANGED cancelled
    <2> HIDE DEF begun
    <2>1. /\ snapshots' \in [Tasks -> Task \cup {Absent}] /\ degraded' \in BOOLEAN
          /\ ~degraded /\ ~degraded' /\ snapshots'[t] = begun
          /\ \A u \in Tasks \ {t} : snapshots'[u] = snapshots[u]
        BY <1>2, <1>12, <1>15, JournalTyped
    <2>2. /\ worker' = [worker EXCEPT ![t] = "execute"] /\ tasks' = [tasks EXCEPT ![t] = begun]
        BY <1>15, Zenon DEF Moves, Becomes
    <2>3. RepeatTypes'
        BY <1>1, <1>2, <1>12, <1>15, <2>1, <2>2 DEF RepeatTypes, consoleVars
    <2>4. /\ worker'[t] = "execute" /\ tasks'[t] = begun /\ launched'[t] = launched[t] + 1
          /\ \A u \in Tasks \ {t} : /\ tasks'[u] = tasks[u] /\ worker'[u] = worker[u]
                                    /\ launched'[u] = launched[u]
        BY <1>2, <1>15, <2>2 DEF RepeatTypes
    <2>5. InJournal(begun, begun, launched[t] + 1)
        <3>1. task.executions = launched[t]
            BY <1>8, <1>15, <2>1, Zenon
        <3>2. task.input.executions \in Nat
            BY <1>3 DEF Task, CreateInput
        <3>3. task.input.executions > 0 => launched[t] + 1 <= task.input.executions
            BY <1>2, <1>15, <3>1, <3>2 DEF Exhausted
        <3>4. begun.executions <= launched[t] + 1
            BY <1>2, <1>12, <3>1
        <3>5. begun.input.executions > 0 => launched[t] + 1 <= begun.input.executions
            BY <1>12, <3>3, Zenon
        <3> QED
            BY <1>14, <3>4, <3>5, Zenon DEF InJournal
    <2>6. Agreed(manager, FALSE, begun, begun, "execute", launched[t] + 1)
        <3>1. launched[t] + 1 = begun.executions + (IF begun.inFlight THEN 1 ELSE 0)
            BY <1>2, <1>8, <1>12, <1>15, <2>1
        <3> QED
            BY <1>12, <1>14, <3>1, Zenon DEF Agreed
    <2>7. Attended(manager, FALSE, begun, "execute", cancelled[t])
        <3>1. manager # "down"
            BY <1>2, <1>3 DEF TaskSound, Attended
        <3>2. manager = "up" => ~cancelled[t]
            BY <1>2, <1>7, <1>15, <2>1, Zenon DEF TaskSound, Attended
        <3> QED
            BY <1>14, <3>1, <3>2 DEF Attended
    <2>8. Allowed(begun)
        BY <1>2, <1>7, <1>12, <1>15, Zenon DEF TaskSound, Allowed
    <2>9. TaskSound(manager, degraded', tasks'[t], snapshots'[t], worker'[t], cancelled'[t], launched'[t])
        <3>1. degraded' = FALSE
            BY <2>1, Zenon
        <3> QED
            BY <1>15, <2>1, <2>4, <2>5, <2>6, <2>7, <2>8, <3>1, Zenon DEF TaskSound
    <2>10. degraded' \in {degraded, TRUE}
        BY <1>2, <2>1
    <2> QED
        BY <1>1, <1>7, <1>12, <1>15, <2>1, <2>3, <2>4, <2>9, <2>10, OneTaskMoves, ZenonT(60)
<1>16. CASE /\ MayBegin(task) /\ NotWritten(t, begun) /\ Becomes(t, paused) /\ Cancels(t) /\ Moves(t, "next")
            /\ UNCHANGED launched
    <2> HIDE DEF begun, paused
    <2>1. /\ snapshots' \in [Tasks -> Task \cup {Absent}] /\ degraded' \in BOOLEAN
          /\ snapshots'[t] \in {snapshots[t], begun} /\ (degraded => snapshots'[t] = snapshots[t])
          /\ \A u \in Tasks \ {t} : snapshots'[u] = snapshots[u]
        BY <1>2, <1>12, <1>16, JournalTyped
    <2>2. /\ worker' = [worker EXCEPT ![t] = "next"] /\ tasks' = [tasks EXCEPT ![t] = paused]
          /\ cancelled' = [cancelled EXCEPT ![t] = TRUE] /\ degraded' = TRUE
        BY <1>16, Zenon DEF Moves, Becomes, Cancels, NotWritten
    <2>3. RepeatTypes'
        BY <1>1, <1>2, <1>13, <1>16, <2>1, <2>2 DEF RepeatTypes, consoleVars
    <2>4. /\ worker'[t] = "next" /\ tasks'[t] = paused
          /\ \A u \in Tasks \ {t} : /\ tasks'[u] = tasks[u] /\ worker'[u] = worker[u]
                                    /\ cancelled'[u] = cancelled[u]
        BY <1>2, <2>2 DEF RepeatTypes
    <2>5. InJournal(paused, snapshots'[t], launched[t])
        <3>1. snapshots[t] # Absent /\ snapshots[t].input = task.input /\ task.executions <= launched[t]
            BY <1>2, <1>3, Zenon DEF TaskSound, InJournal
        <3>2. CASE snapshots'[t] = snapshots[t]
            BY <1>2, <1>13, <1>14, <3>1, <3>2, Zenon DEF TaskSound, InJournal
        <3>3. CASE snapshots'[t] = begun
            BY <1>2, <1>12, <1>13, <1>14, <3>1, <3>3, Zenon DEF TaskSound, InJournal
        <3> QED
            BY <2>1, <3>2, <3>3, Zenon
    <2>6. Agreed(manager, TRUE, paused, snapshots'[t], "next", launched[t])
        BY DEF Agreed
    <2>7. Attended(manager, TRUE, paused, "next", cancelled'[t])
        BY <1>2, <1>3, <1>13, <1>14 DEF TaskSound, Attended
    <2>8. Allowed(paused)
        BY <1>2, <1>7, <1>13, <1>16, Zenon DEF TaskSound, Allowed
    <2>9. TaskSound(manager, degraded', tasks'[t], snapshots'[t], worker'[t], cancelled'[t], launched'[t])
        BY <1>16, <2>2, <2>4, <2>5, <2>6, <2>7, <2>8, Zenon DEF TaskSound
    <2>10. degraded' \in {degraded, TRUE}
        BY <2>2
    <2> QED
        BY <1>1, <1>7, <1>13, <1>16, <2>1, <2>3, <2>4, <2>9, <2>10, OneTaskMoves, Zenon
<1> QED
    BY <1>9, <1>10, <1>11, <1>15, <1>16, Zenon DEF beginExecution

\* finishExecution: the result counts for the execution that is under way.
LEMMA FinishKeeps ==
    ASSUME RepeatInv, NEW t \in Tasks, finishExecution(t)
    PROVE  RepeatInv'
<1>1. worker[t] = "execute" /\ Moves(t, "next") /\ UNCHANGED <<sources, manager, launched, consoleVars>>
    BY Zenon DEF finishExecution
<1>2. /\ RepeatTypes /\ launched[t] \in Nat
      /\ TaskSound(manager, degraded, tasks[t], snapshots[t], worker[t], cancelled[t], launched[t])
    BY TaskFacts, Zenon
<1>3. CASE Ended(tasks[t]) /\ UNCHANGED <<taskVars, cancelled>>
    <2>1. worker' = [worker EXCEPT ![t] = "next"] /\ worker'[t] = "next"
        BY <1>1, <1>2 DEF RepeatTypes, Moves
    <2>2. RepeatTypes'
        BY <1>1, <1>2, <1>3, <2>1 DEF RepeatTypes, taskVars, consoleVars
    <2>3. \A u \in Tasks \ {t} : worker'[u] = worker[u]
        BY <1>2, <2>1 DEF RepeatTypes
    <2>4. ~Active(tasks[t]) /\ tasks[t] # Absent
        BY <1>3, Zenon DEF Ended, Active
    <2>5. Agreed(manager, degraded, tasks[t], snapshots[t], "next", launched[t])
        BY <1>2, <1>3, <2>4 DEF TaskSound, Agreed
    <2>6. Attended(manager, degraded, tasks[t], "next", cancelled[t])
        BY <1>2, <2>4, Zenon DEF TaskSound, Attended
    <2>7. tasks' = tasks /\ snapshots' = snapshots /\ degraded' = degraded
        BY <1>3, Zenon DEF taskVars
    <2>8. TaskSound(manager, degraded', tasks'[t], snapshots'[t], worker'[t], cancelled'[t], launched'[t])
        BY <1>1, <1>2, <1>3, <2>1, <2>5, <2>6, <2>7, Zenon DEF TaskSound
    <2> QED
        BY <1>1, <1>3, <2>2, <2>3, <2>4, <2>7, <2>8, OneTaskMoves, Zenon
<1>4. ASSUME NEW result \in Results, Active(tasks[t]), commitLocked(t, Finished(tasks[t], result), tasks[t])
      PROVE  RepeatInv'
    <2> DEFINE task == Finished(tasks[t], result)
    <2>1. tasks[t] \in Task
        BY <1>4, TaskFacts, Zenon DEF Active
    <2>2. Allowed(tasks[t])
        BY <1>2, Zenon DEF TaskSound
    <2>3. /\ task \in Task /\ task.input = tasks[t].input /\ task.source = tasks[t].source
          /\ task.executions = tasks[t].executions + 1 /\ ~task.inFlight /\ Allowed(task)
        BY <1>4, <2>1, <2>2, FinishedTyped, Zenon
    <2> HIDE DEF task
    <2>4. ~degraded => task.executions = launched[t]
        BY <1>1, <1>2, <1>4, <2>3 DEF TaskSound, Agreed
    <2>5. "next" \in {"next", "none"} /\ "next" # "none"
        OBVIOUS
    <2>6. commitLocked(t, task, tasks[t])
        BY <1>4, Zenon DEF task
    <2> QED
        BY <1>1, <1>4, <2>3, <2>4, <2>5, <2>6, CommitKeeps, Zenon
<1> QED
    BY <1>3, <1>4, Zenon DEF finishExecution

\* The console's call: submitted, checked against the registry, and dropped.
LEMMA CallsTyped ==
    ASSUME RepeatInv,
           \/ \E s \in Sources : submit(s)
           \/ \E call \in creating : createRepeatTask(call)
    PROVE  RepeatInv'
<1>1. RepeatTypes
    BY Zenon DEF RepeatInv
<1>2. ASSUME NEW s \in Sources, submit(s)
      PROVE  RepeatInv'
    <2>1. PICK input \in Inputs :
             creating' = creating \cup {[which |-> s, input |-> input, number |-> presses, checked |-> FALSE]}
        BY <1>2, Zenon DEF submit
    <2>2. /\ presses' = presses + 1
          /\ UNCHANGED <<sources, manager, tasks, snapshots, degraded, worker, cancelled, launched>>
        BY <1>2, Zenon DEF submit, Press, taskVars, threadVars
    <2>3. [which |-> s, input |-> input, number |-> presses, checked |-> FALSE] \in Calls
        BY <1>1, InputAssumption DEF RepeatTypes, Calls
    <2>4. presses' \in Nat /\ creating' \subseteq Calls
        <3>1. presses' \in Nat
            BY <1>1, <2>2 DEF RepeatTypes
        <3>2. creating \subseteq Calls
            BY <1>1, Zenon DEF RepeatTypes
        <3> QED
            BY <2>1, <2>3, <3>1, <3>2, Zenon
    <2>5. RepeatTypes'
        BY <1>1, <2>2, <2>4, Zenon DEF RepeatTypes
    <2> QED
        BY <2>2, <2>5, RestKeeps, Zenon
<1>3. ASSUME NEW call \in creating, createRepeatTask(call)
      PROVE  RepeatInv'
    <2>1. UNCHANGED <<sources, manager, tasks, snapshots, degraded, worker, cancelled, launched, presses>>
        BY <1>3, Zenon DEF createRepeatTask, taskVars, threadVars
    <2>2. creating' \subseteq creating \cup {[call EXCEPT !.checked = TRUE]}
        BY <1>3 DEF createRepeatTask
    <2>3. call \in Calls
        BY <1>1, Zenon DEF RepeatTypes
    <2>4. [call EXCEPT !.checked = TRUE] \in Calls
        BY <2>3 DEF Calls
    <2>5. creating' \subseteq Calls
        BY <1>1, <2>2, <2>4 DEF RepeatTypes
    <2>6. RepeatTypes'
        BY <1>1, <2>1, <2>5, Zenon DEF RepeatTypes
    <2> QED
        BY <2>1, <2>6, RestKeeps, Zenon
<1> QED
    BY <1>2, <1>3, Zenon

\* Time, and the requests.
LEMMA TimeKeeps ==
    ASSUME RepeatInv,
           \/ \E t \in Tasks : deadlinePasses(t)
           \/ \E s \in Sources : sourceMoves(s)
    PROVE  RepeatInv'
<1>1. RepeatTypes
    BY Zenon DEF RepeatInv
<1>2. ASSUME NEW t \in Tasks, deadlinePasses(t)
      PROVE  RepeatInv'
    <2>1. UNCHANGED <<sources, manager, tasks, snapshots, degraded, worker, cancelled, launched, creating, presses>>
        BY <1>2, Zenon DEF deadlinePasses, taskVars, consoleVars
    <2>2. RepeatTypes'
        BY <1>1, <2>1, Zenon DEF RepeatTypes
    <2> QED
        BY <2>1, <2>2, RestKeeps, Zenon
<1>3. ASSUME NEW s \in Sources, sourceMoves(s)
      PROVE  RepeatInv'
    <2>1. UNCHANGED <<manager, tasks, snapshots, degraded, worker, cancelled, launched, creating, presses>>
        BY <1>3, Zenon DEF sourceMoves, taskVars, threadVars, consoleVars
    <2>2. \E n \in {"live", "uncertain", "gone"} : sources' = [sources EXCEPT ![s] = n]
        BY <1>3 DEF sourceMoves
    <2>3. sources' \in [Sources -> {"live", "uncertain", "gone"}]
        BY <1>1, <2>2 DEF RepeatTypes
    <2>4. RepeatTypes'
        BY <1>1, <2>1, <2>3, Zenon DEF RepeatTypes
    <2> QED
        BY <2>1, <2>4, RestKeeps, Zenon
<1> QED
    BY <1>2, <1>3, Zenon

\* Create: a task with an id that is new, of a request that has none.
LEMMA CreateKeeps ==
    ASSUME RepeatInv, NEW call \in creating, Create(call)
    PROVE  RepeatInv'
<1>1. RepeatTypes /\ call \in Calls
    BY Zenon DEF RepeatInv, RepeatTypes
<1>2. /\ UNCHANGED <<sources, manager, cancelled, launched, presses>> /\ creating' = creating \ {call}
      /\ manager # "down"
    BY Zenon DEF Create
<1>3. creating' \subseteq Calls
    BY <1>1, <1>2 DEF RepeatTypes
<1>4. CASE UNCHANGED <<taskVars, worker>>
    <2>1. UNCHANGED <<tasks, snapshots, degraded, worker>>
        BY <1>4, Zenon DEF taskVars
    <2>2. RepeatTypes'
        BY <1>1, <1>2, <1>3, <2>1, Zenon DEF RepeatTypes
    <2> QED
        BY <1>2, <2>1, <2>2, RestKeeps, Zenon
<1>5. CASE ~UNCHANGED <<taskVars, worker>>
    <2> DEFINE t    == CHOOSE t \in Unused : TRUE
               task == NewTask(call.which, call.input)
    <2>1. /\ Unused # {} /\ ~hasActiveTask(call.which)
          /\ \/ Written(t, task) /\ Becomes(t, task) /\ Moves(t, "next")
             \/ NotWritten(t, task) /\ UNCHANGED <<tasks, worker>>
        BY <1>5, Zenon DEF Create
    <2>2. t \in Unused
        BY <2>1, Zenon
    <2>3. t \in Tasks /\ tasks[t] = Absent /\ snapshots[t] = Absent
        BY <2>2, Zenon DEF Unused
    <2>4. /\ task \in Task /\ task.source = call.which /\ task.input = call.input /\ task.input.executions \in Nat
          /\ task.executions = 0 /\ task.inFlight = FALSE /\ task.tokens = 0 /\ task.failures = 0
        BY <1>1 DEF Calls, NewTask, Task, TaskStates, CreateInput
    <2>5. task # Absent /\ task.input.tokens \in Nat /\ task.input.failures \in Nat
        BY <2>4, InputAssumption DEF Task, CreateInput
    <2> HIDE DEF t, task
    <2>6. /\ launched[t] = 0 /\ worker[t] = "none" /\ ~cancelled[t]
          /\ degraded \in BOOLEAN
        <3>1. /\ TaskSound(manager, degraded, tasks[t], snapshots[t], worker[t], cancelled[t], launched[t])
              /\ degraded \in BOOLEAN
            BY <2>3, TaskFacts, Zenon
        <3> QED
            BY <2>3, <3>1, Zenon DEF TaskSound, InJournal, Attended
    <2>7. /\ snapshots' \in [Tasks -> Task \cup {Absent}] /\ degraded' \in BOOLEAN
          /\ degraded' \in {degraded, TRUE}
          /\ \A u \in Tasks \ {t} : snapshots'[u] = snapshots[u]
          /\ snapshots'[t] \in {snapshots[t], task}
          /\ Written(t, task) => ~degraded /\ ~degraded' /\ snapshots'[t] = task
        BY <1>1, <2>1, <2>3, <2>4, JournalTyped
    <2>8. InJournal(task, task, 0) /\ Allowed(task)
        BY <2>4, <2>5 DEF InJournal, Allowed, Reached
    <2>9. CASE Written(t, task) /\ Becomes(t, task) /\ Moves(t, "next")
        <3>1. /\ worker' = [worker EXCEPT ![t] = "next"] /\ tasks' = [tasks EXCEPT ![t] = task]
              /\ snapshots'[t] = task /\ degraded' = FALSE
            BY <2>7, <2>9, Zenon DEF Moves, Becomes
        <3>2. RepeatTypes'
            BY <1>1, <1>2, <1>3, <2>4, <2>7, <3>1 DEF RepeatTypes
        <3>3. /\ worker'[t] = "next" /\ tasks'[t] = task
              /\ \A u \in Tasks \ {t} : tasks'[u] = tasks[u] /\ worker'[u] = worker[u]
            BY <1>1, <2>3, <3>1 DEF RepeatTypes
        <3>4. OneActiveTask'
            <4> SUFFICES ASSUME NEW u \in Tasks, NEW v \in Tasks, Active(tasks'[u]), Active(tasks'[v]),
                                tasks'[u].source = tasks'[v].source
                         PROVE  u = v
                BY Zenon DEF OneActiveTask, Active
            <4>1. ASSUME NEW w \in Tasks, w # t, Active(tasks'[w]) PROVE tasks'[w].source # call.which
                BY <2>1, <3>3, <4>1, Zenon DEF hasActiveTask
            <4>2. CASE u # t /\ v # t
                BY <3>3, <4>2, Zenon DEF OneActiveTask, RepeatInv
            <4>3. CASE u = t \/ v = t
                BY <2>4, <3>3, <4>1, <4>3, Zenon
            <4> QED
                BY <4>2, <4>3, Zenon
        <3>5. Agreed(manager, FALSE, task, task, "next", 0)
            BY <2>4 DEF Agreed
        <3>6. Attended(manager, FALSE, task, "next", cancelled[t])
            BY <1>2, <2>5, <2>6 DEF Attended
        <3>7. TaskSound(manager, degraded', tasks'[t], snapshots'[t], worker'[t], cancelled'[t], launched'[t])
            BY <1>2, <2>6, <2>8, <3>1, <3>3, <3>5, <3>6, Zenon DEF TaskSound
        <3> QED
            BY <1>2, <2>3, <2>7, <3>2, <3>3, <3>4, <3>7, TaskMoves, Zenon
    <2>10. CASE NotWritten(t, task) /\ UNCHANGED <<tasks, worker>>
        <3>1. RepeatTypes'
            BY <1>1, <1>2, <1>3, <2>7, <2>10, Zenon DEF RepeatTypes
        <3>2. degraded' = TRUE
            BY <2>10, Zenon DEF NotWritten
        <3>3. InJournal(Absent, snapshots'[t], 0)
            BY <2>3, <2>4, <2>5, <2>7 DEF InJournal
        <3>4. Agreed(manager, TRUE, Absent, snapshots'[t], "none", 0)
            BY DEF Agreed
        <3>5. Attended(manager, TRUE, Absent, "none", cancelled[t]) /\ Allowed(Absent)
            BY <2>6 DEF Attended, Allowed, Active
        <3>6. TaskSound(manager, degraded', tasks'[t], snapshots'[t], worker'[t], cancelled'[t], launched'[t])
            BY <1>2, <2>3, <2>6, <2>10, <3>2, <3>3, <3>4, <3>5, Zenon DEF TaskSound
        <3>7. ~Active(tasks'[t])
            BY <2>3, <2>10, Zenon DEF Active
        <3> QED
            BY <1>2, <2>3, <2>7, <2>10, <3>1, <3>6, <3>7, OneTaskMoves, Zenon
    <2> QED
        BY <2>1, <2>9, <2>10, Zenon
<1> QED
    BY <1>4, <1>5, Zenon

\* A button of the panel: recorded, or undone.
LEMMA ActKeeps ==
    ASSUME RepeatInv, NEW t \in Tasks, act(t)
    PROVE  RepeatInv'
<1>1. PICK what \in {"pause", "resume", "run", "stop"} : repeatTaskAction(t, what)
    BY Zenon DEF act
<1>2. /\ UNCHANGED <<sources, manager, worker, launched, creating>> /\ presses' = presses + 1
    BY Zenon DEF act, Press
<1>3. /\ RepeatTypes /\ launched[t] \in Nat /\ cancelled[t] \in BOOLEAN /\ degraded \in BOOLEAN
      /\ TaskSound(manager, degraded, tasks[t], snapshots[t], worker[t], cancelled[t], launched[t])
      /\ manager # "down"
    BY <1>1, TaskFacts, Zenon DEF repeatTaskAction
<1>4. presses' \in Nat
    BY <1>2, <1>3 DEF RepeatTypes
<1>5. CASE UNCHANGED <<taskVars, cancelled>>
    <2>1. UNCHANGED <<tasks, snapshots, degraded, cancelled>>
        BY <1>5, Zenon DEF taskVars
    <2>2. RepeatTypes'
        BY <1>2, <1>3, <1>4, <2>1, Zenon DEF RepeatTypes
    <2> QED
        BY <1>2, <2>1, <2>2, RestKeeps, Zenon
<1>6. CASE Active(tasks[t])
    <2> DEFINE task == Changed(tasks[t], what)
    <2>1. tasks[t] \in Task /\ tasks[t] # Absent
        BY <1>6, TaskFacts, Zenon DEF Active
    <2>2. /\ task \in Task /\ task # Absent /\ task.input = tasks[t].input
          /\ task.executions = tasks[t].executions /\ task.source = tasks[t].source
          /\ task.tokens = tasks[t].tokens /\ task.failures = tasks[t].failures
          /\ what # "stop" => task.inFlight = tasks[t].inFlight
          /\ Ended(task) <=> what = "stop"
        BY <2>1, ChangedTyped
    <2> HIDE DEF task
    <2>3. InJournal(task, task, launched[t]) /\ InJournal(tasks[t], task, launched[t]) /\ Allowed(task)
        BY <1>3, <1>6, <2>1, <2>2, Zenon DEF TaskSound, InJournal, Allowed
    <2>4. CASE /\ Written(t, task) /\ Becomes(t, task)
               /\ IF what = "stop" THEN Cancels(t) ELSE UNCHANGED cancelled
        <3>1. /\ snapshots' \in [Tasks -> Task \cup {Absent}] /\ degraded = FALSE /\ degraded' = FALSE
              /\ snapshots'[t] = task /\ \A u \in Tasks \ {t} : snapshots'[u] = snapshots[u]
            BY <1>3, <2>2, <2>4, JournalTyped
        <3>2. tasks' = [tasks EXCEPT ![t] = task]
            BY <2>4, Zenon DEF Becomes
        <3>3. cancelled' \in {cancelled, [cancelled EXCEPT ![t] = TRUE]} /\ (what # "stop" => cancelled' = cancelled)
            BY <2>4 DEF Cancels
        <3>4. RepeatTypes'
            BY <1>2, <1>3, <1>4, <2>2, <3>1, <3>2, <3>3 DEF RepeatTypes
        <3>5. /\ tasks'[t] = task
              /\ \A u \in Tasks \ {t} : tasks'[u] = tasks[u] /\ cancelled'[u] = cancelled[u]
            BY <1>3, <3>2, <3>3 DEF RepeatTypes
        <3>6. Agreed(manager, FALSE, task, task, worker[t], launched[t])
            <4>1. /\ (tasks[t].inFlight <=> worker[t] = "execute")
                  /\ launched[t] = tasks[t].executions + (IF tasks[t].inFlight THEN 1 ELSE 0)
                BY <1>3, <1>6, <3>1, Zenon DEF TaskSound, Agreed
            <4>2. CASE what = "stop"
                BY <2>2, <4>2, Zenon DEF Agreed, Active, Ended
            <4>3. CASE what # "stop"
                BY <2>2, <4>1, <4>3, Zenon DEF Agreed
            <4> QED
                BY <4>2, <4>3, Zenon
        <3>7. Attended(manager, FALSE, task, worker[t], cancelled'[t])
            <4>1. manager = "up" => worker[t] # "none" /\ ~cancelled[t]
                BY <1>3, <1>6, <3>1, Zenon DEF TaskSound, Attended
            <4> QED
                BY <1>3, <2>2, <3>3, <4>1, Zenon DEF Attended, Active, Ended
        <3>8. TaskSound(manager, degraded', tasks'[t], snapshots'[t], worker'[t], cancelled'[t], launched'[t])
            BY <1>2, <2>3, <3>1, <3>5, <3>6, <3>7, Zenon DEF TaskSound
        <3>9. degraded' \in {degraded, TRUE}
            BY <3>1
        <3> QED
            BY <1>2, <1>6, <2>2, <3>1, <3>4, <3>5, <3>8, <3>9, OneTaskMoves, Zenon
    <2>5. CASE NotWritten(t, task) /\ UNCHANGED <<tasks, cancelled>>
        <3>1. /\ snapshots' \in [Tasks -> Task \cup {Absent}] /\ degraded' = TRUE
              /\ snapshots'[t] \in {snapshots[t], task} /\ (degraded => snapshots'[t] = snapshots[t])
              /\ \A u \in Tasks \ {t} : snapshots'[u] = snapshots[u]
            <4>1. degraded' = TRUE
                BY <2>5, Zenon DEF NotWritten
            <4> QED
                BY <1>3, <2>2, <2>5, <4>1, JournalTyped
        <3>2. RepeatTypes'
            BY <1>2, <1>3, <1>4, <2>5, <3>1 DEF RepeatTypes
        <3>3. InJournal(tasks[t], snapshots'[t], launched[t])
            BY <1>3, <2>3, <3>1, Zenon DEF TaskSound
        <3>4. Agreed(manager, TRUE, tasks[t], snapshots'[t], worker[t], launched[t])
            <4>1. ASSUME worker[t] = "execute", ~degraded
                  PROVE  task.inFlight \/ Ended(task)
                <5>1. tasks[t].inFlight
                    BY <1>3, <1>6, <4>1, Zenon DEF TaskSound, Agreed
                <5> QED
                    BY <2>2, <5>1, Zenon
            <4>2. worker[t] = "execute" => snapshots[t] # Absent /\ (snapshots[t].inFlight \/ Ended(snapshots[t]))
                BY <1>3, Zenon DEF TaskSound, Agreed
            <4> QED
                BY <1>3, <2>2, <3>1, <4>1, <4>2, Zenon DEF Agreed
        <3>5. Attended(manager, TRUE, tasks[t], worker[t], cancelled[t])
            BY <1>3, Zenon DEF TaskSound, Attended
        <3>6. TaskSound(manager, degraded', tasks'[t], snapshots'[t], worker'[t], cancelled'[t], launched'[t])
            BY <1>2, <1>3, <2>5, <3>1, <3>3, <3>4, <3>5, Zenon DEF TaskSound
        <3>7. degraded' \in {degraded, TRUE}
            BY <3>1
        <3> QED
            BY <1>2, <1>6, <2>5, <3>1, <3>2, <3>6, <3>7, OneTaskMoves, Zenon
    <2> QED
        BY <1>1, <1>5, <2>4, <2>5, Zenon DEF repeatTaskAction, task
<1> QED
    BY <1>1, <1>5, <1>6, Zenon DEF repeatTaskAction

\* What Close and replay make of a task.
LEMMA InterruptedTyped ==
    ASSUME NEW f \in [Tasks -> Task \cup {Absent}], NEW which \in SUBSET Tasks,
           \A t \in which : Active(f[t])
    PROVE  /\ Interrupted(f, which) \in [Tasks -> Task \cup {Absent}]
           /\ \A t \in Tasks \ which : Interrupted(f, which)[t] = f[t]
           /\ \A t \in which : /\ Interrupted(f, which)[t] \in Task /\ Interrupted(f, which)[t] # Absent
                               /\ Interrupted(f, which)[t].input = f[t].input
                               /\ Interrupted(f, which)[t].executions = f[t].executions
                               /\ Ended(Interrupted(f, which)[t])
<1>1. ASSUME NEW t \in which
      PROVE  LET task == [f[t] EXCEPT !.state = "interrupted", !.inFlight = FALSE]
             IN  /\ task \in Task /\ task # Absent /\ task.input = f[t].input
                 /\ task.executions = f[t].executions /\ Ended(task)
    <2>1. f[t] \in Task
        BY <1>1, Zenon DEF Active
    <2> QED
        BY <2>1, InputAssumption, ZenonT(60) DEF Task, TaskStates, Ended, terminal
<1> DEFINE changed == [t \in Tasks |->
                         IF t \in which THEN [f[t] EXCEPT !.state = "interrupted", !.inFlight = FALSE] ELSE f[t]]
<1>2. Interrupted(f, which) = changed
    BY Zenon DEF Interrupted
<1>3. /\ \A t \in which : changed[t] = [f[t] EXCEPT !.state = "interrupted", !.inFlight = FALSE]
      /\ \A t \in Tasks \ which : changed[t] = f[t]
    BY Zenon
<1>4. \A t \in Tasks : changed[t] \in Task \cup {Absent}
    BY <1>1, <1>3, Zenon
<1>5. changed \in [Tasks -> Task \cup {Absent}]
    BY <1>4, Zenon
<1> HIDE DEF changed
<1> QED
    BY <1>1, <1>2, <1>3, <1>5, ZenonT(60)

\* Close: what is not recorded as interrupted stays, with a journal that has
\* failed.
LEMMA CloseKeeps ==
    ASSUME RepeatInv, Close
    PROVE  RepeatInv'
<1> DEFINE openTasks == {t \in Tasks : Active(tasks[t])}
           stopped == Interrupted(tasks, openTasks)
<1>1. PICK done \in SUBSET openTasks : Interrupts(tasks, openTasks, done) /\ tasks' = Interrupted(tasks, done)
    BY Zenon DEF Close
<1>2. /\ manager = "up" /\ manager' = "closed" /\ UNCHANGED <<sources, worker, launched, creating, presses>>
      /\ cancelled' = [t \in Tasks |-> cancelled[t] \/ t \in openTasks]
    BY Zenon DEF Close, consoleVars
<1>3. RepeatTypes
    BY Zenon DEF RepeatInv
<1>4. tasks \in [Tasks -> Task \cup {Absent}] /\ openTasks \in SUBSET Tasks /\ done \in SUBSET Tasks
      /\ (\A t \in openTasks : Active(tasks[t])) /\ (\A t \in done : Active(tasks[t]))
    BY <1>3, Zenon DEF RepeatTypes
<1>5. /\ stopped \in [Tasks -> Task \cup {Absent}]
      /\ \A t \in openTasks : /\ stopped[t] \in Task /\ stopped[t] # Absent /\ stopped[t].input = tasks[t].input
                         /\ stopped[t].executions = tasks[t].executions /\ Ended(stopped[t])
    BY <1>4, InterruptedTyped, Zenon
<1>6. /\ tasks' \in [Tasks -> Task \cup {Absent}]
      /\ \A t \in Tasks \ done : tasks'[t] = tasks[t]
    BY <1>1, <1>4, InterruptedTyped, Zenon
<1>7. \A t \in done : tasks'[t] = stopped[t]
    BY <1>1, <1>4, Zenon DEF Interrupted
<1>8. ASSUME NEW t \in Tasks
      PROVE  /\ snapshots'[t] = snapshots[t] \/ (t \in openTasks /\ snapshots'[t] = stopped[t])
             /\ ~degraded' => done = openTasks /\ (t \in openTasks => snapshots'[t] = stopped[t])
    <2> HIDE DEF openTasks, stopped
    <2> DEFINE Put(S) == [u \in Tasks |-> IF u \in S THEN stopped[u] ELSE snapshots[u]]
    <2>1. \/ done = openTasks /\ degraded' = degraded /\ snapshots' = Put(openTasks)
          \/ degraded' = TRUE /\ \E more \in {{}} \cup {{u} : u \in openTasks \ done} : snapshots' = Put(done \cup more)
          \/ degraded /\ snapshots' = snapshots /\ degraded' = degraded
        BY <1>1, Zenon DEF Interrupts, stopped
    <2>2. CASE done = openTasks /\ degraded' = degraded /\ snapshots' = Put(openTasks)
        BY <2>2
    <2>3. CASE degraded' = TRUE /\ \E more \in {{}} \cup {{u} : u \in openTasks \ done} : snapshots' = Put(done \cup more)
        <3>1. PICK more \in {{}} \cup {{u} : u \in openTasks \ done} : snapshots' = Put(done \cup more)
            BY <2>3, Zenon
        <3>2. done \cup more \subseteq openTasks
            BY <1>1, <3>1
        <3> QED
            BY <2>3, <3>1, <3>2
    <2>4. CASE degraded /\ snapshots' = snapshots /\ degraded' = degraded
        BY <2>4
    <2> QED
        BY <2>1, <2>2, <2>3, <2>4, Zenon
<1>9. degraded' \in {degraded, TRUE} /\ degraded' \in BOOLEAN
    <2>1. degraded \in BOOLEAN
        BY <1>3, Zenon DEF RepeatTypes
    <2>2. degraded' = degraded \/ degraded' = TRUE
        BY <1>1, Zenon DEF Interrupts
    <2> QED
        BY <2>1, <2>2
<1>10. \E f : snapshots' = [t \in Tasks |-> f[t]]
    <2>1. snapshots = [t \in Tasks |-> snapshots[t]]
        BY <1>3 DEF RepeatTypes
    <2>2. \/ snapshots' = snapshots
          \/ \E S : snapshots' = [t \in Tasks |-> IF t \in S THEN Interrupted(tasks, openTasks)[t] ELSE snapshots[t]]
        BY <1>1, Zenon DEF Interrupts
    <2>3. CASE snapshots' = snapshots
        BY <2>1, <2>3, Zenon
    <2>4. ASSUME NEW S, snapshots' = [t \in Tasks |-> IF t \in S THEN Interrupted(tasks, openTasks)[t] ELSE snapshots[t]]
          PROVE  snapshots' = [t \in Tasks |-> snapshots'[t]]
        BY <2>4
    <2> QED
        BY <2>2, <2>3, <2>4, Zenon
<1>11. snapshots' \in [Tasks -> Task \cup {Absent}]
    <2>1. \A t \in Tasks : snapshots'[t] \in Task \cup {Absent}
        BY <1>3, <1>5, <1>8, Zenon DEF RepeatTypes
    <2> HIDE DEF openTasks, stopped
    <2> QED
        BY <1>10, <2>1
<1>12. cancelled' \in [Tasks -> BOOLEAN]
    BY <1>2, <1>3 DEF RepeatTypes
<1>13. RepeatTypes'
    <2>1. manager' \in {"up", "closed", "down"}
        BY <1>2
    <2> QED
        BY <1>2, <1>3, <1>6, <1>9, <1>11, <1>12, <2>1, Zenon DEF RepeatTypes
<1>14. ASSUME NEW t \in Tasks
       PROVE  /\ TaskSound(manager', degraded', tasks'[t], snapshots'[t], worker'[t], cancelled'[t], launched'[t])
              /\ Active(tasks'[t]) => tasks'[t] = tasks[t]
    <2>1. /\ launched[t] \in Nat /\ degraded \in BOOLEAN
          /\ TaskSound(manager, degraded, tasks[t], snapshots[t], worker[t], cancelled[t], launched[t])
        BY TaskFacts, Zenon
    <2>2. worker'[t] = worker[t] /\ launched'[t] = launched[t] /\ manager' = "closed" /\ "closed" # "up" /\ "closed" # "down"
        BY <1>2
    <2>3. CASE t \in openTasks
        <3>1. Active(tasks[t]) /\ tasks[t] # Absent
            BY <2>3, Zenon DEF Active
        <3>2. tasks'[t] \in {tasks[t], stopped[t]} /\ snapshots'[t] \in {snapshots[t], stopped[t]}
            BY <1>6, <1>7, <1>8, Zenon
        <3>3. ~degraded' => tasks'[t] = stopped[t] /\ snapshots'[t] = stopped[t]
            BY <1>7, <1>8, <2>3, Zenon
        <3>4. /\ stopped[t] # Absent /\ stopped[t].input = tasks[t].input
              /\ stopped[t].executions = tasks[t].executions /\ Ended(stopped[t]) /\ ~Active(stopped[t])
            BY <1>5, <2>3, Zenon DEF Ended, Active
        <3> HIDE DEF stopped, openTasks
        <3>5. InJournal(tasks'[t], snapshots'[t], launched[t])
            <4>1. /\ snapshots[t] # Absent /\ snapshots[t].input = tasks[t].input /\ tasks[t].executions <= launched[t]
                  /\ snapshots[t].executions <= launched[t]
                  /\ snapshots[t].input.executions > 0 => launched[t] <= snapshots[t].input.executions
                BY <2>1, <3>1, Zenon DEF TaskSound, InJournal
            <4>2. tasks'[t] # Absent /\ tasks'[t].input = tasks[t].input /\ tasks'[t].executions <= launched[t]
                BY <3>1, <3>2, <3>4, <4>1, Zenon
            <4>3. /\ snapshots'[t] # Absent /\ snapshots'[t].input = tasks[t].input
                  /\ snapshots'[t].executions <= launched[t]
                BY <3>1, <3>2, <3>4, <4>1, Zenon
            <4> QED
                BY <4>1, <4>2, <4>3, Zenon DEF InJournal
        <3>6. Allowed(tasks'[t])
            BY <2>1, <3>2, <3>4, Zenon DEF TaskSound, Allowed
        <3>7. Agreed("closed", degraded', tasks'[t], snapshots'[t], worker[t], launched[t])
            <4>1. worker[t] = "execute" =>
                     snapshots'[t] # Absent /\ (snapshots'[t].inFlight \/ Ended(snapshots'[t]))
                BY <2>1, <3>2, <3>4, Zenon DEF TaskSound, Agreed
            <4> QED
                BY <3>3, <3>4, <4>1, Zenon DEF Agreed
        <3>8. Attended("closed", degraded', tasks'[t], worker[t], cancelled'[t])
            BY <2>2, <3>1, <3>2, <3>4, Zenon DEF Attended
        <3> QED
            BY <2>2, <3>2, <3>4, <3>5, <3>6, <3>7, <3>8, Zenon DEF TaskSound
    <2>4. CASE t \notin openTasks
        <3>1. ~Active(tasks[t])
            BY <2>4, Zenon
        <3>2. tasks'[t] = tasks[t] /\ snapshots'[t] = snapshots[t]
            BY <1>6, <1>8, <2>4, Zenon
        <3>3. cancelled'[t] = cancelled[t]
            BY <1>2, <1>3, <2>4 DEF RepeatTypes
        <3>4. Agreed("closed", degraded', tasks[t], snapshots[t], worker[t], launched[t])
            <4>1. manager # "down" /\ (degraded' = TRUE \/ degraded' = degraded)
                BY <1>2, <1>9
            <4>2. Agreed(manager, degraded, tasks[t], snapshots[t], worker[t], launched[t])
                BY <2>1, Zenon DEF TaskSound
            <4>3. ~degraded' => tasks[t] = snapshots[t] \/ Ended(tasks[t])
                BY <4>1, <4>2, Zenon DEF Agreed
            <4>4. worker[t] = "execute" => snapshots[t] # Absent /\ (snapshots[t].inFlight \/ Ended(snapshots[t]))
                BY <4>2, Zenon DEF Agreed
            <4> QED
                BY <3>1, <4>3, <4>4, Zenon DEF Agreed
        <3>5. Attended("closed", degraded', tasks[t], worker[t], cancelled[t])
            BY <2>1, <2>2, <3>1, Zenon DEF TaskSound, Attended
        <3> QED
            BY <2>1, <2>2, <3>2, <3>3, <3>4, <3>5, Zenon DEF TaskSound
    <2> QED
        BY <2>3, <2>4, Zenon
<1>15. OneActiveTask'
    <2> SUFFICES ASSUME NEW u \in Tasks, NEW v \in Tasks, Active(tasks'[u]), Active(tasks'[v]),
                        tasks'[u].source = tasks'[v].source
                 PROVE  u = v
        BY Zenon DEF OneActiveTask, Active
    <2>1. tasks'[u] = tasks[u] /\ tasks'[v] = tasks[v]
        BY <1>14, Zenon
    <2> QED
        BY <2>1, Zenon DEF RepeatInv, OneActiveTask
<1> QED
    BY <1>13, <1>14, <1>15, Zenon DEF RepeatInv

\* The end of the process.
LEMMA EndKeeps ==
    ASSUME RepeatInv, processEnds
    PROVE  RepeatInv'
<1>1. /\ RepeatTypes /\ manager' = "down" /\ tasks' = [t \in Tasks |-> Absent]
      /\ worker' = [t \in Tasks |-> "none"] /\ cancelled' = [t \in Tasks |-> FALSE]
      /\ sources' = [s \in Sources |-> "gone"] /\ creating' = {}
      /\ UNCHANGED <<snapshots, degraded, launched, presses>>
    BY Zenon DEF RepeatInv, processEnds
<1>2. RepeatTypes'
    BY <1>1 DEF RepeatTypes
<1>3. ASSUME NEW t \in Tasks
      PROVE  /\ TaskSound(manager', degraded', tasks'[t], snapshots'[t], worker'[t], cancelled'[t], launched'[t])
             /\ ~Active(tasks'[t])
    <2>1. tasks'[t] = Absent /\ worker'[t] = "none" /\ cancelled'[t] = FALSE
        BY <1>1
    <2>2. InJournal(tasks[t], snapshots[t], launched[t])
        BY Zenon DEF RepeatInv, TaskSound
    <2>3. InJournal(Absent, snapshots[t], launched[t])
        BY <2>2, Zenon DEF InJournal
    <2>4. Agreed("down", degraded, Absent, snapshots[t], "none", launched[t])
        BY DEF Agreed, Active
    <2>5. Attended("down", degraded, Absent, "none", FALSE) /\ Allowed(Absent) /\ ~Active(Absent)
        BY DEF Attended, Allowed, Active
    <2> QED
        BY <1>1, <2>1, <2>3, <2>4, <2>5, Zenon DEF TaskSound
<1> QED
    BY <1>2, <1>3, Zenon DEF RepeatInv, OneActiveTask

\* The start of the process, with the replay of the journal.
LEMMA ReplayKeeps ==
    ASSUME RepeatInv, replay
    PROVE  RepeatInv'
<1> DEFINE openTasks == {t \in Tasks : Active(snapshots[t])}
<1>1. /\ RepeatTypes /\ manager = "down" /\ degraded' = FALSE
      /\ UNCHANGED <<sources, worker, cancelled, launched, creating, presses>>
    BY Zenon DEF RepeatInv, replay, threadVars, consoleVars
<1>2. PICK done \in SUBSET openTasks :
         \/ /\ snapshots' = Interrupted(snapshots, openTasks) /\ tasks' = snapshots' /\ manager' = "up"
         \/ /\ snapshots' = Interrupted(snapshots, done) /\ UNCHANGED <<tasks, manager>>
    BY Zenon DEF replay
<1>3. PICK which \in SUBSET openTasks :
         /\ snapshots' = Interrupted(snapshots, which)
         /\ \/ which = openTasks /\ tasks' = snapshots' /\ manager' = "up"
            \/ UNCHANGED <<tasks, manager>>
    BY <1>2, Zenon
<1>4. snapshots \in [Tasks -> Task \cup {Absent}] /\ which \in SUBSET Tasks /\ \A t \in which : Active(snapshots[t])
    BY <1>1, Zenon DEF RepeatTypes
<1>5. /\ snapshots' \in [Tasks -> Task \cup {Absent}]
      /\ \A t \in Tasks \ which : snapshots'[t] = snapshots[t]
      /\ \A t \in which : /\ snapshots'[t] # Absent /\ snapshots'[t].input = snapshots[t].input
                          /\ snapshots'[t].executions = snapshots[t].executions /\ Ended(snapshots'[t])
    BY <1>3, <1>4, InterruptedTyped, Zenon
<1>6. RepeatTypes'
    BY <1>1, <1>3, <1>5 DEF RepeatTypes
<1>7. ASSUME NEW t \in Tasks
      PROVE  /\ TaskSound(manager', degraded', tasks'[t], snapshots'[t], worker'[t], cancelled'[t], launched'[t])
             /\ ~Active(tasks'[t])
    <2>1. /\ launched[t] \in Nat
          /\ TaskSound(manager, degraded, tasks[t], snapshots[t], worker[t], cancelled[t], launched[t])
        BY TaskFacts, Zenon
    <2>2. tasks[t] = Absent /\ worker[t] = "none" /\ ~cancelled[t]
        BY <1>1, <2>1, Zenon DEF TaskSound, Attended
    <2>3. InJournal(snapshots'[t], snapshots'[t], launched[t])
        <3>1. CASE t \in which
            BY <1>4, <1>5, <2>1, <3>1, Zenon DEF TaskSound, InJournal, Active
        <3>2. CASE t \notin which
            BY <1>5, <2>1, <3>2, Zenon DEF TaskSound, InJournal
        <3> QED
            BY <3>1, <3>2, Zenon
    <2>4. InJournal(Absent, snapshots'[t], launched[t])
        BY <2>3, Zenon DEF InJournal
    <2>5. Allowed(Absent) /\ ~Active(Absent)
        BY DEF Allowed, Active
    <2>6. CASE which = openTasks /\ tasks' = snapshots' /\ manager' = "up"
        <3>1. ~Active(tasks'[t])
            BY <1>5, <2>6, Zenon DEF Ended, Active
        <3>2. Agreed("up", FALSE, tasks'[t], tasks'[t], "none", launched[t])
            BY <3>1 DEF Agreed
        <3>3. Attended("up", FALSE, tasks'[t], "none", cancelled[t])
            BY <2>2, <3>1 DEF Attended
        <3>4. Allowed(tasks'[t])
            BY <3>1, Zenon DEF Allowed
        <3> QED
            BY <1>1, <2>2, <2>3, <2>6, <3>1, <3>2, <3>3, <3>4, Zenon DEF TaskSound
    <2>7. CASE UNCHANGED <<tasks, manager>>
        <3>1. Agreed("down", FALSE, Absent, snapshots'[t], "none", launched[t])
            BY <2>5 DEF Agreed
        <3>2. Attended("down", FALSE, Absent, "none", cancelled[t])
            BY <2>2, <2>5 DEF Attended
        <3> QED
            BY <1>1, <2>2, <2>4, <2>5, <2>7, <3>1, <3>2, Zenon DEF TaskSound
    <2> QED
        BY <1>3, <2>6, <2>7, Zenon
<1> QED
    BY <1>6, <1>7, Zenon DEF RepeatInv, OneActiveTask

\* The first state has no task.
LEMMA RepeatStart == RepeatInit => RepeatInv
<1> SUFFICES ASSUME RepeatInit PROVE RepeatInv
    OBVIOUS
<1>1. RepeatTypes
    BY DEF RepeatInit, RepeatTypes
<1>2. ASSUME NEW t \in Tasks
      PROVE  /\ TaskSound(manager, degraded, tasks[t], snapshots[t], worker[t], cancelled[t], launched[t])
             /\ ~Active(tasks[t])
    <2>1. /\ tasks[t] = Absent /\ snapshots[t] = Absent /\ worker[t] = "none" /\ cancelled[t] = FALSE
          /\ launched[t] = 0 /\ degraded = FALSE /\ manager = "up"
        BY DEF RepeatInit
    <2>2. InJournal(Absent, Absent, 0) /\ Allowed(Absent) /\ ~Active(Absent)
        BY DEF InJournal, Allowed, Active
    <2>3. Agreed("up", FALSE, Absent, Absent, "none", 0) /\ Attended("up", FALSE, Absent, "none", FALSE)
        BY <2>2 DEF Agreed, Attended
    <2> QED
        BY <2>1, <2>2, <2>3, Zenon DEF TaskSound
<1> QED
    BY <1>1, <1>2, Zenon DEF RepeatInv, OneActiveTask

\* The invariant is inductive: one step of Repeat, or none.
LEMMA RepeatStep == RepeatInv /\ [RepeatNext]_repeatVars => RepeatInv'
<1> SUFFICES ASSUME RepeatInv, [RepeatNext]_repeatVars PROVE RepeatInv'
    OBVIOUS
<1>1. CASE UNCHANGED repeatVars
    <2>1. UNCHANGED <<sources, manager, tasks, snapshots, degraded, worker, cancelled, launched, creating, presses>>
        BY <1>1, Zenon DEF repeatVars, taskVars, threadVars, consoleVars
    <2>2. RepeatTypes'
        BY <2>1, Zenon DEF RepeatInv, RepeatTypes
    <2> QED
        BY <2>1, <2>2, RestKeeps, Zenon
<1>2. CASE RepeatNext
    BY <1>2, NextKeeps, WaitKeeps, BeginKeeps, FinishKeeps, TimeKeeps, CallsTyped, CreateKeeps, ActKeeps,
       CloseKeeps, EndKeeps, ReplayKeeps, Zenon DEF RepeatNext
<1> QED
    BY <1>1, <1>2, Zenon

\* A request has one task at a time, a task stays within its limits, runs with
\* a goroutine that can run it, and is in the journal before it is sent
\* (manager.go), for any number of tasks, requests, crashes and failing writes.
THEOREM RepeatIsSound == RepeatSpec => []RepeatSound
<1>1. RepeatSpec => []RepeatInv
    BY RepeatStart, RepeatStep, PTL DEF RepeatSpec
<1> QED
    BY <1>1, RepeatInvSound, PTL

\* One task over a step: what has ended stays ended and is not sent again.
StaysEnded(t) ==
    /\ (Ended(tasks[t]) \/ Ended(snapshots[t])) => launched'[t] = launched[t]
    /\ Ended(tasks[t]) => (manager' = "down" \/ Ended(tasks'[t]))
    /\ Ended(snapshots[t]) => Ended(snapshots'[t])

\* While the journal works, a task that is not at its end in memory is not at
\* its end in the journal.
LEMMA ActiveInJournal ==
    ASSUME RepeatInv, NEW t \in Tasks, Active(tasks[t]), ~degraded
    PROVE  ~Ended(snapshots[t])
<1>1. TaskSound(manager, degraded, tasks[t], snapshots[t], worker[t], cancelled[t], launched[t])
    BY TaskFacts, Zenon
<1>2. ~Ended(tasks[t]) /\ tasks[t] # Absent
    BY Zenon DEF Active, Ended
<1>3. manager # "down"
    BY <1>1, <1>2, Zenon DEF TaskSound, Attended
<1>4. tasks[t] = snapshots[t]
    BY <1>1, <1>2, <1>3, Zenon DEF TaskSound, Agreed
<1> QED
    BY <1>2, <1>4, Zenon

\* An append about a task that is not at its end leaves every end in the
\* journal.
LEMMA AppendKeepsEnds ==
    ASSUME RepeatInv, NEW t \in Tasks, Active(tasks[t]), NEW task \in Task, Written(t, task) \/ NotWritten(t, task),
           NEW u \in Tasks, Ended(snapshots[u])
    PROVE  Ended(snapshots'[u])
<1>1. RepeatTypes
    BY Zenon DEF RepeatInv
<1>2. /\ \A v \in Tasks \ {t} : snapshots'[v] = snapshots[v]
      /\ degraded => snapshots'[t] = snapshots[t]
    BY <1>1, JournalTyped, Zenon
<1>3. CASE u # t
    BY <1>2, <1>3, Zenon
<1>4. CASE u = t
    <2>1. degraded
        BY <1>4, ActiveInJournal, Zenon
    <2> QED
        BY <1>2, <1>4, <2>1, Zenon
<1> QED
    BY <1>3, <1>4, Zenon

\* A step that leaves the counts, the manager and every task but one that is
\* not at its end.
LEMMA StepKeepsEnds ==
    ASSUME RepeatInv, NEW t \in Tasks, Active(tasks[t]), NEW task \in Task, Written(t, task) \/ NotWritten(t, task),
           tasks' = tasks \/ \E left : Becomes(t, left), launched' = launched, NEW u \in Tasks
    PROVE  StaysEnded(u)
<1>1. tasks \in [Tasks -> Task \cup {Absent}]
    BY Zenon DEF RepeatInv, RepeatTypes
<1>2. Ended(snapshots[u]) => Ended(snapshots'[u])
    BY AppendKeepsEnds, Zenon
<1>3. u # t => tasks'[u] = tasks[u]
    BY <1>1 DEF Becomes
<1>4. Ended(tasks[u]) => Ended(tasks'[u])
    BY <1>3, Zenon DEF Active, Ended
<1> QED
    BY <1>2, <1>4, Zenon DEF StaysEnded

\* Every step of Repeat leaves what has ended at its end.
LEMMA EndsStay ==
    ASSUME RepeatInv, RepeatNext, NEW u \in Tasks
    PROVE  StaysEnded(u)
<1>1. RepeatTypes /\ tasks \in [Tasks -> Task \cup {Absent}] /\ launched \in [Tasks -> Nat]
    BY Zenon DEF RepeatInv, RepeatTypes
<1>2. (tasks' = tasks /\ snapshots' = snapshots /\ launched' = launched) => StaysEnded(u)
    BY Zenon DEF StaysEnded
<1>3. ASSUME NEW t \in Tasks, Active(tasks[t]), NEW task \in Task, commitLocked(t, task, tasks[t]), launched' = launched
      PROVE  StaysEnded(u)
    <2>1. (Written(t, task) \/ NotWritten(t, task)) /\ \E left : Becomes(t, left)
        BY <1>3, Zenon DEF commitLocked
    <2> QED
        BY <1>3, <2>1, StepKeepsEnds, Zenon
<1>4. ASSUME NEW t \in Tasks, next(t)
      PROVE  StaysEnded(u)
    <2>1. launched' = launched
        BY <1>4, Zenon DEF next
    <2>2. CASE UNCHANGED taskVars
        BY <1>2, <2>1, <2>2, Zenon DEF taskVars
    <2>3. CASE Active(tasks[t]) /\ expireLocked(t)
        <3>1. finishLocked(tasks[t]) \in Task
            <4>1. tasks[t] \in Task
                BY <1>1, <2>3, Zenon DEF Active
            <4> QED
                BY <4>1, EndingTyped, Zenon
        <3> QED
            BY <1>3, <2>1, <2>3, <3>1, Zenon DEF expireLocked
    <2> QED
        BY <1>4, <2>2, <2>3, Zenon DEF next
<1>5. ASSUME NEW t \in Tasks, beginExecution(t)
      PROVE  StaysEnded(u)
    <2> DEFINE task   == tasks[t]
               begun  == [task EXCEPT !.inFlight = TRUE]
               paused == [task EXCEPT !.state = "paused"]
    <2>1. task # Absent /\ task \in Task
        <3>1. /\ TaskSound(manager, degraded, task, snapshots[t], worker[t], cancelled[t], launched[t])
              /\ worker[t] = "begin"
            BY <1>5, TaskFacts, Zenon DEF beginExecution
        <3>2. task # Absent
            BY <3>1 DEF TaskSound, Attended
        <3> QED
            BY <1>1, <3>2, Zenon
    <2>2. MayBegin(task) => Active(task)
        BY <2>1 DEF MayBegin, Active, terminal
    <2>3. begun \in Task /\ finishLocked(task) \in Task
        BY <2>1, EndingTyped DEF Task
    <2>4. CASE UNCHANGED <<taskVars, launched>>
        BY <1>2, <2>4, Zenon DEF taskVars
    <2>5. CASE MayBegin(task) /\ Becomes(t, finishLocked(task)) /\ UNCHANGED <<snapshots, launched>>
        <3>1. u # t => tasks'[u] = tasks[u]
            BY <1>1, <2>5 DEF Becomes
        <3>2. Ended(tasks[u]) => Ended(tasks'[u])
            BY <2>2, <2>5, <3>1, Zenon DEF Active, Ended
        <3> QED
            BY <2>5, <3>2, Zenon DEF StaysEnded
    <2>6. CASE MayBegin(task) /\ expireLocked(t) /\ launched' = launched
        BY <1>3, <2>2, <2>3, <2>6, Zenon DEF expireLocked
    <2>7. CASE /\ MayBegin(task) /\ Written(t, begun) /\ Becomes(t, begun)
               /\ launched' = [launched EXCEPT ![t] = launched[t] + 1]
        <3>1. ~degraded
            BY <2>7, Zenon DEF Written
        <3>2. ~Ended(snapshots[t]) /\ ~Ended(tasks[t])
            BY <2>2, <2>7, <3>1, ActiveInJournal, Zenon DEF Active, Ended
        <3>3. /\ u # t => tasks'[u] = tasks[u] /\ launched'[u] = launched[u]
            BY <1>1, <2>7 DEF Becomes
        <3>4. Ended(snapshots[u]) => Ended(snapshots'[u])
            <4>1. Written(t, begun) \/ NotWritten(t, begun)
                BY <2>7, Zenon
            <4> QED
                BY <2>2, <2>3, <2>7, <4>1, AppendKeepsEnds, Zenon
        <3> QED
            BY <3>2, <3>3, <3>4, Zenon DEF StaysEnded
    <2>8. CASE MayBegin(task) /\ NotWritten(t, begun) /\ Becomes(t, paused) /\ launched' = launched
        <3>1. \E left : Becomes(t, left)
            BY <2>8, Zenon
        <3> QED
            BY <2>2, <2>3, <2>8, <3>1, StepKeepsEnds, Zenon
    <2> QED
        BY <1>5, <2>4, <2>5, <2>6, <2>7, <2>8, Zenon DEF beginExecution
<1>6. ASSUME NEW t \in Tasks, finishExecution(t)
      PROVE  StaysEnded(u)
    <2>1. launched' = launched
        BY <1>6, Zenon DEF finishExecution
    <2>2. CASE UNCHANGED taskVars
        BY <1>2, <2>1, <2>2, Zenon DEF taskVars
    <2>3. ASSUME NEW result \in Results, Active(tasks[t]), commitLocked(t, Finished(tasks[t], result), tasks[t])
          PROVE  StaysEnded(u)
        <3>1. tasks[t] \in Task /\ Allowed(tasks[t])
            BY <1>1, <2>3, TaskFacts, Zenon DEF Active, TaskSound
        <3>2. Finished(tasks[t], result) \in Task
            BY <2>3, <3>1, FinishedTyped, Zenon
        <3> QED
            BY <1>3, <2>1, <2>3, <3>2, Zenon
    <2> QED
        BY <1>6, <2>2, <2>3, Zenon DEF finishExecution
<1>7. ASSUME NEW t \in Tasks, act(t)
      PROVE  StaysEnded(u)
    <2>1. launched' = launched
        BY <1>7, Zenon DEF act
    <2>2. PICK what \in {"pause", "resume", "run", "stop"} : repeatTaskAction(t, what)
        BY <1>7, Zenon DEF act
    <2> DEFINE task == Changed(tasks[t], what)
    <2>3. CASE UNCHANGED taskVars
        BY <1>2, <2>1, <2>3, Zenon DEF taskVars
    <2>4. CASE Active(tasks[t])
        <3>1. task \in Task
            BY <1>1, <2>4, ChangedTyped, Zenon DEF Active
        <3>2. UNCHANGED taskVars \/
              ((Written(t, task) \/ NotWritten(t, task)) /\ (tasks' = tasks \/ \E left : Becomes(t, left)))
            BY <2>2, Zenon DEF repeatTaskAction
        <3> QED
            BY <2>1, <2>3, <2>4, <3>1, <3>2, StepKeepsEnds, Zenon
    <2> QED
        BY <2>2, <2>3, <2>4, Zenon DEF repeatTaskAction
<1>8. ASSUME NEW call \in creating, Create(call)
      PROVE  StaysEnded(u)
    <2>1. launched' = launched
        BY <1>8, Zenon DEF Create
    <2>2. CASE UNCHANGED <<taskVars, worker>>
        BY <1>2, <2>1, <2>2, Zenon DEF taskVars
    <2>3. CASE ~UNCHANGED <<taskVars, worker>>
        <3> DEFINE t    == CHOOSE t \in Unused : TRUE
                   task == NewTask(call.which, call.input)
        <3>1. /\ Unused # {}
              /\ \/ Written(t, task) /\ Becomes(t, task)
                 \/ NotWritten(t, task) /\ tasks' = tasks
            BY <1>8, <2>3, Zenon DEF Create
        <3>2. t \in Tasks /\ ~Ended(tasks[t]) /\ ~Ended(snapshots[t])
            BY <3>1, Zenon DEF Unused, Ended
        <3>3. call \in Calls
            BY <1>1, Zenon DEF RepeatTypes
        <3>4. task \in Task
            BY <3>3 DEF Calls, NewTask, Task, TaskStates
        <3> HIDE DEF t, task
        <3>5. \A v \in Tasks \ {t} : snapshots'[v] = snapshots[v]
            BY <1>1, <3>1, <3>2, <3>4, JournalTyped, Zenon
        <3>6. u # t => tasks'[u] = tasks[u]
            BY <1>1, <3>1 DEF Becomes
        <3> QED
            BY <2>1, <3>2, <3>5, <3>6, Zenon DEF StaysEnded
    <2> QED
        BY <2>2, <2>3, Zenon
<1>9. CASE Close
    <2> DEFINE openTasks == {t \in Tasks : Active(tasks[t])}
    <2>1. PICK done \in SUBSET openTasks : Interrupts(tasks, openTasks, done) /\ tasks' = Interrupted(tasks, done)
        BY <1>9, Zenon DEF Close
    <2>2. launched' = launched
        BY <1>9, Zenon DEF Close
    <2>3. done \in SUBSET Tasks /\ openTasks \in SUBSET Tasks /\ \A t \in openTasks : Active(tasks[t])
        BY <2>1, Zenon
    <2>4. Ended(tasks[u]) => Ended(tasks'[u])
        <3>1. Ended(tasks[u]) => u \notin done
            BY <2>1, Zenon DEF Ended, Active
        <3>2. \A t \in Tasks \ done : tasks'[t] = tasks[t]
            <4>1. \A t \in done : Active(tasks[t])
                BY <2>1, Zenon
            <4> QED
                BY <1>1, <2>1, <2>3, <4>1, InterruptedTyped, Zenon
        <3> QED
            BY <3>1, <3>2, Zenon
    <2>5. Ended(snapshots[u]) => Ended(snapshots'[u])
        <3>1. u \in openTasks => Ended(Interrupted(tasks, openTasks)[u])
            BY <1>1, <2>3, InterruptedTyped, Zenon
        <3> HIDE DEF openTasks
        <3> DEFINE Put(S) == [t \in Tasks |-> IF t \in S THEN Interrupted(tasks, openTasks)[t] ELSE snapshots[t]]
        <3>2. \/ snapshots' = Put(openTasks) \/ snapshots' = snapshots
              \/ \E more \in {{}} \cup {{t} : t \in openTasks \ done} : snapshots' = Put(done \cup more)
            BY <2>1, Zenon DEF Interrupts
        <3>3. \A more \in {{}} \cup {{t} : t \in openTasks \ done} : done \cup more \subseteq openTasks
            BY <2>1
        <3>4. snapshots' = snapshots \/ \E S : S \subseteq openTasks /\ snapshots' = Put(S)
            BY <3>2, <3>3, Zenon
        <3>5. snapshots'[u] = snapshots[u] \/ (u \in openTasks /\ snapshots'[u] = Interrupted(tasks, openTasks)[u])
            BY <3>4
        <3> QED
            BY <3>1, <3>5, Zenon
    <2> QED
        BY <2>2, <2>4, <2>5, Zenon DEF StaysEnded
<1>10. CASE processEnds
    BY <1>10, Zenon DEF processEnds, StaysEnded
<1>11. CASE replay
    <2> DEFINE openTasks == {t \in Tasks : Active(snapshots[t])}
    <2>1. launched' = launched /\ manager = "down"
        BY <1>11, Zenon DEF replay, threadVars
    <2>2. \E which \in SUBSET openTasks : snapshots' = Interrupted(snapshots, which)
        BY <1>11, Zenon DEF replay
    <2>3. PICK which \in SUBSET openTasks : snapshots' = Interrupted(snapshots, which)
        BY <2>2, Zenon
    <2>4. snapshots \in [Tasks -> Task \cup {Absent}] /\ which \in SUBSET Tasks /\ \A t \in which : Active(snapshots[t])
        BY <1>1, Zenon DEF RepeatTypes
    <2>5. \A t \in Tasks \ which : snapshots'[t] = snapshots[t]
        BY <2>3, <2>4, InterruptedTyped, Zenon
    <2>6. Ended(snapshots[u]) => Ended(snapshots'[u])
        BY <2>4, <2>5, Zenon DEF Ended, Active
    <2>7. tasks[u] = Absent
        BY <2>1, TaskFacts, Zenon DEF TaskSound, Attended
    <2> QED
        BY <2>1, <2>6, <2>7, Zenon DEF StaysEnded, Ended
<1>12. CASE \/ \E t \in Tasks : waitFor(t) \/ deadlinePasses(t)
            \/ \E s \in Sources : sourceMoves(s) \/ submit(s)
            \/ \E call \in creating : createRepeatTask(call)
    <2>1. UNCHANGED <<tasks, snapshots, launched>>
        BY <1>12, Zenon DEF waitFor, deadlinePasses, sourceMoves, submit, createRepeatTask, taskVars, threadVars
    <2> QED
        BY <1>2, <2>1, Zenon
<1> QED
    BY <1>4, <1>5, <1>6, <1>7, <1>8, <1>9, <1>10, <1>11, <1>12, Zenon DEF RepeatNext

\* A task that has ended is never sent again and stays ended, in memory and in
\* the journal, over late results, old buttons, failing writes and restarts
\* (manager.go finishExecution, changeState, Resume, RunNow, Stop and replay).
THEOREM EndedTasksStayEnded == RepeatSpec => EndedForGood
<1>1. RepeatSpec => []RepeatInv
    BY RepeatStart, RepeatStep, PTL DEF RepeatSpec
<1>2. RepeatInv /\ [RepeatNext]_repeatVars =>
         [ \A t \in Tasks :
             /\ (Ended(tasks[t]) \/ Ended(snapshots[t])) => launched'[t] = launched[t]
             /\ Ended(tasks[t]) => (manager' = "down" \/ Ended(tasks'[t]))
             /\ Ended(snapshots[t]) => Ended(snapshots'[t]) ]_repeatVars
    BY EndsStay, Zenon DEF StaysEnded
<1> QED
    BY <1>1, <1>2, PTL DEF RepeatSpec, EndedForGood

------------------------------------------------------------------------------
\* RetryForm: what the dialog says is what the server takes.

UnitsOfTime == Nat \ {0}
FormTime  == [value : Fraction, unit : UnitsOfTime]
FormTimes == [minimum : Fraction, maximum : Fraction, unit : UnitsOfTime]
FormFields == {"preset", "durationChoice", "customDuration", "mode", "fixedChoice", "customFixed",
               "randomChoice", "customRandom", "exponentialChoice", "customExponential",
               "maxAttemptsChoice", "customMaxAttempts", "honorRetryAfter"}

\* What the form has, as far as a policy is built from it.
FormTyped(f) ==
    /\ FormFields \subseteq DOMAIN f
    /\ f.mode \in Modes
    /\ f.durationChoice \in Int /\ f.customDuration \in FormTime
    /\ f.fixedChoice \in Int /\ f.customFixed \in FormTime
    /\ f.randomChoice \in Int \X Int /\ f.customRandom \in FormTimes
    /\ f.exponentialChoice \in Int \X Int /\ f.customExponential \in FormTimes
    /\ f.maxAttemptsChoice \in Int /\ f.customMaxAttempts \in Int

\* The invariant: the form has its fields, and one that nobody changed is that
\* of the policy the dialog was opened with.
FormInv ==
    /\ FormTyped(form) /\ edits \in Nat
    /\ opened \in Validated \cup {NoPolicy}
    /\ edits = 0 => form = policyDefaults(opened)

\* The named times are positive and their lists hold no Custom.
LEMMA Times ==
    /\ Second \in Nat \ {0} /\ Minute \in Nat \ {0} /\ Hour \in Nat \ {0} /\ Day \in Nat \ {0}
    /\ Minute = 60 * Second /\ Hour = 3600 * Second /\ Day = 86400 * Second
    /\ durationChoices \subseteq Nat \ {0} /\ fixedChoices \subseteq Nat \ {0}
    /\ randomChoices \subseteq (Nat \ {0}) \X (Nat \ {0})
    /\ exponentialChoices \subseteq (Nat \ {0}) \X (Nat \ {0})
<1>1. /\ Second \in Nat \ {0} /\ Minute \in Nat \ {0} /\ Hour \in Nat \ {0} /\ Day \in Nat \ {0}
      /\ Minute = 60 * Second /\ Hour = 3600 * Second /\ Day = 86400 * Second
    BY SecondAssumption DEF Minute, Hour, Day
<1>2. \A n \in Nat \ {0} : n * Second \in Nat \ {0} /\ n * Minute \in Nat \ {0} /\ n * Hour \in Nat \ {0}
    BY <1>1
<1>3. /\ \A n \in {5, 15, 30} : n * Second \in Nat \ {0}
      /\ \A n \in {2, 5, 15, 30} : n * Minute \in Nat \ {0}
      /\ 6 * Hour \in Nat \ {0}
    BY <1>1
<1>4. durationChoices \subseteq Nat \ {0} /\ fixedChoices \subseteq Nat \ {0}
    BY <1>1, <1>3 DEF durationChoices, fixedChoices
<1>5. /\ randomChoices \subseteq (Nat \ {0}) \X (Nat \ {0})
      /\ exponentialChoices \subseteq (Nat \ {0}) \X (Nat \ {0})
    BY <1>1, <1>3 DEF randomChoices, exponentialChoices
<1> QED
    BY <1>1, <1>4, <1>5

\* The unit a time is shown in is one of the three.
LEMMA UnitChosen ==
    ASSUME NEW times, NEW fallback \in UnitsOfTime
    PROVE  UnitOf(times, fallback) \in UnitsOfTime
<1> DEFINE fits == {u \in {Hour, Minute, Second} : \A t \in times : t % u = 0}
<1>1. fits \subseteq {Hour, Minute, Second}
    OBVIOUS
<1>2. UnitOf(times, fallback) = IF fits = {} THEN fallback ELSE CHOOSE u \in fits : \A v \in fits : v <= u
    BY DEF UnitOf
<1> HIDE DEF fits
<1>3. fits # {} => \E u \in fits : \A v \in fits : v <= u
    <2>1. Second <= Minute /\ Minute <= Hour /\ Second <= Hour
          /\ Second \in Int /\ Minute \in Int /\ Hour \in Int
        BY Times
    <2>2. CASE Hour \in fits
        BY <2>1, <2>2, <1>1
    <2>3. CASE Hour \notin fits /\ Minute \in fits
        BY <2>1, <2>3, <1>1
    <2>4. CASE Hour \notin fits /\ Minute \notin fits
        <3>1. \A u \in fits : u = Second
            BY <2>4, <1>1
        <3> QED
            BY <3>1, <2>1
    <2> QED
        BY <2>2, <2>3, <2>4, Zenon
<1>4. fits # {} => (CHOOSE u \in fits : \A v \in fits : v <= u) \in fits
    BY <1>3, Zenon
<1>5. {Hour, Minute, Second} \subseteq UnitsOfTime
    BY Times DEF UnitsOfTime
<1> QED
    BY <1>1, <1>2, <1>4, <1>5, Zenon

\* A fraction of a unit is a whole number of ticks.
LEMMA DurationTyped ==
    ASSUME NEW value \in Fraction, NEW unit \in UnitsOfTime
    PROVE  durationValue(value, unit) \in Int
<1>1. value.num \in Int /\ value.den \in Nat \ {0} /\ unit \in Nat \ {0}
    BY DEF Fraction, UnitsOfTime
<1>2. 2 * value.num * unit + value.den \in Int /\ 2 * value.den \in Nat \ {0}
    BY <1>1
<1>3. \A q \in Int, d \in Nat \ {0} : q \div d \in Int
    OBVIOUS
<1> QED
    BY <1>2, <1>3 DEF durationValue

\* A positive time shown in a unit, as a whole number of it or as a fraction,
\* is read back as it was.
LEMMA RoundTrip ==
    ASSUME NEW ticks \in Int, NEW unit \in UnitsOfTime
    PROVE  /\ Quotient(ticks, unit) \in Fraction
           /\ ticks > 0 => durationValue(Quotient(ticks, unit), unit) = ticks
<1>1. unit \in Nat \ {0}
    BY DEF UnitsOfTime
<1>2. \A q \in Int, d \in Nat \ {0} : q \div d \in Int
    OBVIOUS
<1>3. Quotient(ticks, unit) \in Fraction
    BY <1>1, <1>2 DEF Quotient, Fraction
<1>4. ASSUME ticks > 0, ticks % unit = 0
      PROVE  durationValue(Quotient(ticks, unit), unit) = ticks
    <2> DEFINE n == ticks \div unit
    <2>1. n \in Int /\ ticks = n * unit
        BY <1>1, <1>4
    <2>2. Quotient(ticks, unit) = [num |-> n, den |-> 1]
        BY <1>4 DEF Quotient
    <2> HIDE DEF n
    <2>3. ~(n <= 0)
        BY <2>1, <1>1, <1>4
    <2>4. (2 * n * unit + 1) \div (2 * 1) = ticks
        <3>1. 2 * n * unit = 2 * ticks
            BY <2>1, <1>1
        <3>2. (2 * ticks + 1) \div 2 = ticks
            OBVIOUS
        <3> QED
            BY <3>1, <3>2
    <2> QED
        BY <2>2, <2>3, <2>4 DEF durationValue
<1>5. ASSUME ticks > 0, ticks % unit # 0
      PROVE  durationValue(Quotient(ticks, unit), unit) = ticks
    <2>1. (2 * ticks * unit + unit) \div (2 * unit) = ticks
        <3>1. \A d \in Nat \ {0}, r \in Int : 0 <= r /\ r < d => (ticks * d + r) \div d = ticks
            OBVIOUS
        <3>2. 2 * unit \in Nat \ {0} /\ 0 <= unit /\ unit < 2 * unit /\ unit \in Int
            BY <1>1
        <3>3. ticks * (2 * unit) = 2 * ticks * unit
            BY <1>1
        <3> QED
            BY <3>1, <3>2, <3>3
    <2>2. Quotient(ticks, unit) = [num |-> ticks, den |-> unit]
        BY <1>5 DEF Quotient
    <2> QED
        BY <2>1, <2>2, <1>5 DEF durationValue
<1> QED
    BY <1>3, <1>4, <1>5

\* A time shown with the largest unit that divides it, or the fallback.
LEMMA TimeShown ==
    ASSUME NEW ticks \in Int, NEW fallback \in UnitsOfTime
    PROVE  /\ fromMilliseconds(ticks, fallback) \in FormTime
           /\ ticks > 0 => durationValue(fromMilliseconds(ticks, fallback).value,
                                         fromMilliseconds(ticks, fallback).unit) = ticks
<1>1. PICK unit \in UnitsOfTime : unit = UnitOf({ticks}, fallback)
    BY UnitChosen
<1>2. fromMilliseconds(ticks, fallback) = [value |-> Quotient(ticks, unit), unit |-> unit]
    BY <1>1 DEF fromMilliseconds
<1> QED
    BY <1>2, RoundTrip DEF FormTime

\* Two times shown in one unit.
LEMMA RangeShown ==
    ASSUME NEW minimum \in Int, NEW maximum \in Int
    PROVE  /\ rangeFromMilliseconds(minimum, maximum) \in FormTimes
           /\ (minimum > 0 /\ maximum > 0) =>
                  FormRange(CustomRange, rangeFromMilliseconds(minimum, maximum)) = <<minimum, maximum>>
<1>1. PICK unit \in UnitsOfTime : unit = UnitOf({minimum, maximum}, Second)
    BY UnitChosen, Times DEF UnitsOfTime
<1>2. rangeFromMilliseconds(minimum, maximum)
         = [minimum |-> Quotient(minimum, unit), maximum |-> Quotient(maximum, unit), unit |-> unit]
    BY <1>1 DEF rangeFromMilliseconds
<1>3. Quotient(minimum, unit) \in Fraction /\ Quotient(maximum, unit) \in Fraction
    BY RoundTrip
<1>4. (minimum > 0 /\ maximum > 0) => /\ durationValue(Quotient(minimum, unit), unit) = minimum
                                      /\ durationValue(Quotient(maximum, unit), unit) = maximum
    BY RoundTrip
<1> QED
    BY <1>2, <1>3, <1>4 DEF FormTimes, FormRange

\* The dialog's form has its fields, whatever the policy it opens with.
LEMMA DefaultsTyped ==
    ASSUME NEW policy \in RetryPolicies \cup {NoPolicy}
    PROVE  FormTyped(policyDefaults(policy))
<1> DEFINE schedule == Schedule(policy)
           duration == IF policy = NoPolicy THEN Hour ELSE policy.duration
           attempts == IF policy = NoPolicy THEN 0 ELSE policy.attempts
           fixed    == FieldOr(schedule, "interval", 15 * Second)
           least    == FieldOr(schedule, "minimum", Minute)
           most     == FieldOr(schedule, "maximum", 2 * Minute)
           base     == FieldOr(schedule, "base", Minute)
           limit    == FieldOr(schedule, "maximum", 15 * Minute)
           honor    == IF policy = NoPolicy THEN TRUE ELSE policy.honor
<1>1. /\ schedule.mode \in Modes /\ duration \in Int /\ attempts \in Int /\ honor \in BOOLEAN
    <2>1. Hour \in Int /\ "random" \in Modes /\ [mode |-> "random"].mode = "random"
        BY Times DEF Modes
    <2>2. \A s \in RetrySchedules : s.mode \in Modes
        BY DEF RetrySchedules, Modes
    <2>3. policy # NoPolicy => /\ policy.schedule \in RetrySchedules /\ policy.duration \in Int
                               /\ policy.attempts \in Int /\ policy.honor \in BOOLEAN
        BY DEF RetryPolicies
    <2>4. CASE policy = NoPolicy
        BY <2>1, <2>4 DEF Schedule
    <2>5. CASE policy # NoPolicy
        BY <2>2, <2>3, <2>5 DEF Schedule
    <2> QED
        BY <2>4, <2>5, Zenon
<1>2. fixed \in Int /\ least \in Int /\ most \in Int /\ base \in Int /\ limit \in Int
    <2>1. /\ 15 * Second \in Int /\ Minute \in Int /\ 2 * Minute \in Int /\ 15 * Minute \in Int
        BY Times
    <2>2. schedule \in RetrySchedules \cup {[mode |-> "random"]}
        BY DEF Schedule, RetryPolicies
    <2> HIDE DEF schedule
    <2>3. CASE schedule \in [mode : {"inherit", "immediate"}] \cup {[mode |-> "random"]}
        BY <2>1, <2>3 DEF FieldOr
    <2>4. CASE schedule \in [mode : {"fixed"}, interval : Int]
        BY <2>1, <2>4 DEF FieldOr
    <2>5. CASE schedule \in [mode : {"random"}, minimum : Int, maximum : Int]
        BY <2>1, <2>5 DEF FieldOr
    <2>6. CASE schedule \in [mode : {"exponential"}, base : Int, maximum : Int]
        BY <2>1, <2>6 DEF FieldOr
    <2> QED
        BY <2>2, <2>3, <2>4, <2>5, <2>6 DEF RetrySchedules
<1>3. /\ choiceFor(duration, durationChoices) \in Int /\ choiceFor(fixed, fixedChoices) \in Int
      /\ RangeFor(<<least, most>>, randomChoices) \in Int \X Int
      /\ RangeFor(<<base, limit>>, exponentialChoices) \in Int \X Int
      /\ AttemptsShown(attempts) \in Int /\ (IF attempts = 0 THEN 3 ELSE attempts) \in Int
    BY <1>1, <1>2 DEF choiceFor, RangeFor, AttemptsShown, Custom, CustomRange
<1>4. /\ fromMilliseconds(duration, Minute) \in FormTime /\ fromMilliseconds(fixed, Second) \in FormTime
      /\ rangeFromMilliseconds(least, most) \in FormTimes
      /\ rangeFromMilliseconds(base, limit) \in FormTimes
    BY <1>1, <1>2, TimeShown, RangeShown, Times DEF UnitsOfTime
<1>5. policyDefaults(policy) =
        [preset            |-> IF policy = NoPolicy THEN "standard" ELSE "custom",
         durationChoice    |-> choiceFor(duration, durationChoices),
         customDuration    |-> fromMilliseconds(duration, Minute),
         mode              |-> schedule.mode,
         fixedChoice       |-> choiceFor(fixed, fixedChoices),
         customFixed       |-> fromMilliseconds(fixed, Second),
         randomChoice      |-> RangeFor(<<least, most>>, randomChoices),
         customRandom      |-> rangeFromMilliseconds(least, most),
         exponentialChoice |-> RangeFor(<<base, limit>>, exponentialChoices),
         customExponential |-> rangeFromMilliseconds(base, limit),
         maxAttemptsChoice |-> AttemptsShown(attempts),
         customMaxAttempts |-> IF attempts = 0 THEN 3 ELSE attempts,
         honorRetryAfter   |-> honor,
         overwrite         |-> TRUE,
         retryWaitingNow   |-> FALSE]
    BY DEF policyDefaults
<1> HIDE DEF schedule, duration, attempts, fixed, least, most, base, limit, honor
<1> QED
    BY <1>1, <1>3, <1>4, <1>5 DEF FormTyped, FormFields

\* A preset sets choices that are in the lists.
LEMMA PresetTyped ==
    ASSUME NEW f, FormTyped(f), NEW preset \in {"standard", "fast", "conservative"}
    PROVE  FormTyped(applyPreset(f, preset))
<1>1. /\ Hour \in Int /\ 15 * Minute \in Int /\ 6 * Hour \in Int /\ 15 * Second \in Int
      /\ Minute \in Int /\ 2 * Minute \in Int
    BY Times
<1>2. <<Minute, 2 * Minute>> \in Int \X Int /\ <<Minute, 15 * Minute>> \in Int \X Int
    BY <1>1
<1>3. CASE preset = "standard"
    <2> DEFINE g == applyPreset(f, preset)
    <2>1. g = [f EXCEPT !.preset = "standard", !.durationChoice = Hour, !.mode = "random",
                        !.randomChoice = <<Minute, 2 * Minute>>, !.maxAttemptsChoice = 0,
                        !.honorRetryAfter = TRUE]
        BY <1>3 DEF applyPreset
    <2> HIDE DEF g
    <2>2. DOMAIN g = DOMAIN f
        BY <2>1
    <2>3. /\ g.mode = "random" /\ g.durationChoice = Hour /\ g.customDuration = f.customDuration
          /\ g.fixedChoice = f.fixedChoice /\ g.customFixed = f.customFixed /\ g.randomChoice = <<Minute, 2 * Minute>>
          /\ g.customRandom = f.customRandom /\ g.exponentialChoice = f.exponentialChoice /\ g.customExponential = f.customExponential
          /\ g.maxAttemptsChoice = 0 /\ g.customMaxAttempts = f.customMaxAttempts
        BY <2>1 DEF FormTyped, FormFields
    <2>4. FormTyped(g)
        BY <1>1, <1>2, <2>2, <2>3 DEF FormTyped, Modes
    <2> QED
        BY <2>4 DEF g
<1>4. CASE preset = "fast"
    <2> DEFINE g == applyPreset(f, preset)
    <2>1. g = [f EXCEPT !.preset = "fast", !.durationChoice = 15 * Minute, !.mode = "fixed",
                        !.fixedChoice = 15 * Second, !.maxAttemptsChoice = 20,
                        !.honorRetryAfter = TRUE]
        BY <1>4 DEF applyPreset
    <2> HIDE DEF g
    <2>2. DOMAIN g = DOMAIN f
        BY <2>1
    <2>3. /\ g.mode = "fixed" /\ g.durationChoice = 15 * Minute /\ g.customDuration = f.customDuration
          /\ g.fixedChoice = 15 * Second /\ g.customFixed = f.customFixed /\ g.randomChoice = f.randomChoice
          /\ g.customRandom = f.customRandom /\ g.exponentialChoice = f.exponentialChoice /\ g.customExponential = f.customExponential
          /\ g.maxAttemptsChoice = 20 /\ g.customMaxAttempts = f.customMaxAttempts
        BY <2>1 DEF FormTyped, FormFields
    <2>4. FormTyped(g)
        BY <1>1, <2>2, <2>3 DEF FormTyped, Modes
    <2> QED
        BY <2>4 DEF g
<1>5. CASE preset = "conservative"
    <2> DEFINE g == applyPreset(f, preset)
    <2>1. g = [f EXCEPT !.preset = "conservative", !.durationChoice = 6 * Hour, !.mode = "exponential",
                        !.exponentialChoice = <<Minute, 15 * Minute>>, !.maxAttemptsChoice = 0,
                        !.honorRetryAfter = TRUE]
        BY <1>5 DEF applyPreset
    <2> HIDE DEF g
    <2>2. DOMAIN g = DOMAIN f
        BY <2>1
    <2>3. /\ g.mode = "exponential" /\ g.durationChoice = 6 * Hour /\ g.customDuration = f.customDuration
          /\ g.fixedChoice = f.fixedChoice /\ g.customFixed = f.customFixed /\ g.randomChoice = f.randomChoice
          /\ g.customRandom = f.customRandom /\ g.exponentialChoice = <<Minute, 15 * Minute>> /\ g.customExponential = f.customExponential
          /\ g.maxAttemptsChoice = 0 /\ g.customMaxAttempts = f.customMaxAttempts
        BY <2>1 DEF FormTyped, FormFields
    <2>4. FormTyped(g)
        BY <1>1, <1>2, <2>2, <2>3 DEF FormTyped, Modes
    <2> QED
        BY <2>4 DEF g
<1> QED
    BY <1>3, <1>4, <1>5

\* Every step of the form leaves it with its fields.
LEMMA FormStep ==
    ASSUME FormInv, [FormNext]_formVars
    PROVE  FormInv'
<1> USE DEF FormInv
<1>1. CASE UNCHANGED formVars
    BY <1>1, ZenonT(60) DEF formVars, policyDefaults, Validated
<1> SUFFICES ASSUME FormNext
             PROVE  FormTyped(form') /\ edits' = edits + 1 /\ opened' = opened
    BY <1>1
<1>t. /\ \A t \in TypedTimes : t \in FormTime
      /\ \A r \in TypedRanges : r \in FormTimes
      /\ TypedAttempts \subseteq Int
      /\ \A c \in durationChoices \cup fixedChoices \cup {Custom} : c \in Int
      /\ \A c \in randomChoices \cup exponentialChoices \cup {CustomRange} : c \in Int \X Int
      /\ \A c \in attemptChoices \cup {0, Custom} : c \in Int
    <2>1. Units \subseteq UnitsOfTime
        BY Times DEF Units, UnitsOfTime
    <2>2. /\ \A t \in TypedTimes : t \in FormTime
          /\ \A r \in TypedRanges : r \in FormTimes
        BY <2>1, FormAssumption DEF TypedTimes, TypedRanges, FormTime, FormTimes
    <2> QED
        BY <2>2, Times, FormAssumption DEF Custom, CustomRange, attemptChoices
<1>2. CASE pickPreset
    BY <1>2, PresetTyped DEF pickPreset, Edited
<1>3. CASE pickMode
    BY <1>3 DEF pickMode, chooseMode, Edited, FormTyped, FormFields, Modes
<1>4. CASE pickDuration
    <2>1. ASSUME NEW choice \in Int
          PROVE  FormTyped([form EXCEPT !.durationChoice = choice, !.preset = "custom"])
        BY DEF FormTyped, FormFields
    <2>2. ASSUME NEW time \in FormTime
          PROVE  FormTyped([form EXCEPT !.customDuration = time, !.preset = "custom"])
        BY DEF FormTyped, FormFields
    <2>3. \E step : FormTyped(step) /\ Edited(step)
        BY <1>4, <1>t, <2>1, <2>2, Zenon DEF pickDuration
    <2> QED
        BY <2>3 DEF Edited
<1>5. CASE pickFixed
    <2>1. ASSUME NEW choice \in Int
          PROVE  FormTyped([form EXCEPT !.fixedChoice = choice, !.preset = "custom"])
        BY DEF FormTyped, FormFields
    <2>2. ASSUME NEW time \in FormTime
          PROVE  FormTyped([form EXCEPT !.customFixed = time, !.preset = "custom"])
        BY DEF FormTyped, FormFields
    <2>3. \E step : FormTyped(step) /\ Edited(step)
        BY <1>5, <1>t, <2>1, <2>2, Zenon DEF pickFixed
    <2> QED
        BY <2>3 DEF Edited
<1>6. CASE pickRandom
    <2>1. ASSUME NEW choice \in Int \X Int
          PROVE  FormTyped([form EXCEPT !.randomChoice = choice, !.preset = "custom"])
        BY DEF FormTyped, FormFields
    <2>2. ASSUME NEW range \in FormTimes
          PROVE  FormTyped([form EXCEPT !.customRandom = range, !.preset = "custom"])
        BY DEF FormTyped, FormFields
    <2>3. \E step : FormTyped(step) /\ Edited(step)
        BY <1>6, <1>t, <2>1, <2>2, Zenon DEF pickRandom
    <2> QED
        BY <2>3 DEF Edited
<1>7. CASE pickExponential
    <2>1. ASSUME NEW choice \in Int \X Int
          PROVE  FormTyped([form EXCEPT !.exponentialChoice = choice, !.preset = "custom"])
        BY DEF FormTyped, FormFields
    <2>2. ASSUME NEW range \in FormTimes
          PROVE  FormTyped([form EXCEPT !.customExponential = range, !.preset = "custom"])
        BY DEF FormTyped, FormFields
    <2>3. \E step : FormTyped(step) /\ Edited(step)
        BY <1>7, <1>t, <2>1, <2>2, Zenon DEF pickExponential
    <2> QED
        BY <2>3 DEF Edited
<1>8. CASE pickAttempts
    <2>1. ASSUME NEW choice \in Int
          PROVE  FormTyped([form EXCEPT !.maxAttemptsChoice = choice, !.preset = "custom"])
        BY DEF FormTyped, FormFields
    <2>2. ASSUME NEW n \in Int
          PROVE  FormTyped([form EXCEPT !.customMaxAttempts = n, !.preset = "custom"])
        BY DEF FormTyped, FormFields
    <2>3. \E step : FormTyped(step) /\ Edited(step)
        BY <1>8, <1>t, <2>1, <2>2, Zenon DEF pickAttempts
    <2> QED
        BY <2>3 DEF Edited
<1>9. CASE pickHonor
    BY <1>9 DEF pickHonor, Edited, FormTyped, FormFields
<1> QED
    BY <1>2, <1>3, <1>4, <1>5, <1>6, <1>7, <1>8, <1>9 DEF FormNext

\* What the form says is a number for every field.
LEMMA FormReads ==
    ASSUME NEW f, FormTyped(f)
    PROVE  /\ FormDuration(f) \in Int /\ FormInterval(f) \in Int /\ FormAttempts(f) \in Int
           /\ FormRange(f.randomChoice, f.customRandom) \in Int \X Int
           /\ FormRange(f.exponentialChoice, f.customExponential) \in Int \X Int
<1>1. \A t \in FormTime : durationValue(t.value, t.unit) \in Int
    BY DurationTyped DEF FormTime
<1>2. \A t \in FormTimes : /\ durationValue(t.minimum, t.unit) \in Int
                           /\ durationValue(t.maximum, t.unit) \in Int
    BY DurationTyped DEF FormTimes
<1>3. FormDuration(f) \in Int /\ FormInterval(f) \in Int /\ FormAttempts(f) \in Int
    BY <1>1 DEF FormDuration, FormInterval, FormAttempts, FormTyped
<1>4. /\ FormRange(f.randomChoice, f.customRandom) \in Int \X Int
      /\ FormRange(f.exponentialChoice, f.customExponential) \in Int \X Int
    BY <1>2 DEF FormRange, FormTyped
<1> QED
    BY <1>3, <1>4

\* The console refuses what the server would: the limits of buildPolicy are
\* those of Validate, for every mode.
LEMMA BuiltIsValid ==
    ASSUME NEW f, FormTyped(f), buildPolicy(f) # NoPolicy
    PROVE  Validate(buildPolicy(f))
<1> DEFINE duration == FormDuration(f)
           schedule == FormSchedule(f)
           attempts == FormAttempts(f)
           random == FormRange(f.randomChoice, f.customRandom)
           exponential == FormRange(f.exponentialChoice, f.customExponential)
           policy == FormPolicy(f)
<1>1. policy.duration = duration /\ policy.schedule = schedule /\ policy.attempts = attempts
    BY DEF FormPolicy
<1>2. /\ buildPolicy(f) = policy
      /\ ~(policy.duration < 5 * Second) /\ ~(policy.duration > Day)
      /\ ~IntervalError(policy.schedule, policy.duration)
      /\ ~AttemptsError(f.mode, policy.attempts)
    BY Zenon DEF buildPolicy
<1> HIDE DEF policy
<1>3. /\ ~(duration < 5 * Second) /\ ~(duration > Day)
      /\ ~IntervalError(schedule, duration) /\ ~AttemptsError(f.mode, attempts)
    BY <1>1, <1>2
<1>4. /\ duration \in Int /\ attempts \in Int /\ FormInterval(f) \in Int
      /\ random \in Int \X Int /\ exponential \in Int \X Int
      /\ 5 * Second \in Int /\ Day \in Int
    BY FormReads, Times
<1>5. \/ f.mode \in {"inherit", "immediate"} /\ schedule = [mode |-> f.mode]
      \/ f.mode = "fixed" /\ schedule = [mode |-> "fixed", interval |-> FormInterval(f)]
      \/ f.mode = "random" /\ schedule = [mode |-> "random", minimum |-> random[1], maximum |-> random[2]]
      \/ f.mode = "exponential" /\ schedule = [mode |-> "exponential", base |-> exponential[1],
                                               maximum |-> exponential[2]]
    BY DEF FormTyped, Modes, FormSchedule
<1> HIDE DEF duration, schedule, attempts, random, exponential
<1>6. duration \in 5 * Second .. Day /\ attempts \in 0 .. 1000
    BY <1>3, <1>4 DEF AttemptsError
<1>7. CASE f.mode \in {"inherit", "immediate"} /\ schedule = [mode |-> f.mode]
    <2>1. schedule.mode = f.mode
        BY <1>7
    <2>2. f.mode = "immediate" => attempts \in 1 .. 20
        BY <1>3, <1>4 DEF AttemptsError
    <2>3. CASE schedule.mode = "inherit"
        BY <1>1, <1>2, <1>6, <2>3, ZenonT(60) DEF Validate
    <2>4. CASE schedule.mode = "immediate"
        <3>1. /\ policy.schedule.mode = "immediate" /\ policy.attempts \in 1 .. 20
              /\ policy.attempts \in 0 .. 1000 /\ policy.duration \in 5 * Second .. Day
            BY <1>1, <1>6, <2>1, <2>2, <2>4
        <3>2. Validate(policy)
            BY <3>1 DEF Validate
        <3> QED
            BY <3>2, <1>2
    <2> QED
        BY <1>7, <2>1, <2>3, <2>4
<1>8. CASE f.mode = "fixed" /\ schedule = [mode |-> "fixed", interval |-> FormInterval(f)]
    <2>1. schedule.mode = "fixed" /\ schedule.interval = FormInterval(f)
        BY <1>8
    <2>2. validPolicyInterval(schedule.interval, duration)
        BY <2>1, <1>3, <1>4 DEF IntervalError, validPolicyInterval
    <2> QED
        BY <1>1, <1>2, <1>6, <2>1, <2>2, ZenonT(60) DEF Validate
<1>9. CASE f.mode = "random"
           /\ schedule = [mode |-> "random", minimum |-> random[1], maximum |-> random[2]]
    <2>1. schedule.mode = "random" /\ schedule.minimum = random[1] /\ schedule.maximum = random[2]
        BY <1>9
    <2>2. ValidRange(schedule.minimum, schedule.maximum, duration)
        BY <2>1, <1>3, <1>4 DEF IntervalError, ValidRange, validPolicyInterval
    <2> QED
        BY <1>1, <1>2, <1>6, <2>1, <2>2, ZenonT(60) DEF Validate
<1>10. CASE f.mode = "exponential"
            /\ schedule = [mode |-> "exponential", base |-> exponential[1], maximum |-> exponential[2]]
    <2>1. schedule.mode = "exponential" /\ schedule.base = exponential[1] /\ schedule.maximum = exponential[2]
        BY <1>10
    <2>2. ValidRange(schedule.base, schedule.maximum, duration)
        BY <2>1, <1>3, <1>4 DEF IntervalError, ValidRange, validPolicyInterval
    <2> QED
        BY <1>1, <1>2, <1>6, <2>1, <2>2, ZenonT(60) DEF Validate
<1> QED
    BY <1>5, <1>7, <1>8, <1>9, <1>10

\* A policy with the times of its mode in order passes the console's checks.
LEMMA ValidIsBuilt ==
    ASSUME NEW f, FormTyped(f), NEW policy \in RetryPolicies, Validate(policy),
           FormPolicy(f) = policy, f.mode = policy.schedule.mode
    PROVE  buildPolicy(f) = policy
<1> DEFINE schedule == policy.schedule
           duration == policy.duration
<1>1. /\ duration \in Int /\ policy.attempts \in Int /\ schedule \in RetrySchedules
      /\ 5 * Second \in Int /\ Day \in Int
    BY Times DEF RetryPolicies
<1>2. /\ ~(duration < 5 * Second) /\ ~(duration > Day) /\ policy.attempts \in 0 .. 1000
    BY <1>1 DEF Validate
<1>3. ~AttemptsError(f.mode, policy.attempts)
    <2>1. f.mode = "immediate" => policy.attempts \in 1 .. 20
        BY DEF Validate
    <2>2. PICK n \in Int : n = policy.attempts
        BY <1>1
    <2>3. n \in 0 .. 1000 /\ (f.mode = "immediate" => n \in 1 .. 20)
        BY <1>2, <2>1, <2>2
    <2>4. ~(n < 0) /\ ~(n > 1000) /\ (f.mode = "immediate" => ~(n < 1) /\ ~(n > 20))
        BY <2>3
    <2> QED
        BY <2>2, <2>4, ZenonT(60) DEF AttemptsError
<1>4. ~IntervalError(schedule, duration)
    <2>1. CASE schedule \in [mode : {"inherit", "immediate"}]
        BY <2>1 DEF IntervalError
    <2>2. CASE schedule \in [mode : {"fixed"}, interval : Int]
        <3>1. schedule.mode = "fixed" /\ schedule.interval \in Int
            BY <2>2
        <3>2. validPolicyInterval(schedule.interval, duration)
            BY <3>1 DEF Validate
        <3> QED
            BY <3>1, <3>2, <1>1 DEF IntervalError, validPolicyInterval
    <2>3. CASE schedule \in [mode : {"random"}, minimum : Int, maximum : Int]
        <3>1. schedule.mode = "random" /\ schedule.minimum \in Int /\ schedule.maximum \in Int
            BY <2>3
        <3>2. ValidRange(schedule.minimum, schedule.maximum, duration)
            BY <3>1 DEF Validate
        <3> QED
            BY <3>1, <3>2, <1>1 DEF IntervalError, ValidRange, validPolicyInterval
    <2>4. CASE schedule \in [mode : {"exponential"}, base : Int, maximum : Int]
        <3>1. schedule.mode = "exponential" /\ schedule.base \in Int /\ schedule.maximum \in Int
            BY <2>4
        <3>2. ValidRange(schedule.base, schedule.maximum, duration)
            BY <3>1 DEF Validate
        <3> QED
            BY <3>1, <3>2, <1>1 DEF IntervalError, ValidRange, validPolicyInterval
    <2> QED
        BY <1>1, <2>1, <2>2, <2>3, <2>4 DEF RetrySchedules
<1> QED
    BY <1>2, <1>3, <1>4 DEF buildPolicy

\* A valid policy goes into the form and comes out of it unchanged: what a
\* list does not hold goes through its field and its unit.
LEMMA PolicyKept ==
    ASSUME NEW policy \in RetryPolicies, Validate(policy), policy # NoPolicy
    PROVE  buildPolicy(policyDefaults(policy)) = policy
<1> DEFINE schedule == policy.schedule
           duration == policy.duration
           attempts == policy.attempts
           f == policyDefaults(policy)
           Default(field, default) == FieldOr(schedule, field, default)
<1>1. /\ duration \in Int /\ attempts \in Int /\ schedule \in RetrySchedules
      /\ duration > 0 /\ attempts \in 0 .. 1000 /\ 5 * Second \in Nat \ {0} /\ Day \in Int
    <2>1. /\ duration \in Int /\ attempts \in Int /\ schedule \in RetrySchedules
          /\ 5 * Second \in Nat \ {0} /\ Day \in Int
        BY Times DEF RetryPolicies
    <2>2. duration \in 5 * Second .. Day /\ attempts \in 0 .. 1000
        BY Zenon DEF Validate
    <2> QED
        BY <2>1, <2>2
<1>2. FormTyped(f)
    BY DefaultsTyped
<1>3. /\ f.mode = schedule.mode /\ f.honorRetryAfter = policy.honor
      /\ f.durationChoice = choiceFor(duration, durationChoices)
      /\ f.customDuration = fromMilliseconds(duration, Minute)
      /\ f.fixedChoice = choiceFor(Default("interval", 15 * Second), fixedChoices)
      /\ f.customFixed = fromMilliseconds(Default("interval", 15 * Second), Second)
      /\ f.randomChoice = RangeFor(<<Default("minimum", Minute), Default("maximum", 2 * Minute)>>, randomChoices)
      /\ f.customRandom = rangeFromMilliseconds(Default("minimum", Minute), Default("maximum", 2 * Minute))
      /\ f.exponentialChoice = RangeFor(<<Default("base", Minute), Default("maximum", 15 * Minute)>>,
                                        exponentialChoices)
      /\ f.customExponential = rangeFromMilliseconds(Default("base", Minute), Default("maximum", 15 * Minute))
      /\ f.maxAttemptsChoice = AttemptsShown(attempts)
      /\ f.customMaxAttempts = IF attempts = 0 THEN 3 ELSE attempts
    BY DEF policyDefaults, Schedule
<1> HIDE DEF f
<1>4. FormDuration(f) = duration
    <2>1. durationValue(fromMilliseconds(duration, Minute).value, fromMilliseconds(duration, Minute).unit)
            = duration
        BY <1>1, TimeShown, Times DEF UnitsOfTime
    <2>2. Custom \notin durationChoices
        BY Times DEF Custom
    <2> QED
        BY <1>3, <2>1, <2>2 DEF FormDuration, choiceFor
<1>5. FormAttempts(f) = attempts
    BY <1>1, <1>3 DEF FormAttempts, AttemptsShown, attemptChoices, Custom
<1>6. ASSUME NEW minimum \in Int, NEW maximum \in Int, minimum > 0, maximum > 0,
             NEW choices, choices \subseteq (Nat \ {0}) \X (Nat \ {0})
      PROVE  FormRange(RangeFor(<<minimum, maximum>>, choices), rangeFromMilliseconds(minimum, maximum))
               = <<minimum, maximum>>
    <2>1. CustomRange \notin choices
        BY <1>6 DEF CustomRange, Custom
    <2>2. FormRange(CustomRange, rangeFromMilliseconds(minimum, maximum)) = <<minimum, maximum>>
        BY <1>6, RangeShown
    <2>3. <<minimum, maximum>> \in choices =>
              FormRange(<<minimum, maximum>>, rangeFromMilliseconds(minimum, maximum)) = <<minimum, maximum>>
        BY <2>1, Zenon DEF FormRange
    <2> QED
        BY <2>2, <2>3 DEF RangeFor
<1>7. FormSchedule(f) = schedule
    <2>1. CASE schedule \in [mode : {"inherit", "immediate"}]
        <3>1. schedule = [mode |-> schedule.mode] /\ schedule.mode \in {"inherit", "immediate"}
            BY <2>1
        <3> QED
            BY <3>1, <1>3 DEF FormSchedule
    <2>2. CASE schedule \in [mode : {"fixed"}, interval : Int]
        <3>1. /\ schedule = [mode |-> "fixed", interval |-> schedule.interval]
              /\ schedule.mode = "fixed" /\ schedule.interval \in Int
              /\ FieldOr(schedule, "interval", 15 * Second) = schedule.interval
            BY <2>2 DEF FieldOr
        <3>2. schedule.interval > 0
            BY <3>1, <1>1 DEF Validate, validPolicyInterval
        <3>3. durationValue(fromMilliseconds(schedule.interval, Second).value,
                            fromMilliseconds(schedule.interval, Second).unit) = schedule.interval
            BY <3>1, <3>2, TimeShown, Times DEF UnitsOfTime
        <3>4. Custom \notin fixedChoices
            BY Times DEF Custom
        <3>5. FormInterval(f) = schedule.interval
            BY <1>3, <3>1, <3>3, <3>4 DEF FormInterval, choiceFor
        <3> QED
            BY <3>1, <3>5, <1>3 DEF FormSchedule
    <2>3. CASE schedule \in [mode : {"random"}, minimum : Int, maximum : Int]
        <3>1. /\ schedule = [mode |-> "random", minimum |-> schedule.minimum, maximum |-> schedule.maximum]
              /\ schedule.mode = "random" /\ schedule.minimum \in Int /\ schedule.maximum \in Int
              /\ FieldOr(schedule, "minimum", Minute) = schedule.minimum
              /\ FieldOr(schedule, "maximum", 2 * Minute) = schedule.maximum
            BY <2>3 DEF FieldOr
        <3>2. schedule.minimum > 0 /\ schedule.maximum > 0
            <4>1. ValidRange(schedule.minimum, schedule.maximum, duration)
                BY <3>1 DEF Validate
            <4> QED
                BY <4>1, <3>1, <1>1 DEF ValidRange, validPolicyInterval
        <3>3. FormRange(f.randomChoice, f.customRandom) = <<schedule.minimum, schedule.maximum>>
            BY <1>3, <1>6, <3>1, <3>2, Times
        <3> QED
            BY <3>1, <3>3, <1>3 DEF FormSchedule
    <2>4. CASE schedule \in [mode : {"exponential"}, base : Int, maximum : Int]
        <3>1. /\ schedule = [mode |-> "exponential", base |-> schedule.base, maximum |-> schedule.maximum]
              /\ schedule.mode = "exponential" /\ schedule.base \in Int /\ schedule.maximum \in Int
              /\ FieldOr(schedule, "base", Minute) = schedule.base
              /\ FieldOr(schedule, "maximum", 15 * Minute) = schedule.maximum
            BY <2>4 DEF FieldOr
        <3>2. schedule.base > 0 /\ schedule.maximum > 0
            <4>1. ValidRange(schedule.base, schedule.maximum, duration)
                BY <3>1 DEF Validate
            <4> QED
                BY <4>1, <3>1, <1>1 DEF ValidRange, validPolicyInterval
        <3>3. FormRange(f.exponentialChoice, f.customExponential) = <<schedule.base, schedule.maximum>>
            BY <1>3, <1>6, <3>1, <3>2, Times
        <3> QED
            BY <3>1, <3>3, <1>3 DEF FormSchedule
    <2> QED
        BY <1>1, <2>1, <2>2, <2>3, <2>4 DEF RetrySchedules
<1>8. FormPolicy(f) = policy
    <2>1. policy = [duration |-> duration, schedule |-> schedule, attempts |-> attempts, honor |-> policy.honor]
        BY DEF RetryPolicies
    <2> QED
        BY <2>1, <1>3, <1>4, <1>5, <1>7 DEF FormPolicy
<1> QED
    BY <1>2, <1>3, <1>8, ValidIsBuilt DEF f

\* A preset overwrites whatever was in the form: what is built from it is the
\* quick policy of its name, and the server takes that.
LEMMA QuickBuilt ==
    ASSUME NEW f, FormTyped(f)
    PROVE  \A q \in DOMAIN quickPolicies : /\ buildPolicy(applyPreset(f, q)) = quickPolicies[q]
                                           /\ Validate(quickPolicies[q])
<1>1. DOMAIN quickPolicies = {"standard", "fast", "conservative"}
    BY DEF quickPolicies
<1>2. \A q \in DOMAIN quickPolicies : FormTyped(applyPreset(f, q))
    BY <1>1, PresetTyped
<1>3. \A q \in DOMAIN quickPolicies : quickPolicies[q] \in RetryPolicies /\ Validate(quickPolicies[q])
    <2>0. /\ Second \in Nat \ {0} /\ Minute = 60 * Second /\ Hour = 3600 * Second /\ Day = 86400 * Second
        BY Times
    <2>1. quickPolicies.standard \in RetryPolicies /\ Validate(quickPolicies.standard)
        <3> DEFINE s == [mode |-> "random", minimum |-> Minute, maximum |-> 2 * Minute]
        <3>1. quickPolicies.standard = [duration |-> Hour, attempts |-> 0, honor |-> TRUE, schedule |-> s]
            BY DEF quickPolicies
        <3>2. s \in RetrySchedules /\ s.mode = "random" /\ s.minimum = Minute /\ s.maximum = 2 * Minute
            BY <2>0 DEF RetrySchedules
        <3> HIDE DEF s
        <3>3. ValidRange(Minute, 2 * Minute, Hour) /\ Hour \in 5 * Second .. Day /\ Hour \in Int
            BY <2>0 DEF ValidRange, validPolicyInterval
        <3>4. quickPolicies.standard \in RetryPolicies
            BY <3>1, <3>2, <3>3 DEF RetryPolicies
        <3>5. Validate(quickPolicies.standard)
            <4> DEFINE p == quickPolicies.standard
            <4>1. p.duration = Hour /\ p.attempts = 0 /\ p.schedule = s
                BY <3>1
            <4> HIDE DEF p
            <4>2. Validate(p)
                BY <4>1, <3>2, <3>3 DEF Validate
            <4> QED
                BY <4>2 DEF p
        <3> QED
            BY <3>4, <3>5
    <2>2. quickPolicies.fast \in RetryPolicies /\ Validate(quickPolicies.fast)
        <3> DEFINE s == [mode |-> "fixed", interval |-> 15 * Second]
        <3>1. quickPolicies.fast = [duration |-> 15 * Minute, attempts |-> 20, honor |-> TRUE, schedule |-> s]
            BY DEF quickPolicies
        <3>2. s \in RetrySchedules /\ s.mode = "fixed" /\ s.interval = 15 * Second
            BY <2>0 DEF RetrySchedules
        <3> HIDE DEF s
        <3>3. /\ validPolicyInterval(15 * Second, 15 * Minute) /\ 15 * Minute \in 5 * Second .. Day
              /\ 15 * Minute \in Int
            BY <2>0 DEF validPolicyInterval
        <3>4. quickPolicies.fast \in RetryPolicies
            BY <3>1, <3>2, <3>3 DEF RetryPolicies
        <3>5. Validate(quickPolicies.fast)
            <4> DEFINE p == quickPolicies.fast
            <4>1. p.duration = 15 * Minute /\ p.attempts = 20 /\ p.schedule = s
                BY <3>1
            <4> HIDE DEF p
            <4>2. Validate(p)
                BY <4>1, <3>2, <3>3 DEF Validate
            <4> QED
                BY <4>2 DEF p
        <3> QED
            BY <3>4, <3>5
    <2>3. quickPolicies.conservative \in RetryPolicies /\ Validate(quickPolicies.conservative)
        <3> DEFINE s == [mode |-> "exponential", base |-> Minute, maximum |-> 15 * Minute]
        <3>1. quickPolicies.conservative
                = [duration |-> 6 * Hour, attempts |-> 0, honor |-> TRUE, schedule |-> s]
            BY DEF quickPolicies
        <3>2. s \in RetrySchedules /\ s.mode = "exponential" /\ s.base = Minute /\ s.maximum = 15 * Minute
            BY <2>0 DEF RetrySchedules
        <3> HIDE DEF s
        <3>3. /\ ValidRange(Minute, 15 * Minute, 6 * Hour) /\ 6 * Hour \in 5 * Second .. Day
              /\ 6 * Hour \in Int
            BY <2>0 DEF ValidRange, validPolicyInterval
        <3>4. quickPolicies.conservative \in RetryPolicies
            BY <3>1, <3>2, <3>3 DEF RetryPolicies
        <3>5. Validate(quickPolicies.conservative)
            <4> DEFINE p == quickPolicies.conservative
            <4>1. p.duration = 6 * Hour /\ p.attempts = 0 /\ p.schedule = s
                BY <3>1
            <4> HIDE DEF p
            <4>2. Validate(p)
                BY <4>1, <3>2, <3>3 DEF Validate
            <4> QED
                BY <4>2 DEF p
        <3> QED
            BY <3>4, <3>5
    <2> QED
        BY <1>1, <2>1, <2>2, <2>3
<1>4. ASSUME NEW q \in DOMAIN quickPolicies
      PROVE  /\ FormPolicy(applyPreset(f, q)) = quickPolicies[q]
             /\ applyPreset(f, q).mode = quickPolicies[q].schedule.mode
    <2>0. /\ Custom \notin {Hour, 15 * Minute, 6 * Hour, 15 * Second} /\ Custom # 0 /\ Custom # 20
          /\ CustomRange # <<Minute, 2 * Minute>> /\ CustomRange # <<Minute, 15 * Minute>>
        BY Times DEF Custom, CustomRange
    <2> DEFINE g == applyPreset(f, q)
    <2>1. CASE q = "standard"
        <3>1. /\ g.durationChoice = Hour /\ g.mode = "random" /\ g.randomChoice = <<Minute, 2 * Minute>>
              /\ g.maxAttemptsChoice = 0 /\ g.honorRetryAfter = TRUE
            BY <2>1 DEF applyPreset, FormTyped, FormFields
        <3> HIDE DEF g
        <3>2. /\ FormDuration(g) = Hour /\ FormAttempts(g) = 0
              /\ FormRange(g.randomChoice, g.customRandom) = <<Minute, 2 * Minute>>
            BY <3>1, <2>0 DEF FormDuration, FormAttempts, FormRange
        <3>3. FormSchedule(g) = [mode |-> "random", minimum |-> Minute, maximum |-> 2 * Minute]
            BY <3>1, <3>2 DEF FormSchedule
        <3>4. FormPolicy(g) = quickPolicies.standard /\ quickPolicies.standard.schedule.mode = "random"
            BY <3>1, <3>2, <3>3 DEF FormPolicy, quickPolicies
        <3> QED
            BY <2>1, <3>1, <3>4 DEF g
    <2>2. CASE q = "fast"
        <3>1. /\ g.durationChoice = 15 * Minute /\ g.mode = "fixed" /\ g.fixedChoice = 15 * Second
              /\ g.maxAttemptsChoice = 20 /\ g.honorRetryAfter = TRUE
            BY <2>2 DEF applyPreset, FormTyped, FormFields
        <3> HIDE DEF g
        <3>2. FormDuration(g) = 15 * Minute /\ FormAttempts(g) = 20 /\ FormInterval(g) = 15 * Second
            BY <3>1, <2>0 DEF FormDuration, FormAttempts, FormInterval
        <3>3. FormSchedule(g) = [mode |-> "fixed", interval |-> 15 * Second]
            BY <3>1, <3>2 DEF FormSchedule
        <3>4. FormPolicy(g) = quickPolicies.fast /\ quickPolicies.fast.schedule.mode = "fixed"
            BY <3>1, <3>2, <3>3 DEF FormPolicy, quickPolicies
        <3> QED
            BY <2>2, <3>1, <3>4 DEF g
    <2>3. CASE q = "conservative"
        <3>1. /\ g.durationChoice = 6 * Hour /\ g.mode = "exponential"
              /\ g.exponentialChoice = <<Minute, 15 * Minute>>
              /\ g.maxAttemptsChoice = 0 /\ g.honorRetryAfter = TRUE
            BY <2>3 DEF applyPreset, FormTyped, FormFields
        <3> HIDE DEF g
        <3>2. /\ FormDuration(g) = 6 * Hour /\ FormAttempts(g) = 0
              /\ FormRange(g.exponentialChoice, g.customExponential) = <<Minute, 15 * Minute>>
            BY <3>1, <2>0 DEF FormDuration, FormAttempts, FormRange
        <3>3. FormSchedule(g) = [mode |-> "exponential", base |-> Minute, maximum |-> 15 * Minute]
            BY <3>1, <3>2 DEF FormSchedule
        <3>4. /\ FormPolicy(g) = quickPolicies.conservative
              /\ quickPolicies.conservative.schedule.mode = "exponential"
            BY <3>1, <3>2, <3>3 DEF FormPolicy, quickPolicies
        <3> QED
            BY <2>3, <3>1, <3>4 DEF g
    <2> QED
        BY <1>1, <2>1, <2>2, <2>3
<1> QED
    BY <1>2, <1>3, <1>4, ValidIsBuilt

\* The retry policy dialog is faithful: what it lets through the server takes,
\* a policy that was not touched is sent as it was, and the quick policies are
\* the presets (policyDefaults and buildPolicy of RetryPolicyDialog.tsx,
\* Validate of retry_policy.go).  For every policy a request may have and
\* whatever an operator types.
THEOREM FormIsFaithful == FormSpec => []FormFaithful
<1>1. FormInit => FormInv
    <2> SUFFICES ASSUME FormInit
                 PROVE  FormTyped(form)
        BY DEF FormInit, FormInv
    <2>1. opened \in RetryPolicies \cup {NoPolicy}
        BY FormAssumption DEF FormInit, Validated
    <2> QED
        BY <2>1, DefaultsTyped DEF FormInit
<1>2. FormInv /\ [FormNext]_formVars => FormInv'
    BY FormStep
<1>3. FormInv => FormFaithful
    <2> SUFFICES ASSUME FormInv
                 PROVE  FormFaithful
        OBVIOUS
    <2>1. FormAccepted
        BY BuiltIsValid DEF FormInv, FormAccepted
    <2>2. UntouchedKept
        <3> SUFFICES ASSUME edits = 0, opened # NoPolicy
                     PROVE  buildPolicy(policyDefaults(opened)) = opened
            BY DEF UntouchedKept, FormInv
        <3>1. opened \in RetryPolicies /\ Validate(opened)
            BY FormAssumption DEF FormInv, Validated
        <3> QED
            BY <3>1, PolicyKept
    <2>3. QuickAgree
        BY QuickBuilt DEF FormInv, QuickAgree
    <2> QED
        BY <2>1, <2>2, <2>3 DEF FormFaithful
<1> QED
    BY <1>1, <1>2, <1>3, PTL DEF FormSpec

------------------------------------------------------------------------------
\* Realtime: nothing is missed by a console that has kept up.

Feeds == [next : Nat, events : Seq(RealtimeEvent), hashes : [Names -> -1 .. MaxChanges]]
Connections == [pc : {"snapshot", "publish", "sync", "page", "wait"}, cursor : Nat, first : BOOLEAN,
                snapshot : RealtimeSnapshot, left : Seq(Names)]

\* The ring: numbers go up to the last one given out, and the newest event of
\* a domain has the value the feed remembers of it.
RingInv(f) ==
    /\ f \in Feeds /\ Len(f.events) <= RingSize
    /\ f.events = <<>> => f.next = 0
    /\ \A i \in DOMAIN f.events : f.events[i].sequence <= f.next
    /\ \A i, j \in DOMAIN f.events : i < j => f.events[i].sequence < f.events[j].sequence
    /\ \A i \in DOMAIN f.events :
          (\A j \in DOMAIN f.events : j > i => f.events[j].type # f.events[i].type)
              => f.hashes[f.events[i].type] = f.events[i].data
    /\ \A d \in Names : f.hashes[d] # -1 => f.next > 0

\* The number after k of the messages on the wire, who wrote the value of a
\* domain, and what it is: message 0 stands for what was received before.
Place(k) == IF k = 0 THEN lastId ELSE wire[k].sequence
Wrote(i, d) == i = 0 \/ d \in DOMAIN wire[i].data
Value(i, d) == IF i = 0 THEN streamed[d] ELSE wire[i].data[d]

\* The ring still has every event after number p, and none is about d.
Current(f, p, d) ==
    /\ p > 0 /\ p >= f.events[1].sequence - 1
    /\ \A i \in DOMAIN f.events : f.events[i].sequence > p => f.events[i].type # d

\* After any number of the messages on the wire, and so also after a loss of
\* the rest, a domain without a newer event has its last value.
Told ==
    \A k \in 0 .. Len(wire), d \in Names :
        Current(feed, Place(k), d) =>
            \A i \in 0 .. k : (Wrote(i, d) /\ \A j \in (i + 1) .. k : d \notin DOMAIN wire[j].data)
                                  => Value(i, d) = feed.hashes[d]

\* The handler's cursor is where the wire ends, and what it has published is
\* what the feed remembers.
ConnInv ==
    /\ conn \in Connections \cup {Off}
    /\ (source = "open") = (conn # Off)
    /\ source # "open" => wire = <<>>
    /\ source = "open" =>
          /\ conn.cursor = Place(Len(wire))
          /\ conn.pc \in {"page", "wait"} => conn.cursor > 0
          /\ ~conn.first => conn.cursor > 0
          /\ conn.pc \in {"sync", "page"} => feed.hashes = conn.snapshot
          /\ conn.pc = "publish" =>
                /\ conn.left # <<>>
                /\ \A d \in Names : d \in Range(conn.left) \/ feed.hashes[d] = conn.snapshot[d]

\* The pages and the bounds.
Budgets == [changes : Nat, drops : Int, toggles : Int, all : Int]
ValuesInv ==
    /\ {current, shown, streamed} \subseteq RealtimeSnapshot
    /\ budget \in Budgets
    /\ \A d \in Names : current[d] + budget.changes <= MaxChanges
    /\ refresh \in {Quiet, [pc |-> "asked"]} \cup [pc : {"read"}, data : RealtimeSnapshot]

WireInv ==
    /\ wire \in Seq(Message) /\ lastId \in Nat
    /\ \A k \in 0 .. Len(wire) : Place(k) <= feed.next

StreamInv == RingInv(feed) /\ Told /\ ConnInv /\ ValuesInv /\ WireInv

\* What is left of the bounds after a change, a lost connection or a toggle.
LEMMA BudgetSpent ==
    ASSUME NEW b \in Budgets, NEW c
    PROVE  /\ (b.changes > 0 /\ c = [b EXCEPT !.changes = @ - 1, !.all = @ - 1]) =>
                 c \in Budgets /\ c.changes = b.changes - 1
           /\ c = [b EXCEPT !.drops = @ - 1, !.all = @ - 1] => c \in Budgets /\ c.changes = b.changes
           /\ c = [b EXCEPT !.toggles = @ - 1, !.all = @ - 1] => c \in Budgets /\ c.changes = b.changes
<1>1. b = [changes |-> b.changes, drops |-> b.drops, toggles |-> b.toggles, all |-> b.all]
    BY DEF Budgets
<1>2. /\ b.changes \in Nat /\ b.changes - 1 \in Int /\ b.drops - 1 \in Int /\ b.toggles - 1 \in Int
      /\ b.all - 1 \in Int /\ b.drops \in Int /\ b.toggles \in Int
      /\ b.changes > 0 => b.changes - 1 \in Nat
    BY DEF Budgets
<1>3. ASSUME b.changes > 0, c = [b EXCEPT !.changes = @ - 1, !.all = @ - 1]
      PROVE  c \in Budgets /\ c.changes = b.changes - 1
    <2>1. c = [changes |-> b.changes - 1, drops |-> b.drops, toggles |-> b.toggles, all |-> b.all - 1]
        BY <1>1, <1>3
    <2> QED
        BY <1>2, <1>3, <2>1 DEF Budgets
<1>4. ASSUME c = [b EXCEPT !.drops = @ - 1, !.all = @ - 1]
      PROVE  c \in Budgets /\ c.changes = b.changes
    <2>1. c = [changes |-> b.changes, drops |-> b.drops - 1, toggles |-> b.toggles, all |-> b.all - 1]
        BY <1>1, <1>4
    <2> QED
        BY <1>2, <2>1 DEF Budgets
<1>5. ASSUME c = [b EXCEPT !.toggles = @ - 1, !.all = @ - 1]
      PROVE  c \in Budgets /\ c.changes = b.changes
    <2>1. c = [changes |-> b.changes, drops |-> b.drops, toggles |-> b.toggles - 1, all |-> b.all - 1]
        BY <1>1, <1>5
    <2> QED
        BY <1>2, <2>1 DEF Budgets
<1> QED
    BY <1>3, <1>4, <1>5

\* What publishing an event does to the ring: it is behind the others, and
\* what fell off was the oldest.
Took(f, g, d, data) ==
    \/ g = f
    \/ /\ g.next = f.next + 1
       /\ \E lost \in 0 .. Len(f.events) :
             /\ Len(g.events) = Len(f.events) - lost + 1
             /\ \A i \in 1 .. (Len(f.events) - lost) : g.events[i] = f.events[i + lost]
             /\ g.events[Len(g.events)] = [sequence |-> f.next + 1, type |-> d, data |-> data]
LEMMA Published ==
    ASSUME NEW f, RingInv(f), NEW d \in Names, NEW data \in 0 .. MaxChanges
    PROVE  /\ RingInv(publishData(f, d, data))
           /\ publishData(f, d, data).hashes = [f.hashes EXCEPT ![d] = data]
           /\ Took(f, publishData(f, d, data), d, data)
<1> DEFINE event == [sequence |-> f.next + 1, type |-> d, data |-> data]
           all == Append(f.events, event)
           over == Len(all) - RingSize
           ring == IF over > 0 THEN SubSeq(all, over + 1, Len(all)) ELSE all
           g == publishData(f, d, data)
<1>1. /\ f.next \in Nat /\ f.events \in Seq(RealtimeEvent) /\ f.hashes \in [Names -> -1 .. MaxChanges]
      /\ f \in Feeds /\ RingSize \in Nat \ {0}
    BY RealtimeAssumption DEF RingInv, Feeds
<1>2. CASE f.hashes[d] = data
    <2>1. publishData(f, d, data) = f /\ f.hashes = [f.hashes EXCEPT ![d] = data]
        BY <1>1, <1>2 DEF publishData
    <2> QED
        BY <2>1 DEF Took
<1>3. CASE f.hashes[d] # data
    <2>1. g = [next |-> f.next + 1, events |-> ring, hashes |-> [f.hashes EXCEPT ![d] = data]]
        BY <1>3 DEF publishData
    <2>2. event \in RealtimeEvent /\ event.sequence = f.next + 1 /\ event.type = d /\ event.data = data
        BY <1>1 DEF RealtimeEvent
    <2> HIDE DEF event
    <2>3. /\ all \in Seq(RealtimeEvent) /\ Len(all) = Len(f.events) + 1 /\ Len(f.events) \in Nat
          /\ all[Len(f.events) + 1] = event
          /\ \A i \in 1 .. Len(f.events) : all[i] = f.events[i]
        BY <1>1, <2>2, AppendProperties
    <2> HIDE DEF all
    <2>4. PICK lost \in 0 .. Len(f.events) :
             /\ ring \in Seq(RealtimeEvent)
             /\ Len(ring) = Len(f.events) - lost + 1 /\ Len(ring) <= RingSize
             /\ \A i \in 1 .. (Len(f.events) - lost + 1) : ring[i] = all[i + lost]
        <3> DEFINE n == Len(f.events)
        <3>0. over = n + 1 - RingSize /\ n \in Nat /\ n <= RingSize /\ Len(all) = n + 1
            BY <1>1, <2>3 DEF RingInv
        <3>1. ring = IF over > 0 THEN SubSeq(all, over + 1, Len(all)) ELSE all
            OBVIOUS
        <3>2. \A i \in 1 .. n : all[i] = f.events[i]
            BY <2>3
        <3> HIDE DEF n, over, ring
        <3>3. CASE over > 0
            <4>1. over + 1 \in 1 .. (Len(all) + 1) /\ Len(all) \in 0 .. Len(all) /\ over + 1 <= Len(all) + 1
                BY <3>0, <3>3, <1>1
            <4> DEFINE from == over + 1
            <4>2. ring = SubSeq(all, from, Len(all))
                BY <3>1, <3>3
            <4>3. from \in 1 .. (Len(all) + 1) /\ from <= Len(all) + 1
                BY <4>1
            <4> HIDE DEF from
            <4>4. /\ ring \in Seq(RealtimeEvent) /\ Len(ring) = Len(all) - from + 1
                  /\ \A j \in 1 .. (Len(all) - from + 1) : ring[j] = all[j + from - 1]
                BY <4>1, <4>2, <4>3, <2>3, Section
            <4>5. /\ over \in 0 .. n /\ Len(all) - from + 1 = n - over + 1 /\ n - over + 1 <= RingSize
                  /\ \A j \in 1 .. (n - over + 1) : j + from - 1 = j + over
                BY <3>0, <3>3, <1>1 DEF from
            <4>6. /\ Len(ring) = n - over + 1
                  /\ \A i \in 1 .. (n - over + 1) : ring[i] = all[i + over]
                BY <4>4, <4>5
            <4> QED
                BY <4>4, <4>5, <4>6 DEF n
        <3>4. CASE ~(over > 0)
            <4>1. ring = all
                BY <3>1, <3>4
            <4>2. Len(all) <= RingSize /\ 0 \in 0 .. n /\ n - 0 + 1 = n + 1
                BY <3>0, <3>4, <1>1
            <4>3. \A i \in 1 .. (n - 0 + 1) : i + 0 = i
                OBVIOUS
            <4>4. /\ ring \in Seq(RealtimeEvent) /\ Len(ring) = n - 0 + 1 /\ Len(ring) <= RingSize
                  /\ \A i \in 1 .. (n - 0 + 1) : ring[i] = all[i + 0]
                BY <4>1, <4>2, <4>3, <2>3, <3>0
            <4> QED
                BY <4>2, <4>4 DEF n
        <3> QED
            BY <3>3, <3>4
    <2> HIDE DEF ring
    <2> DEFINE n == Len(f.events)
    <2>5. /\ n \in Nat /\ lost \in 0 .. n /\ Len(ring) = n - lost + 1 /\ Len(ring) \in Nat /\ Len(ring) > 0
          /\ DOMAIN ring = 1 .. Len(ring) /\ DOMAIN f.events = 1 .. n
          /\ all[n + 1] = event /\ \A i \in 1 .. n : all[i] = f.events[i]
          /\ \A i \in 1 .. (n - lost + 1) : ring[i] = all[i + lost]
        BY <2>3, <2>4
    <2> HIDE DEF n
    <2>6. /\ ring[Len(ring)] = event
          /\ \A i \in 1 .. (n - lost) : i + lost \in 1 .. n /\ ring[i] = f.events[i + lost]
        <3>1. Len(ring) + lost = n + 1 /\ Len(ring) \in 1 .. (n - lost + 1)
            BY <2>5
        <3>2. \A i \in 1 .. (n - lost) : i + lost \in 1 .. n /\ i \in 1 .. (n - lost + 1)
            BY <2>5
        <3> QED
            BY <3>1, <3>2, <2>5
    <2>e. \A i \in DOMAIN ring : \/ i = Len(ring) /\ ring[i] = event
                                 \/ /\ i < Len(ring) /\ i + lost \in DOMAIN f.events
                                    /\ ring[i] = f.events[i + lost]
        <3> SUFFICES ASSUME NEW i \in DOMAIN ring, i # Len(ring)
                     PROVE  i < Len(ring) /\ i \in 1 .. (n - lost)
            BY <2>5, <2>6
        <3> QED
            BY <2>5
    <2>t. \A i \in DOMAIN f.events :
              /\ f.events[i].sequence \in Nat /\ f.events[i].sequence <= f.next
              /\ f.events[i].type \in Names
              /\ (\A j \in DOMAIN f.events : j > i => f.events[j].type # f.events[i].type)
                    => f.hashes[f.events[i].type] = f.events[i].data
        <3>1. \A i \in DOMAIN f.events : f.events[i] \in RealtimeEvent
            BY <1>1
        <3>2. \A e \in RealtimeEvent : e.sequence \in Nat /\ e.type \in Names
            BY DEF RealtimeEvent
        <3> QED
            BY <3>1, <3>2 DEF RingInv
    <2>7. g \in Feeds /\ Len(ring) <= RingSize /\ ring # <<>>
        BY <1>1, <2>1, <2>2, <2>4, <2>5, SMTT(60) DEF Feeds
    <2>8. \A i \in DOMAIN ring : ring[i].sequence <= f.next + 1
        BY <1>1, <2>2, <2>e, <2>t, SMTT(60)
    <2>9. \A i, j \in DOMAIN ring : i < j => ring[i].sequence < ring[j].sequence
        <3> SUFFICES ASSUME NEW i \in DOMAIN ring, NEW j \in DOMAIN ring, i < j
                     PROVE  ring[i].sequence < ring[j].sequence
            OBVIOUS
        <3>1. i < Len(ring) /\ i + lost \in DOMAIN f.events /\ ring[i] = f.events[i + lost]
            BY <2>5, <2>e
        <3>2. CASE j = Len(ring)
            <4>1. f.events[i + lost].sequence <= f.next /\ f.events[i + lost].sequence \in Nat
                BY <3>1, <2>t
            <4> QED
                BY <3>1, <3>2, <4>1, <2>2, <2>6, <1>1
        <3>3. CASE j < Len(ring)
            <4>1. j + lost \in DOMAIN f.events /\ ring[j] = f.events[j + lost] /\ i + lost < j + lost
                BY <3>3, <2>5, <2>e
            <4>2. \A a, b \in DOMAIN f.events : a < b => f.events[a].sequence < f.events[b].sequence
                BY DEF RingInv
            <4> QED
                BY <3>1, <4>1, <4>2, Zenon
        <3>4. j = Len(ring) \/ j < Len(ring)
            <4>1. j \in 1 .. Len(ring) /\ Len(ring) \in Nat
                BY <2>5
            <4> QED
                BY <4>1
        <3> QED
            BY <3>2, <3>3, <3>4
    <2>10. ASSUME NEW i \in DOMAIN ring, \A j \in DOMAIN ring : j > i => ring[j].type # ring[i].type
           PROVE  g.hashes[ring[i].type] = ring[i].data
        <3>1. CASE i = Len(ring)
            BY <3>1, <2>1, <2>2, <2>5, <1>1
        <3>2. CASE i < Len(ring)
            <4>1. i + lost \in DOMAIN f.events /\ ring[i] = f.events[i + lost]
                BY <3>2, <2>e, <2>5
            <4>2. ring[i].type # d
                BY <3>2, <2>2, <2>5, <2>10
            <4>3. \A j \in DOMAIN f.events : j > i + lost => f.events[j].type # f.events[i + lost].type
                <5> SUFFICES ASSUME NEW j \in DOMAIN f.events, j > i + lost
                             PROVE  f.events[j].type # ring[i].type
                    BY <4>1
                <5>1. /\ j - lost \in 1 .. (n - lost) /\ j - lost > i
                      /\ j - lost \in DOMAIN ring /\ (j - lost) + lost = j
                    BY <2>5
                <5>2. ring[j - lost] = f.events[j]
                    BY <5>1, <2>6
                <5> QED
                    BY <5>1, <5>2, <2>10
            <4>4. f.hashes[ring[i].type] = ring[i].data /\ ring[i].type \in Names
                BY <4>1, <4>3, <2>t
            <4> QED
                BY <4>2, <4>4, <2>1, <1>1
        <3> QED
            BY <3>1, <3>2, <2>5
    <2>11. RingInv(g)
        BY <1>1, <2>1, <2>7, <2>8, <2>9, <2>10 DEF RingInv
    <2>12. /\ Len(ring) = Len(f.events) - lost + 1
           /\ \A i \in 1 .. (Len(f.events) - lost) : ring[i] = f.events[i + lost]
           /\ ring[Len(ring)] = event
        BY <2>4, <2>6 DEF n
    <2>13. g.events = ring /\ g.next = f.next + 1 /\ g.hashes = [f.hashes EXCEPT ![d] = data]
        BY <2>1
    <2> HIDE DEF g
    <2>14. \E gone \in 0 .. Len(f.events) :
              /\ Len(g.events) = Len(f.events) - gone + 1
              /\ \A i \in 1 .. (Len(f.events) - gone) : g.events[i] = f.events[i + gone]
              /\ g.events[Len(g.events)] = event
        BY <2>12, <2>13
    <2>15. Took(f, g, d, data)
        BY <2>13, <2>14 DEF event, Took
    <2> QED
        BY <2>11, <2>13, <2>15 DEF g
<1> QED
    BY <1>2, <1>3

\* The ring stays one, whatever is published, and remembers it.
LEMMA PublishedRing ==
    ASSUME NEW f, RingInv(f), NEW d \in Names, NEW data \in 0 .. MaxChanges
    PROVE  /\ RingInv(publishData(f, d, data))
           /\ publishData(f, d, data).hashes = [f.hashes EXCEPT ![d] = data]
           /\ publishData(f, d, data) = f \/ publishData(f, d, data).next = f.next + 1
<1> DEFINE g == publishData(f, d, data)
<1>1. RingInv(g)
    BY Published
<1>2. g.hashes = [f.hashes EXCEPT ![d] = data] /\ Took(f, g, d, data)
    BY Published
<1> HIDE DEF g
<1>3. /\ RingInv(g) /\ g.hashes = [f.hashes EXCEPT ![d] = data]
      /\ g = f \/ g.next = f.next + 1
    BY <1>1, <1>2 DEF Took
<1> QED
    BY <1>3 DEF g

\* What is current after a publication was current before it, and its value
\* is still the last one.
LEMMA PublishedCurrent ==
    ASSUME NEW f, RingInv(f), NEW e \in Names, NEW data \in 0 .. MaxChanges,
           NEW p \in Nat, p <= f.next, NEW d \in Names,
           Current(publishData(f, e, data), p, d)
    PROVE  Current(f, p, d) /\ publishData(f, e, data).hashes[d] = f.hashes[d]
<1> DEFINE g == publishData(f, e, data)
<1>0. g.hashes = [f.hashes EXCEPT ![e] = data] /\ Took(f, g, e, data)
    BY Published
<1> HIDE DEF g
<1> DEFINE n == Len(f.events)
           m == Len(g.events)
<1>1. /\ g.hashes = [f.hashes EXCEPT ![e] = data]
      /\ \/ g = f
         \/ /\ g.next = f.next + 1
            /\ \E lost \in 0 .. n : /\ m = n - lost + 1
                                    /\ \A i \in 1 .. (n - lost) : g.events[i] = f.events[i + lost]
                                    /\ g.events[m] = [sequence |-> f.next + 1, type |-> e, data |-> data]
    BY <1>0 DEF Took
<1>t. /\ f.next \in Nat /\ f.hashes \in [Names -> -1 .. MaxChanges]
      /\ \A i \in DOMAIN f.events : f.events[i].sequence \in Nat /\ f.events[i].sequence <= f.next
      /\ \A a, b \in DOMAIN f.events : a < b => f.events[a].sequence < f.events[b].sequence
      /\ f.events = <<>> => f.next = 0
      /\ n \in Nat /\ DOMAIN f.events = 1 .. n /\ (n = 0 => f.events = <<>>)
    <2>1. f.next \in Nat /\ f.hashes \in [Names -> -1 .. MaxChanges] /\ f.events \in Seq(RealtimeEvent)
        BY DEF RingInv, Feeds
    <2>2. \A x \in RealtimeEvent : x.sequence \in Nat
        BY DEF RealtimeEvent
    <2>3. \A i \in DOMAIN f.events : f.events[i].sequence \in Nat
        BY <2>1, <2>2
    <2>4. n \in Nat /\ DOMAIN f.events = 1 .. n /\ (n = 0 => f.events = <<>>)
        BY <2>1
    <2> QED
        BY <2>1, <2>3, <2>4, Zenon DEF RingInv
<1>g. RingInv(g)
    BY Published DEF g
<1>c. /\ p > 0 /\ p >= g.events[1].sequence - 1
      /\ \A i \in DOMAIN g.events : g.events[i].sequence > p => g.events[i].type # d
    BY DEF Current, g
<1>2. CASE g = f
    BY <1>2 DEF Current, g
<1>3. CASE g # f
    <2>0. DOMAIN g.events = 1 .. m /\ m \in Nat
        <3>1. g.events \in Seq(RealtimeEvent)
            BY <1>g DEF RingInv, Feeds
        <3> QED
            BY <3>1
    <2> HIDE DEF g, n, m
    <2>1. PICK lost \in 0 .. n : /\ m = n - lost + 1
                                 /\ \A i \in 1 .. (n - lost) : g.events[i] = f.events[i + lost]
                                 /\ g.events[m] = [sequence |-> f.next + 1, type |-> e, data |-> data]
        BY <1>1, <1>3
    <2>2. n > 0
        BY <1>t, <1>c
    <2>3. /\ m \in DOMAIN g.events /\ g.events[m].sequence = f.next + 1 /\ g.events[m].type = e
        BY <2>0, <2>1, <1>t
    <2>4. d # e /\ g.hashes[d] = f.hashes[d]
        BY <2>3, <1>1, <1>c, <1>t
    <2>5. \A i \in 1 .. lost : f.events[i].sequence <= p
        <3> SUFFICES ASSUME NEW i \in 1 .. lost
                     PROVE  f.events[i].sequence <= p
            OBVIOUS
        <3>1. i \in DOMAIN f.events /\ f.events[i].sequence \in Nat /\ f.events[i].sequence <= f.next
            BY <1>t
        <3>2. CASE lost = n
            <4>1. g.events[1].sequence = f.next + 1
                BY <3>2, <2>1, <2>3, <1>t
            <4> QED
                BY <4>1, <3>1, <1>c, <1>t
        <3>3. CASE lost < n
            <4>1. 1 \in 1 .. (n - lost) /\ 1 + lost \in DOMAIN f.events /\ i < 1 + lost
                BY <3>3, <1>t
            <4>2. g.events[1] = f.events[1 + lost] /\ f.events[i].sequence < f.events[1 + lost].sequence
                  /\ f.events[1 + lost].sequence \in Nat
                BY <4>1, <3>1, <2>1, <1>t
            <4> QED
                BY <4>2, <3>1, <1>c
        <3> QED
            BY <3>2, <3>3, <1>t
    <2>6. p >= f.events[1].sequence - 1
        <3>1. 1 \in DOMAIN f.events /\ f.events[1].sequence \in Nat
            BY <2>2, <1>t
        <3>2. CASE lost = 0
            <4>1. 1 \in 1 .. (n - lost) /\ 1 + lost = 1
                BY <3>2, <2>2, <1>t
            <4> QED
                BY <4>1, <2>1, <1>c
        <3>3. CASE lost > 0
            BY <3>1, <3>3, <2>5
        <3> QED
            BY <3>2, <3>3
    <2>7. \A i \in DOMAIN f.events : f.events[i].sequence > p => f.events[i].type # d
        <3> SUFFICES ASSUME NEW i \in DOMAIN f.events, f.events[i].sequence > p
                     PROVE  f.events[i].type # d
            OBVIOUS
        <3>1. f.events[i].sequence \in Nat
            BY <1>t
        <3>2. i > lost
            BY <2>5, <1>t, <3>1
        <3>3. i - lost \in 1 .. (n - lost) /\ (i - lost) + lost = i /\ i - lost \in DOMAIN g.events
            BY <3>2, <1>t, <2>0, <2>1, SMTT(60)
        <3>4. g.events[i - lost] = f.events[i]
            BY <3>3, <2>1
        <3> QED
            BY <3>3, <3>4, <1>c
    <2>8. Current(f, p, d)
        BY <2>6, <2>7, <1>c DEF Current
    <2> QED
        BY <2>4, <2>8 DEF g
<1> QED
    BY <1>2, <1>3

\* Messages on the wire are about domains, and a domain named has a value.
LEMMA WireTyped ==
    ASSUME WireInv, NEW i \in 1 .. Len(wire)
    PROVE  /\ wire[i] \in Message /\ wire[i].sequence \in Nat
           /\ DOMAIN wire[i].data \in SUBSET Names
           /\ \A d \in DOMAIN wire[i].data : wire[i].data[d] \in 0 .. MaxChanges
<1>1. wire[i] \in Message
    BY DEF WireInv
<1>2. \A message \in Message : /\ message.sequence \in Nat
                               /\ \E S \in SUBSET Names : message.data \in [S -> 0 .. MaxChanges]
    BY DEF Message
<1> QED
    BY <1>1, <1>2

\* Publishing: the wire stays, and what it tells still is the last of every
\* domain that has no newer event.
LEMMA PublishStep ==
    ASSUME StreamInv, publishRealtime
    PROVE  StreamInv'
<1> DEFINE d0 == Head(conn.left)
           x0 == conn.snapshot[d0]
<1>1. /\ conn \in Connections /\ conn.pc = "publish" /\ source = "open" /\ conn.left # <<>>
      /\ conn.snapshot \in RealtimeSnapshot /\ conn.left \in Seq(Names)
    BY DEF StreamInv, ConnInv, publishRealtime, Off, Connections
<1>2. d0 \in Names /\ x0 \in 0 .. MaxChanges
    BY <1>1, HeadTailProperties DEF RealtimeSnapshot
<1> HIDE DEF d0, x0
<1>3. feed' = publishData(feed, d0, x0)
    BY DEF publishRealtime, d0, x0
<1>4. /\ RingInv(feed') /\ feed'.hashes = [feed.hashes EXCEPT ![d0] = x0] /\ feed.hashes \in [Names -> -1 .. MaxChanges]
      /\ feed'.next \in Nat /\ feed.next \in Nat /\ feed'.next >= feed.next
    <2>1. /\ RingInv(feed') /\ feed'.hashes = [feed.hashes EXCEPT ![d0] = x0]
          /\ feed' = feed \/ feed'.next = feed.next + 1
        <3>1. /\ RingInv(publishData(feed, d0, x0))
              /\ publishData(feed, d0, x0).hashes = [feed.hashes EXCEPT ![d0] = x0]
              /\ publishData(feed, d0, x0) = feed \/ publishData(feed, d0, x0).next = feed.next + 1
            <4>1. RingInv(feed)
                BY DEF StreamInv
            <4> QED
                BY <4>1, <1>2, PublishedRing
        <3> QED
            BY <3>1, <1>3
    <2>2. feed.hashes \in [Names -> -1 .. MaxChanges] /\ feed.next \in Nat
        BY DEF StreamInv, RingInv, Feeds
    <2> QED
        BY <2>1, <2>2
<1>5. UNCHANGED <<current, wire, source, lastId, streamed, shown, refresh, budget>>
    BY DEF publishRealtime
<1>p. \A k \in 0 .. Len(wire) : Place(k)' = Place(k) /\ Place(k) \in Nat /\ Place(k) <= feed.next
    <2>1. \A k \in 0 .. Len(wire) : Place(k)' = Place(k) /\ Place(k) <= feed.next
        BY <1>5 DEF Place, StreamInv, WireInv
    <2>2. \A k \in 0 .. Len(wire) : k = 0 \/ k \in 1 .. Len(wire)
        BY DEF StreamInv, WireInv
    <2>3. \A k \in 1 .. Len(wire) : wire[k].sequence \in Nat
        BY WireTyped DEF StreamInv
    <2>4. lastId \in Nat
        BY DEF StreamInv, WireInv
    <2> QED
        BY <2>1, <2>2, <2>3, <2>4 DEF Place
<1>6. WireInv'
    BY <1>4, <1>5, <1>p DEF StreamInv, WireInv
<1>7. ValuesInv'
    BY <1>5 DEF StreamInv, ValuesInv
<1>8. Told'
    <2> SUFFICES ASSUME NEW k \in 0 .. Len(wire), NEW d \in Names, Current(feed', Place(k), d),
                        NEW i \in 0 .. k, Wrote(i, d),
                        \A j \in (i + 1) .. k : d \notin DOMAIN wire[j].data
                 PROVE  Value(i, d) = feed'.hashes[d]
        BY <1>5, <1>p DEF Told, Wrote, Value
    <2>1. Current(feed, Place(k), d) /\ feed'.hashes[d] = feed.hashes[d]
        BY <1>2, <1>3, <1>p, PublishedCurrent DEF StreamInv
    <2> QED
        BY <2>1 DEF StreamInv, Told
<1>9. ConnInv'
    <2> DEFINE goes == IF Len(conn.left) > 1 THEN "publish"
                       ELSE IF ~conn.first THEN "page"
                       ELSE IF conn.cursor = 0 THEN "sync" ELSE "wait"
    <2>1. conn' = [conn EXCEPT !.left = Tail(@), !.pc = goes]
        BY DEF publishRealtime
    <2>2. goes \in {"publish", "page", "sync", "wait"}
        OBVIOUS
    <2>3. Tail(conn.left) \in Seq(Names) /\ Len(Tail(conn.left)) = Len(conn.left) - 1 /\ Len(conn.left) \in Nat
          /\ Range(conn.left) \subseteq Range(Tail(conn.left)) \cup {d0}
          /\ (Len(conn.left) = 1 => Tail(conn.left) = <<>> /\ Range(conn.left) = {d0})
        <3>1. /\ Tail(conn.left) \in Seq(Names) /\ Len(Tail(conn.left)) = Len(conn.left) - 1
              /\ \A j \in 1 .. Len(Tail(conn.left)) : Tail(conn.left)[j] = conn.left[j + 1]
              /\ Len(conn.left) \in Nat /\ DOMAIN conn.left = 1 .. Len(conn.left)
              /\ DOMAIN Tail(conn.left) = 1 .. Len(Tail(conn.left)) /\ conn.left[1] = d0
            BY <1>1, HeadTailProperties DEF d0
        <3>2. \A j \in DOMAIN conn.left : j = 1 \/ (j - 1 \in DOMAIN Tail(conn.left)
                                                    /\ conn.left[j] = Tail(conn.left)[j - 1])
            <4> SUFFICES ASSUME NEW j \in DOMAIN conn.left, j # 1
                         PROVE  j - 1 \in 1 .. Len(Tail(conn.left)) /\ (j - 1) + 1 = j
                BY <3>1
            <4> QED
                BY <3>1
        <3>3. Range(conn.left) \subseteq Range(Tail(conn.left)) \cup {d0}
            <4> SUFFICES ASSUME NEW j \in DOMAIN conn.left
                         PROVE  conn.left[j] \in Range(Tail(conn.left)) \cup {d0}
                BY DEF Range
            <4>1. CASE j = 1
                BY <4>1, <3>1
            <4>2. CASE j # 1
                <5>1. j - 1 \in DOMAIN Tail(conn.left) /\ conn.left[j] = Tail(conn.left)[j - 1]
                    BY <4>2, <3>2
                <5>2. Tail(conn.left)[j - 1] \in Range(Tail(conn.left))
                    BY <5>1 DEF Range
                <5> QED
                    BY <5>1, <5>2
            <4> QED
                BY <4>1, <4>2
        <3>4. Len(conn.left) = 1 => Tail(conn.left) = <<>> /\ Range(conn.left) = {d0}
            <4> SUFFICES ASSUME Len(conn.left) = 1
                         PROVE  Tail(conn.left) = <<>> /\ Range(conn.left) = {d0}
                OBVIOUS
            <4>1. DOMAIN conn.left = {1}
                BY <3>1
            <4>2. Range(conn.left) = {d0}
                BY <4>1, <3>1 DEF Range
            <4>3. Len(Tail(conn.left)) = 0 /\ Tail(conn.left) \in Seq(Names)
                BY <3>1
            <4>4. Tail(conn.left) = <<>>
                BY <4>3, EmptySeq
            <4> QED
                BY <4>2, <4>4
        <3> QED
            BY <3>1, <3>3, <3>4
    <2>l. Len(conn.left) \in Nat /\ Len(conn.left) # 0
        BY <1>1, <2>3, EmptySeq
    <2>n. IF Len(conn.left) > 1 THEN goes = "publish" ELSE Len(conn.left) = 1 /\ goes # "publish"
        <3>1. ~(Len(conn.left) > 1) => Len(conn.left) = 1
            <4>1. PICK n \in Nat : n = Len(conn.left)
                BY <2>l
            <4>2. n # 0
                BY <4>1, <2>l
            <4>3. ~(n > 1) => n = 1
                BY <4>2
            <4> QED
                BY <4>1, <4>3, Zenon
        <3>2. Len(conn.left) > 1 => goes = "publish"
            OBVIOUS
        <3>3. ~(Len(conn.left) > 1) => goes \in {"page", "sync", "wait"}
            OBVIOUS
        <3> HIDE DEF goes
        <3> QED
            BY <3>1, <3>2, <3>3
    <2> HIDE DEF goes
    <2>4. /\ conn' \in Connections /\ conn'.cursor = conn.cursor /\ conn'.first = conn.first
          /\ conn'.snapshot = conn.snapshot /\ conn'.left = Tail(conn.left) /\ conn'.pc = goes
        BY <1>1, <2>1, <2>2, <2>3 DEF Connections
    <2>5. conn' # Off
        BY <2>2, <2>4 DEF Off
    <2>6. \A d \in Names : d \in Range(Tail(conn.left)) \/ feed'.hashes[d] = conn.snapshot[d]
        <3> SUFFICES ASSUME NEW d \in Names
                     PROVE  d \in Range(Tail(conn.left)) \/ feed'.hashes[d] = conn.snapshot[d]
            OBVIOUS
        <3>1. CASE d = d0
            BY <3>1, <1>4 DEF x0
        <3>2. CASE d # d0
            BY <3>2, <1>1, <1>4, <2>3 DEF StreamInv, ConnInv
        <3> QED
            BY <3>1, <3>2
    <2>7. goes # "publish" => feed'.hashes = conn.snapshot
        <3> SUFFICES ASSUME goes # "publish"
                     PROVE  feed'.hashes = conn.snapshot
            OBVIOUS
        <3>1. Len(conn.left) = 1
            BY <2>n
        <3>2. Range(Tail(conn.left)) = {}
            BY <3>1, <2>3 DEF Range
        <3>3. \A d \in Names : feed'.hashes[d] = conn.snapshot[d]
            BY <3>2, <2>6
        <3>4. conn.snapshot \in [Names -> 0 .. MaxChanges] /\ feed'.hashes \in [Names -> -1 .. MaxChanges]
            BY <1>1, <1>2, <1>4 DEF RealtimeSnapshot
        <3> QED
            BY <3>3, <3>4
    <2>8. goes = "publish" => Tail(conn.left) # <<>>
        <3>1. goes = "publish" => Len(Tail(conn.left)) > 0
            BY <2>n, <2>3
        <3> QED
            BY <3>1
    <2>9. conn.cursor \in Nat /\ (goes \in {"page", "wait"} => conn.cursor > 0) /\ (~conn.first => conn.cursor > 0)
        BY <1>1 DEF goes, StreamInv, ConnInv, Connections
    <2>10. conn'.cursor = Place(Len(wire))'
        BY <1>1, <1>5, <1>p, <2>4 DEF StreamInv, ConnInv, Place
    <2> QED
        BY <1>1, <1>5, <2>4, <2>5, <2>6, <2>7, <2>8, <2>9, <2>10 DEF ConnInv
<1> QED
    BY <1>4, <1>6, <1>7, <1>8, <1>9 DEF StreamInv


\* What is written to the wire goes behind what is there.
Extended(n, s) ==
    /\ wire' \in Seq(Message) /\ n \in Nat /\ Len(wire') = n + Len(s)
    /\ \A i \in 0 .. n : Place(i)' = Place(i)
    /\ \A i \in 0 .. n, d \in Names : (Wrote(i, d)' <=> Wrote(i, d)) /\ Value(i, d)' = Value(i, d)
    /\ \A i \in 1 .. n : wire'[i] = wire[i]
    /\ \A q \in 1 .. Len(s), k \in Nat : k = n + q =>
          /\ wire'[k] = s[q] /\ Place(k)' = s[q].sequence
          /\ \A d \in Names : /\ Wrote(k, d)' <=> d \in DOMAIN s[q].data
                              /\ Value(k, d)' = s[q].data[d]

\* A handler that writes leaves alone what is on the wire.
LEMMA WireExtended ==
    ASSUME WireInv, NEW s \in Seq(Message), wire' = wire \o s, UNCHANGED <<lastId, streamed>>,
           NEW n, n = Len(wire)
    PROVE  Extended(n, s)
<1> DEFINE new == wire'
<1>1. wire \in Seq(Message) /\ n \in Nat /\ Len(s) \in Nat
    BY DEF WireInv
<1>2. /\ new \in Seq(Message) /\ Len(new) = n + Len(s)
      /\ \A i \in 1 .. (n + Len(s)) : new[i] = IF i <= n THEN wire[i] ELSE s[i - n]
    BY <1>1, ConcatProperties
<1>3. \A i \in 1 .. n : new[i] = wire[i]
    BY <1>1, <1>2
<1>4. \A q \in 1 .. Len(s) : n + q \in 1 .. (n + Len(s)) /\ ~(n + q <= n) /\ (n + q) - n = q /\ n + q # 0
    BY <1>1
<1>5. \A q \in 1 .. Len(s) : new[n + q] = s[q]
    BY <1>2, <1>4
<1>6. \A i \in 0 .. n : i = 0 \/ i \in 1 .. n
    BY <1>1
<1>7. \A i \in 0 .. n : Place(i)' = Place(i)
    BY <1>3, <1>6 DEF Place
<1>8. \A i \in 0 .. n, d \in Names : (Wrote(i, d)' <=> Wrote(i, d)) /\ Value(i, d)' = Value(i, d)
    BY <1>3, <1>6 DEF Wrote, Value
<1>9. ASSUME NEW q \in 1 .. Len(s), NEW k \in Nat, k = n + q
      PROVE  /\ wire'[k] = s[q] /\ Place(k)' = s[q].sequence
             /\ \A d \in Names : /\ Wrote(k, d)' <=> d \in DOMAIN s[q].data
                                 /\ Value(k, d)' = s[q].data[d]
    <2>1. wire'[k] = s[q] /\ k # 0
        BY <1>4, <1>5, <1>9
    <2> QED
        BY <2>1 DEF Place, Wrote, Value
<1> QED
    BY <1>1, <1>2, <1>3, <1>7, <1>8, <1>9 DEF Extended

\* A message with every domain, at the last number: what it says is what the
\* feed remembers.
LEMMA WholeSent ==
    ASSUME StreamInv, conn \in Connections, feed.hashes = conn.snapshot,
           UNCHANGED <<feed, lastId, streamed>>,
           wire' = wire \o <<[sequence |-> feed.next, data |-> conn.snapshot]>>
    PROVE  WireInv' /\ Told' /\ feed.next > 0 /\ Place(Len(wire))' = feed.next
<1> DEFINE m == [sequence |-> feed.next, data |-> conn.snapshot]
<1>1. feed.next \in Nat /\ conn.snapshot \in [Names -> 0 .. MaxChanges]
    BY DEF StreamInv, RingInv, Feeds, Connections, RealtimeSnapshot
<1>2. m \in Message /\ m.sequence = feed.next /\ m.data = conn.snapshot /\ DOMAIN m.data = Names
    BY <1>1 DEF Message
<1> HIDE DEF m
<1>n. PICK n \in Nat : n = Len(wire)
    BY DEF StreamInv, WireInv
<1>3. /\ wire' \in Seq(Message) /\ Len(wire') = n + 1
      /\ \A i \in 0 .. n : Place(i)' = Place(i)
      /\ \A i \in 0 .. n, d \in Names : (Wrote(i, d)' <=> Wrote(i, d)) /\ Value(i, d)' = Value(i, d)
      /\ \A i \in 1 .. n : wire'[i] = wire[i]
      /\ \A k \in Nat : k = n + 1 => /\ wire'[k] = m /\ Place(k)' = m.sequence
                                     /\ \A d \in Names : Value(k, d)' = m.data[d]
    <2> DEFINE s == <<m>>
    <2>1. s \in Seq(Message) /\ Len(s) = 1 /\ s[1] = m /\ 1 \in 1 .. Len(s)
        BY <1>2
    <2>2. wire' = wire \o s
        BY DEF m
    <2> HIDE DEF s
    <2>3. WireInv /\ UNCHANGED <<lastId, streamed>>
        BY DEF StreamInv
    <2>4. Extended(n, s)
        BY <1>n, <2>1, <2>2, <2>3, WireExtended
    <2>5. ASSUME NEW k \in Nat, k = n + 1
          PROVE  /\ wire'[k] = m /\ Place(k)' = m.sequence
                 /\ \A d \in Names : Value(k, d)' = m.data[d]
        BY <2>1, <2>4, <2>5 DEF Extended
    <2> QED
        BY <2>1, <2>4, <2>5 DEF Extended
<1>4. feed.next > 0
    <2>1. Names # {}
        <3>1. 1 \in DOMAIN Domains
            BY RealtimeAssumption
        <3> QED
            BY <3>1 DEF Names, Range
    <2>2. PICK d \in Names : feed.hashes[d] # -1
        BY <2>1, <1>1
    <2> QED
        BY <2>2 DEF StreamInv, RingInv
<1>5. /\ \A k \in 0 .. (n + 1) : k \in 0 .. n \/ k = n + 1
      /\ n + 1 \in Nat /\ n + 1 \in 0 .. (n + 1)
    BY <1>n
<1>6. WireInv'
    <2>1. \A k \in 0 .. n : Place(k) <= feed.next
        BY <1>n DEF StreamInv, WireInv
    <2>2. ASSUME NEW k \in 0 .. (n + 1)
          PROVE  Place(k)' <= feed.next
        <3>1. CASE k \in 0 .. n
            BY <3>1, <2>1, <1>3
        <3>2. CASE k = n + 1
            BY <3>2, <1>1, <1>2, <1>3, <1>5
        <3> QED
            BY <3>1, <3>2, <1>5
    <2> QED
        BY <2>2, <1>3 DEF StreamInv, WireInv
<1>7. Told'
    <2> SUFFICES ASSUME NEW k \in 0 .. (n + 1), NEW d \in Names, Current(feed, Place(k)', d),
                        NEW i \in 0 .. k, Wrote(i, d)',
                        \A j \in (i + 1) .. k : d \notin DOMAIN wire'[j].data
                 PROVE  Value(i, d)' = feed.hashes[d]
        BY <1>3 DEF Told
    <2>1. CASE k \in 0 .. n
        <3>1. i \in 0 .. n /\ \A j \in (i + 1) .. k : j \in 1 .. n
            BY <2>1, <1>n
        <3>2. \A j \in (i + 1) .. k : d \notin DOMAIN wire[j].data
            BY <3>1, <1>3
        <3>3. Current(feed, Place(k), d) /\ Wrote(i, d) /\ Value(i, d)' = Value(i, d)
            BY <2>1, <3>1, <1>3
        <3>4. k \in 0 .. Len(wire)
            BY <2>1, <1>n
        <3>5. Value(i, d) = feed.hashes[d]
            BY <3>2, <3>3, <3>4 DEF StreamInv, Told
        <3> QED
            BY <3>3, <3>5
    <2>2. CASE k = n + 1 /\ i \in 0 .. n
        <3>1. n + 1 \in (i + 1) .. k
            BY <2>2, <1>n
        <3>2. wire'[n + 1] = m
            BY <1>3, <1>5
        <3> QED
            BY <3>1, <3>2, <1>2
    <2>3. CASE k = n + 1 /\ i = n + 1
        <3>1. Value(i, d)' = m.data[d]
            BY <2>3, <1>3, <1>5
        <3> QED
            BY <3>1, <1>2
    <2>4. i \in 0 .. n \/ i = n + 1
        BY <1>n
    <2> QED
        BY <1>5, <2>1, <2>2, <2>3, <2>4
<1>8. Place(Len(wire))' = feed.next
    <2>1. PICK k \in Nat : k = Len(wire')
        BY <1>3, <1>5
    <2>2. Place(k)' = feed.next
        BY <2>1, <1>2, <1>3
    <2> QED
        BY <2>1, <2>2 DEF Place
<1> QED
    BY <1>4, <1>6, <1>7, <1>8

\* What the feed gives of the ring: the events at some of its positions, each
\* once and in their order.
EventsAt(events, ring, P) ==
    \E spot \in [1 .. Len(events) -> P] :
        /\ \A i \in 1 .. Len(events) : events[i] = ring[spot[i]]
        /\ \A p \in P : \E i \in 1 .. Len(events) : spot[i] = p
        /\ \A i, j \in 1 .. Len(events) : i < j <=> spot[i] < spot[j]

\* The loop over the ring gives them.
LEMMA EventsBehind ==
    ASSUME NEW ring \in Seq(RealtimeEvent), NEW P \in SUBSET DOMAIN ring,
           NEW events, events = Subsequence(ring, P)
    PROVE  events \in Seq(RealtimeEvent) /\ EventsAt(events, ring, P)
<1>2. events = Subsequence(ring, P)
    OBVIOUS
<1>3. \E place \in [1 .. Cardinality(P) -> P] :
          /\ Cardinality(P) \in 0 .. Len(ring)
          /\ Subsequence(ring, P) \in Seq(RealtimeEvent) /\ Len(Subsequence(ring, P)) = Cardinality(P)
          /\ \A i \in 1 .. Cardinality(P) : Subsequence(ring, P)[i] = ring[place[i]]
          /\ \A p \in P : \E i \in 1 .. Cardinality(P) : place[i] = p
          /\ \A i, j \in 1 .. Cardinality(P) : i < j <=> place[i] < place[j]
          /\ Cardinality(P) = Len(ring) => P = DOMAIN ring
    BY SubsequenceOf
<1>4. PICK place \in [1 .. Cardinality(P) -> P] :
          /\ events \in Seq(RealtimeEvent) /\ Len(events) = Cardinality(P)
          /\ \A i \in 1 .. Cardinality(P) : events[i] = ring[place[i]]
          /\ \A p \in P : \E i \in 1 .. Cardinality(P) : place[i] = p
          /\ \A i, j \in 1 .. Cardinality(P) : i < j <=> place[i] < place[j]
    BY <1>2, <1>3, Zenon
<1>5. /\ place \in [1 .. Len(events) -> P]
      /\ \A i \in 1 .. Len(events) : events[i] = ring[place[i]]
      /\ \A p \in P : \E i \in 1 .. Len(events) : place[i] = p
      /\ \A i, j \in 1 .. Len(events) : i < j <=> place[i] < place[j]
    <2>1. Cardinality(P) = Len(events)
        BY <1>4
    <2> QED
        BY <1>4, <2>1, Zenon
<1> QED
    BY <1>4, <1>5, Zenon DEF EventsAt

\* A page as it is written: one message for each event.
Tells(s, events) ==
    /\ s \in Seq(Message) /\ Len(s) = Len(events)
    /\ \A q \in 1 .. Len(events) : /\ s[q].sequence = events[q].sequence
                                   /\ DOMAIN s[q].data = {events[q].type}
                                   /\ s[q].data[events[q].type] = events[q].data

\* What sendPage writes is such a page.
LEMMA PageMessages ==
    ASSUME NEW events \in Seq(RealtimeEvent)
    PROVE  Tells([i \in DOMAIN events |-> [sequence |-> events[i].sequence,
                                           data     |-> [d \in {events[i].type} |-> events[i].data]]],
                 events)
<1> DEFINE sent(i) == [sequence |-> events[i].sequence, data |-> [d \in {events[i].type} |-> events[i].data]]
           s == [i \in DOMAIN events |-> sent(i)]
<1>1. DOMAIN events = 1 .. Len(events) /\ Len(events) \in Nat /\ \A i \in 1 .. Len(events) : events[i] \in RealtimeEvent
    OBVIOUS
<1>2. \A e \in RealtimeEvent : e.sequence \in Nat /\ e.type \in Names /\ e.data \in 0 .. MaxChanges
    BY DEF RealtimeEvent
<1>4. \A i \in 1 .. Len(events) :
          /\ sent(i) \in Message /\ sent(i).sequence = events[i].sequence
          /\ DOMAIN sent(i).data = {events[i].type}
          /\ sent(i).data[events[i].type] = events[i].data
    <2> SUFFICES ASSUME NEW i \in 1 .. Len(events)
                 PROVE  /\ sent(i) \in Message /\ sent(i).sequence = events[i].sequence
                        /\ DOMAIN sent(i).data = {events[i].type}
                        /\ sent(i).data[events[i].type] = events[i].data
        OBVIOUS
    <2>1. [d \in {events[i].type} |-> events[i].data] \in [{events[i].type} -> 0 .. MaxChanges]
        BY <1>1, <1>2
    <2>2. {events[i].type} \in SUBSET Names /\ events[i].sequence \in Nat
        BY <1>1, <1>2
    <2> QED
        BY <2>1, <2>2 DEF Message
<1> HIDE DEF sent
<1>5. s \in Seq(Message) /\ Len(s) = Len(events) /\ \A i \in 1 .. Len(events) : s[i] = sent(i)
    BY <1>1, <1>4
<1>6. /\ s \in Seq(Message) /\ Len(s) = Len(events)
      /\ \A q \in 1 .. Len(events) : /\ s[q].sequence = events[q].sequence
                                     /\ DOMAIN s[q].data = {events[q].type}
                                     /\ s[q].data[events[q].type] = events[q].data
    BY <1>4, <1>5
<1> QED
    BY <1>6 DEF sent, Tells

\* The events behind the cursor, while the ring still has them all: in their
\* order, and the newest of every domain has its last value.
LEMMA PageSent ==
    ASSUME StreamInv, conn \in Connections, source = "open", conn.cursor > 0, ~Gap(conn.cursor),
           UNCHANGED <<feed, lastId, streamed>>,
           NEW events, events = after(conn.cursor),
           NEW s, Tells(s, events), wire' = wire \o s
    PROVE  /\ WireInv' /\ Told'
           /\ Place(Len(wire))' = IF events = <<>> THEN conn.cursor ELSE Last(events).sequence
           /\ events # <<>> => Last(events).sequence \in Nat \ {0}
<1> DEFINE ring == feed.events
           behind == {i \in DOMAIN ring : ring[i].sequence > conn.cursor}
<1>n. PICK n \in Nat : n = Len(wire)
    BY DEF StreamInv, WireInv
<1>c. PICK c \in Nat : c = conn.cursor /\ c = Place(n) /\ c > 0 /\ c <= feed.next
    <2>1. conn.cursor \in Nat /\ conn.cursor = Place(Len(wire)) /\ n \in 0 .. Len(wire)
        BY <1>n DEF StreamInv, ConnInv, Connections
    <2> QED
        BY <2>1, <1>n DEF StreamInv, WireInv
<1>f. feed.next \in Nat /\ ring \in Seq(RealtimeEvent) /\ ring # <<>>
    BY <1>c DEF StreamInv, RingInv, Feeds
<1>t. \A i \in DOMAIN ring : /\ ring[i].sequence \in Nat \ {0} /\ ring[i].sequence <= feed.next
                             /\ ring[i].type \in Names /\ ring[i].data \in 0 .. MaxChanges
    <2>1. \A e \in RealtimeEvent : e.sequence \in Nat \ {0} /\ e.type \in Names /\ e.data \in 0 .. MaxChanges
        BY DEF RealtimeEvent
    <2>2. \A i \in DOMAIN ring : ring[i] \in RealtimeEvent
        BY <1>f
    <2>3. \A i \in DOMAIN ring : ring[i].sequence <= feed.next
        BY DEF StreamInv, RingInv
    <2> QED
        BY <2>1, <2>2, <2>3
<1>o. \A i, j \in DOMAIN ring : i < j => ring[i].sequence < ring[j].sequence
    BY DEF StreamInv, RingInv
<1>b. behind \in SUBSET DOMAIN ring /\ events = Subsequence(ring, behind)
    BY DEF after
<1> HIDE DEF behind
<1>e. events \in Seq(RealtimeEvent) /\ EventsAt(events, ring, behind)
    BY <1>b, <1>f, EventsBehind
<1> DEFINE m == Len(events)
<1>1. PICK spot \in [1 .. m -> behind] :
         /\ \A i \in 1 .. m : events[i] = ring[spot[i]]
         /\ \A p \in behind : \E i \in 1 .. m : spot[i] = p
         /\ \A i, j \in 1 .. m : i < j <=> spot[i] < spot[j]
    BY <1>e DEF EventsAt
<1>m. m \in Nat /\ m = Len(events) /\ DOMAIN events = 1 .. m
    BY <1>e
<1> HIDE DEF m
<1>2. /\ DOMAIN events = 1 .. m /\ m \in Nat /\ Len(events) = m
      /\ \A i \in DOMAIN ring : i \in behind <=> ring[i].sequence > c
      /\ behind \subseteq DOMAIN ring
    BY <1>m, <1>c DEF behind
<1>g. c >= ring[1].sequence - 1
    BY <1>c, <1>f, <1>t DEF Gap
<1> HIDE DEF ring, behind
<1>3. \A i \in 1 .. m : /\ events[i].sequence \in Nat \ {0} /\ events[i].sequence <= feed.next
                        /\ events[i].type \in Names /\ events[i].data \in 0 .. MaxChanges
                        /\ spot[i] \in behind /\ spot[i] \in DOMAIN ring
    BY <1>1, <1>2, <1>t
<1>s. /\ s \in Seq(Message) /\ Len(s) = m
      /\ \A q \in 1 .. m : /\ s[q].sequence = events[q].sequence /\ s[q].sequence \in Nat
                           /\ s[q].sequence <= feed.next
                           /\ DOMAIN s[q].data = {events[q].type}
                           /\ s[q].data[events[q].type] = events[q].data
    BY <1>3, <1>m DEF Tells
<1>x. Extended(n, s)
    <2>1. WireInv /\ UNCHANGED <<lastId, streamed>> /\ n = Len(wire)
        BY <1>n DEF StreamInv
    <2> QED
        BY <1>s, <2>1, WireExtended
<1>7. /\ wire' \in Seq(Message) /\ Len(wire') = n + m
      /\ \A i \in 0 .. n : Place(i)' = Place(i)
      /\ \A i \in 0 .. n, d \in Names : (Wrote(i, d)' <=> Wrote(i, d)) /\ Value(i, d)' = Value(i, d)
      /\ \A i \in 1 .. n : wire'[i] = wire[i]
    BY <1>s, <1>x DEF Extended
<1>y. ASSUME NEW q \in 1 .. m, NEW k \in Nat, k = n + q
      PROVE  /\ wire'[k] = s[q] /\ Place(k)' = s[q].sequence
             /\ \A d \in Names : /\ Wrote(k, d)' <=> d \in DOMAIN s[q].data
                                 /\ Value(k, d)' = s[q].data[d]
    <2>1. q \in 1 .. Len(s)
        BY <1>s
    <2> QED
        BY <2>1, <1>y, <1>x DEF Extended
<1>8. ASSUME NEW k \in 0 .. (n + m), ~(k \in 0 .. n)
      PROVE  \E q \in 1 .. m : /\ k = n + q /\ wire'[k] = s[q] /\ Place(k)' = events[q].sequence
                               /\ \A d \in Names : /\ Wrote(k, d)' <=> d = events[q].type
                                                   /\ d = events[q].type => Value(k, d)' = events[q].data
    <2>1. PICK q \in 1 .. m : k = n + q
        <3>1. k - n \in 1 .. m /\ k = n + (k - n)
            BY <1>8, <1>2
        <3> QED
            BY <3>1
    <2>2. k \in Nat
        BY <1>2
    <2>3. /\ wire'[k] = s[q] /\ Place(k)' = s[q].sequence
          /\ \A d \in Names : /\ Wrote(k, d)' <=> d \in DOMAIN s[q].data
                              /\ Value(k, d)' = s[q].data[d]
        BY <2>1, <2>2, <1>y
    <2> QED
        BY <2>1, <2>3, <1>s, SMTT(60)
<1>9. WireInv'
    <2>1. \A k \in 0 .. n : Place(k) <= feed.next
        BY <1>n DEF StreamInv, WireInv
    <2>2. ASSUME NEW k \in 0 .. (n + m)
          PROVE  Place(k)' <= feed.next
        <3>1. CASE k \in 0 .. n
            BY <3>1, <2>1, <1>7
        <3>2. CASE ~(k \in 0 .. n)
            <4>1. PICK q \in 1 .. m : Place(k)' = events[q].sequence
                BY <3>2, <1>8
            <4> QED
                BY <4>1, <1>3
        <3> QED
            BY <3>1, <3>2
    <2> QED
        BY <2>2, <1>7 DEF StreamInv, WireInv
<1>10. ASSUME NEW q \in 1 .. m, NEW d \in Names, Current(feed, events[q].sequence, d),
              NEW x \in behind, ring[x].type = d
       PROVE  \E y \in 1 .. q : spot[y] = x
    <2>1. PICK y \in 1 .. m : spot[y] = x
        BY <1>1
    <2>2. CASE y > q
        <3>1. spot[q] < spot[y] /\ spot[q] \in DOMAIN ring /\ x \in DOMAIN ring
            BY <2>1, <2>2, <1>1, <1>2, <1>3
        <3>2. ring[spot[q]].sequence < ring[x].sequence
            BY <3>1, <2>1, <1>o
        <3>3. events[q].sequence < ring[x].sequence
            BY <3>2, <1>1
        <3>4. events[q].sequence \in Nat /\ ring[x].sequence \in Nat
            BY <1>3, <1>t, <3>1
        <3>5. ring[x].type # d
            BY <3>1, <3>3, <3>4, <1>10 DEF Current, ring
        <3> QED
            BY <3>5, <1>10
    <2>3. CASE ~(y > q)
        <3>1. y \in 1 .. q
            BY <2>3, <1>2
        <3> QED
            BY <3>1, <2>1
    <2> QED
        BY <2>2, <2>3
<1>11. Told'
    <2> SUFFICES ASSUME NEW k \in 0 .. (n + m), NEW d \in Names, Current(feed, Place(k)', d),
                        NEW i \in 0 .. k, Wrote(i, d)',
                        \A j \in (i + 1) .. k : d \notin DOMAIN wire'[j].data
                 PROVE  Value(i, d)' = feed.hashes[d]
        BY <1>7 DEF Told
    <2>1. CASE k \in 0 .. n
        <3>1. i \in 0 .. n /\ \A j \in (i + 1) .. k : j \in 1 .. n
            BY <2>1, <1>n
        <3>2. \A j \in (i + 1) .. k : d \notin DOMAIN wire[j].data
            BY <3>1, <1>7
        <3>3. Current(feed, Place(k), d) /\ Wrote(i, d) /\ Value(i, d)' = Value(i, d)
            BY <2>1, <3>1, <1>7
        <3>4. k \in 0 .. Len(wire)
            BY <2>1, <1>n
        <3>5. Value(i, d) = feed.hashes[d]
            BY <3>2, <3>3, <3>4 DEF StreamInv, Told
        <3> QED
            BY <3>3, <3>5
    <2>2. CASE ~(k \in 0 .. n)
        <3>1. PICK q \in 1 .. m : k = n + q /\ Place(k)' = events[q].sequence
            BY <2>2, <1>8
        <3>2. Current(feed, events[q].sequence, d)
            BY <3>1
        <3>3. \A r \in 1 .. q : n + r > i => events[r].type # d
            <4> SUFFICES ASSUME NEW r \in 1 .. q, n + r > i
                         PROVE  events[r].type # d
                OBVIOUS
            <4>1. r \in 1 .. m /\ n + r \in (i + 1) .. k /\ n + r \in Nat
                BY <3>1, <1>n, <1>2
            <4>2. wire'[n + r] = s[r] /\ DOMAIN s[r].data = {events[r].type}
                BY <4>1, <1>s, <1>y
            <4> QED
                BY <4>1, <4>2
        <3>4. CASE i \in 0 .. n
            <4>1. \A x \in behind : ring[x].type # d
                <5> SUFFICES ASSUME NEW x \in behind, ring[x].type = d
                             PROVE  FALSE
                    OBVIOUS
                <5>1. PICK y \in 1 .. q : spot[y] = x
                    BY <3>2, <1>10
                <5>2. y \in 1 .. m /\ n + y > i
                    BY <3>4, <1>n, <1>2
                <5> QED
                    BY <5>1, <5>2, <3>3, <1>1
            <4>2. Current(feed, c, d)
                BY <4>1, <1>2, <1>c, <1>g DEF Current, ring
            <4>3. n \in 0 .. Len(wire) /\ i \in 0 .. n /\ Current(feed, Place(n), d)
                BY <4>2, <3>4, <1>n, <1>c
            <4>4. \A j \in (i + 1) .. n : d \notin DOMAIN wire[j].data
                <5> SUFFICES ASSUME NEW j \in (i + 1) .. n
                             PROVE  d \notin DOMAIN wire[j].data
                    OBVIOUS
                <5>1. j \in 1 .. n /\ j \in (i + 1) .. k
                    BY <3>1, <3>4, <1>n
                <5> QED
                    BY <5>1, <1>7
            <4>5. Wrote(i, d) /\ Value(i, d)' = Value(i, d)
                BY <3>4, <1>7
            <4>6. Value(i, d) = feed.hashes[d]
                BY <4>3, <4>4, <4>5 DEF StreamInv, Told
            <4> QED
                BY <4>5, <4>6
        <3>5. CASE ~(i \in 0 .. n)
            <4>1. i \in 0 .. (n + m) /\ i \in Nat
                BY <1>n, <1>2
            <4>2. PICK r \in 1 .. m :
                     /\ i = n + r /\ (Wrote(i, d)' <=> d = events[r].type)
                     /\ d = events[r].type => Value(i, d)' = events[r].data
                BY <3>5, <4>1, <1>8
            <4>3. r \in 1 .. q /\ \A y \in 1 .. q : y > r => n + y > i
                BY <3>1, <4>2, <1>n
            <4>4. events[r].type = d /\ Value(i, d)' = events[r].data
                BY <4>2
            <4>5. \A x \in DOMAIN ring : x > spot[r] => ring[x].type # d
                <5> SUFFICES ASSUME NEW x \in DOMAIN ring, x > spot[r], ring[x].type = d
                             PROVE  FALSE
                    OBVIOUS
                <5>1. ring[spot[r]].sequence < ring[x].sequence /\ ring[spot[r]].sequence > c
                    BY <4>2, <1>2, <1>3, <1>o, <1>f
                <5>2. x \in behind
                    BY <5>1, <1>2, <1>3, <1>t, <1>c
                <5>3. PICK y \in 1 .. q : spot[y] = x
                    BY <5>2, <3>2, <1>10
                <5>4. y \in 1 .. m /\ y > r
                    BY <5>3, <4>2, <4>3, <1>1, <1>2, <1>3
                <5> QED
                    BY <5>3, <5>4, <4>3, <3>3, <1>1
            <4>6. feed.hashes[d] = ring[spot[r]].data
                <5>1. spot[r] \in DOMAIN ring /\ ring[spot[r]].type = d
                    BY <4>2, <4>4, <1>1, <1>3
                <5>2. \A a \in DOMAIN ring : (\A b \in DOMAIN ring : b > a => ring[b].type # ring[a].type)
                                               => feed.hashes[ring[a].type] = ring[a].data
                    BY DEF StreamInv, RingInv, ring
                <5> QED
                    BY <5>1, <5>2, <4>5
            <4> QED
                BY <4>2, <4>4, <4>6, <1>1
        <3> QED
            BY <3>4, <3>5
    <2> QED
        BY <2>1, <2>2
<1>12. /\ Place(Len(wire))' = IF events = <<>> THEN conn.cursor ELSE Last(events).sequence
       /\ events # <<>> => Last(events).sequence \in Nat \ {0}
    <2>1. PICK k \in Nat : k = Len(wire') /\ k = n + m
        BY <1>7, <1>2, <1>n
    <2>2. Place(Len(wire))' = Place(k)'
        BY <2>1 DEF Place
    <2>3. CASE events = <<>>
        <3>1. m = 0 /\ k = n /\ k \in 0 .. n
            BY <2>3, <2>1, <1>2, <1>n
        <3> QED
            BY <2>2, <2>3, <3>1, <1>7, <1>c
    <2>4. CASE events # <<>>
        <3>1. m \in 1 .. m /\ Last(events) = events[m]
            BY <2>4, <1>1, <1>2 DEF Last
        <3>2. Place(k)' = s[m].sequence
            BY <2>1, <3>1, <1>y, Zenon
        <3> QED
            BY <2>2, <2>4, <3>1, <3>2, <1>3, <1>s
    <2> QED
        BY <2>3, <2>4
<1> QED
    BY <1>9, <1>11, <1>12

\* A step that leaves the feed and the wire alone leaves what is told.
LEMMA WireKept ==
    ASSUME StreamInv, UNCHANGED <<feed, wire, lastId, streamed>>
    PROVE  RingInv(feed)' /\ WireInv' /\ Told' /\ Place(Len(wire))' = Place(Len(wire))
<1>1. RingInv(feed)'
    BY DEF StreamInv
<1>2. \A k \in Nat : Place(k)' = Place(k)
    BY DEF Place
<1>3. WireInv'
    BY DEF StreamInv, WireInv, Place
<1>4. Told'
    <2> SUFFICES ASSUME NEW k \in 0 .. Len(wire), NEW d \in Names, Current(feed, Place(k), d),
                        NEW i \in 0 .. k, Wrote(i, d),
                        \A j \in (i + 1) .. k : d \notin DOMAIN wire[j].data
                 PROVE  Value(i, d) = feed.hashes[d]
        BY DEF Told, Place, Wrote, Value
    <2> QED
        BY DEF StreamInv, Told
<1>5. Place(Len(wire))' = Place(Len(wire))
    BY DEF Place
<1> QED
    BY <1>1, <1>3, <1>4, <1>5

\* A step of the browser or the gateway that is no message and no connection.
LEMMA ConnKept ==
    ASSUME StreamInv, UNCHANGED <<conn, source, feed, wire, lastId>>
    PROVE  ConnInv'
BY DEF StreamInv, ConnInv, Place

\* The handler takes a snapshot and has every domain to publish.
LEMMA SnapshotStep ==
    ASSUME StreamInv, takeSnapshot
    PROVE  StreamInv'
<1>1. /\ conn \in Connections /\ conn.pc = "snapshot" /\ source = "open"
      /\ conn' = [conn EXCEPT !.pc = "publish", !.snapshot = current, !.left = Domains]
      /\ UNCHANGED <<current, feed, wire, source, lastId, streamed, shown, refresh, budget>>
    BY DEF StreamInv, ConnInv, takeSnapshot, Off, Connections
<1>2. Domains \in Seq(Names) /\ Domains # <<>> /\ Range(Domains) = Names
    BY RealtimeAssumption DEF Names
<1>3. current \in RealtimeSnapshot
    BY DEF StreamInv, ValuesInv
<1>4. /\ conn' \in Connections /\ conn'.pc = "publish" /\ conn'.left = Domains /\ conn'.snapshot = current
      /\ conn'.cursor = conn.cursor /\ conn'.first = conn.first /\ conn' # Off
    BY <1>1, <1>2, <1>3 DEF Connections, Off
<1>5. RingInv(feed)' /\ WireInv' /\ Told' /\ Place(Len(wire))' = Place(Len(wire))
    BY <1>1, WireKept
<1>6. ConnInv'
    BY <1>1, <1>2, <1>4, <1>5 DEF StreamInv, ConnInv
<1>7. ValuesInv'
    BY <1>1 DEF StreamInv, ValuesInv
<1> QED
    BY <1>5, <1>6, <1>7 DEF StreamInv

\* The ticker: the cursor is already beyond the beginning.
LEMMA TickStep ==
    ASSUME StreamInv, tick
    PROVE  StreamInv'
<1>1. /\ conn \in Connections /\ conn.pc = "wait" /\ source = "open" /\ conn.cursor > 0
      /\ conn' = [conn EXCEPT !.pc = "snapshot", !.first = FALSE]
      /\ UNCHANGED <<current, feed, wire, source, lastId, streamed, shown, refresh, budget>>
    BY DEF StreamInv, ConnInv, tick, Off, Connections
<1>2. /\ conn' \in Connections /\ conn'.pc = "snapshot" /\ conn'.cursor = conn.cursor /\ conn' # Off
    BY <1>1 DEF Connections, Off
<1>3. RingInv(feed)' /\ WireInv' /\ Told' /\ Place(Len(wire))' = Place(Len(wire))
    BY <1>1, WireKept
<1>4. ConnInv'
    BY <1>1, <1>2, <1>3 DEF StreamInv, ConnInv
<1>5. ValuesInv'
    BY <1>1 DEF StreamInv, ValuesInv
<1> QED
    BY <1>3, <1>4, <1>5 DEF StreamInv

\* A handler that has written: its cursor is where the wire ends.
LEMMA WrittenStep ==
    ASSUME StreamInv, conn \in Connections, source = "open",
           NEW n \in Nat, n > 0, conn' = [conn EXCEPT !.pc = "wait", !.cursor = n],
           UNCHANGED <<current, feed, source, lastId, streamed, shown, refresh, budget>>,
           WireInv', Told', Place(Len(wire))' = n
    PROVE  StreamInv'
<1>1. /\ conn' \in Connections /\ conn'.pc = "wait" /\ conn'.cursor = n /\ conn' # Off
    BY DEF Connections, Off
<1>2. ConnInv'
    BY <1>1 DEF StreamInv, ConnInv
<1>3. ValuesInv' /\ RingInv(feed)'
    BY DEF StreamInv, ValuesInv
<1> QED
    BY <1>2, <1>3 DEF StreamInv

\* The first message of a connection without a cursor.
LEMMA SyncStep ==
    ASSUME StreamInv, sendSync
    PROVE  StreamInv'
<1>1. /\ conn \in Connections /\ conn.pc = "sync" /\ source = "open" /\ feed.hashes = conn.snapshot
      /\ conn' = [conn EXCEPT !.pc = "wait", !.cursor = feed.next]
      /\ wire' = wire \o <<[sequence |-> feed.next, data |-> conn.snapshot]>>
      /\ UNCHANGED <<current, feed, source, lastId, streamed, shown, refresh, budget>>
    BY DEF StreamInv, ConnInv, sendSync, Writes, Off, Connections
<1>2. WireInv' /\ Told' /\ feed.next > 0 /\ Place(Len(wire))' = feed.next
    BY <1>1, WholeSent
<1>3. feed.next \in Nat
    BY DEF StreamInv, RingInv, Feeds
<1> QED
    BY <1>1, <1>2, <1>3, WrittenStep

\* A page: the events behind the cursor, or a reset when some are gone.
LEMMA PageStep ==
    ASSUME StreamInv, sendPage
    PROVE  StreamInv'
<1>1. /\ conn \in Connections /\ conn.pc = "page" /\ source = "open" /\ feed.hashes = conn.snapshot
      /\ conn.cursor > 0 /\ conn.cursor \in Nat
      /\ UNCHANGED <<current, feed, source, lastId, streamed, shown, refresh, budget>>
    BY DEF StreamInv, ConnInv, sendPage, Off, Connections
<1>2. CASE Gap(conn.cursor)
    <2>1. /\ conn' = [conn EXCEPT !.pc = "wait", !.cursor = feed.next]
          /\ wire' = wire \o <<[sequence |-> feed.next, data |-> conn.snapshot]>>
        BY <1>2 DEF sendPage, Writes
    <2>2. WireInv' /\ Told' /\ feed.next > 0 /\ Place(Len(wire))' = feed.next
        BY <1>1, <2>1, WholeSent
    <2>3. feed.next \in Nat
        BY DEF StreamInv, RingInv, Feeds
    <2> QED
        BY <1>1, <2>1, <2>2, <2>3, WrittenStep
<1>3. CASE ~Gap(conn.cursor)
    <2> DEFINE events == after(conn.cursor)
               s == [i \in DOMAIN events |-> [sequence |-> events[i].sequence,
                                              data     |-> [d \in {events[i].type} |-> events[i].data]]]
               n == IF events = <<>> THEN conn.cursor ELSE Last(events).sequence
    <2>1. wire' = wire \o s /\ conn' = [conn EXCEPT !.pc = "wait", !.cursor = n]
        BY <1>3 DEF sendPage, Writes
    <2>2. events \in Seq(RealtimeEvent)
        <3> DEFINE behind == {i \in DOMAIN feed.events : feed.events[i].sequence > conn.cursor}
        <3>1. events = Subsequence(feed.events, behind) /\ behind \in SUBSET DOMAIN feed.events
            BY DEF after
        <3>2. feed.events \in Seq(RealtimeEvent)
            BY DEF StreamInv, RingInv, Feeds
        <3> HIDE DEF events, behind
        <3> QED
            BY <3>1, <3>2, EventsBehind
    <2>o. events = after(conn.cursor)
        OBVIOUS
    <2> HIDE DEF events
    <2>3. Tells(s, events)
        BY <2>2, PageMessages
    <2> HIDE DEF s
    <2>4. /\ WireInv' /\ Told'
          /\ Place(Len(wire))' = IF events = <<>> THEN conn.cursor ELSE Last(events).sequence
          /\ events # <<>> => Last(events).sequence \in Nat \ {0}
        BY <1>1, <1>3, <2>1, <2>3, <2>o, PageSent
    <2>5. n \in Nat /\ n > 0 /\ Place(Len(wire))' = n
        BY <1>1, <2>4
    <2> HIDE DEF n
    <2> QED
        BY <1>1, <2>1, <2>4, <2>5, WrittenStep
<1> QED
    BY <1>2, <1>3

\* Something happens in the gateway.
LEMMA ChangeStep ==
    ASSUME StreamInv, NEW d \in Names, change(d)
    PROVE  StreamInv'
<1>1. /\ UNCHANGED <<feed, conn, wire, source, lastId, streamed, shown, refresh>>
      /\ current' = [current EXCEPT ![d] = @ + 1] /\ budget' = [budget EXCEPT !.changes = @ - 1, !.all = @ - 1]
      /\ budget.changes > 0
    BY DEF change, Spend
<1>2. ValuesInv'
    <2>0. budget \in Budgets
        BY DEF StreamInv, ValuesInv
    <2>1. /\ current \in [Names -> 0 .. MaxChanges] /\ budget.changes \in Nat /\ MaxChanges \in Nat
          /\ \A e \in Names : current[e] + budget.changes <= MaxChanges
        BY <2>0, RealtimeAssumption DEF StreamInv, ValuesInv, RealtimeSnapshot, Budgets
    <2>2. budget'.changes = budget.changes - 1
        BY <1>1, <2>0, BudgetSpent, Zenon
    <2>3. current'[d] = current[d] + 1 /\ \A e \in Names : e # d => current'[e] = current[e]
        BY <1>1, <2>1
    <2>4. \A e \in Names : current[e] \in 0 .. MaxChanges
        BY <2>1
    <2>5. \A e \in Names : current'[e] \in 0 .. MaxChanges /\ current'[e] + budget'.changes <= MaxChanges
        <3> SUFFICES ASSUME NEW e \in Names
                     PROVE  current'[e] \in 0 .. MaxChanges /\ current'[e] + budget'.changes <= MaxChanges
            OBVIOUS
        <3>1. CASE e = d
            BY <3>1, <1>1, <2>1, <2>2, <2>3, <2>4
        <3>2. CASE e # d
            BY <3>2, <1>1, <2>1, <2>2, <2>3, <2>4
        <3> QED
            BY <3>1, <3>2
    <2>6. current' \in RealtimeSnapshot
        BY <1>1, <2>1, <2>5 DEF RealtimeSnapshot
    <2>7. budget' \in Budgets
        BY <1>1, <2>0, BudgetSpent, Zenon
    <2> QED
        BY <1>1, <2>5, <2>6, <2>7 DEF StreamInv, ValuesInv
<1>3. RingInv(feed)' /\ WireInv' /\ Told' /\ ConnInv'
    BY <1>1, WireKept, ConnKept
<1> QED
    BY <1>2, <1>3 DEF StreamInv

\* The browser connects with the number it has seen last: nothing is on the
\* wire, so that is where the wire ends.
LEMMA ConnectStep ==
    ASSUME StreamInv, connect
    PROVE  StreamInv'
<1>1. /\ UNCHANGED <<current, feed, wire, lastId, streamed, shown, refresh, budget>>
      /\ source = "retry" /\ source' = "open" /\ wire = <<>> /\ lastId \in Nat
      /\ conn' = [pc |-> "snapshot", cursor |-> lastId, first |-> TRUE, snapshot |-> Nothing, left |-> <<>>]
    BY DEF connect, StreamInv, ConnInv, WireInv
<1>2. Nothing \in RealtimeSnapshot
    BY RealtimeAssumption DEF Nothing, RealtimeSnapshot
<1>3. /\ conn' \in Connections /\ conn' # Off /\ conn'.pc = "snapshot" /\ conn'.first /\ conn'.cursor = lastId
    BY <1>1, <1>2 DEF Connections, Off
<1>4. RingInv(feed)' /\ WireInv' /\ Told'
    BY <1>1, WireKept
<1>5. Place(Len(wire))' = lastId
    BY <1>1 DEF Place
<1>6. ConnInv'
    BY <1>1, <1>3, <1>5 DEF ConnInv
<1>7. ValuesInv'
    BY <1>1 DEF StreamInv, ValuesInv
<1> QED
    BY <1>4, <1>6, <1>7 DEF StreamInv

\* What the browser reads moves from the wire to what was received.
LEMMA ReceiveStep ==
    ASSUME StreamInv, receive
    PROVE  StreamInv'
<1> DEFINE first == wire[1]
<1>1. /\ source = "open" /\ wire # <<>> /\ wire' = Tail(wire) /\ lastId' = first.sequence
      /\ streamed' = [d \in Names |-> IF d \in DOMAIN first.data THEN first.data[d] ELSE streamed[d]]
      /\ shown' = [d \in Names |-> IF d \in DOMAIN first.data THEN first.data[d] ELSE shown[d]]
      /\ UNCHANGED <<current, feed, conn, source, refresh, budget>>
    BY DEF receive
<1>n. PICK n \in Nat : n = Len(wire) /\ n > 0
    <2>1. wire \in Seq(Message)
        BY DEF StreamInv, WireInv
    <2> QED
        BY <1>1, <2>1, EmptySeq
<1>2. /\ wire' \in Seq(Message) /\ Len(wire') = n - 1
      /\ \A k \in 1 .. (n - 1) : wire'[k] = wire[k + 1]
    <2>1. wire \in Seq(Message)
        BY DEF StreamInv, WireInv
    <2>2. /\ Tail(wire) \in Seq(Message) /\ Len(Tail(wire)) = Len(wire) - 1
          /\ \A k \in 1 .. Len(Tail(wire)) : Tail(wire)[k] = wire[k + 1]
        BY <1>1, <2>1, HeadTailProperties
    <2> QED
        BY <1>1, <1>n, <2>2
<1>3. /\ first.sequence \in Nat /\ \A d \in DOMAIN first.data : first.data[d] \in 0 .. MaxChanges
      /\ DOMAIN first.data \in SUBSET Names
    <2>1. 1 \in 1 .. Len(wire)
        BY <1>n
    <2> QED
        BY <2>1, WireTyped DEF StreamInv
<1> HIDE DEF first
<1>4. \A k \in 0 .. (n - 1) : Place(k)' = Place(k + 1) /\ k + 1 \in 0 .. n
    <2> TAKE k \in 0 .. (n - 1)
    <2>1. k + 1 # 0 /\ k + 1 \in 0 .. n
        BY <1>n
    <2>2. CASE k = 0
        BY <1>1, <2>1, <2>2 DEF Place, first
    <2>3. CASE k # 0
        <3>1. k \in 1 .. (n - 1)
            BY <2>3, <1>n
        <3> QED
            BY <2>1, <2>3, <3>1, <1>2 DEF Place
    <2> QED
        BY <2>1, <2>2, <2>3
<1>5. WireInv'
    <2>1. \A k \in 0 .. n : Place(k) <= feed.next
        BY <1>n DEF StreamInv, WireInv
    <2> QED
        BY <1>1, <1>2, <1>3, <1>4, <2>1 DEF WireInv
<1>6. \A i \in 1 .. (n - 1), d \in Names :
          (Wrote(i, d)' <=> Wrote(i + 1, d)) /\ Value(i, d)' = Value(i + 1, d)
    <2> TAKE i \in 1 .. (n - 1), d \in Names
    <2>1. i # 0 /\ i + 1 # 0
        BY <1>n
    <2> QED
        BY <2>1, <1>2 DEF Wrote, Value
<1>7. Told'
    <2> SUFFICES ASSUME NEW k \in 0 .. (n - 1), NEW d \in Names, Current(feed, Place(k)', d),
                        NEW i \in 0 .. k, Wrote(i, d)',
                        \A j \in (i + 1) .. k : d \notin DOMAIN wire'[j].data
                 PROVE  Value(i, d)' = feed.hashes[d]
        BY <1>1, <1>2 DEF Told
    <2> DEFINE behind == k + 1
    <2>1. behind \in 0 .. Len(wire) /\ Current(feed, Place(behind), d)
        BY <1>4, <1>n
    <2>2. \A i0 \in 0 .. behind : (Wrote(i0, d) /\ \A j \in (i0 + 1) .. behind : d \notin DOMAIN wire[j].data)
                                    => Value(i0, d) = feed.hashes[d]
        BY <2>1 DEF StreamInv, Told
    <2>3. ASSUME NEW j \in 2 .. behind, j > i + 1
          PROVE  d \notin DOMAIN wire[j].data
        <3>1. j - 1 \in (i + 1) .. k /\ j - 1 \in 1 .. (n - 1) /\ (j - 1) + 1 = j
            BY <2>3, <1>n
        <3>2. wire'[j - 1] = wire[j]
            BY <3>1, <1>2
        <3> QED
            BY <3>1, <3>2
    <2>4. CASE i # 0
        <3>1. i \in 1 .. (n - 1) /\ i + 1 \in 0 .. behind
            BY <2>4, <1>n
        <3>2. Wrote(i + 1, d) /\ Value(i, d)' = Value(i + 1, d)
            BY <3>1, <1>6
        <3>3. \A j \in ((i + 1) + 1) .. behind : j \in 2 .. behind /\ j > i + 1
            BY <3>1
        <3>4. \A j \in ((i + 1) + 1) .. behind : d \notin DOMAIN wire[j].data
            BY <3>3, <2>3
        <3>5. Value(i + 1, d) = feed.hashes[d]
            BY <3>1, <3>2, <3>4, <2>2
        <3> QED
            BY <3>2, <3>5
    <2>5. CASE i = 0 /\ d \in DOMAIN first.data
        <3>1. 1 \in 0 .. behind /\ \A j \in (1 + 1) .. behind : j \in 2 .. behind /\ j > i + 1
            BY <2>5, <1>n
        <3>2. \A j \in (1 + 1) .. behind : d \notin DOMAIN wire[j].data
            BY <3>1, <2>3
        <3>3. Wrote(1, d) /\ Value(1, d) = first.data[d]
            BY <2>5 DEF Wrote, Value, first
        <3>4. Value(1, d) = feed.hashes[d]
            BY <3>1, <3>2, <3>3, <2>2
        <3>5. Value(i, d)' = first.data[d]
            BY <2>5, <1>1 DEF Value
        <3> QED
            BY <3>3, <3>4, <3>5
    <2>6. CASE i = 0 /\ d \notin DOMAIN first.data
        <3>1. 0 \in 0 .. behind
            BY <1>n
        <3>2. \A j \in (0 + 1) .. behind : d \notin DOMAIN wire[j].data
            <4> SUFFICES ASSUME NEW j \in (0 + 1) .. behind
                         PROVE  d \notin DOMAIN wire[j].data
                OBVIOUS
            <4>1. CASE j = 1
                BY <4>1, <2>6 DEF first
            <4>2. CASE j # 1
                <5>1. j \in 2 .. behind /\ j > i + 1
                    BY <4>2, <2>6, <1>n
                <5> QED
                    BY <5>1, <2>3
            <4> QED
                BY <4>1, <4>2
        <3>3. Wrote(0, d) /\ Value(0, d) = streamed[d]
            BY DEF Wrote, Value
        <3>4. Value(0, d) = feed.hashes[d]
            BY <3>1, <3>2, <3>3, <2>2
        <3>5. Value(i, d)' = streamed[d]
            BY <2>6, <1>1 DEF Value
        <3> QED
            BY <3>3, <3>4, <3>5
    <2> QED
        BY <2>4, <2>5, <2>6
<1>8. ConnInv'
    <2>1. Place(Len(wire))' = Place(Len(wire))
        <3>1. PICK k \in Nat : k = Len(wire') /\ k = n - 1
            BY <1>2, <1>n
        <3>2. Place(k)' = Place(k + 1) /\ k + 1 = Len(wire)
            BY <3>1, <1>4, <1>n
        <3> QED
            BY <3>1, <3>2 DEF Place
    <2> QED
        BY <1>1, <2>1 DEF StreamInv, ConnInv
<1>9. ValuesInv'
    <2>1. streamed \in RealtimeSnapshot /\ shown \in RealtimeSnapshot
        BY DEF StreamInv, ValuesInv
    <2>2. streamed' \in RealtimeSnapshot
        BY <1>1, <1>3, <2>1 DEF RealtimeSnapshot
    <2>3. shown' \in RealtimeSnapshot
        BY <1>1, <1>3, <2>1 DEF RealtimeSnapshot
    <2> QED
        BY <1>1, <2>2, <2>3 DEF StreamInv, ValuesInv
<1> QED
    BY <1>1, <1>5, <1>7, <1>8, <1>9 DEF StreamInv

\* A connection that is lost or closed takes the wire with it: what was told
\* before its first message is left, or nothing is claimed.
LEMMA LostStep ==
    ASSUME StreamInv, UNCHANGED <<current, feed, streamed, shown>>,
           conn' = Off, source' # "open", wire' = <<>>, lastId' = lastId \/ lastId' = 0,
           budget' \in Budgets, budget'.changes = budget.changes,
           refresh' \in {Quiet, [pc |-> "asked"]} \cup [pc : {"read"}, data : RealtimeSnapshot]
    PROVE  StreamInv'
<1>1. Len(wire') = 0 /\ wire' \in Seq(Message)
    OBVIOUS
<1>2. /\ lastId \in Nat /\ lastId' \in Nat /\ feed.next \in Nat /\ lastId <= feed.next /\ lastId' <= feed.next
      /\ 0 \in 0 .. Len(wire) /\ Place(0) = lastId
    <2>1. 0 \in 0 .. Len(wire) /\ Place(0) = lastId /\ lastId \in Nat /\ feed.next \in Nat
        BY DEF StreamInv, WireInv, RingInv, Feeds, Place
    <2>2. lastId <= feed.next
        BY <2>1 DEF StreamInv, WireInv
    <2> QED
        BY <2>1, <2>2
<1>3. WireInv'
    BY <1>1, <1>2 DEF WireInv, Place
<1>4. Told'
    <2> SUFFICES ASSUME NEW d \in Names, Current(feed, lastId', d)
                 PROVE  streamed[d] = feed.hashes[d]
        BY <1>1 DEF Told, Place, Value
    <2>1. lastId' > 0
        BY DEF Current
    <2>2. lastId' = lastId
        BY <2>1
    <2>3. Current(feed, Place(0), d)
        BY <2>2, <1>2
    <2>4. \A i \in 0 .. 0 : (Wrote(i, d) /\ \A j \in (i + 1) .. 0 : d \notin DOMAIN wire[j].data)
                                 => Value(i, d) = feed.hashes[d]
        BY <1>2, <2>3 DEF StreamInv, Told
    <2>5. Wrote(0, d) /\ Value(0, d) = streamed[d] /\ 0 \in 0 .. 0 /\ \A j \in (0 + 1) .. 0 : FALSE
        BY DEF Wrote, Value
    <2> QED
        BY <2>4, <2>5
<1>5. ConnInv'
    BY DEF ConnInv
<1>6. ValuesInv'
    BY DEF StreamInv, ValuesInv
<1>7. RingInv(feed)'
    BY DEF StreamInv
<1> QED
    BY <1>3, <1>4, <1>5, <1>6, <1>7 DEF StreamInv

\* A refresh: answered, shown or failed.
LEMMA RefreshStep ==
    ASSUME StreamInv, refreshAnswered \/ refreshLands \/ refreshFails
    PROVE  StreamInv'
<1>1. UNCHANGED <<current, feed, conn, wire, source, lastId, streamed, budget>>
    BY DEF refreshAnswered, refreshLands, refreshFails
<1>2. /\ refresh' \in {Quiet, [pc |-> "asked"]} \cup [pc : {"read"}, data : RealtimeSnapshot]
      /\ shown' \in RealtimeSnapshot
    <2>1. CASE refreshAnswered
        BY <2>1 DEF refreshAnswered, StreamInv, ValuesInv
    <2>2. CASE refreshLands
        <3>1. refresh \in [pc : {"read"}, data : RealtimeSnapshot]
            BY <2>2 DEF refreshLands, StreamInv, ValuesInv, Quiet
        <3> QED
            BY <2>2, <3>1 DEF refreshLands
    <2>3. CASE refreshFails
        BY <2>3 DEF refreshFails, StreamInv, ValuesInv
    <2> QED
        BY <2>1, <2>2, <2>3
<1>3. RingInv(feed)' /\ WireInv' /\ Told' /\ ConnInv'
    BY <1>1, WireKept, ConnKept
<1>4. ValuesInv'
    BY <1>1, <1>2 DEF StreamInv, ValuesInv
<1> QED
    BY <1>3, <1>4 DEF StreamInv

\* The invariant holds in the beginning: nothing was published or received.
LEMMA StreamInitInv ==
    ASSUME StreamInit
    PROVE  StreamInv
<1>1. /\ current = Nothing /\ shown = Nothing /\ streamed = Nothing /\ conn = Off /\ wire = <<>>
      /\ feed = [next |-> 0, events |-> <<>>, hashes |-> [d \in Names |-> -1]]
      /\ source = "retry" /\ lastId = 0 /\ refresh = [pc |-> "asked"]
      /\ budget = [changes |-> MaxChanges, drops |-> MaxDrops, toggles |-> MaxToggles, all |-> MaxEvents]
    BY DEF StreamInit
<1>2. Nothing \in RealtimeSnapshot /\ {MaxChanges, MaxDrops, MaxToggles, MaxEvents} \subseteq Nat /\ RingSize \in Nat \ {0}
    BY RealtimeAssumption DEF Nothing, RealtimeSnapshot
<1>3. RingInv(feed)
    <2>1. feed.next = 0 /\ feed.events = <<>> /\ feed.hashes = [d \in Names |-> -1] /\ feed \in Feeds
        BY <1>1, <1>2 DEF Feeds
    <2> QED
        BY <1>2, <2>1 DEF RingInv
<1>4. WireInv /\ Told
    <2>1. \A k \in 0 .. Len(wire) : Place(k) = 0
        BY <1>1 DEF Place
    <2> QED
        BY <1>1, <2>1 DEF WireInv, Told, Current
<1>5. ConnInv
    BY <1>1 DEF ConnInv
<1>6. ValuesInv
    BY <1>1, <1>2 DEF ValuesInv, Nothing, Budgets
<1> QED
    BY <1>3, <1>4, <1>5, <1>6 DEF StreamInv

\* A console that has kept up with the feed has missed nothing.
LEMMA KeptUp ==
    ASSUME StreamInv
    PROVE  NothingMissed
<1>1. StreamTypeOK
    <2>1. {current, shown, streamed} \subseteq RealtimeSnapshot
        BY DEF StreamInv, ValuesInv
    <2>2. feed.events \in Seq(RealtimeEvent) /\ Len(feed.events) <= RingSize
        BY DEF StreamInv, RingInv, Feeds
    <2>3. conn.pc \in {"off", "snapshot", "publish", "sync", "page", "wait"}
        BY DEF StreamInv, ConnInv, Connections, Off
    <2>4. wire \in Seq(Message) /\ 0 \in 0 .. Len(wire) /\ Place(0) = lastId
        BY DEF StreamInv, WireInv, Place
    <2>5. lastId <= feed.next
        BY <2>4 DEF StreamInv, WireInv
    <2> QED
        BY <2>1, <2>2, <2>3, <2>4, <2>5 DEF StreamTypeOK, StreamInv, ConnInv
<1>2. ASSUME source = "open", conn.pc = "wait", wire = <<>>, conn.cursor = feed.next
      PROVE  streamed = feed.hashes
    <2>1. /\ Len(wire) = 0 /\ Place(0) = lastId /\ conn.cursor = lastId /\ lastId > 0
          /\ feed.next \in Nat /\ feed.events \in Seq(RealtimeEvent) /\ 0 \in 0 .. Len(wire)
        BY <1>2 DEF StreamInv, ConnInv, RingInv, Feeds, Place
    <2>2. \A i \in DOMAIN feed.events : feed.events[i].sequence <= feed.next /\ feed.events[i].sequence \in Nat
        <3>1. \A i \in DOMAIN feed.events : feed.events[i] \in RealtimeEvent
            BY <2>1
        <3>2. \A e \in RealtimeEvent : e.sequence \in Nat
            BY DEF RealtimeEvent
        <3> QED
            BY <3>1, <3>2 DEF StreamInv, RingInv
    <2>3. feed.events # <<>>
        BY <1>2, <2>1 DEF StreamInv, RingInv
    <2>4. 1 \in DOMAIN feed.events
        BY <2>1, <2>3, EmptySeq
    <2>5. \A d \in Names : Current(feed, Place(0), d)
        BY <1>2, <2>1, <2>2, <2>4 DEF Current
    <2>6. ASSUME NEW d \in Names
          PROVE  streamed[d] = feed.hashes[d]
        <3>1. \A i \in 0 .. 0 : (Wrote(i, d) /\ \A j \in (i + 1) .. 0 : d \notin DOMAIN wire[j].data)
                                     => Value(i, d) = feed.hashes[d]
            BY <2>1, <2>5 DEF StreamInv, Told
        <3>2. Wrote(0, d) /\ Value(0, d) = streamed[d] /\ 0 \in 0 .. 0 /\ \A j \in (0 + 1) .. 0 : FALSE
            BY DEF Wrote, Value
        <3> QED
            BY <3>1, <3>2
    <2>7. streamed \in [Names -> 0 .. MaxChanges] /\ feed.hashes \in [Names -> -1 .. MaxChanges]
        BY DEF StreamInv, ValuesInv, RealtimeSnapshot, RingInv, Feeds
    <2> QED
        BY <2>6, <2>7
<1> QED
    BY <1>1, <1>2 DEF NothingMissed

\* Every step of one console keeps the invariant.
LEMMA StreamStep ==
    ASSUME StreamInv, StreamNext
    PROVE  StreamInv'
<1>1. CASE Handler
    BY <1>1, SnapshotStep, PublishStep, SyncStep, TickStep, PageStep DEF Handler
<1>2. CASE connect \/ receive
    BY <1>2, ConnectStep, ReceiveStep
<1>3. CASE refreshAnswered \/ refreshLands \/ refreshFails
    BY <1>3, RefreshStep
<1>4. CASE \E d \in Names : change(d)
    BY <1>4, ChangeStep
<1>r. refresh \in {Quiet, [pc |-> "asked"]} \cup [pc : {"read"}, data : RealtimeSnapshot]
    BY DEF StreamInv, ValuesInv
<1>s. StartsRefresh => refresh' \in {Quiet, [pc |-> "asked"]} \cup [pc : {"read"}, data : RealtimeSnapshot]
    BY <1>r DEF StartsRefresh
<1>5. CASE drop
    <2>1. /\ UNCHANGED <<current, feed, streamed, shown>> /\ conn' = Off /\ source' # "open" /\ wire' = <<>>
          /\ lastId' = lastId /\ StartsRefresh
          /\ budget' \in Budgets /\ budget'.changes = budget.changes
        <3>1. budget' \in Budgets /\ budget'.changes = budget.changes
            BY <1>5, BudgetSpent, Zenon DEF drop, StreamInv, ValuesInv
        <3> QED
            BY <1>5, <3>1 DEF drop
    <2> QED
        BY <2>1, <1>s, LostStep
<1>6. CASE visibilityChange
    <2>1. /\ UNCHANGED <<current, feed, streamed, shown>> /\ conn' = Off /\ source' # "open" /\ wire' = <<>>
          /\ lastId' = lastId \/ lastId' = 0
          /\ UNCHANGED refresh \/ StartsRefresh
        BY <1>6 DEF visibilityChange
    <2>2. budget' \in Budgets /\ budget'.changes = budget.changes
        BY <1>6, BudgetSpent, Zenon DEF visibilityChange, StreamInv, ValuesInv
    <2> QED
        BY <2>1, <2>2, <1>r, <1>s, LostStep
<1> QED
    BY <1>1, <1>2, <1>3, <1>4, <1>5, <1>6 DEF StreamNext, Browser, Refreshing

\* On a feed of its own, a console that has received all that was written to
\* it, and whose handler is at the end of the feed, has been told the last
\* value of every domain, through lost connections, replays and resets
\* (realtime.go, after and stream; App.tsx).
THEOREM NothingIsMissed == StreamSpec => []NothingMissed
<1>1. StreamInit => StreamInv
    BY StreamInitInv
<1>2. StreamInv /\ [StreamNext]_streamVars => StreamInv'
    <2> SUFFICES ASSUME StreamInv, [StreamNext]_streamVars
                 PROVE  StreamInv'
        OBVIOUS
    <2>1. CASE StreamNext
        BY <2>1, StreamStep
    <2>2. CASE UNCHANGED streamVars
        <3>1. UNCHANGED <<current, feed, conn, wire, source, lastId, streamed, shown, refresh, budget>>
            BY <2>2 DEF streamVars
        <3>2. RingInv(feed)' /\ WireInv' /\ Told' /\ ConnInv'
            BY <3>1, WireKept, ConnKept
        <3>3. ValuesInv'
            BY <3>1 DEF StreamInv, ValuesInv
        <3> QED
            BY <3>2, <3>3 DEF StreamInv
    <2> QED
        BY <2>1, <2>2
<1>3. StreamInv => NothingMissed
    BY KeptUp
<1> QED
    BY <1>1, <1>2, <1>3, PTL DEF StreamSpec

------------------------------------------------------------------------------
\* Lists: pages, polls and filters make one list.

\* The records up to a number, the newest of them that make a page, and the
\* answer of the server when those are asked for.
Upto(f, m)  == {r \in f : r <= m}
TopOf(f, m) == {r \in Upto(f, m) : Cardinality({s \in Upto(f, m) : s > r}) < PageSize}
AnswerAt(f, m) ==
    [items   |-> Descending(TopOf(f, m)),
     next    |-> IF Upto(f, m) # TopOf(f, m)
                 THEN CHOOSE r \in TopOf(f, m) : \A s \in TopOf(f, m) : r <= s ELSE 0,
     hasMore |-> Upto(f, m) # TopOf(f, m)]

Descends(s) == \A i, j \in DOMAIN s : i < j => s[i] > s[j]

\* A finite set of numbers that is not empty has a largest and a smallest one.
LEMMA Extremes ==
    ASSUME NEW S, IsFiniteSet(S), S \subseteq Int, S # {}
    PROVE  /\ \E x \in S : \A y \in S : y <= x
           /\ \E x \in S : \A y \in S : x <= y
<1> DEFINE up == Ascending(S)
           c == Cardinality(S)
<1>1. /\ c \in Nat /\ up \in [1 .. c -> S]
      /\ \A n \in S : \E i \in 1 .. c : up[i] = n
      /\ \A i, j \in 1 .. c : i < j <=> up[i] < up[j]
    BY AscendingOrder
<1> HIDE DEF up, c
<1>2. 1 \in 1 .. c /\ c \in 1 .. c
    <2>1. PICK n \in S : TRUE
        OBVIOUS
    <2>2. PICK i \in 1 .. c : up[i] = n
        BY <1>1
    <2> QED
        BY <1>1, <2>2
<1>3. \A i \in 1 .. c : up[i] <= up[c] /\ up[1] <= up[i]
    <2> SUFFICES ASSUME NEW i \in 1 .. c
                 PROVE  up[i] <= up[c] /\ up[1] <= up[i]
        OBVIOUS
    <2>1. up[i] \in Int /\ up[1] \in Int /\ up[c] \in Int
        BY <1>1, <1>2
    <2>2. (i < c => up[i] < up[c]) /\ (1 < i => up[1] < up[i])
        BY <1>1, <1>2
    <2>3. (i < c \/ i = c) /\ (1 < i \/ i = 1)
        BY <1>1
    <2>4. (i = c => up[i] = up[c]) /\ (i = 1 => up[1] = up[i])
        OBVIOUS
    <2> QED
        BY <2>1, <2>2, <2>3, <2>4
<1>4. up[c] \in S /\ up[1] \in S
    BY <1>1, <1>2
<1>5. \A y \in S : y <= up[c] /\ up[1] <= y
    BY <1>1, <1>3
<1> QED
    BY <1>4, <1>5

\* Records are numbers, and there are finitely many.
LEMMA UptoFinite ==
    ASSUME NEW f, f \subseteq 1 .. MaxRecords, NEW m \in Nat
    PROVE  /\ IsFiniteSet(Upto(f, m)) /\ Upto(f, m) \subseteq Int
           /\ \A r \in Upto(f, m) : r \in Nat /\ r \in f /\ r \in 1 .. MaxRecords /\ r > 0 /\ r <= m
           /\ TopOf(f, m) \subseteq Upto(f, m) /\ IsFiniteSet(TopOf(f, m)) /\ TopOf(f, m) \subseteq Int
           /\ MaxRecords \in Nat /\ PageSize \in Nat \ {0}
<1> DEFINE all == 1 .. MaxRecords
<1>1. MaxRecords \in Nat /\ PageSize \in Nat \ {0} /\ 1 \in Int /\ MaxRecords \in Int
    BY ListsAssumption
<1>2. IsFiniteSet(all)
    BY <1>1, FS_Interval
<1>3. \A r \in f : r \in all
    OBVIOUS
<1>4. \A r \in all : r \in Nat /\ r > 0
    BY <1>1
<1> HIDE DEF all
<1>5. Upto(f, m) \subseteq all /\ \A r \in Upto(f, m) : r \in f /\ r <= m
    BY <1>3 DEF Upto
<1>6. IsFiniteSet(Upto(f, m))
    BY <1>2, <1>5, FS_Subset
<1>7. TopOf(f, m) \subseteq Upto(f, m)
    BY DEF TopOf
<1>8. IsFiniteSet(TopOf(f, m))
    BY <1>6, <1>7, FS_Subset
<1>9. \A r \in Upto(f, m) : r \in Nat /\ r > 0
    BY <1>4, <1>5
<1> QED
    BY <1>1, <1>5, <1>6, <1>7, <1>8, <1>9 DEF all

\* What is on the first page of many is on that of fewer, of which it is as
\* new or newer.
LEMMA TopMono ==
    ASSUME NEW f, NEW u, f \subseteq u, u \subseteq 1 .. MaxRecords, NEW m \in Nat, NEW n \in Nat, m <= n,
           NEW r \in TopOf(u, n), NEW s \in f, r <= s, s <= m
    PROVE  s \in TopOf(f, m)
<1> DEFINE A == {t \in Upto(f, m) : t > s}
           B == {t \in Upto(u, n) : t > r}
<1>1. MaxRecords \in Nat /\ PageSize \in Nat
    BY ListsAssumption
<1>2. /\ \A t \in Upto(u, n) : t \in Nat
      /\ \A t \in Upto(f, m) : t \in Nat /\ t \in f /\ t <= m
      /\ r \in Upto(u, n) /\ r \in Nat /\ IsFiniteSet(Upto(u, n))
    <2>1. f \subseteq 1 .. MaxRecords
        OBVIOUS
    <2>2. TopOf(u, n) \subseteq Upto(u, n)
        BY DEF TopOf
    <2> QED
        BY <2>1, <2>2, UptoFinite
<1>s. s \in Upto(f, m) /\ s \in Nat
    BY <1>2 DEF Upto
<1>3. A \subseteq B
    <2> SUFFICES ASSUME NEW t \in Upto(f, m), t > s
                 PROVE  t \in Upto(u, n) /\ t > r
        OBVIOUS
    <2>1. t \in Nat /\ t \in f /\ t <= m
        BY <1>2
    <2>2. t <= n /\ t > r
        BY <1>2, <1>s, <2>1
    <2> QED
        BY <2>1, <2>2 DEF Upto
<1>4. IsFiniteSet(B)
    <2>1. B \subseteq Upto(u, n)
        OBVIOUS
    <2> QED
        BY <1>2, <2>1, FS_Subset
<1>5. IsFiniteSet(A) /\ Cardinality(A) <= Cardinality(B) /\ Cardinality(A) \in Nat /\ Cardinality(B) \in Nat
    BY <1>3, <1>4, FS_Subset, FS_CardinalityType
<1>6. Cardinality(B) < PageSize
    BY DEF TopOf
<1>7. Cardinality(A) < PageSize
    BY <1>1, <1>5, <1>6
<1> HIDE DEF B
<1> QED
    BY <1>7, <1>s DEF TopOf

\* A page reaches up to the newest record.
LEMMA TopReach ==
    ASSUME NEW f, f \subseteq 1 .. MaxRecords, NEW m \in Nat, NEW r \in f, r <= m
    PROVE  \E s \in TopOf(f, m) : r <= s
<1> DEFINE U == Upto(f, m)
<1>1. PageSize \in Nat \ {0} /\ IsFiniteSet(U) /\ U \subseteq Int
    BY UptoFinite
<1>2. r \in U
    BY DEF Upto
<1> HIDE DEF U
<1>4. PICK x \in U : \A y \in U : y <= x
    BY <1>1, <1>2, Extremes
<1>5. {s \in U : s > x} = {}
    <2>1. \A y \in U : y \in Int /\ x \in Int /\ ~(y > x)
        BY <1>1, <1>4
    <2> QED
        BY <2>1
<1>6. Cardinality({s \in U : s > x}) = 0
    BY <1>5, FS_EmptySet
<1>7. x \in TopOf(f, m)
    BY <1>1, <1>4, <1>6 DEF TopOf, U
<1> QED
    BY <1>2, <1>4, <1>7

\* What is new is on the first page while a page holds all that is new.
LEMMA TopNew ==
    ASSUME MaxRecords - Recorded <= PageSize, NEW f, f \subseteq 1 .. MaxRecords,
           NEW n \in Nat, n <= MaxRecords, NEW s \in f, Recorded < s, s <= n
    PROVE  s \in TopOf(f, n)
<1> DEFINE A == {t \in Upto(f, n) : t > s}
<1>1. MaxRecords \in Nat /\ PageSize \in Nat /\ Recorded \in Nat /\ s \in Nat
    BY ListsAssumption
<1>2. IsFiniteSet((s + 1) .. n) /\ Cardinality((s + 1) .. n) <= n - s
    <2>1. s + 1 \in Int /\ n \in Int
        BY <1>1
    <2>2. IsFiniteSet((s + 1) .. n) /\ Cardinality((s + 1) .. n) = IF s + 1 > n THEN 0 ELSE n - (s + 1) + 1
        BY <2>1, FS_Interval
    <2> QED
        BY <1>1, <2>2
<1>3. A \subseteq (s + 1) .. n
    <2>1. \A t \in Upto(f, n) : t \in Nat /\ t <= n
        BY UptoFinite
    <2> QED
        BY <1>1, <2>1
<1>4. Cardinality(A) <= Cardinality((s + 1) .. n) /\ Cardinality(A) \in Nat /\ Cardinality((s + 1) .. n) \in Nat
    BY <1>2, <1>3, FS_Subset, FS_CardinalityType
<1>5. Cardinality(A) < PageSize
    BY <1>1, <1>2, <1>4
<1>6. s \in Upto(f, n)
    BY DEF Upto
<1> QED
    BY <1>5, <1>6 DEF TopOf

Pages == [items : Seq(1 .. MaxRecords), next : 0 .. MaxRecords, hasMore : BOOLEAN]

\* An answer: the page in order, and a cursor that is its last record, unless
\* there is nothing older.
LEMMA AnswerFacts ==
    ASSUME NEW f, f \subseteq 1 .. MaxRecords, NEW m \in 0 .. MaxRecords
    PROVE  /\ AnswerAt(f, m) \in Pages /\ AnswerAt(f, m).next <= m
           /\ AnswerAt(f, m).hasMore => AnswerAt(f, m).next > 0
           /\ Descends(AnswerAt(f, m).items)
           /\ Range(AnswerAt(f, m).items) = TopOf(f, m)
           /\ \A s \in TopOf(f, m) : AnswerAt(f, m).next <= s
           /\ \A r \in f : r <= m /\ r \notin TopOf(f, m) => r < AnswerAt(f, m).next
<1> DEFINE T == TopOf(f, m)
           U == Upto(f, m)
           c == Cardinality(T)
           d == Descending(T)
           last == IF U # T THEN CHOOSE r \in T : \A s \in T : r <= s ELSE 0
<1>1. MaxRecords \in Nat /\ m \in Nat /\ m <= MaxRecords
    BY ListsAssumption
<1>2. /\ T \subseteq U /\ T \subseteq Int /\ IsFiniteSet(T)
      /\ \A r \in U : r <= m /\ r \in Nat /\ r > 0 /\ r \in f /\ r \in 1 .. MaxRecords
    BY <1>1, UptoFinite
<1>4. /\ c \in Nat /\ d \in [1 .. c -> T]
      /\ \A n \in T : \E i \in 1 .. c : d[i] = n
      /\ \A i, j \in 1 .. c : i < j <=> d[i] > d[j]
    BY <1>2, DescendingOrder
<1>5. AnswerAt(f, m).items = d /\ AnswerAt(f, m).next = last /\ AnswerAt(f, m).hasMore = (U # T)
      /\ AnswerAt(f, m) = [items |-> d, next |-> last, hasMore |-> U # T]
    BY DEF AnswerAt
<1>6. U # T => last \in T /\ \A s \in T : last <= s
    <2> SUFFICES ASSUME U # T
                 PROVE  last \in T /\ \A s \in T : last <= s
        OBVIOUS
    <2>1. PICK r \in U : r \notin T
        BY <1>2
    <2>2. r \in f /\ r <= m
        BY <2>1 DEF Upto
    <2>3. T # {}
        BY <1>1, <2>2, TopReach
    <2>4. \E x \in T : \A y \in T : x <= y
        BY <1>2, <2>3, Extremes
    <2> HIDE DEF T, U
    <2> QED
        BY <2>4
<1>7. U = T => last = 0
    OBVIOUS
<1>8. ASSUME NEW r \in f, r <= m, r \notin T
      PROVE  r < last
    <2>1. r \in U /\ U # T
        BY <1>8 DEF Upto
    <2>2. last \in T /\ last \in U
        BY <1>2, <1>6, <2>1
    <2>3. ~(last <= r)
        <3> SUFFICES ASSUME last <= r
                     PROVE  r \in TopOf(f, m)
            BY <1>8
        <3>1. last \in TopOf(f, m) /\ f \subseteq f /\ m <= m
            BY <1>1, <2>2
        <3> QED
            BY <1>1, <1>8, <3>1, TopMono
    <2> QED
        BY <1>2, <2>1, <2>2, <2>3
<1> HIDE DEF T, U, c, d, last
<1>14. U # T => last > 0
    <2>1. U # T => last \in U
        BY <1>2, <1>6
    <2> QED
        BY <1>2, <2>1
<1>9. last \in 0 .. m /\ \A s \in T : last <= s
    <2>1. CASE U = T
        <3>1. last = 0 /\ \A s \in T : s \in Nat
            BY <1>2, <1>7, <2>1
        <3> QED
            BY <1>1, <3>1
    <2>2. CASE U # T
        <3>1. last \in U /\ \A s \in T : last <= s
            BY <1>2, <1>6, <2>2
        <3> QED
            BY <1>1, <1>2, <3>1
    <2> QED
        BY <2>1, <2>2
<1>10. d \in Seq(1 .. MaxRecords) /\ DOMAIN d = 1 .. c
    <2> DEFINE all == 1 .. MaxRecords
    <2>1. \A x \in T : x \in all
        BY <1>2
    <2> HIDE DEF all
    <2>2. d \in [1 .. c -> all] /\ c \in Nat
        BY <1>4, <2>1
    <2>3. d \in Seq(all) /\ DOMAIN d = 1 .. c
        BY <2>2
    <2> QED
        BY <2>3 DEF all
<1>11. Range(d) = T
    <2>1. \A i \in 1 .. c : d[i] \in T
        BY <1>4
    <2> QED
        BY <1>4, <1>10, <2>1 DEF Range
<1>12. Descends(d)
    BY <1>4, <1>10 DEF Descends
<1>13. [items |-> d, next |-> last, hasMore |-> U # T] \in Pages
    BY <1>1, <1>9, <1>10 DEF Pages
<1>15. AnswerAt(f, m).hasMore => AnswerAt(f, m).next > 0
    BY <1>5, <1>14
<1> QED
    BY <1>1, <1>5, <1>8, <1>9, <1>11, <1>12, <1>13, <1>15 DEF T

\* What the console asks for is such an answer.
LEMMA QueryIs ==
    ASSUME NEW f, f \subseteq 1 .. MaxRecords, newest \in 0 .. MaxRecords
    PROVE  /\ Query(f, 0) = AnswerAt(f, newest)
           /\ \A c \in 1 .. newest : Query(f, c) = AnswerAt(f, c - 1)
<1>1. MaxRecords \in Nat
    BY ListsAssumption
<1> DEFINE Q(older) ==
             LET page == {r \in older : Cardinality({s \in older : s > r}) < PageSize}
                 more == older # page
             IN  [items   |-> Descending(page),
                  next    |-> IF more THEN CHOOSE r \in page : \A s \in page : r <= s ELSE 0,
                  hasMore |-> more]
<1>a. \A m : AnswerAt(f, m) = Q(Upto(f, m))
    BY DEF AnswerAt, TopOf
<1>q. \A c : Query(f, c) = Q({r \in f : r <= newest /\ (c = 0 \/ r < c)})
    BY DEF Query
<1> HIDE DEF Q
<1>2. {r \in f : r <= newest /\ (0 = 0 \/ r < 0)} = Upto(f, newest)
    BY DEF Upto
<1>3. Query(f, 0) = AnswerAt(f, newest)
    BY <1>a, <1>q, <1>2
<1>4. ASSUME NEW c \in 1 .. newest
      PROVE  Query(f, c) = AnswerAt(f, c - 1)
    <2>1. \A r \in f : r \in Int
        BY <1>1
    <2>2. \A r \in f : (r <= newest /\ (c = 0 \/ r < c)) <=> r <= c - 1
        BY <1>1, <2>1
    <2>3. {r \in f : r <= newest /\ (c = 0 \/ r < c)} = Upto(f, c - 1)
        BY <2>2 DEF Upto
    <2> QED
        BY <1>a, <1>q, <2>3
<1> QED
    BY <1>3, <1>4

\* Two lists one behind the other, without what the first one has already: in
\* order, when what is left of the second is older.
Spliced(a, b) == a \o Subsequence(b, {i \in DOMAIN b : b[i] \notin Range(a)})

\* The two ways in which the console joins lists.
LEMMA JoinedLists ==
    ASSUME NEW a \in Seq(1 .. MaxRecords), NEW b \in Seq(1 .. MaxRecords), Descends(a), Descends(b),
           \A t \in Range(b), s \in Range(a) : t \notin Range(a) => t < s
    PROVE  /\ Spliced(a, b) \in Seq(1 .. MaxRecords) /\ Descends(Spliced(a, b))
           /\ Range(Spliced(a, b)) = Range(a) \cup Range(b)
<1> DEFINE P == {i \in DOMAIN b : b[i] \notin Range(a)}
           s == Subsequence(b, P)
           all == 1 .. MaxRecords
<1>1. P \in SUBSET DOMAIN b /\ \A i \in DOMAIN b : i \in P <=> b[i] \notin Range(a)
    OBVIOUS
<1>j. Spliced(a, b) = a \o s
    BY DEF Spliced
<1>a. a \in Seq(all) /\ b \in Seq(all) /\ \A x \in all : x \in Int
    BY ListsAssumption
<1> HIDE DEF P, all
<1>2. PICK place \in [1 .. Cardinality(P) -> P] :
          /\ Cardinality(P) \in 0 .. Len(b)
          /\ Subsequence(b, P) \in Seq(all) /\ Len(Subsequence(b, P)) = Cardinality(P)
          /\ \A i \in 1 .. Cardinality(P) : Subsequence(b, P)[i] = b[place[i]]
          /\ \A p \in P : \E i \in 1 .. Cardinality(P) : place[i] = p
          /\ \A i, j \in 1 .. Cardinality(P) : i < j <=> place[i] < place[j]
          /\ Cardinality(P) = Len(b) => P = DOMAIN b
    BY <1>a, <1>1, SubsequenceOf
<1> DEFINE c == Cardinality(P)
           n == Len(a)
<1>3. /\ c \in Nat /\ s \in Seq(all) /\ Len(s) = c /\ n \in Nat /\ DOMAIN a = 1 .. n
      /\ \A i \in 1 .. c : s[i] = b[place[i]] /\ place[i] \in P
      /\ \A p \in P : \E i \in 1 .. c : place[i] = p
      /\ \A i, j \in 1 .. c : i < j => place[i] < place[j]
    <2>1. Len(b) \in Nat /\ n \in Nat /\ DOMAIN a = 1 .. n
        BY <1>a
    <2>2. c \in Nat
        BY <1>2, <2>1
    <2>3. s \in Seq(all) /\ Len(s) = c /\ \A i \in 1 .. c : s[i] = b[place[i]] /\ place[i] \in P
        BY <1>2
    <2>4. /\ \A p \in P : \E i \in 1 .. c : place[i] = p
          /\ \A i, j \in 1 .. c : i < j => place[i] < place[j]
        BY <1>2
    <2> QED
        BY <2>1, <2>2, <2>3, <2>4
<1> HIDE DEF c, n, s
<1> DEFINE t == a \o s
<1>4. /\ t \in Seq(all) /\ Len(t) = n + c /\ DOMAIN t = 1 .. (n + c)
      /\ \A i \in 1 .. (n + c) : t[i] = IF i <= n THEN a[i] ELSE s[i - n]
    <2>1. t \in Seq(all) /\ Len(t) = Len(a) + Len(s)
          /\ \A i \in 1 .. (Len(a) + Len(s)) : t[i] = IF i <= Len(a) THEN a[i] ELSE s[i - Len(a)]
        <3>1. a \in Seq(all) /\ s \in Seq(all)
            BY <1>a, <1>3
        <3> QED
            BY <3>1, ConcatProperties
    <2>2. Len(a) = n /\ Len(s) = c
        BY <1>3 DEF n
    <2> QED
        BY <2>1, <2>2
<1> HIDE DEF t
<1>5. \A i \in 1 .. n : i \in 1 .. (n + c) /\ t[i] = a[i]
    BY <1>3, <1>4
<1>6. \A i \in 1 .. c : n + i \in 1 .. (n + c) /\ t[n + i] = s[i]
    <2> SUFFICES ASSUME NEW i \in 1 .. c
                 PROVE  n + i \in 1 .. (n + c) /\ t[n + i] = s[i]
        OBVIOUS
    <2>1. n + i \in 1 .. (n + c) /\ ~(n + i <= n) /\ (n + i) - n = i
        BY <1>3
    <2> QED
        BY <2>1, <1>4
<1>7. \A i \in 1 .. (n + c) : i \in 1 .. n \/ (i - n \in 1 .. c /\ n + (i - n) = i /\ i > n)
    BY <1>3
<1>8. \A i \in 1 .. c : s[i] = b[place[i]] /\ place[i] \in DOMAIN b /\ s[i] \in Range(b) /\ s[i] \notin Range(a)
    BY <1>1, <1>3 DEF Range
<1>9. Range(t) = Range(a) \cup Range(b)
    <2>1. ASSUME NEW i \in 1 .. (n + c)
          PROVE  t[i] \in Range(a) \cup Range(b)
        <3>1. CASE i \in 1 .. n
            BY <3>1, <1>3, <1>5 DEF Range
        <3>2. CASE i - n \in 1 .. c /\ n + (i - n) = i
            <4>1. t[i] = s[i - n]
                BY <3>2, <1>6
            <4> QED
                BY <3>2, <4>1, <1>8
        <3> QED
            BY <3>1, <3>2, <1>7
    <2>2. ASSUME NEW i \in 1 .. n
          PROVE  a[i] \in Range(t)
        BY <1>4, <1>5 DEF Range
    <2>3. ASSUME NEW i \in DOMAIN b, b[i] \notin Range(a)
          PROVE  b[i] \in Range(t)
        <3>1. PICK k \in 1 .. c : place[k] = i
            BY <1>1, <1>3, <2>3
        <3>2. n + k \in DOMAIN t /\ t[n + k] = b[i]
            BY <3>1, <1>3, <1>4, <1>6
        <3> QED
            BY <3>2 DEF Range
    <2>4. Range(t) \subseteq Range(a) \cup Range(b)
        <3>1. \A x \in Range(t) : \E i \in 1 .. (n + c) : x = t[i]
            BY <1>4 DEF Range
        <3> QED
            BY <3>1, <2>1
    <2>5. Range(a) \subseteq Range(t)
        <3>1. \A x \in Range(a) : \E i \in 1 .. n : x = a[i]
            BY <1>3 DEF Range
        <3> QED
            BY <3>1, <2>2
    <2>6. Range(b) \subseteq Range(t)
        <3>1. \A x \in Range(b) : \E i \in DOMAIN b : x = b[i]
            BY DEF Range
        <3> QED
            BY <3>1, <2>3, <2>5
    <2> QED
        BY <2>4, <2>5, <2>6
<1>10. Descends(t)
    <2> SUFFICES ASSUME NEW i \in 1 .. (n + c), NEW j \in 1 .. (n + c), i < j
                 PROVE  t[i] > t[j]
        BY <1>4 DEF Descends
    <2>1. CASE i \in 1 .. n /\ j \in 1 .. n
        <3>1. a[i] > a[j]
            BY <2>1, <1>3 DEF Descends
        <3> QED
            BY <2>1, <3>1, <1>5
    <2>2. CASE i \in 1 .. n /\ j - n \in 1 .. c /\ n + (j - n) = j
        <3>1. t[i] = a[i] /\ a[i] \in Range(a)
            BY <2>2, <1>3, <1>5 DEF Range
        <3>2. t[j] = s[j - n] /\ s[j - n] \in Range(b) /\ s[j - n] \notin Range(a)
            BY <2>2, <1>6, <1>8
        <3>3. t[j] < t[i] /\ t[j] \in Int /\ t[i] \in Int
            <4>1. t[j] \in all /\ t[i] \in all
                BY <1>4
            <4> QED
                BY <3>1, <3>2, <4>1, <1>a
        <3> QED
            BY <3>3
    <2>3. CASE (i - n \in 1 .. c /\ n + (i - n) = i) /\ (j - n \in 1 .. c /\ n + (j - n) = j)
        <3>1. t[i] = b[place[i - n]] /\ t[j] = b[place[j - n]] /\ place[i - n] \in DOMAIN b /\ place[j - n] \in DOMAIN b
            BY <2>3, <1>6, <1>8
        <3>2. i - n < j - n
            BY <1>3
        <3>3. place[i - n] < place[j - n]
            BY <2>3, <3>2, <1>3
        <3> QED
            BY <3>1, <3>3 DEF Descends
    <2>4. CASE i > n /\ j \in 1 .. n
        BY <2>4, <1>3
    <2> QED
        BY <1>7, <2>1, <2>2, <2>3, <2>4
<1> QED
    BY <1>j, <1>4, <1>9, <1>10 DEF t, all

\* A list of filter g that was last read, or joined with what was read, when n
\* was the newest record, with cursor c: in order, of that filter, without a
\* gap, with its cursor at its end, and with what is new.
Beneath(r, S) == S # {} /\ \A x \in S : r < x
Listed(s, c, g, n) ==
    /\ Descends(s) /\ Range(s) \subseteq Upto(g, n)
    /\ \A r \in g, x, y \in Range(s) : x <= r /\ r <= y => r \in Range(s)
    /\ \A r \in g : Beneath(r, Range(s)) => r < c /\ r \notin TopOf(g, n)
    /\ \A r \in g : Recorded < r => c <= r

\* It shows the newest of the records that were there at the start.
Reaches(S, g) == \A r \in g : r <= Recorded => \E x \in S : r <= x

\* What lies up to m goes on from the list: the page behind a cursor.
Ahead(m, g, S) ==
    /\ \A r \in g : Recorded < r => m < r
    /\ \A r \in g : Beneath(r, S) => r <= m

\* A filter is a set of records.
LEMMA FilterFacts ==
    ASSUME NEW g \in Filters
    PROVE  /\ g \subseteq 1 .. MaxRecords /\ MaxRecords \in Nat /\ Recorded \in Nat
           /\ \A r \in g : r \in Nat /\ r > 0
<1>1. g \subseteq 1 .. MaxRecords /\ MaxRecords \in Nat /\ Recorded \in Nat
    BY ListsAssumption
<1>2. \A r \in 1 .. MaxRecords : r \in Nat /\ r > 0
    BY <1>1
<1> QED
    BY <1>1, <1>2

\* The list as a first page leaves it.
LEMMA ReplacedList ==
    ASSUME MaxRecords - Recorded <= PageSize, NEW g \in Filters, NEW n \in Recorded .. MaxRecords
    PROVE  LET p == AnswerAt(g, n)
           IN  Listed(p.items, p.next, g, n) /\ Reaches(Range(p.items), g)
<1> DEFINE p == AnswerAt(g, n)
<1>1. /\ MaxRecords \in Nat /\ Recorded \in Nat /\ n \in Nat /\ n \in 0 .. MaxRecords
      /\ Recorded <= n /\ n <= MaxRecords /\ g \subseteq 1 .. MaxRecords
    BY ListsAssumption
<1>2. /\ Descends(p.items) /\ Range(p.items) = TopOf(g, n) /\ p.next \in 0 .. MaxRecords /\ p.next <= n
      /\ \A s \in TopOf(g, n) : p.next <= s
      /\ \A r \in g : r <= n /\ r \notin TopOf(g, n) => r < p.next
    BY <1>1, AnswerFacts DEF Pages
<1> HIDE DEF p
<1>3. /\ TopOf(g, n) \subseteq Upto(g, n) /\ \A r \in Upto(g, n) : r \in Nat /\ r <= n /\ r \in g
      /\ \A r \in g : r \in Nat
    <2>1. \A r \in g : r \in Nat
        BY FilterFacts
    <2> QED
        BY <1>1, <2>1, UptoFinite
<1>4. ASSUME NEW r \in g, NEW x \in TopOf(g, n), x <= r, r <= n
      PROVE  r \in TopOf(g, n)
    <2>1. g \subseteq g /\ n <= n
        BY <1>1
    <2> QED
        BY <1>1, <1>4, <2>1, TopMono
<1>5. \A r \in g, x, y \in TopOf(g, n) : x <= r /\ r <= y => r \in TopOf(g, n)
    <2> SUFFICES ASSUME NEW r \in g, NEW x \in TopOf(g, n), NEW y \in TopOf(g, n), x <= r, r <= y
                 PROVE  r \in TopOf(g, n)
        OBVIOUS
    <2>1. r <= n
        BY <1>1, <1>3
    <2> QED
        BY <1>4, <2>1
<1>6. ASSUME NEW r \in g, Beneath(r, TopOf(g, n))
      PROVE  r < p.next /\ r \notin TopOf(g, n)
    <2>1. PICK x \in TopOf(g, n) : r < x
        BY <1>6 DEF Beneath
    <2>2. r \notin TopOf(g, n)
        BY <1>3, <1>6 DEF Beneath
    <2>3. r <= n
        BY <1>1, <1>3, <2>1
    <2> QED
        BY <1>2, <2>2, <2>3
<1>7. ASSUME NEW r \in g, Recorded < r
      PROVE  p.next <= r
    <2>1. CASE r <= n
        <3>1. r \in TopOf(g, n)
            BY <1>1, <1>7, <2>1, TopNew
        <3> QED
            BY <1>2, <3>1
    <2>2. CASE ~(r <= n)
        BY <1>1, <1>2, <1>3, <2>2
    <2> QED
        BY <2>1, <2>2
<1>8. ASSUME NEW r \in g, r <= Recorded
      PROVE  \E x \in TopOf(g, n) : r <= x
    <2>1. r <= n
        BY <1>1, <1>3, <1>8
    <2> QED
        BY <1>1, <2>1, TopReach
<1>9. Listed(p.items, p.next, g, n)
    BY <1>2, <1>3, <1>5, <1>6, <1>7 DEF Listed
<1>10. Reaches(Range(p.items), g)
    BY <1>2, <1>8 DEF Reaches
<1> QED
    BY <1>9, <1>10 DEF p

\* A list that nothing is added to, when more records are there.
LEMMA KeptList ==
    ASSUME NEW g \in Filters, NEW n \in 0 .. MaxRecords, NEW n1 \in 0 .. MaxRecords, n <= n1, NEW s, NEW c, Listed(s, c, g, n)
    PROVE  Listed(s, c, g, n1)
<1>1. /\ MaxRecords \in Nat /\ n \in Nat /\ n1 \in Nat /\ g \subseteq 1 .. MaxRecords
    BY ListsAssumption
<1>2. /\ \A r \in Upto(g, n) : r \in Nat /\ r <= n /\ r \in g
      /\ \A r \in g : r \in Nat
    <2>1. \A r \in g : r \in Nat
        BY FilterFacts
    <2> QED
        BY <1>1, <2>1, UptoFinite
<1>3. Range(s) \subseteq Upto(g, n1)
    <2> SUFFICES ASSUME NEW x \in Range(s)
                 PROVE  x \in Upto(g, n1)
        OBVIOUS
    <2>1. x \in Upto(g, n)
        BY DEF Listed
    <2>2. x \in Nat /\ x <= n /\ x \in g
        BY <1>2, <2>1
    <2> QED
        BY <1>1, <2>2 DEF Upto
<1>4. ASSUME NEW r \in g, Beneath(r, Range(s))
      PROVE  r \notin TopOf(g, n1)
    <2> SUFFICES ASSUME r \in TopOf(g, n1)
                 PROVE  FALSE
        OBVIOUS
    <2>1. PICK x \in Range(s) : r < x
        BY <1>4 DEF Beneath
    <2>2. x \in Upto(g, n) /\ r \notin TopOf(g, n)
        BY <2>1, <1>4 DEF Listed
    <2>3. x \in Nat /\ x <= n /\ r \in Nat
        BY <1>2, <2>2
    <2>4. r <= n /\ r <= r /\ g \subseteq g
        BY <1>1, <2>1, <2>3
    <2>5. r \in TopOf(g, n)
        BY <1>1, <2>4, TopMono
    <2> QED
        BY <2>2, <2>5
<1> QED
    BY <1>3, <1>4 DEF Listed

\* A poll: the fresh page, then what was loaded and is not in it.
LEMMA MergedList ==
    ASSUME MaxRecords - Recorded <= PageSize, NEW g \in Filters,
           NEW n \in Recorded .. MaxRecords, NEW n1 \in Recorded .. MaxRecords, n <= n1,
           NEW s \in Seq(1 .. MaxRecords), NEW c, Listed(s, c, g, n), Reaches(Range(s), g) \/ s = <<>>
    PROVE  LET p == AnswerAt(g, n1)
               t == mergeHistoryPage(s, p.items)
           IN  /\ t \in Seq(1 .. MaxRecords) /\ Listed(t, p.next, g, n1) /\ Reaches(Range(t), g)
               /\ Reaches(Range(s), g) => \A m \in Nat : Ahead(m, g, Range(s)) => Ahead(m, g, Range(t))
<1> DEFINE p == AnswerAt(g, n1)
           t == mergeHistoryPage(s, p.items)
           S == Range(s)
           T == TopOf(g, n1)
<1>1. /\ n \in Nat /\ n1 \in Nat /\ n1 \in 0 .. MaxRecords /\ Recorded <= n1 /\ n1 <= MaxRecords
      /\ g \subseteq 1 .. MaxRecords /\ MaxRecords \in Nat /\ Recorded \in Nat /\ \A r \in g : r \in Nat
    BY FilterFacts
<1>2. /\ p.items \in Seq(1 .. MaxRecords) /\ Descends(p.items) /\ Range(p.items) = T
      /\ p.next \in 0 .. MaxRecords /\ p.next <= n1
      /\ \A x \in T : p.next <= x
      /\ \A r \in g : r <= n1 /\ r \notin T => r < p.next
    BY <1>1, AnswerFacts DEF Pages
<1>3. Listed(p.items, p.next, g, n1) /\ Reaches(T, g)
    BY <1>2, ReplacedList
<1>4. /\ \A x \in T : x \in Nat /\ x <= n1 /\ x \in g
      /\ \A x \in S : x \in Nat /\ x <= n1 /\ x \in g
    <2>1. /\ \A r \in Upto(g, n) : r \in Nat /\ r <= n /\ r \in g
          /\ \A r \in Upto(g, n1) : r \in Nat /\ r <= n1 /\ r \in g
          /\ T \subseteq Upto(g, n1)
        BY <1>1, UptoFinite
    <2>2. \A x \in S : x \in Upto(g, n)
        BY DEF Listed
    <2> QED
        BY <1>1, <2>1, <2>2
<1>t. t = Spliced(p.items, s)
    BY DEF mergeHistoryPage, Spliced
<1> HIDE DEF p, t, T
<1>5. ASSUME NEW r \in g, NEW x \in T, x <= r, r <= n1
      PROVE  r \in T
    <2>1. g \subseteq g /\ n1 <= n1
        BY <1>1
    <2> QED
        BY <1>1, <1>5, <2>1, TopMono DEF T
<1>6. \A y \in S, x \in T : y \notin T => y < x
    BY <1>4, <1>5
<1>7. t \in Seq(1 .. MaxRecords) /\ Descends(t) /\ Range(t) = T \cup S
    <2>1. Descends(s)
        BY DEF Listed
    <2> QED
        BY <1>2, <1>6, <1>t, <2>1, JoinedLists
<1>8. ASSUME NEW r \in g, NEW x \in T \cup S, NEW y \in T \cup S, x <= r, r <= y
      PROVE  r \in T \cup S
    <2>1. r \in Nat /\ x \in Nat /\ y \in Nat /\ r <= n1
        BY <1>1, <1>4, <1>8
    <2>2. CASE Recorded < r
        <3>1. r \in T
            BY <1>1, <2>1, <2>2, TopNew DEF T
        <3> QED
            BY <3>1
    <2>3. CASE x \in T
        BY <2>1, <2>3, <1>5, <1>8
    <2>4. CASE x \in S /\ ~(Recorded < r)
        <3>1. r <= Recorded /\ s # <<>>
            BY <1>1, <2>1, <2>4 DEF Range
        <3>2. PICK z \in S : r <= z
            BY <3>1 DEF Reaches
        <3> QED
            BY <2>4, <3>2, <1>8 DEF Listed
    <2> QED
        BY <2>2, <2>3, <2>4, <1>8
<1>9. ASSUME NEW r \in g, Beneath(r, T \cup S)
      PROVE  r < p.next /\ r \notin T
    <2>1. PICK x \in T \cup S : r < x
        BY <1>9 DEF Beneath
    <2>2. r \notin T
        BY <1>4, <1>9 DEF Beneath
    <2>3. r <= n1
        BY <1>1, <1>4, <2>1
    <2> QED
        BY <1>2, <2>2, <2>3
<1>10. Listed(t, p.next, g, n1)
    <2>1. T \cup S \subseteq Upto(g, n1)
        BY <1>4 DEF Upto
    <2>2. \A r \in g : Recorded < r => p.next <= r
        BY <1>3 DEF Listed
    <2> QED
        BY <1>7, <1>8, <1>9, <2>1, <2>2 DEF Listed, T
<1>11. Reaches(Range(t), g)
    BY <1>3, <1>7 DEF Reaches
<1>12. ASSUME Reaches(S, g), NEW m \in Nat, Ahead(m, g, S)
       PROVE  Ahead(m, g, Range(t))
    <2> SUFFICES ASSUME NEW r \in g, Beneath(r, T \cup S)
                 PROVE  r <= m
        BY <1>7, <1>12 DEF Ahead
    <2>1. CASE S = {}
        <3>1. ~(r <= Recorded)
            BY <2>1, <1>12 DEF Reaches
        <3>2. PICK x \in T : r < x
            BY <2>1 DEF Beneath
        <3>3. Recorded < r /\ r <= n1
            BY <1>1, <1>4, <3>1, <3>2
        <3>4. r \in T
            BY <1>1, <3>3, TopNew DEF T
        <3>5. r < r
            BY <3>4 DEF Beneath
        <3> QED
            BY <1>1, <3>5
    <2>2. CASE S # {}
        <3>1. Beneath(r, S)
            BY <2>2 DEF Beneath
        <3> QED
            BY <3>1, <1>12 DEF Ahead
    <2> QED
        BY <2>1, <2>2
<1> QED
    BY <1>7, <1>10, <1>11, <1>12 DEF p, t

\* The page behind the cursor goes behind the list.
LEMMA AppendedList ==
    ASSUME MaxRecords - Recorded <= PageSize, NEW g \in Filters,
           NEW n \in Recorded .. MaxRecords, NEW n1 \in Recorded .. MaxRecords, n <= n1,
           NEW s \in Seq(1 .. MaxRecords), NEW c, Listed(s, c, g, n), Reaches(Range(s), g),
           NEW m \in 0 .. n1, Ahead(m, g, Range(s))
    PROVE  LET p == AnswerAt(g, m)
               t == Appended(s, p.items)
           IN  /\ t \in Seq(1 .. MaxRecords) /\ Listed(t, p.next, g, n1) /\ Reaches(Range(t), g)
               /\ \A k \in Nat : Ahead(k, g, Range(s)) => Ahead(k, g, Range(t))
<1> DEFINE p == AnswerAt(g, m)
           t == Appended(s, p.items)
           S == Range(s)
           T == TopOf(g, m)
<1>1. /\ n \in Nat /\ n1 \in Nat /\ n1 \in 0 .. MaxRecords /\ n \in 0 .. MaxRecords /\ m \in Nat /\ m <= n1 /\ m \in 0 .. MaxRecords
      /\ g \subseteq 1 .. MaxRecords /\ MaxRecords \in Nat /\ Recorded \in Nat /\ \A r \in g : r \in Nat
    BY FilterFacts
<1>2. /\ p.items \in Seq(1 .. MaxRecords) /\ Descends(p.items) /\ Range(p.items) = T
      /\ p.next \in 0 .. MaxRecords /\ p.next <= m
      /\ \A x \in T : p.next <= x
      /\ \A r \in g : r <= m /\ r \notin T => r < p.next
    BY <1>1, AnswerFacts DEF Pages
<1>k. Listed(s, c, g, n1)
    BY <1>1, KeptList
<1>4. /\ \A x \in T : x \in Nat /\ x <= m /\ x \in g
      /\ \A x \in S : x \in Nat /\ x <= n1 /\ x \in g
    <2>1. /\ \A r \in Upto(g, m) : r \in Nat /\ r <= m /\ r \in g
          /\ \A r \in Upto(g, n1) : r \in Nat /\ r <= n1 /\ r \in g
          /\ T \subseteq Upto(g, m)
        BY <1>1, UptoFinite
    <2>2. \A x \in S : x \in Upto(g, n1)
        BY <1>k DEF Listed
    <2> QED
        BY <1>1, <2>1, <2>2
<1>t. t = Spliced(s, p.items)
    BY DEF Appended, Spliced
<1> HIDE DEF p, t, T
<1>5. ASSUME NEW r \in g, NEW x \in T, x <= r, r <= m
      PROVE  r \in T
    <2>1. g \subseteq g /\ m <= m
        BY <1>1
    <2> QED
        BY <1>1, <1>5, <2>1, TopMono DEF T
<1>h. ASSUME NEW r \in g, r <= m
      PROVE  \E y \in S : r <= y
    <2>1. ~(Recorded < r)
        BY <1>1, <1>h DEF Ahead
    <2>2. r <= Recorded
        BY <1>1, <2>1
    <2> QED
        BY <2>2 DEF Reaches
<1>6. ASSUME NEW x \in T, NEW y \in S, x \notin S
      PROVE  x < y
    <2> SUFFICES ASSUME y <= x
                 PROVE  FALSE
        BY <1>4
    <2>1. PICK z \in S : x <= z
        BY <1>4, <1>h
    <2>2. x \in S
        BY <2>1, <1>4 DEF Listed
    <2> QED
        BY <2>2, <1>6
<1>7. t \in Seq(1 .. MaxRecords) /\ Descends(t) /\ Range(t) = S \cup T
    <2>1. Descends(s)
        BY DEF Listed
    <2>2. \A x \in T, y \in S : x \notin S => x < y
        BY <1>6
    <2> QED
        BY <1>2, <1>t, <2>1, <2>2, JoinedLists
<1>e. S = {} => T = {}
    BY <1>4, <1>h
<1>8. ASSUME NEW r \in g, NEW x \in S \cup T, NEW y \in S \cup T, x <= r, r <= y
      PROVE  r \in S \cup T
    <2>1. r \in Nat /\ x \in Nat /\ y \in Nat
        BY <1>1, <1>4, <1>8
    <2>2. PICK z \in S : r <= z
        <3>1. CASE y \in S
            BY <3>1, <1>8
        <3>2. CASE y \in T
            <4>1. r <= m
                BY <3>2, <2>1, <1>1, <1>4, <1>8
            <4> QED
                BY <4>1, <1>h
        <3> QED
            BY <3>1, <3>2
    <2>3. CASE \E v \in S : v <= r
        BY <2>2, <2>3 DEF Listed
    <2>4. CASE ~(\E v \in S : v <= r)
        <3>1. \A v \in S : r < v
            BY <2>1, <2>4, <1>4
        <3>2. x \in T /\ r <= m
            BY <2>2, <2>4, <3>1, <1>8 DEF Ahead, Beneath
        <3> QED
            BY <3>2, <1>5, <1>8
    <2> QED
        BY <2>3, <2>4
<1>b. ASSUME NEW r \in g, Beneath(r, S \cup T)
      PROVE  Beneath(r, S) /\ r \notin T
    <2>1. S # {}
        BY <1>b, <1>e DEF Beneath
    <2>2. r \notin T
        BY <1>4, <1>b DEF Beneath
    <2> QED
        BY <2>1, <2>2, <1>b DEF Beneath
<1>9. ASSUME NEW r \in g, Beneath(r, S \cup T)
      PROVE  r < p.next /\ r \notin TopOf(g, n1)
    <2>1. Beneath(r, S) /\ r \notin T
        BY <1>9, <1>b
    <2>2. r <= m
        BY <2>1 DEF Ahead
    <2>3. r < p.next
        BY <2>1, <2>2, <1>2
    <2> QED
        BY <2>1, <2>3, <1>k DEF Listed
<1>10. Listed(t, p.next, g, n1)
    <2>1. S \cup T \subseteq Upto(g, n1)
        <3>1. \A x \in T : x <= n1
            BY <1>1, <1>4
        <3> QED
            BY <3>1, <1>4 DEF Upto
    <2>2. \A r \in g : Recorded < r => p.next <= r
        BY <1>1, <1>2 DEF Ahead
    <2> QED
        BY <1>7, <1>8, <1>9, <2>1, <2>2 DEF Listed
<1>11. Reaches(Range(t), g)
    BY <1>7 DEF Reaches
<1>12. ASSUME NEW k \in Nat, Ahead(k, g, S)
       PROVE  Ahead(k, g, Range(t))
    BY <1>7, <1>12, <1>b DEF Ahead
<1> QED
    BY <1>7, <1>10, <1>11, <1>12 DEF p, t

\* The cursor of the overview's page is no farther back than the list's own:
\* a record that is not on the first page of a filter is not on that of all.
LEMMA OverviewList ==
    ASSUME MaxRecords - Recorded <= PageSize, NEW g \in Filters,
           NEW n \in Recorded .. MaxRecords, NEW n1 \in Recorded .. MaxRecords, n <= n1,
           NEW s, NEW c, Listed(s, c, g, n)
    PROVE  Listed(s, AnswerAt(Unfiltered, n1).next, g, n1)
<1> DEFINE p == AnswerAt(Unfiltered, n1)
<1>1. /\ n \in Nat /\ n1 \in Nat /\ n1 \in 0 .. MaxRecords /\ n \in 0 .. MaxRecords
      /\ g \subseteq 1 .. MaxRecords /\ MaxRecords \in Nat /\ Recorded \in Nat /\ \A r \in g : r \in Nat
      /\ Unfiltered \in Filters /\ Unfiltered \subseteq 1 .. MaxRecords /\ g \subseteq Unfiltered
    BY FilterFacts, ListsAssumption
<1>k. Listed(s, c, g, n1)
    BY <1>1, KeptList
<1>2. /\ \A r \in Unfiltered : r <= n1 /\ r \notin TopOf(Unfiltered, n1) => r < p.next
      /\ \A r \in Unfiltered : Recorded < r => p.next <= r
    <2>1. Listed(p.items, p.next, Unfiltered, n1)
        BY <1>1, ReplacedList
    <2>2. \A r \in Unfiltered : r <= n1 /\ r \notin TopOf(Unfiltered, n1) => r < p.next
        BY <1>1, AnswerFacts
    <2> HIDE DEF p
    <2> QED
        BY <2>1, <2>2 DEF Listed
<1> HIDE DEF p
<1>3. ASSUME NEW r \in g, Beneath(r, Range(s))
      PROVE  r < p.next
    <2>1. PICK x \in Range(s) : r < x
        BY <1>3 DEF Beneath
    <2>2. x \in Upto(g, n1) /\ r \notin TopOf(g, n1)
        BY <2>1, <1>3, <1>k DEF Listed
    <2>3. r <= n1
        BY <1>1, <2>1, <2>2 DEF Upto
    <2>4. r \notin TopOf(Unfiltered, n1)
        <3> SUFFICES ASSUME r \in TopOf(Unfiltered, n1)
                     PROVE  FALSE
            OBVIOUS
        <3>1. r <= r /\ n1 <= n1
            BY <1>1
        <3>2. r \in TopOf(g, n1)
            BY <1>1, <2>3, <3>1, TopMono
        <3> QED
            BY <2>2, <3>2
    <2> QED
        BY <1>1, <1>2, <2>3, <2>4
<1>4. Listed(s, p.next, g, n1)
    BY <1>1, <1>2, <1>3, <1>k DEF Listed
<1> QED
    BY <1>4 DEF p

\* What is under way: reads that will replace the list, reads that will add to
\* it or only move its cursor, and a bootstrap that has yet to ask.
Replacing == {"apply", "first"}
Adding    == {"merge", "more", "overview"}
Answers   == {p \in Pages : p.hasMore => p.next > 0}
Pending   == [use : {"boot"}, run : 0 .. MaxApplied] \cup [use : Replacing \cup Adding, page : Answers]

\* When each read q[i] was asked for: a[i] holds the filters and the newest
\* record of that moment, a[0] those of the read answered last.
Moments == [filter : Filters, newest : Recorded .. MaxRecords]
Timed(a, k, n) ==
    /\ a \in [0 .. k -> Moments]
    /\ \A i, j \in 0 .. k : i <= j => a[i].newest <= a[j].newest
    /\ a[k].newest <= n

\* The filters changed only where a read that replaces the list was asked for.
Unchanged(q, i, j) == \A k \in (i + 1) .. j : q[k].use \notin Replacing
SameFilters(q, a) ==
    \A i, j \in 0 .. Len(q) : i <= j /\ Unchanged(q, i, j) => a[i].filter = a[j].filter

\* The answer that a read will bring: the first page, for the filters of the
\* moment or for none; or a page that goes on from the list.
First(x, at) ==
    /\ x.use \in Replacing \cup {"merge"} => x.page = AnswerAt(at.filter, at.newest)
    /\ x.use = "overview" => x.page = AnswerAt(Unfiltered, at.newest)
Firsts(q, a) == \A i \in 1 .. Len(q) : First(q[i], a[i])
Further(x, g, S, n) == \E m \in 0 .. n : x.page = AnswerAt(g, m) /\ Ahead(m, g, S)
Furthers(q, a, S) ==
    \A i \in 1 .. Len(q) : q[i].use = "more" =>
        /\ \A j \in 1 .. i : q[j].use \in Adding
        /\ Further(q[i], a[0].filter, S, a[i].newest)

\* An empty list that nothing is added to before a read that replaces it.
NoMore(q) == \A i \in 1 .. Len(q) : q[i].use # "more"
Awaited(q, s, run) ==
    /\ s = <<>> /\ NoMore(q)
    /\ \E i \in 1 .. Len(q) : q[i].use \in Replacing \/ (q[i].use = "boot" /\ q[i].run = run)

\* The queue of reads and the list together.
Going(q, a, f, n, S) ==
    /\ q \in Seq(Pending) /\ Timed(a, Len(q), n) /\ a[Len(q)].filter = f
    /\ SameFilters(q, a) /\ Firsts(q, a) /\ Furthers(q, a, S)

\* A read is asked for: it goes to the end of the queue.
Later(a, k, at) == [i \in 0 .. k + 1 |-> IF i <= k THEN a[i] ELSE at]
LEMMA Enqueue ==
    ASSUME NEW q, NEW a, NEW f \in Filters, NEW n \in Recorded .. MaxRecords, NEW S, Going(q, a, f, n, S),
           NEW x \in Pending, NEW f2 \in Filters, x.use \notin Replacing => f2 = f,
           First(x, [filter |-> f2, newest |-> n]),
           x.use = "more" => /\ \A j \in 1 .. Len(q) : q[j].use \in Adding
                             /\ Further(x, f, S, n)
    PROVE  Going(Append(q, x), Later(a, Len(q), [filter |-> f2, newest |-> n]), f2, n, S)
<1> DEFINE at == [filter |-> f2, newest |-> n]
           L == Len(q)
           p == Append(q, x)
           b == Later(a, L, at)
<1>1. /\ q \in Seq(Pending) /\ L \in Nat /\ Timed(a, L, n) /\ a[L].filter = f
      /\ SameFilters(q, a) /\ Firsts(q, a) /\ Furthers(q, a, S)
    BY DEF Going
<1>2. p \in Seq(Pending) /\ Len(p) = L + 1 /\ p[L + 1] = x /\ \A i \in 1 .. L : p[i] = q[i]
    BY <1>1
<1>3. /\ at \in Moments /\ at.filter = f2 /\ at.newest = n
      /\ Recorded \in Nat /\ MaxRecords \in Nat /\ n \in Nat
    BY ListsAssumption DEF Moments
<1> HIDE DEF p, at
<1>4. /\ DOMAIN b = 0 .. L + 1 /\ b[L + 1] = at /\ \A i \in 0 .. L : b[i] = a[i]
    BY <1>1 DEF Later
<1>5. a \in [0 .. L -> Moments] /\ \A i \in 0 .. L : a[i] \in Moments /\ a[i].newest \in Nat
    BY <1>1, <1>3 DEF Timed, Moments
<1>6. Timed(b, L + 1, n)
    <2>1. b \in [0 .. L + 1 -> Moments]
        BY <1>1, <1>3, <1>5 DEF Later
    <2> HIDE DEF b
    <2>2. ASSUME NEW i \in 0 .. L + 1, NEW j \in 0 .. L + 1, i <= j
          PROVE  b[i].newest <= b[j].newest
        <3>1. CASE j <= L
            <4>1. i \in 0 .. L /\ j \in 0 .. L
                BY <1>1, <2>2, <3>1
            <4> QED
                BY <4>1, <2>2, <1>1, <1>4 DEF Timed
        <3>2. CASE j > L /\ i <= L
            <4>1. i \in 0 .. L /\ j = L + 1 /\ L \in 0 .. L /\ i <= L
                BY <1>1, <2>2, <3>2
            <4>2. a[i].newest <= a[L].newest /\ a[L].newest <= n
                BY <1>1, <4>1 DEF Timed
            <4>3. a[i].newest \in Nat /\ a[L].newest \in Nat
                BY <1>5, <4>1
            <4>4. a[i].newest <= n
                BY <4>2, <4>3, <1>3
            <4> QED
                BY <4>1, <4>4, <1>3, <1>4
        <3>3. CASE j > L /\ i > L
            <4>1. i = L + 1 /\ j = L + 1
                BY <1>1, <2>2, <3>3
            <4> QED
                BY <4>1, <1>3, <1>4
        <3> QED
            BY <1>1, <3>1, <3>2, <3>3
    <2>3. b[L + 1].newest <= n
        BY <1>3, <1>4
    <2> QED
        BY <2>1, <2>2, <2>3 DEF Timed
<1> HIDE DEF b
<1>7. SameFilters(p, b)
    <2> SUFFICES ASSUME NEW i \in 0 .. L + 1, NEW j \in 0 .. L + 1, i <= j, Unchanged(p, i, j)
                 PROVE  b[i].filter = b[j].filter
        BY <1>2 DEF SameFilters
    <2>1. ASSUME NEW k \in 0 .. L, i <= k, k <= j
          PROVE  a[i].filter = a[k].filter
        <3>1. i \in 0 .. L
            BY <1>1, <2>1
        <3>2. ASSUME NEW l \in (i + 1) .. k
              PROVE  q[l].use \notin Replacing
            <4>1. l \in (i + 1) .. j /\ l \in 1 .. L
                BY <1>1, <2>1, <3>1, <3>2
            <4> QED
                BY <4>1, <1>2 DEF Unchanged
        <3> QED
            BY <1>1, <2>1, <3>1, <3>2 DEF SameFilters, Unchanged
    <2>2. CASE j <= L
        <3>1. i \in 0 .. L /\ j \in 0 .. L /\ j <= j
            BY <1>1, <2>2
        <3> QED
            BY <3>1, <2>1, <1>4
    <2>3. CASE j > L /\ i <= L
        <3>1. j = L + 1 /\ i \in 0 .. L /\ L \in 0 .. L /\ L <= j /\ L + 1 \in (i + 1) .. j
            BY <1>1, <2>3
        <3>2. p[L + 1].use \notin Replacing
            BY <3>1 DEF Unchanged
        <3>3. f2 = f
            BY <3>2, <1>2
        <3>4. a[i].filter = a[L].filter
            BY <3>1, <2>3, <2>1
        <3> QED
            BY <3>1, <3>3, <3>4, <1>1, <1>3, <1>4
    <2>4. CASE j > L /\ i > L
        <3>1. i = L + 1 /\ j = L + 1
            BY <1>1, <2>4
        <3> QED
            BY <3>1
    <2> QED
        BY <1>1, <2>2, <2>3, <2>4
<1>8. Firsts(p, b)
    <2> SUFFICES ASSUME NEW i \in 1 .. L + 1
                 PROVE  First(p[i], b[i])
        BY <1>2 DEF Firsts
    <2>1. CASE i \in 1 .. L
        <3>1. i \in 0 .. L
            BY <1>1, <2>1
        <3> QED
            BY <3>1, <2>1, <1>1, <1>2, <1>4 DEF Firsts
    <2>2. CASE i = L + 1
        BY <2>2, <1>2, <1>4 DEF at
    <2> QED
        BY <1>1, <2>1, <2>2
<1>9. Furthers(p, b, S)
    <2> SUFFICES ASSUME NEW i \in 1 .. L + 1, p[i].use = "more"
                 PROVE  /\ \A j \in 1 .. i : p[j].use \in Adding
                        /\ Further(p[i], b[0].filter, S, b[i].newest)
        BY <1>2 DEF Furthers
    <2>0. 0 \in 0 .. L /\ b[0] = a[0]
        BY <1>1, <1>4
    <2>1. CASE i \in 1 .. L
        <3>1. i \in 0 .. L /\ q[i].use = "more"
            BY <1>1, <1>2, <2>1
        <3>2. /\ \A j \in 1 .. i : q[j].use \in Adding
              /\ Further(q[i], a[0].filter, S, a[i].newest)
            BY <3>1, <2>1, <1>1 DEF Furthers
        <3>3. \A j \in 1 .. i : j \in 1 .. L
            BY <1>1, <2>1
        <3> QED
            BY <2>0, <2>1, <3>1, <3>2, <3>3, <1>2, <1>4
    <2>2. CASE i = L + 1
        <3>1. x.use = "more"
            BY <2>2, <1>2
        <3>2. /\ \A j \in 1 .. L : q[j].use \in Adding
              /\ Further(x, f, S, n)
            BY <3>1
        <3>3. ASSUME NEW j \in 1 .. i
              PROVE  p[j].use \in Adding
            <4>1. CASE j \in 1 .. L
                BY <4>1, <3>2, <1>2
            <4>2. CASE j = L + 1
                BY <4>2, <3>1, <1>2 DEF Adding
            <4> QED
                BY <1>1, <2>2, <4>1, <4>2
        <3>4. a[0].filter = f
            <4>1. 0 \in 0 .. L /\ L \in 0 .. L /\ 0 <= L /\ 0 + 1 = 1
                BY <1>1
            <4>2. Unchanged(q, 0, L)
                BY <4>1, <3>2 DEF Unchanged, Adding, Replacing
            <4> QED
                BY <4>1, <4>2, <1>1 DEF SameFilters
        <3> QED
            BY <2>0, <2>2, <3>2, <3>3, <3>4, <1>2, <1>3, <1>4
    <2> QED
        BY <1>1, <2>1, <2>2
<1>10. b[L + 1].filter = f2
    BY <1>3, <1>4
<1>11. Going(p, b, f2, n, S)
    BY <1>2, <1>6, <1>7, <1>8, <1>9, <1>10 DEF Going
<1> QED
    BY <1>11 DEF p, b, at

\* The first read is answered: it leaves the queue, and what follows goes on
\* from what the list became.
Served(a, k) == [i \in 0 .. k - 1 |-> a[i + 1]]
LEMMA Dequeue ==
    ASSUME NEW q, NEW a, NEW f \in Filters, NEW n \in Recorded .. MaxRecords, NEW S, Going(q, a, f, n, S), Len(q) > 0,
           NEW S2, NoMore(RemoveAt(q, 1)) \/ \A m \in Nat : Ahead(m, a[1].filter, S) => Ahead(m, a[1].filter, S2)
    PROVE  Going(RemoveAt(q, 1), Served(a, Len(q)), f, n, S2)
<1> DEFINE L == Len(q)
           p == RemoveAt(q, 1)
           b == Served(a, L)
<1>1. /\ q \in Seq(Pending) /\ L \in Nat /\ L > 0 /\ Timed(a, L, n) /\ a[L].filter = f
      /\ SameFilters(q, a) /\ Firsts(q, a) /\ Furthers(q, a, S)
    BY DEF Going
<1>2. p \in Seq(Pending) /\ Len(p) = L - 1 /\ \A i \in 1 .. L - 1 : p[i] = q[i + 1]
    <2>1. 1 \in 1 .. L
        BY <1>1
    <2>2. /\ p \in Seq(Pending) /\ Len(p) = L - 1
          /\ \A j \in 1 .. (L - 1) : p[j] = q[IF j < 1 THEN j ELSE j + 1]
        BY <1>1, <2>1, RemovedAt
    <2> HIDE DEF p
    <2>3. \A j \in 1 .. (L - 1) : ~(j < 1)
        OBVIOUS
    <2> QED
        BY <2>2, <2>3
<1>3. /\ Recorded \in Nat /\ MaxRecords \in Nat /\ n \in Nat
    BY ListsAssumption
<1> HIDE DEF p
<1>4. /\ DOMAIN b = 0 .. L - 1 /\ \A i \in 0 .. L - 1 : b[i] = a[i + 1] /\ i + 1 \in 0 .. L /\ i + 1 \in 1 .. L
    BY <1>1 DEF Served
<1>5. a \in [0 .. L -> Moments] /\ \A i \in 0 .. L : a[i] \in Moments /\ a[i].newest \in Nat
    BY <1>1, <1>3 DEF Timed, Moments
<1>6. Timed(b, L - 1, n)
    <2>1. b \in [0 .. L - 1 -> Moments]
        BY <1>1, <1>4, <1>5 DEF Served
    <2> HIDE DEF b
    <2>2. ASSUME NEW i \in 0 .. L - 1, NEW j \in 0 .. L - 1, i <= j
          PROVE  b[i].newest <= b[j].newest
        <3>1. i + 1 <= j + 1 /\ i + 1 \in 0 .. L /\ j + 1 \in 0 .. L
            BY <1>1, <1>4, <2>2
        <3> QED
            BY <3>1, <1>1, <1>4 DEF Timed
    <2>3. b[L - 1].newest <= n
        <3>1. L - 1 \in 0 .. L - 1 /\ L - 1 + 1 = L
            BY <1>1
        <3> QED
            BY <3>1, <1>1, <1>4 DEF Timed
    <2> QED
        BY <2>1, <2>2, <2>3 DEF Timed
<1> HIDE DEF b
<1>7. SameFilters(p, b)
    <2> SUFFICES ASSUME NEW i \in 0 .. L - 1, NEW j \in 0 .. L - 1, i <= j, Unchanged(p, i, j)
                 PROVE  b[i].filter = b[j].filter
        BY <1>2 DEF SameFilters
    <2>1. /\ i + 1 <= j + 1 /\ i + 1 \in 0 .. L /\ j + 1 \in 0 .. L
        BY <1>1, <1>4
    <2>2. ASSUME NEW l \in (i + 1 + 1) .. (j + 1)
          PROVE  q[l].use \notin Replacing
        <3>1. l - 1 \in (i + 1) .. j /\ l - 1 \in 1 .. L - 1 /\ l - 1 + 1 = l
            BY <1>1, <2>2
        <3>2. p[l - 1].use \notin Replacing /\ p[l - 1] = q[l - 1 + 1]
            BY <3>1, <1>2 DEF Unchanged
        <3> QED
            BY <3>1, <3>2
    <2>3. Unchanged(q, i + 1, j + 1)
        BY <2>2 DEF Unchanged
    <2>4. a[i + 1].filter = a[j + 1].filter
        BY <2>1, <2>3, <1>1 DEF SameFilters
    <2> QED
        BY <2>4, <1>4
<1>8. Firsts(p, b)
    <2> SUFFICES ASSUME NEW i \in 1 .. L - 1
                 PROVE  First(p[i], b[i])
        BY <1>2 DEF Firsts
    <2>1. i \in 0 .. L - 1 /\ i + 1 \in 1 .. L
        BY <1>1
    <2>2. First(q[i + 1], a[i + 1])
        BY <2>1, <1>1 DEF Firsts
    <2> QED
        BY <2>1, <2>2, <1>2, <1>4
<1>9. Furthers(p, b, S2)
    <2> SUFFICES ASSUME NEW i \in 1 .. L - 1, p[i].use = "more"
                 PROVE  /\ \A j \in 1 .. i : p[j].use \in Adding
                        /\ Further(p[i], b[0].filter, S2, b[i].newest)
        BY <1>2 DEF Furthers
    <2>1. i \in 0 .. L - 1 /\ i + 1 \in 1 .. L /\ p[i] = q[i + 1] /\ b[i] = a[i + 1] /\ 0 \in 0 .. L - 1 /\ b[0] = a[0 + 1] /\ 0 + 1 = 1
        BY <1>1, <1>2, <1>4
    <2>2. /\ \A j \in 1 .. i + 1 : q[j].use \in Adding
          /\ Further(p[i], a[0].filter, S, b[i].newest)
        BY <2>1, <1>1 DEF Furthers
    <2>3. ASSUME NEW j \in 1 .. i
          PROVE  p[j].use \in Adding
        <3>1. j + 1 \in 1 .. i + 1 /\ j \in 1 .. L - 1
            BY <1>1
        <3> QED
            BY <3>1, <2>2, <1>2
    <2>4. a[0].filter = a[1].filter
        <3>1. 0 \in 0 .. L /\ 1 \in 0 .. L /\ 0 <= 1 /\ 1 \in 1 .. i + 1 /\ \A k \in (0 + 1) .. 1 : k = 1
            BY <1>1
        <3>2. q[1].use \notin Replacing
            BY <3>1, <2>2 DEF Adding, Replacing
        <3>3. Unchanged(q, 0, 1)
            BY <3>1, <3>2 DEF Unchanged
        <3> QED
            BY <3>1, <3>3, <1>1 DEF SameFilters
    <2>5. \A m \in Nat : Ahead(m, a[1].filter, S) => Ahead(m, a[1].filter, S2)
        BY <1>2 DEF NoMore, p
    <2>6. PICK m \in 0 .. b[i].newest : p[i].page = AnswerAt(a[1].filter, m) /\ Ahead(m, a[1].filter, S)
        BY <2>2, <2>4 DEF Further
    <2>7. m \in Nat
        OBVIOUS
    <2>8. Ahead(m, a[1].filter, S2)
        BY <2>5, <2>6, <2>7
    <2>9. Further(p[i], a[1].filter, S2, b[i].newest)
        BY <2>6, <2>8 DEF Further
    <2> QED
        BY <2>1, <2>3, <2>9
<1>10. b[L - 1].filter = f
    <2>1. L - 1 \in 0 .. L - 1 /\ L - 1 + 1 = L
        BY <1>1
    <2> QED
        BY <2>1, <1>1, <1>4
<1>11. Going(p, b, f, n, S2)
    BY <1>2, <1>6, <1>7, <1>8, <1>9, <1>10 DEF Going
<1> QED
    BY <1>11 DEF p, b

\* What the queue says of its first read.
LEMMA FirstRead ==
    ASSUME NEW q, NEW a, NEW f \in Filters, NEW n \in Recorded .. MaxRecords, NEW S, Going(q, a, f, n, S), Len(q) > 0
    PROVE  /\ q[1] \in Pending /\ Len(q) \in Nat /\ q \in Seq(Pending)
           /\ a[0] \in Moments /\ a[1] \in Moments /\ a[0].newest <= a[1].newest /\ a[1].newest <= n
           /\ q[1].use \notin Replacing => a[0].filter = a[1].filter
           /\ First(q[1], a[1])
           /\ q[1].use = "more" => Further(q[1], a[0].filter, S, a[1].newest)
           /\ q[1].use \notin Adding => NoMore(RemoveAt(q, 1))
           /\ RemoveAt(q, 1) \in Seq(Pending) /\ Len(RemoveAt(q, 1)) = Len(q) - 1
           /\ \A i \in 1 .. Len(q) - 1 : RemoveAt(q, 1)[i] = q[i + 1]
<1> DEFINE L == Len(q)
           p == RemoveAt(q, 1)
<1>1. /\ q \in Seq(Pending) /\ L \in Nat /\ L > 0 /\ Timed(a, L, n)
      /\ SameFilters(q, a) /\ Firsts(q, a) /\ Furthers(q, a, S)
    BY DEF Going
<1>0. 0 \in 0 .. L /\ 1 \in 0 .. L /\ 1 \in 1 .. L /\ L \in 0 .. L /\ 0 <= 1 /\ 1 <= L /\ \A k \in (0 + 1) .. 1 : k = 1
    BY <1>1
<1>2. p \in Seq(Pending) /\ Len(p) = L - 1 /\ \A i \in 1 .. L - 1 : p[i] = q[i + 1]
    <2>2. /\ p \in Seq(Pending) /\ Len(p) = L - 1
          /\ \A j \in 1 .. (L - 1) : p[j] = q[IF j < 1 THEN j ELSE j + 1]
        BY <1>0, <1>1, RemovedAt
    <2> HIDE DEF p
    <2>3. \A j \in 1 .. (L - 1) : ~(j < 1)
        OBVIOUS
    <2> QED
        BY <2>2, <2>3
<1>3. q[1] \in Pending
    BY <1>0, <1>1
<1>4. /\ a[0] \in Moments /\ a[1] \in Moments /\ a[0].newest <= a[1].newest /\ a[1].newest <= n
    <2>1. a[0] \in Moments /\ a[1] \in Moments /\ a[L] \in Moments
        BY <1>0, <1>1 DEF Timed
    <2>2. a[0].newest <= a[1].newest /\ a[1].newest <= a[L].newest /\ a[L].newest <= n
        BY <1>0, <1>1 DEF Timed
    <2>3. a[1].newest \in Int /\ a[L].newest \in Int /\ n \in Int
        BY <2>1, ListsAssumption DEF Moments
    <2> QED
        BY <2>1, <2>2, <2>3
<1>5. q[1].use \notin Replacing => a[0].filter = a[1].filter
    BY <1>0, <1>1 DEF SameFilters, Unchanged
<1>6. First(q[1], a[1]) /\ (q[1].use = "more" => Further(q[1], a[0].filter, S, a[1].newest))
    BY <1>0, <1>1 DEF Firsts, Furthers
<1>7. q[1].use \notin Adding => NoMore(p)
    <2> SUFFICES ASSUME q[1].use \notin Adding, NEW i \in 1 .. L - 1, p[i].use = "more"
                 PROVE  FALSE
        BY <1>2 DEF NoMore
    <2>1. i + 1 \in 1 .. L /\ q[i + 1].use = "more" /\ 1 \in 1 .. i + 1
        BY <1>1, <1>2
    <2> QED
        BY <2>1, <1>1 DEF Furthers
<1> QED
    BY <1>1, <1>2, <1>3, <1>4, <1>5, <1>6, <1>7

\* The list, as what has been asked for explains it.
ShownBy(q, f, n, s, c, run, a) ==
    /\ Going(q, a, f, n, Range(s))
    /\ Listed(s, c, a[0].filter, a[0].newest)
    /\ Reaches(Range(s), a[0].filter) \/ Awaited(q, s, run)

\* A read is asked for.
LEMMA ShownAsking ==
    ASSUME NEW q, NEW f \in Filters, NEW n \in Recorded .. MaxRecords, NEW s, NEW c, NEW run, NEW a,
           ShownBy(q, f, n, s, c, run, a),
           NEW x \in Pending, NEW f2 \in Filters, NEW run2, x.use \notin Replacing => f2 = f,
           First(x, [filter |-> f2, newest |-> n]),
           x.use = "more" => /\ \A j \in 1 .. Len(q) : q[j].use \in Adding
                             /\ Further(x, f, Range(s), n) /\ Reaches(Range(s), a[0].filter),
           run2 = run \/ x.use \in Replacing
    PROVE  \E b : ShownBy(Append(q, x), f2, n, s, c, run2, b)
<1> DEFINE b == Later(a, Len(q), [filter |-> f2, newest |-> n])
<1>1. Going(q, a, f, n, Range(s)) /\ q \in Seq(Pending) /\ Len(q) \in Nat
    BY DEF ShownBy, Going
<1>2. Going(Append(q, x), b, f2, n, Range(s))
    BY <1>1, Enqueue
<1>3. b[0] = a[0]
    BY <1>1 DEF Later
<1>4. /\ Len(Append(q, x)) = Len(q) + 1 /\ Append(q, x)[Len(q) + 1] = x
      /\ \A i \in 1 .. Len(q) : Append(q, x)[i] = q[i]
    BY <1>1, AppendProperties
<1> HIDE DEF b
<1>5. ASSUME Awaited(q, s, run), x.use # "more"
      PROVE  Awaited(Append(q, x), s, run2)
    <2>1. NoMore(Append(q, x))
        <3> SUFFICES ASSUME NEW i \in 1 .. Len(q) + 1
                     PROVE  Append(q, x)[i].use # "more"
            BY <1>4 DEF NoMore
        <3>1. CASE i \in 1 .. Len(q)
            BY <3>1, <1>4, <1>5 DEF Awaited, NoMore
        <3>2. CASE i = Len(q) + 1
            BY <3>2, <1>4, <1>5
        <3> QED
            BY <1>1, <3>1, <3>2
    <2>2. s = <<>>
        BY <1>5 DEF Awaited
    <2>3. CASE x.use \in Replacing
        <3>1. Len(q) + 1 \in 1 .. Len(q) + 1
            BY <1>1
        <3> QED
            BY <2>1, <2>2, <2>3, <3>1, <1>4 DEF Awaited
    <2>4. CASE run2 = run
        <3>1. PICK i \in 1 .. Len(q) : q[i].use \in Replacing \/ (q[i].use = "boot" /\ q[i].run = run)
            BY <1>5 DEF Awaited
        <3>2. i \in 1 .. Len(q) + 1 /\ Append(q, x)[i] = q[i]
            BY <1>1, <1>4
        <3> QED
            BY <2>1, <2>2, <2>4, <3>1, <3>2, <1>4 DEF Awaited
    <2> QED
        BY <2>3, <2>4
<1>6. ShownBy(Append(q, x), f2, n, s, c, run2, b)
    BY <1>2, <1>3, <1>5 DEF ShownBy
<1> QED
    BY <1>6

\* The first read is answered.
LEMMA ShownAnswered ==
    ASSUME NEW q, NEW f \in Filters, NEW n \in Recorded .. MaxRecords, NEW s, NEW c, NEW run, NEW a,
           ShownBy(q, f, n, s, c, run, a), Len(q) > 0, NEW s2, NEW c2,
           \/ NoMore(RemoveAt(q, 1))
           \/ \A m \in Nat : Ahead(m, a[1].filter, Range(s)) => Ahead(m, a[1].filter, Range(s2)),
           Listed(s2, c2, a[1].filter, a[1].newest),
           Reaches(Range(s2), a[1].filter) \/ Awaited(RemoveAt(q, 1), s2, run)
    PROVE  ShownBy(RemoveAt(q, 1), f, n, s2, c2, run, Served(a, Len(q)))
<1> DEFINE p == RemoveAt(q, 1)
           b == Served(a, Len(q))
<1>1. Going(q, a, f, n, Range(s)) /\ Len(q) \in Nat
    BY DEF ShownBy, Going
<1>2. Going(p, b, f, n, Range(s2))
    BY <1>1, Dequeue
<1>3. b[0] = a[1]
    BY <1>1 DEF Served
<1> HIDE DEF p, b
<1>4. ShownBy(p, f, n, s2, c2, run, b)
    BY <1>2, <1>3 DEF ShownBy, p
<1> QED
    BY <1>4 DEF p, b

\* An empty list goes on waiting when a read that adds to it is answered, or a
\* bootstrap that is out of date.
LEMMA StillAwaited ==
    ASSUME NEW q \in Seq(Pending), Len(q) > 0, NEW s, NEW run, Awaited(q, s, run),
           q[1].use \in Adding \/ (q[1].use = "boot" /\ q[1].run # run)
    PROVE  Awaited(RemoveAt(q, 1), s, run)
<1> DEFINE p == RemoveAt(q, 1)
<1>1. Len(q) \in Nat /\ 1 \in 1 .. Len(q)
    OBVIOUS
<1>2. Len(p) = Len(q) - 1 /\ \A i \in 1 .. Len(q) - 1 : p[i] = q[i + 1]
    <2>2. /\ Len(p) = Len(q) - 1
          /\ \A j \in 1 .. (Len(q) - 1) : p[j] = q[IF j < 1 THEN j ELSE j + 1]
        BY <1>1, RemovedAt
    <2> HIDE DEF p
    <2>3. \A j \in 1 .. (Len(q) - 1) : ~(j < 1)
        OBVIOUS
    <2> QED
        BY <2>2, <2>3
<1> HIDE DEF p
<1>3. NoMore(p)
    <2> SUFFICES ASSUME NEW i \in 1 .. Len(q) - 1
                 PROVE  p[i].use # "more"
        BY <1>2 DEF NoMore
    <2>1. i + 1 \in 1 .. Len(q)
        BY <1>1
    <2> QED
        BY <2>1, <1>2 DEF Awaited, NoMore
<1>4. PICK i \in 1 .. Len(q) : q[i].use \in Replacing \/ (q[i].use = "boot" /\ q[i].run = run)
    BY DEF Awaited
<1>5. i # 1
    BY <1>4 DEF Adding, Replacing
<1>6. i - 1 \in 1 .. Len(q) - 1 /\ p[i - 1] = q[i]
    <2>1. i - 1 \in 1 .. Len(q) - 1 /\ i - 1 + 1 = i
        BY <1>1, <1>5
    <2> QED
        BY <2>1, <1>2
<1>7. s = <<>>
    BY DEF Awaited
<1>8. Awaited(p, s, run)
    BY <1>2, <1>3, <1>4, <1>6, <1>7 DEF Awaited
<1> QED
    BY <1>8 DEF p

\* What an answer brings: a cursor that is a record, and one whenever there is
\* more.
LEMMA AnswerTypes ==
    ASSUME NEW q, NEW a, NEW f \in Filters, NEW n \in Recorded .. MaxRecords, NEW S, Going(q, a, f, n, S), Len(q) > 0,
           q[1].use # "boot"
    PROVE  /\ q[1].use \in Replacing \cup Adding
           /\ q[1].page.items \in Seq(1 .. MaxRecords) /\ q[1].page.hasMore \in BOOLEAN
           /\ q[1].page.next \in 0 .. n
           /\ q[1].page.hasMore => q[1].page.next > 0
<1> DEFINE x == q[1]
<1>1. /\ x \in Pending /\ First(x, a[1]) /\ a[0] \in Moments /\ a[1] \in Moments /\ a[1].newest <= n
      /\ x.use = "more" => Further(x, a[0].filter, S, a[1].newest)
    BY FirstRead
<1>2. /\ Recorded \in Nat /\ MaxRecords \in Nat /\ n \in Nat /\ n <= MaxRecords
      /\ Unfiltered \subseteq 1 .. MaxRecords
    BY ListsAssumption
<1>3. /\ a[0].filter \subseteq 1 .. MaxRecords /\ a[1].filter \subseteq 1 .. MaxRecords
      /\ a[1].newest \in 0 .. MaxRecords /\ a[1].newest \in 0 .. n
    <2>1. a[0].filter \in Filters /\ a[1].filter \in Filters /\ a[1].newest \in Recorded .. MaxRecords
        BY <1>1 DEF Moments
    <2> QED
        BY <1>1, <1>2, <2>1, FilterFacts
<1> HIDE DEF x
<1>4. x.use \in Replacing \cup Adding /\ x.page \in Answers
    BY <1>1 DEF Pending, x
<1>5. ASSUME NEW g, g \subseteq 1 .. MaxRecords, NEW m \in 0 .. n, x.page = AnswerAt(g, m)
      PROVE  x.page.next <= n
    <2>1. m \in 0 .. MaxRecords /\ m \in Nat /\ m <= n
        BY <1>2
    <2>2. x.page.next <= m
        BY <2>1, <1>5, AnswerFacts
    <2>3. x.page.next \in Nat
        BY <1>2, <1>4 DEF Answers, Pages
    <2> QED
        BY <1>2, <2>1, <2>2, <2>3
<1>6. x.page.next <= n
    <2>1. CASE x.use \in Replacing \cup {"merge"}
        <3>1. x.page = AnswerAt(a[1].filter, a[1].newest)
            BY <2>1, <1>1 DEF First, x
        <3> QED
            BY <3>1, <1>3, <1>5
    <2>2. CASE x.use = "overview"
        <3>1. x.page = AnswerAt(Unfiltered, a[1].newest)
            BY <2>2, <1>1 DEF First, x
        <3> QED
            BY <3>1, <1>2, <1>3, <1>5
    <2>3. CASE x.use = "more"
        <3>1. PICK m \in 0 .. a[1].newest : x.page = AnswerAt(a[0].filter, m)
            BY <2>3, <1>1 DEF Further, x
        <3>2. m \in 0 .. n
            BY <1>1, <1>2, <1>3
        <3> QED
            BY <3>1, <3>2, <1>3, <1>5
    <2> QED
        BY <1>4, <2>1, <2>2, <2>3 DEF Adding
<1>7. x.page.next \in 0 .. n
    BY <1>2, <1>4, <1>6 DEF Answers, Pages
<1> QED
    BY <1>4, <1>7 DEF Answers, Pages, x

\* The inductive invariant.
ListsTypes ==
    /\ kind \in Kinds
    /\ newest \in Recorded .. MaxRecords
    /\ filters \in Filters
    /\ items \in Seq(1 .. MaxRecords)
    /\ cursor \in 0 .. newest /\ hasMore \in BOOLEAN
    /\ hasMore => cursor > 0
    /\ applied \in 0 .. MaxApplied
    /\ Len(reads) <= MaxReads + 2 * applied + 1
ListsInv ==
    /\ ListsTypes
    /\ \E a : ShownBy(reads, filters, newest, items, cursor, applied, a)

\* The lists of PagedRight: answers arrive in the order of their reads, nothing
\* more is loaded while a read replaces the list, such a read does not fail, and
\* what is new since the start fits on one page.
ListsInOrder ==
    /\ Races = {}
    /\ Fallible \subseteq {"more", "merge", "overview"}
    /\ MaxRecords - Recorded <= PageSize

LEMMA ListsNumbers ==
    /\ Recorded \in Nat /\ MaxRecords \in Nat /\ MaxReads \in Nat /\ MaxApplied \in Nat /\ PageSize \in Nat
    /\ Recorded <= MaxRecords /\ Unfiltered \in Filters
    BY ListsAssumption

LEMMA ListsAtFirst ==
    ListsInit => ListsInv
<1> SUFFICES ASSUME ListsInit
             PROVE  ListsInv
    OBVIOUS
<1> DEFINE at == [filter |-> Unfiltered, newest |-> Recorded]
           a == [i \in 0 .. 1 |-> at]
           q == <<Boot(0)>>
<1>1. /\ reads = q /\ filters = Unfiltered /\ newest = Recorded /\ items = <<>> /\ cursor = 0
      /\ hasMore = FALSE /\ applied = 0 /\ kind \in Kinds
    BY DEF ListsInit
<1>2. Boot(0) \in Pending /\ Boot(0).use = "boot" /\ Boot(0).run = 0
    BY ListsNumbers DEF Pending, Boot
<1>3. q \in Seq(Pending) /\ Len(q) = 1 /\ q[1] = Boot(0)
    BY <1>2
<1> HIDE DEF q
<1>4. \A i \in 1 .. Len(q) : i = 1 /\ q[i].use = "boot"
    BY <1>2, <1>3
<1>5. at \in Moments /\ at.newest = Recorded /\ at.filter = Unfiltered
    BY ListsNumbers DEF Moments
<1> HIDE DEF at
<1>6. a \in [0 .. 1 -> Moments] /\ a[0] = at /\ a[1] = at /\ \A i \in 0 .. 1 : a[i] = at
    BY <1>5
<1> HIDE DEF a
<1>7. Timed(a, 1, Recorded)
    BY <1>5, <1>6, ListsNumbers DEF Timed
<1>8. Going(q, a, Unfiltered, Recorded, {})
    <2>1. SameFilters(q, a)
        BY <1>3, <1>6 DEF SameFilters
    <2>2. Firsts(q, a) /\ Furthers(q, a, {})
        BY <1>4 DEF Firsts, Furthers, First, Replacing
    <2> QED
        BY <2>1, <2>2, <1>3, <1>5, <1>6, <1>7 DEF Going
<1>9. Range(items) = {}
    BY <1>1 DEF Range
<1>10. Awaited(q, items, 0)
    <2>1. 1 \in 1 .. Len(q) /\ q[1].use = "boot" /\ q[1].run = 0
        BY <1>2, <1>3
    <2> QED
        BY <2>1, <1>1, <1>4 DEF Awaited, NoMore
<1>11. Listed(items, 0, Unfiltered, Recorded)
    <2>1. \A r \in Unfiltered : r \in Nat
        BY FilterFacts, ListsNumbers
    <2>2. Descends(items)
        BY <1>1 DEF Descends
    <2> QED
        BY <2>1, <2>2, <1>9 DEF Listed, Beneath
<1>12. ShownBy(reads, filters, newest, items, cursor, applied, a)
    BY <1>1, <1>5, <1>6, <1>8, <1>9, <1>10, <1>11 DEF ShownBy
<1>13. ListsTypes
    <2>1. items \in Seq(1 .. MaxRecords)
        BY <1>1
    <2>2. Len(reads) <= MaxReads + 2 * applied + 1
        BY <1>1, <1>3, ListsNumbers
    <2>3. newest \in Recorded .. MaxRecords /\ cursor \in 0 .. newest /\ applied \in 0 .. MaxApplied
        BY <1>1, ListsNumbers
    <2>4. hasMore \in BOOLEAN /\ ~hasMore /\ kind \in Kinds /\ filters \in Filters
        BY <1>1, ListsNumbers
    <2> QED
        BY <2>1, <2>2, <2>3, <2>4 DEF ListsTypes
<1> QED
    BY <1>12, <1>13 DEF ListsInv

\* What is asked for is what the queue expects.
LEMMA AskedReads ==
    ASSUME ListsTypes
    PROVE  /\ \A u, g : Read(u, g, 0).use = u /\ \A c : Read(u, g, c).use = u
           /\ \A u \in Replacing \cup {"merge"} :
                 Read(u, filters, 0) \in Pending /\ First(Read(u, filters, 0), [filter |-> filters, newest |-> newest])
           /\ \A u \in Replacing, g \in Filters :
                 Read(u, g, 0) \in Pending /\ First(Read(u, g, 0), [filter |-> g, newest |-> newest])
           /\ /\ Read("overview", Unfiltered, 0) \in Pending
              /\ First(Read("overview", Unfiltered, 0), [filter |-> filters, newest |-> newest])
           /\ \A c \in 1 .. newest :
                 /\ Read("more", filters, c) \in Pending
                 /\ First(Read("more", filters, c), [filter |-> filters, newest |-> newest])
                 /\ Read("more", filters, c).page = AnswerAt(filters, c - 1)
           /\ \A run \in 0 .. MaxApplied : /\ Boot(run) \in Pending /\ Boot(run).use = "boot" /\ Boot(run).run = run
                                           /\ \A at : First(Boot(run), at)
<1>1. /\ newest \in 0 .. MaxRecords /\ newest \in Nat /\ filters \in Filters
      /\ MaxRecords \in Nat /\ Recorded \in Nat
    BY ListsNumbers DEF ListsTypes
<1>2. ASSUME NEW g \in Filters, NEW m \in 0 .. newest
      PROVE  AnswerAt(g, m) \in Answers
    <2>1. g \subseteq 1 .. MaxRecords /\ m \in 0 .. MaxRecords
        BY <1>1, FilterFacts
    <2> QED
        BY <2>1, AnswerFacts DEF Answers
<1>3. ASSUME NEW g \in Filters
      PROVE  /\ Query(g, 0) = AnswerAt(g, newest) /\ Query(g, 0) \in Answers
             /\ \A c \in 1 .. newest : Query(g, c) = AnswerAt(g, c - 1) /\ Query(g, c) \in Answers
    <2>1. g \subseteq 1 .. MaxRecords
        BY FilterFacts
    <2>2. newest \in 0 .. newest /\ \A c \in 1 .. newest : c - 1 \in 0 .. newest
        BY <1>1
    <2> QED
        BY <1>1, <1>2, <2>1, <2>2, QueryIs
<1>4. \A u, g, c : /\ Read(u, g, c) = [use |-> u, page |-> Query(g, c)]
                   /\ Read(u, g, c).use = u /\ Read(u, g, c).page = Query(g, c)
    BY DEF Read
<1>5. ASSUME NEW u \in Replacing \cup Adding, NEW p \in Answers
      PROVE  [use |-> u, page |-> p] \in Pending
    BY DEF Pending
<1>6. ASSUME NEW u \in Replacing \cup {"merge"}, NEW g \in Filters
      PROVE  Read(u, g, 0) \in Pending /\ First(Read(u, g, 0), [filter |-> g, newest |-> newest])
    <2>1. u \in Replacing \cup Adding /\ u # "overview"
        BY DEF Replacing, Adding
    <2> QED
        BY <2>1, <1>3, <1>4, <1>5 DEF First
<1>7. /\ Read("overview", Unfiltered, 0) \in Pending
      /\ First(Read("overview", Unfiltered, 0), [filter |-> filters, newest |-> newest])
    <2>1. "overview" \in Replacing \cup Adding /\ "overview" \notin Replacing \cup {"merge"} /\ Unfiltered \in Filters
        BY ListsNumbers DEF Replacing, Adding
    <2> QED
        BY <2>1, <1>3, <1>4, <1>5 DEF First
<1>8. ASSUME NEW c \in 1 .. newest
      PROVE  /\ Read("more", filters, c) \in Pending
             /\ First(Read("more", filters, c), [filter |-> filters, newest |-> newest])
             /\ Read("more", filters, c).page = AnswerAt(filters, c - 1)
    <2>1. "more" \in Replacing \cup Adding /\ "more" \notin Replacing \cup {"merge"}
        BY DEF Replacing, Adding
    <2> QED
        BY <2>1, <1>1, <1>3, <1>4, <1>5 DEF First
<1>9. ASSUME NEW run \in 0 .. MaxApplied
      PROVE  /\ Boot(run) \in Pending /\ Boot(run).use = "boot" /\ Boot(run).run = run
             /\ \A at : First(Boot(run), at)
    BY DEF Boot, Pending, First, Replacing
<1> QED
    BY <1>1, <1>4, <1>6, <1>7, <1>8, <1>9

\* The invariant after a read was asked for: applyFilters asks for two.
LEMMA InvApplyFilters ==
    ASSUME ListsInv, NEW filter \in Filters, applyFilters(filter)
    PROVE  ListsInv'
<1> DEFINE x == Read("apply", filter, 0)
           y == Boot(applied + 1)
<1>1. /\ ListsTypes /\ applied < MaxApplied /\ applied' = applied + 1 /\ filters' = filter
      /\ reads' = reads \o <<x, y>>
      /\ kind' = kind /\ newest' = newest /\ items' = items /\ cursor' = cursor /\ hasMore' = hasMore
    BY DEF ListsInv, applyFilters
<1>2. PICK a : ShownBy(reads, filters, newest, items, cursor, applied, a)
    BY DEF ListsInv
<1>3. /\ newest \in Recorded .. MaxRecords /\ filters \in Filters /\ applied \in Nat /\ applied + 1 \in 0 .. MaxApplied
      /\ reads \in Seq(Pending)
    BY <1>1, <1>2, ListsNumbers DEF ListsTypes, ShownBy, Going
<1>4. /\ x \in Pending /\ x.use = "apply" /\ "apply" \in Replacing /\ x.use # "more"
      /\ First(x, [filter |-> filter, newest |-> newest])
      /\ y \in Pending /\ y.use = "boot" /\ "boot" \notin Replacing /\ y.use # "more"
      /\ First(y, [filter |-> filter, newest |-> newest])
    <2>1. "apply" \in Replacing /\ "boot" \notin Replacing
        BY DEF Replacing
    <2> QED
        BY <2>1, <1>1, <1>3, AskedReads
<1> HIDE DEF x, y
<1>5. PICK b : ShownBy(Append(reads, x), filter, newest, items, cursor, applied + 1, b)
    BY <1>2, <1>3, <1>4, ShownAsking
<1>6. PICK d : ShownBy(Append(Append(reads, x), y), filter, newest, items, cursor, applied + 1, d)
    BY <1>3, <1>4, <1>5, ShownAsking
<1>7. reads' = Append(Append(reads, x), y) /\ Len(reads') = Len(reads) + 2
    BY <1>1, <1>3, <1>4
<1>8. \E e : ShownBy(reads', filters', newest', items', cursor', applied', e)
    BY <1>1, <1>6, <1>7
<1>9. ListsTypes'
    <2>1. applied' \in 0 .. MaxApplied /\ Len(reads') <= MaxReads + 2 * applied' + 1
        <3>1. Len(reads) <= MaxReads + 2 * applied + 1 /\ Len(reads) \in Nat
            BY <1>1, <1>3 DEF ListsTypes
        <3> QED
            BY <3>1, <1>1, <1>3, <1>7, ListsNumbers
    <2> QED
        BY <2>1, <1>1 DEF ListsTypes
<1> QED
    BY <1>8, <1>9 DEF ListsInv

\* The invariant after one read was asked for: a poll, the overview, the view
\* that is opened, and the next page.
LEMMA InvAsked ==
    ASSUME ListsInv, NEW x \in Pending, First(x, [filter |-> filters, newest |-> newest]),
           x.use # "more",
           Len(reads) < MaxReads, reads' = Append(reads, x),
           UNCHANGED <<kind, newest, filters, items, cursor, hasMore, applied>>
    PROVE  ListsInv'
<1>1. /\ ListsTypes
      /\ kind' = kind /\ newest' = newest /\ filters' = filters /\ items' = items /\ cursor' = cursor
      /\ hasMore' = hasMore /\ applied' = applied
    BY DEF ListsInv
<1>2. PICK a : ShownBy(reads, filters, newest, items, cursor, applied, a)
    BY DEF ListsInv
<1>3. newest \in Recorded .. MaxRecords /\ filters \in Filters /\ reads \in Seq(Pending) /\ applied \in Nat
    BY <1>1, <1>2, ListsNumbers DEF ListsTypes, ShownBy, Going
<1>4. PICK b : ShownBy(Append(reads, x), filters, newest, items, cursor, applied, b)
    BY <1>2, <1>3, ShownAsking
<1>5. \E e : ShownBy(reads', filters', newest', items', cursor', applied', e)
    BY <1>1, <1>4
<1>6. ListsTypes'
    <2>1. Len(reads') <= MaxReads + 2 * applied' + 1
        <3>1. Len(reads') = Len(reads) + 1 /\ Len(reads) \in Nat
            BY <1>3
        <3> QED
            BY <3>1, <1>1, <1>3, ListsNumbers
    <2> QED
        BY <2>1, <1>1 DEF ListsTypes
<1> QED
    BY <1>5, <1>6 DEF ListsInv

LEMMA InvLoadMore ==
    ASSUME ListsInv, ListsInOrder, LoadMore
    PROVE  ListsInv'
<1> DEFINE x == Read("more", filters, cursor)
<1>1. /\ ListsTypes /\ hasMore /\ Settled /\ Len(reads) < MaxReads /\ reads' = Append(reads, x)
      /\ kind' = kind /\ newest' = newest /\ filters' = filters /\ items' = items /\ cursor' = cursor
      /\ hasMore' = hasMore /\ applied' = applied
    BY DEF ListsInv, LoadMore, ListsInOrder
<1>2. PICK a : ShownBy(reads, filters, newest, items, cursor, applied, a)
    BY DEF ListsInv
<1>3. newest \in Recorded .. MaxRecords /\ filters \in Filters /\ reads \in Seq(Pending) /\ applied \in Nat /\ cursor \in 1 .. newest
    <2>1. newest \in Recorded .. MaxRecords /\ filters \in Filters /\ applied \in Nat /\ cursor \in 0 .. newest /\ cursor > 0
        BY <1>1, ListsNumbers DEF ListsTypes
    <2> QED
        BY <2>1, <1>2, ListsNumbers DEF ShownBy, Going
<1>4. \A j \in 1 .. Len(reads) : reads[j].use \in Adding
    BY <1>1, <1>3 DEF Settled, Adding
<1>5. a[0].filter = filters
    <2>1. SameFilters(reads, a) /\ a[Len(reads)].filter = filters /\ Len(reads) \in Nat
        BY <1>2 DEF ShownBy, Going
    <2>2. 0 \in 0 .. Len(reads) /\ Len(reads) \in 0 .. Len(reads) /\ 0 <= Len(reads) /\ 0 + 1 = 1
        BY <2>1
    <2>3. Unchanged(reads, 0, Len(reads))
        BY <2>2, <1>4 DEF Unchanged, Adding, Replacing
    <2> QED
        BY <2>1, <2>2, <2>3 DEF SameFilters
<1>6. Reaches(Range(items), a[0].filter)
    <2>1. ~ Awaited(reads, items, applied)
        BY <1>4 DEF Awaited, Adding, Replacing
    <2> QED
        BY <2>1, <1>2 DEF ShownBy
<1>7. /\ x \in Pending /\ First(x, [filter |-> filters, newest |-> newest])
      /\ x.page = AnswerAt(filters, cursor - 1) /\ x.use = "more" /\ "more" \notin Replacing
    <2>1. "more" \notin Replacing
        BY DEF Replacing
    <2> QED
        BY <2>1, <1>1, <1>3, AskedReads
<1> HIDE DEF x
<1>8. Further(x, filters, Range(items), newest)
    <2>1. Listed(items, cursor, filters, a[0].newest)
        BY <1>2, <1>5 DEF ShownBy
    <2>2. cursor - 1 \in 0 .. newest /\ newest \in Nat /\ \A r \in filters : r \in Nat
        BY <1>3, ListsNumbers, FilterFacts
    <2>3. \A r \in filters : Recorded < r => cursor - 1 < r
        BY <2>1, <2>2, <1>3 DEF Listed
    <2>4. \A r \in filters : Beneath(r, Range(items)) => r <= cursor - 1
        BY <2>1, <2>2, <1>3 DEF Listed
    <2>5. Ahead(cursor - 1, filters, Range(items))
        BY <2>3, <2>4 DEF Ahead
    <2> QED
        BY <2>2, <2>5, <1>7 DEF Further
<1>9. PICK b : ShownBy(Append(reads, x), filters, newest, items, cursor, applied, b)
    BY <1>2, <1>3, <1>4, <1>6, <1>7, <1>8, ShownAsking
<1>10. \E e : ShownBy(reads', filters', newest', items', cursor', applied', e)
    BY <1>1, <1>9 DEF x
<1>11. ListsTypes'
    <2>1. Len(reads') <= MaxReads + 2 * applied' + 1
        <3>1. Len(reads') = Len(reads) + 1 /\ Len(reads) \in Nat
            BY <1>1, <1>3
        <3> QED
            BY <3>1, <1>1, <1>3, ListsNumbers
    <2> QED
        BY <2>1, <1>1 DEF ListsTypes
<1> QED
    BY <1>10, <1>11 DEF ListsInv

LEMMA InvNewRecord ==
    ASSUME ListsInv, NewRecord
    PROVE  ListsInv'
<1>1. /\ ListsTypes /\ newest < MaxRecords /\ newest' = newest + 1
      /\ kind' = kind /\ reads' = reads /\ filters' = filters /\ items' = items /\ cursor' = cursor
      /\ hasMore' = hasMore /\ applied' = applied
    BY DEF ListsInv, NewRecord
<1>2. PICK a : ShownBy(reads, filters, newest, items, cursor, applied, a)
    BY DEF ListsInv
<1>3. newest \in Nat /\ newest' \in Recorded .. MaxRecords /\ cursor \in 0 .. newest'
    BY <1>1, ListsNumbers DEF ListsTypes
<1>4. Timed(a, Len(reads), newest + 1)
    <2>1. Timed(a, Len(reads), newest) /\ Len(reads) \in Nat
        BY <1>2 DEF ShownBy, Going
    <2>2. a[Len(reads)].newest \in Int
        <3>1. Len(reads) \in 0 .. Len(reads)
            BY <2>1
        <3> QED
            BY <2>1, <3>1, ListsNumbers DEF Timed, Moments
    <2> QED
        BY <2>1, <2>2, <1>3 DEF Timed
<1>5. ShownBy(reads, filters, newest + 1, items, cursor, applied, a)
    BY <1>2, <1>4 DEF ShownBy, Going
<1>6. \E e : ShownBy(reads', filters', newest', items', cursor', applied', e)
    BY <1>1, <1>5
<1>7. ListsTypes'
    BY <1>1, <1>3 DEF ListsTypes
<1> QED
    BY <1>6, <1>7 DEF ListsInv

\* The invariant once the first read has been answered.
LEMMA InvServed ==
    ASSUME ListsInv, Len(reads) > 0,
           \E b : ShownBy(RemoveAt(reads, 1), filters, newest, items', cursor', applied, b),
           items' \in Seq(1 .. MaxRecords), cursor' \in 0 .. newest, hasMore' \in BOOLEAN, hasMore' => cursor' > 0,
           reads' = RemoveAt(reads, 1),
           UNCHANGED <<kind, newest, filters, applied>>
    PROVE  ListsInv'
<1>1. ListsTypes /\ kind' = kind /\ newest' = newest /\ filters' = filters /\ applied' = applied
    BY DEF ListsInv
<1>2. PICK a : ShownBy(reads, filters, newest, items, cursor, applied, a)
    BY DEF ListsInv
<1>3. /\ newest \in Recorded .. MaxRecords /\ filters \in Filters /\ Going(reads, a, filters, newest, Range(items))
      /\ applied \in Nat
    BY <1>1, <1>2, ListsNumbers DEF ListsTypes, ShownBy
<1>4. Len(reads) \in Nat /\ Len(RemoveAt(reads, 1)) = Len(reads) - 1
    BY <1>3, FirstRead
<1>5. \E e : ShownBy(reads', filters', newest', items', cursor', applied', e)
    BY <1>1
<1>6. ListsTypes'
    <2>1. Len(reads') <= MaxReads + 2 * applied' + 1
        BY <1>1, <1>3, <1>4, ListsNumbers DEF ListsTypes
    <2> QED
        BY <2>1, <1>1 DEF ListsTypes
<1> QED
    BY <1>5, <1>6 DEF ListsInv

\* What holds when the first read is answered, in terms of its moment.
LEMMA FirstAnswered ==
    ASSUME ListsTypes, Len(reads) > 0, NEW a, ShownBy(reads, filters, newest, items, cursor, applied, a)
    PROVE  /\ newest \in Recorded .. MaxRecords /\ filters \in Filters /\ items \in Seq(1 .. MaxRecords)
           /\ Going(reads, a, filters, newest, Range(items))
           /\ a[0].filter \in Filters /\ a[1].filter \in Filters
           /\ a[0].newest \in Recorded .. MaxRecords /\ a[1].newest \in Recorded .. MaxRecords
           /\ a[0].newest \in 0 .. MaxRecords /\ a[1].newest \in 0 .. MaxRecords
           /\ a[0].newest <= a[1].newest
           /\ reads[1].use \notin Replacing =>
                /\ a[0].filter = a[1].filter
                /\ Listed(items, cursor, a[1].filter, a[0].newest)
                /\ Reaches(Range(items), a[1].filter) \/ Awaited(reads, items, applied)
           /\ First(reads[1], a[1]) /\ reads \in Seq(Pending)
           /\ reads[1].use = "more" => Further(reads[1], a[0].filter, Range(items), a[1].newest)
           /\ reads[1].use \notin Adding => NoMore(RemoveAt(reads, 1))
<1>1. /\ newest \in Recorded .. MaxRecords /\ filters \in Filters /\ items \in Seq(1 .. MaxRecords)
      /\ Going(reads, a, filters, newest, Range(items))
    BY DEF ListsTypes, ShownBy
<1>2. /\ a[0] \in Moments /\ a[1] \in Moments /\ a[0].newest <= a[1].newest
      /\ reads[1].use \notin Replacing => a[0].filter = a[1].filter
      /\ First(reads[1], a[1]) /\ reads \in Seq(Pending)
      /\ reads[1].use = "more" => Further(reads[1], a[0].filter, Range(items), a[1].newest)
      /\ reads[1].use \notin Adding => NoMore(RemoveAt(reads, 1))
    BY <1>1, FirstRead
<1>3. /\ a[0].filter \in Filters /\ a[1].filter \in Filters
      /\ a[0].newest \in Recorded .. MaxRecords /\ a[1].newest \in Recorded .. MaxRecords
    BY <1>2 DEF Moments
<1>4. a[0].newest \in 0 .. MaxRecords /\ a[1].newest \in 0 .. MaxRecords
    BY <1>3, ListsNumbers
<1>5. /\ Listed(items, cursor, a[0].filter, a[0].newest)
      /\ Reaches(Range(items), a[0].filter) \/ Awaited(reads, items, applied)
    BY DEF ShownBy
<1> QED
    BY <1>1, <1>2, <1>3, <1>4, <1>5

\* A first page replaces the list.
LEMMA InvReplaced ==
    ASSUME ListsInv, ListsInOrder, Len(reads) > 0, reads[1].use \in Replacing,
           reads' = RemoveAt(reads, 1), items' = reads[1].page.items, cursor' = reads[1].page.next,
           hasMore' = reads[1].page.hasMore, UNCHANGED <<kind, newest, filters, applied>>
    PROVE  ListsInv'
<1> DEFINE x == reads[1]
           p == x.page
<1>1. ListsTypes /\ MaxRecords - Recorded <= PageSize
    BY DEF ListsInv, ListsInOrder
<1>2. PICK a : ShownBy(reads, filters, newest, items, cursor, applied, a)
    BY DEF ListsInv
<1>3. /\ newest \in Recorded .. MaxRecords /\ filters \in Filters
      /\ Going(reads, a, filters, newest, Range(items))
      /\ a[1].filter \in Filters /\ a[1].newest \in Recorded .. MaxRecords
      /\ First(x, a[1])
      /\ x.use \notin Adding => NoMore(RemoveAt(reads, 1))
    BY <1>1, <1>2, FirstAnswered
<1>4. x.use # "boot" /\ x.use \notin Adding
    BY DEF Replacing, Adding
<1>5. /\ p.items \in Seq(1 .. MaxRecords) /\ p.hasMore \in BOOLEAN /\ p.next \in 0 .. newest
      /\ p.hasMore => p.next > 0
    BY <1>3, <1>4, AnswerTypes
<1>6. p = AnswerAt(a[1].filter, a[1].newest)
    BY <1>3 DEF First
<1>7. Listed(p.items, p.next, a[1].filter, a[1].newest) /\ Reaches(Range(p.items), a[1].filter)
    BY <1>1, <1>3, <1>6, ReplacedList
<1>8. NoMore(RemoveAt(reads, 1))
    BY <1>3, <1>4
<1>9. ShownBy(RemoveAt(reads, 1), filters, newest, p.items, p.next, applied, Served(a, Len(reads)))
    BY <1>2, <1>3, <1>7, <1>8, ShownAnswered
<1> HIDE DEF p
<1>10. items' = p.items /\ cursor' = p.next /\ hasMore' = p.hasMore
    BY DEF p
<1>11. /\ \E b : ShownBy(RemoveAt(reads, 1), filters, newest, items', cursor', applied, b)
       /\ items' \in Seq(1 .. MaxRecords) /\ cursor' \in 0 .. newest /\ hasMore' \in BOOLEAN
       /\ hasMore' => cursor' > 0
    BY <1>5, <1>9, <1>10
<1> QED
    BY <1>11, InvServed

\* A poll is merged.
LEMMA InvMerged ==
    ASSUME ListsInv, ListsInOrder, Len(reads) > 0, reads[1].use = "merge",
           reads' = RemoveAt(reads, 1), items' = mergeHistoryPage(items, reads[1].page.items),
           cursor' = reads[1].page.next,
           hasMore' = reads[1].page.hasMore, UNCHANGED <<kind, newest, filters, applied>>
    PROVE  ListsInv'
<1> DEFINE x == reads[1]
           p == x.page
           t == mergeHistoryPage(items, p.items)
<1>1. ListsTypes /\ MaxRecords - Recorded <= PageSize
    BY DEF ListsInv, ListsInOrder
<1>2. PICK a : ShownBy(reads, filters, newest, items, cursor, applied, a)
    BY DEF ListsInv
<1>4. x.use # "boot" /\ x.use \notin Replacing /\ x.use \in Adding
    BY DEF Replacing, Adding
<1>3. /\ newest \in Recorded .. MaxRecords /\ filters \in Filters /\ items \in Seq(1 .. MaxRecords)
      /\ Going(reads, a, filters, newest, Range(items))
      /\ a[1].filter \in Filters /\ a[1].newest \in Recorded .. MaxRecords /\ a[0].newest \in Recorded .. MaxRecords
      /\ a[0].newest <= a[1].newest
      /\ Listed(items, cursor, a[1].filter, a[0].newest)
      /\ Reaches(Range(items), a[1].filter) \/ Awaited(reads, items, applied)
      /\ First(x, a[1]) /\ reads \in Seq(Pending)
    BY <1>1, <1>2, <1>4, FirstAnswered
<1>5. /\ p.items \in Seq(1 .. MaxRecords) /\ p.hasMore \in BOOLEAN /\ p.next \in 0 .. newest
      /\ p.hasMore => p.next > 0
    BY <1>3, <1>4, AnswerTypes
<1>6. p = AnswerAt(a[1].filter, a[1].newest)
    BY <1>3 DEF First
<1>e. Reaches(Range(items), a[1].filter) \/ items = <<>>
    BY <1>3 DEF Awaited
<1>7. /\ t \in Seq(1 .. MaxRecords) /\ Listed(t, p.next, a[1].filter, a[1].newest) /\ Reaches(Range(t), a[1].filter)
      /\ Reaches(Range(items), a[1].filter) =>
            \A m \in Nat : Ahead(m, a[1].filter, Range(items)) => Ahead(m, a[1].filter, Range(t))
    BY <1>1, <1>3, <1>e, <1>6, MergedList
<1> HIDE DEF t, p, x
<1>8. \/ NoMore(RemoveAt(reads, 1))
      \/ \A m \in Nat : Ahead(m, a[1].filter, Range(items)) => Ahead(m, a[1].filter, Range(t))
    <2>1. CASE Reaches(Range(items), a[1].filter)
        BY <2>1, <1>7
    <2>2. CASE Awaited(reads, items, applied)
        <3>1. Awaited(RemoveAt(reads, 1), items, applied)
            BY <2>2, <1>3, <1>4, StillAwaited DEF x
        <3> QED
            BY <3>1 DEF Awaited
    <2> QED
        BY <1>3, <2>1, <2>2
<1>9. ShownBy(RemoveAt(reads, 1), filters, newest, t, p.next, applied, Served(a, Len(reads)))
    BY <1>2, <1>3, <1>7, <1>8, ShownAnswered
<1>10. items' = t /\ cursor' = p.next /\ hasMore' = p.hasMore
    BY DEF p, t, x
<1>11. /\ \E b : ShownBy(RemoveAt(reads, 1), filters, newest, items', cursor', applied, b)
       /\ items' \in Seq(1 .. MaxRecords) /\ cursor' \in 0 .. newest /\ hasMore' \in BOOLEAN
       /\ hasMore' => cursor' > 0
    BY <1>5, <1>7, <1>9, <1>10
<1> QED
    BY <1>11, InvServed

\* The next page is appended.
LEMMA InvAppended ==
    ASSUME ListsInv, ListsInOrder, Len(reads) > 0, reads[1].use = "more",
           reads' = RemoveAt(reads, 1), items' = Appended(items, reads[1].page.items),
           cursor' = reads[1].page.next,
           hasMore' = reads[1].page.hasMore, UNCHANGED <<kind, newest, filters, applied>>
    PROVE  ListsInv'
<1> DEFINE x == reads[1]
           p == x.page
           t == Appended(items, p.items)
<1>1. ListsTypes /\ MaxRecords - Recorded <= PageSize
    BY DEF ListsInv, ListsInOrder
<1>2. PICK a : ShownBy(reads, filters, newest, items, cursor, applied, a)
    BY DEF ListsInv
<1>4. x.use # "boot" /\ x.use \notin Replacing
    BY DEF Replacing
<1>3. /\ newest \in Recorded .. MaxRecords /\ filters \in Filters /\ items \in Seq(1 .. MaxRecords)
      /\ Going(reads, a, filters, newest, Range(items))
      /\ a[0].filter = a[1].filter
      /\ a[1].filter \in Filters /\ a[1].newest \in Recorded .. MaxRecords /\ a[0].newest \in Recorded .. MaxRecords
      /\ a[0].newest <= a[1].newest
      /\ Listed(items, cursor, a[1].filter, a[0].newest)
      /\ Reaches(Range(items), a[1].filter) \/ Awaited(reads, items, applied)
      /\ reads \in Seq(Pending)
      /\ Further(x, a[0].filter, Range(items), a[1].newest)
    BY <1>1, <1>2, <1>4, FirstAnswered
<1>5. /\ p.items \in Seq(1 .. MaxRecords) /\ p.hasMore \in BOOLEAN /\ p.next \in 0 .. newest
      /\ p.hasMore => p.next > 0
    BY <1>3, <1>4, AnswerTypes
<1>6. PICK m \in 0 .. a[1].newest : p = AnswerAt(a[1].filter, m) /\ Ahead(m, a[1].filter, Range(items))
    BY <1>3 DEF Further
<1>r. Reaches(Range(items), a[1].filter)
    <2>1. 1 \in 1 .. Len(reads)
        BY <1>3
    <2>2. ~ Awaited(reads, items, applied)
        BY <2>1 DEF Awaited, NoMore
    <2> QED
        BY <2>2, <1>3
<1>7. /\ t \in Seq(1 .. MaxRecords) /\ Listed(t, p.next, a[1].filter, a[1].newest) /\ Reaches(Range(t), a[1].filter)
      /\ \A k \in Nat : Ahead(k, a[1].filter, Range(items)) => Ahead(k, a[1].filter, Range(t))
    BY <1>1, <1>3, <1>r, <1>6, AppendedList
<1> HIDE DEF t, p, x
<1>9. ShownBy(RemoveAt(reads, 1), filters, newest, t, p.next, applied, Served(a, Len(reads)))
    BY <1>2, <1>3, <1>7, ShownAnswered
<1>10. items' = t /\ cursor' = p.next /\ hasMore' = p.hasMore
    BY DEF p, t, x
<1>11. /\ \E b : ShownBy(RemoveAt(reads, 1), filters, newest, items', cursor', applied, b)
       /\ items' \in Seq(1 .. MaxRecords) /\ cursor' \in 0 .. newest /\ hasMore' \in BOOLEAN
       /\ hasMore' => cursor' > 0
    BY <1>5, <1>7, <1>9, <1>10
<1> QED
    BY <1>11, InvServed

\* The list stays: a read fails, a bootstrap is out of date, or the overview
\* moves the cursor.
LEMMA InvKept ==
    ASSUME ListsInv, Len(reads) > 0,
           reads[1].use \in Adding \/ (reads[1].use = "boot" /\ reads[1].run # applied),
           NEW c \in 0 .. newest, NEW h \in BOOLEAN, h => c > 0,
           \A g \in Filters, n \in Recorded .. MaxRecords, n1 \in Recorded .. MaxRecords :
                n <= n1 /\ First(reads[1], [filter |-> g, newest |-> n1]) /\ Listed(items, cursor, g, n)
                   => Listed(items, c, g, n1),
           reads' = RemoveAt(reads, 1), items' = items, cursor' = c,
           hasMore' = h, UNCHANGED <<kind, newest, filters, applied>>
    PROVE  ListsInv'
<1> DEFINE x == reads[1]
<1>1. ListsTypes
    BY DEF ListsInv
<1>2. PICK a : ShownBy(reads, filters, newest, items, cursor, applied, a)
    BY DEF ListsInv
<1>4. x.use \notin Replacing
    BY DEF Replacing, Adding
<1>3. /\ newest \in Recorded .. MaxRecords /\ filters \in Filters /\ items \in Seq(1 .. MaxRecords)
      /\ Going(reads, a, filters, newest, Range(items))
      /\ a[1].filter \in Filters /\ a[1].newest \in Recorded .. MaxRecords /\ a[0].newest \in Recorded .. MaxRecords
      /\ a[0].newest <= a[1].newest
      /\ Listed(items, cursor, a[1].filter, a[0].newest)
      /\ Reaches(Range(items), a[1].filter) \/ Awaited(reads, items, applied)
      /\ First(x, a[1]) /\ reads \in Seq(Pending)
    BY <1>1, <1>2, <1>4, FirstAnswered
<1>5. First(x, [filter |-> a[1].filter, newest |-> a[1].newest])
    BY <1>3 DEF First
<1>6. Listed(items, c, a[1].filter, a[1].newest)
    BY <1>3, <1>5
<1>7. Reaches(Range(items), a[1].filter) \/ Awaited(RemoveAt(reads, 1), items, applied)
    <2>1. CASE Awaited(reads, items, applied)
        BY <2>1, <1>3, StillAwaited
    <2> QED
        BY <2>1, <1>3
<1> HIDE DEF x
<1>8. \A m \in Nat : Ahead(m, a[1].filter, Range(items)) => Ahead(m, a[1].filter, Range(items))
    OBVIOUS
<1>9. ShownBy(RemoveAt(reads, 1), filters, newest, items, c, applied, Served(a, Len(reads)))
    BY <1>2, <1>3, <1>6, <1>7, <1>8, ShownAnswered
<1>10. /\ \E b : ShownBy(RemoveAt(reads, 1), filters, newest, items', cursor', applied, b)
       /\ items' \in Seq(1 .. MaxRecords) /\ cursor' \in 0 .. newest /\ hasMore' \in BOOLEAN
       /\ hasMore' => cursor' > 0
    BY <1>3, <1>9
<1> QED
    BY <1>10, InvServed

\* A bootstrap whose session arrived goes on to load the list.
LEMMA InvBooted ==
    ASSUME ListsInv, Len(reads) > 0, reads[1].use = "boot", reads[1].run = applied,
           reads' = RemoveAt(reads, 1) \o <<Read("first", filters, 0)>>,
           UNCHANGED <<items, cursor, hasMore, kind, newest, filters, applied>>
    PROVE  ListsInv'
<1> DEFINE x == Read("first", filters, 0)
           q == RemoveAt(reads, 1)
           S == Range(items)
<1>1. /\ ListsTypes /\ items' = items /\ cursor' = cursor /\ hasMore' = hasMore
      /\ kind' = kind /\ newest' = newest /\ filters' = filters /\ applied' = applied
    BY DEF ListsInv
<1>2. PICK a : ShownBy(reads, filters, newest, items, cursor, applied, a)
    BY DEF ListsInv
<1>4. "boot" \notin Replacing /\ "boot" \notin Adding /\ "first" \in Replacing
    BY DEF Replacing, Adding
<1>3. /\ newest \in Recorded .. MaxRecords /\ filters \in Filters
      /\ Going(reads, a, filters, newest, S)
      /\ a[1].filter \in Filters /\ a[0].newest \in 0 .. MaxRecords /\ a[1].newest \in 0 .. MaxRecords
      /\ a[0].newest <= a[1].newest
      /\ Listed(items, cursor, a[1].filter, a[0].newest)
      /\ Reaches(S, a[1].filter) \/ Awaited(reads, items, applied)
      /\ reads \in Seq(Pending) /\ NoMore(q)
    BY <1>1, <1>2, <1>4, FirstAnswered
<1>5. /\ q \in Seq(Pending) /\ Len(q) = Len(reads) - 1 /\ Len(reads) \in Nat
    BY <1>3, FirstRead
<1>6. x \in Pending /\ x.use = "first" /\ First(x, [filter |-> filters, newest |-> newest])
    BY <1>1, <1>3, <1>4, AskedReads
<1> HIDE DEF x, q, S
<1>7. Append(q, x) \in Seq(Pending) /\ Len(Append(q, x)) = Len(q) + 1 /\ reads' = Append(q, x)
    BY <1>5, <1>6, AppendProperties, AppendIsConcat DEF x, q
<1>8. Listed(items, cursor, a[1].filter, a[1].newest)
    BY <1>3, KeptList
<1>9. Going(q, Served(a, Len(reads)), filters, newest, S)
    BY <1>3, Dequeue DEF q
<1> DEFINE b0 == Served(a, Len(reads))
           b == Later(b0, Len(q), [filter |-> filters, newest |-> newest])
<1>10. Going(Append(q, x), b, filters, newest, S)
    BY <1>3, <1>4, <1>6, <1>9, Enqueue
<1>11. b[0] = a[1]
    <2>1. b0[0] = a[1]
        BY <1>5 DEF Served
    <2> HIDE DEF b0
    <2> QED
        BY <2>1, <1>5 DEF Later
<1> HIDE DEF b
<1>12. Reaches(S, a[1].filter) \/ Awaited(Append(q, x), items, applied)
    <2> SUFFICES ASSUME Awaited(reads, items, applied)
                 PROVE  Awaited(Append(q, x), items, applied)
        BY <1>3
    <2>1. Append(q, x)[Len(q) + 1] = x /\ \A i \in 1 .. Len(q) : Append(q, x)[i] = q[i]
        BY <1>5, <1>6, AppendProperties
    <2>2. Len(q) \in Nat /\ Len(q) + 1 \in 1 .. Len(q) + 1
        BY <1>5
    <2>3. NoMore(Append(q, x))
        <3> SUFFICES ASSUME NEW i \in 1 .. Len(q) + 1
                     PROVE  Append(q, x)[i].use # "more"
            BY <1>7 DEF NoMore
        <3>1. CASE i \in 1 .. Len(q)
            BY <3>1, <2>1, <1>3 DEF NoMore
        <3>2. CASE i = Len(q) + 1
            BY <3>2, <2>1, <1>6
        <3> QED
            BY <2>2, <3>1, <3>2
    <2>4. items = <<>>
        BY DEF Awaited
    <2> QED
        BY <2>1, <2>2, <2>3, <2>4, <1>4, <1>6, <1>7 DEF Awaited
<1>13. ShownBy(Append(q, x), filters, newest, items, cursor, applied, b)
    BY <1>8, <1>10, <1>11, <1>12 DEF ShownBy, S
<1>14. \E e : ShownBy(reads', filters', newest', items', cursor', applied', e)
    BY <1>1, <1>7, <1>13
<1>15. ListsTypes'
    <2>1. Len(reads') = Len(reads)
        BY <1>5, <1>7
    <2> QED
        BY <2>1, <1>1 DEF ListsTypes
<1> QED
    BY <1>14, <1>15 DEF ListsInv

\* The invariant after an answer, or a failure.
LEMMA InvAnswer ==
    ASSUME ListsInv, ListsInOrder, Answer
    PROVE  ListsInv'
<1> DEFINE x == reads[1]
<1>1. ListsTypes
    BY DEF ListsInv
<1>2. PICK a : ShownBy(reads, filters, newest, items, cursor, applied, a)
    BY DEF ListsInv
<1>3. reads \in Seq(Pending) /\ Len(reads) \in Nat
    BY <1>2 DEF ShownBy, Going
<1>4. /\ Len(reads) > 0 /\ (Arrive(1) \/ Fail(1))
      /\ UNCHANGED <<kind, newest, filters, applied>>
    <2>1. PICK i \in 1 .. (IF "reorder" \notin Races /\ reads # <<>> THEN 1 ELSE Len(reads)) : Arrive(i) \/ Fail(i)
        BY DEF Answer
    <2>2. "reorder" \notin Races
        BY DEF ListsInOrder
    <2>3. CASE reads = <<>>
        <3>1. Len(reads) = 0 /\ i \in 1 .. Len(reads)
            BY <2>3
        <3> QED
            BY <3>1
    <2>4. CASE reads # <<>>
        <3>1. i \in 1 .. 1 /\ Len(reads) > 0
            BY <2>2, <2>4, <1>3
        <3>2. i = 1
            BY <3>1
        <3> QED
            BY <2>1, <3>1, <3>2 DEF Answer
    <2> QED
        BY <2>3, <2>4
<1>5. x \in Pending
    BY <1>3, <1>4
<1>6. /\ newest \in Recorded .. MaxRecords /\ newest \in Nat /\ cursor \in 0 .. newest /\ hasMore \in BOOLEAN
      /\ hasMore => cursor > 0
      /\ filters \in Filters /\ Going(reads, a, filters, newest, Range(items))
    BY <1>1, <1>2, ListsNumbers DEF ListsTypes, ShownBy
<1>k. ASSUME NEW g \in Filters, NEW n \in Recorded .. MaxRecords, NEW n1 \in Recorded .. MaxRecords, n <= n1,
             Listed(items, cursor, g, n)
      PROVE  Listed(items, cursor, g, n1)
    <2>1. n \in 0 .. MaxRecords /\ n1 \in 0 .. MaxRecords
        BY ListsNumbers
    <2> QED
        BY <2>1, <1>k, KeptList
<1>7. CASE Fail(1)
    <2>1. /\ x.use \in Adding /\ reads' = RemoveAt(reads, 1)
          /\ items' = items /\ cursor' = cursor /\ hasMore' = hasMore
        BY <1>7 DEF Fail, ListsInOrder, Adding
    <2> QED
        BY <2>1, <1>4, <1>6, <1>k, InvKept
<1>8. CASE Arrive(1) /\ x.use = "boot"
    <2>1. /\ reads' = IF x.run = applied
                      THEN RemoveAt(reads, 1) \o <<Read("first", filters, 0)>> ELSE RemoveAt(reads, 1)
          /\ items' = items /\ cursor' = cursor /\ hasMore' = hasMore
        BY <1>8 DEF Arrive
    <2>2. CASE x.run = applied
        BY <2>1, <2>2, <1>4, <1>8, InvBooted
    <2>3. CASE x.run # applied
        <3>1. reads' = RemoveAt(reads, 1)
            BY <2>1, <2>3
        <3> QED
            BY <2>1, <2>3, <3>1, <1>4, <1>6, <1>8, <1>k, InvKept
    <2> QED
        BY <2>2, <2>3
<1>9. CASE Arrive(1) /\ x.use # "boot"
    <2>1. /\ reads' = RemoveAt(reads, 1) /\ items' = ListAfter(x.use, x.page)
          /\ cursor' = x.page.next /\ hasMore' = x.page.hasMore
        BY <1>9 DEF Arrive, CursorAfter
    <2>2. /\ x.use \in Replacing \cup Adding /\ x.page.next \in 0 .. newest
          /\ x.page.hasMore \in BOOLEAN
          /\ x.page.hasMore => x.page.next > 0
        BY <1>4, <1>6, <1>9, AnswerTypes
    <2>3. CASE x.use \in Replacing
        <3>1. items' = x.page.items
            BY <2>1, <2>3 DEF ListAfter, Replacing
        <3> QED
            BY <2>1, <2>3, <3>1, <1>4, InvReplaced
    <2>4. CASE x.use = "merge"
        <3>1. items' = mergeHistoryPage(items, x.page.items)
            BY <2>1, <2>4 DEF ListAfter
        <3> QED
            BY <2>1, <2>4, <3>1, <1>4, InvMerged
    <2>5. CASE x.use = "more"
        <3>1. items' = Appended(items, x.page.items)
            BY <2>1, <2>5 DEF ListAfter
        <3> QED
            BY <2>1, <2>5, <3>1, <1>4, InvAppended
    <2>6. CASE x.use = "overview"
        <3>1. items' = items
            BY <2>1, <2>6 DEF ListAfter
        <3>2. x.use \in Adding
            BY <2>6 DEF Adding
        <3>3. ASSUME NEW g \in Filters, NEW n \in Recorded .. MaxRecords, NEW n1 \in Recorded .. MaxRecords, n <= n1,
                     First(x, [filter |-> g, newest |-> n1]), Listed(items, cursor, g, n)
              PROVE  Listed(items, x.page.next, g, n1)
            <4>1. x.page = AnswerAt(Unfiltered, n1) /\ MaxRecords - Recorded <= PageSize
                BY <2>6, <3>3 DEF First, ListsInOrder
            <4>2. Listed(items, AnswerAt(Unfiltered, n1).next, g, n1)
                BY <3>3, <4>1, OverviewList
            <4> QED
                BY <4>1, <4>2
        <3> QED
            BY <2>1, <2>2, <3>1, <3>2, <3>3, <1>4, InvKept
    <2> QED
        BY <2>2, <2>3, <2>4, <2>5, <2>6 DEF Adding
<1> QED
    BY <1>4, <1>7, <1>8, <1>9

\* Every step keeps the invariant.
LEMMA ListsStep ==
    ASSUME ListsInv, ListsInOrder, [ListsNext]_listVars
    PROVE  ListsInv'
<1> USE DEF ListsInv
<1>0. ListsTypes
    OBVIOUS
<1> HIDE DEF ListsInv
<1>1. ASSUME NEW filter \in Filters, applyFilters(filter)
      PROVE  ListsInv'
    BY <1>1, InvApplyFilters
<1>2. CASE LoadMore
    BY <1>2, InvLoadMore
<1>3. CASE PollHistory
    <2>1. "merge" \in Replacing \cup {"merge"} /\ "merge" # "more"
        OBVIOUS
    <2> QED
        BY <2>1, <1>0, <1>3, AskedReads, InvAsked DEF PollHistory
<1>4. CASE RefreshOverview
    <2>1. /\ Read("overview", Unfiltered, 0) \in Pending
          /\ First(Read("overview", Unfiltered, 0), [filter |-> filters, newest |-> newest])
          /\ Read("overview", Unfiltered, 0).use = "overview"
        BY <1>0, AskedReads
    <2> QED
        BY <2>1, <1>4, InvAsked DEF RefreshOverview
<1>5. CASE OpenView
    <2>1. "first" \in Replacing \cup {"merge"} /\ "first" # "more"
        BY DEF Replacing
    <2> QED
        BY <2>1, <1>0, <1>5, AskedReads, InvAsked DEF OpenView
<1>6. CASE NewRecord
    BY <1>6, InvNewRecord
<1>7. CASE Answer
    BY <1>7, InvAnswer
<1>8. CASE UNCHANGED listVars
    <2>1. /\ kind' = kind /\ newest' = newest /\ filters' = filters /\ items' = items /\ cursor' = cursor
          /\ hasMore' = hasMore /\ applied' = applied /\ reads' = reads
        BY <1>8 DEF listVars
    <2>2. ListsTypes'
        BY <1>0, <2>1 DEF ListsTypes
    <2>3. \E e : ShownBy(reads', filters', newest', items', cursor', applied', e)
        BY <2>1 DEF ListsInv
    <2> QED
        BY <2>2, <2>3 DEF ListsInv
<1> QED
    BY <1>1, <1>2, <1>3, <1>4, <1>5, <1>6, <1>7, <1>8 DEF ListsNext

\* The invariant says what PagedRight does.
LEMMA ListsRight ==
    ASSUME ListsInv
    PROVE  PagedRight
<1>1. ListsTypes
    BY DEF ListsInv
<1>2. PICK a : ShownBy(reads, filters, newest, items, cursor, applied, a)
    BY DEF ListsInv
<1>3. /\ Going(reads, a, filters, newest, Range(items)) /\ Listed(items, cursor, a[0].filter, a[0].newest)
      /\ reads \in Seq(Pending) /\ Len(reads) \in Nat /\ DOMAIN reads = 1 .. Len(reads)
    BY <1>2 DEF ShownBy, Going
<1>4. /\ newest \in Nat /\ newest \in 0 .. MaxRecords /\ applied \in Nat /\ applied <= MaxApplied /\ cursor \in Nat
      /\ cursor \in 0 .. MaxRecords
    BY <1>1, ListsNumbers DEF ListsTypes
<1>5. ListsTypeOK
    <2>1. Len(reads) <= MaxReads + 2 * MaxApplied + 1
        BY <1>1, <1>3, <1>4, ListsNumbers DEF ListsTypes
    <2> QED
        BY <2>1, <1>1, <1>4 DEF ListsTypes, ListsTypeOK
<1>6. NewestFirst
    BY <1>3 DEF Listed, Descends, NewestFirst
<1>7. Settled => a[0].filter = filters
    <2> SUFFICES ASSUME Settled
                 PROVE  a[0].filter = filters
        OBVIOUS
    <2>1. SameFilters(reads, a) /\ a[Len(reads)].filter = filters
        BY <1>3 DEF Going
    <2>2. 0 \in 0 .. Len(reads) /\ Len(reads) \in 0 .. Len(reads) /\ 0 <= Len(reads) /\ 0 + 1 = 1
        BY <1>3
    <2>3. Unchanged(reads, 0, Len(reads))
        BY <2>2, <1>3 DEF Unchanged, Settled, Replacing
    <2> QED
        BY <2>1, <2>2, <2>3 DEF SameFilters
<1>8. SettledMatches
    <2>1. Range(items) \subseteq a[0].filter
        BY <1>3 DEF Listed, Upto
    <2> QED
        BY <2>1, <1>7 DEF SettledMatches
<1>9. NothingSkipped
    <2> SUFFICES ASSUME Settled, NEW r \in filters, items # <<>>, r <= items[1], cursor = 0 \/ r >= cursor
                 PROVE  r \in Range(items)
        BY DEF NothingSkipped
    <2>1. items \in Seq(1 .. MaxRecords) /\ filters \in Filters
        BY <1>1 DEF ListsTypes
    <2>2. items[1] \in Range(items) /\ \A y \in Range(items) : y \in 1 .. MaxRecords
        <3> DEFINE all == 1 .. MaxRecords
        <3>1. items \in Seq(all)
            BY <2>1
        <3> HIDE DEF all
        <3>2. 1 \in DOMAIN items /\ \A i \in DOMAIN items : items[i] \in all
            BY <3>1
        <3> QED
            BY <3>2 DEF Range, all
    <2>3. r \in Nat /\ items[1] \in Int /\ \A y \in Range(items) : y \in Int
        BY <2>1, <2>2, FilterFacts
    <2>4. r \in a[0].filter
        BY <1>7
    <2>5. ~ Beneath(r, Range(items))
        BY <2>3, <2>4, <1>3, <1>4 DEF Listed
    <2>6. PICK y \in Range(items) : y <= r
        BY <2>2, <2>3, <2>5 DEF Beneath
    <2> QED
        BY <2>2, <2>4, <2>6, <1>3 DEF Listed
<1> QED
    BY <1>5, <1>6, <1>8, <1>9 DEF PagedRight

\* Pages, polls and filters put together make one list (PagedRight), whatever
\* the filters and however many records, when answers arrive in order, a read
\* that replaces the list does not fail, and what is new fits on one page.
THEOREM PagesMakeOneList ==
    ASSUME ListsInOrder
    PROVE  ListsSpec => []PagedRight
<1>1. ListsInit => ListsInv
    BY ListsAtFirst
<1>2. ListsInv /\ [ListsNext]_listVars => ListsInv'
    BY ListsStep
<1>3. ListsInv => PagedRight
    BY ListsRight
<1> QED
    BY <1>1, <1>2, <1>3, PTL DEF ListsSpec

------------------------------------------------------------------------------
\* Views: the parts side by side.

\* A behaviour of the views is one of each of its parts: a part moves by its
\* own steps or stays.
LEMMA ViewsParts ==
    ViewsSpec => /\ TopologySpec /\ SearchSpec /\ RequestsSpec /\ RepeatSpec /\ PanelsSpec
                 /\ FormSpec /\ ListsSpec /\ StreamSpec
<1>1. ViewsInit => /\ TopologyInit /\ SearchInit /\ RequestsInit /\ RepeatInit /\ PanelsInit
                   /\ FormInit /\ ListsInit /\ StreamInit
    BY Zenon DEF ViewsInit
<1>2. [ViewsNext]_viewsVars => [TopologyNext]_topologyVars
    BY Zenon DEF ViewsNext, viewsVars
<1>3. [ViewsNext]_viewsVars => [SearchNext]_searchVars
    BY Zenon DEF ViewsNext, viewsVars
<1>4. [ViewsNext]_viewsVars => [RequestsNext]_requestVars
    BY Zenon DEF ViewsNext, viewsVars
<1>5. [ViewsNext]_viewsVars => [RepeatNext]_repeatVars
    BY Zenon DEF ViewsNext, viewsVars
<1>6. [ViewsNext]_viewsVars => [PanelsNext]_panelVars
    BY Zenon DEF ViewsNext, viewsVars
<1>7. [ViewsNext]_viewsVars => [FormNext]_formVars
    BY Zenon DEF ViewsNext, viewsVars
<1>8. [ViewsNext]_viewsVars => [ListsNext]_listVars
    BY Zenon DEF ViewsNext, viewsVars
<1>9. [ViewsNext]_viewsVars => [StreamNext]_streamVars
    BY Zenon DEF ViewsNext, viewsVars
<1> QED
    BY <1>1, <1>2, <1>3, <1>4, <1>5, <1>6, <1>7, <1>8, <1>9, PTL
    DEF ViewsSpec, TopologySpec, SearchSpec, RequestsSpec, RepeatSpec, PanelsSpec, FormSpec, ListsSpec, StreamSpec

\* The views side by side, as the run has them: a scene is owned, a decision
\* is previewed, the repeat tasks are sound, the policy form is faithful, the
\* stream misses nothing, and the steps that touch a paused log, an uncertain
\* delivery, an ended task or the results of a search are those the properties
\* allow (SignalTopology.tsx, RequestsView.tsx, manager.go,
\* RetryPolicyDialog.tsx, realtime.go, LogsView.tsx and GlobalSearch.tsx).
THEOREM ViewsAreSafe ==
    ViewsSpec => /\ []SceneOwned /\ []DecisionsPreviewed /\ []RepeatSound /\ []FormFaithful /\ []NothingMissed
                 /\ PausedFrozen /\ UncertainUntouched /\ EndedForGood /\ SearchMatches
<1> QED
    BY ViewsParts, SceneIsOwned, DecisionsArePreviewed, RepeatIsSound, FormIsFaithful, NothingIsMissed,
       UncertainIsUntouched, PausedLogFrozen, EndedTasksStayEnded, SearchAnswersMatch, PTL

\* And the lists of the views are right, on the terms of PagesMakeOneList
\* (App.tsx loadMore, mergePages and the filters of the lists).
THEOREM ViewsListsAreRight ==
    ASSUME ListsInOrder
    PROVE  ViewsSpec => []PagedRight
<1> QED
    BY ViewsParts, PagesMakeOneList, PTL
==============================================================================
