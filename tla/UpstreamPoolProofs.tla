------------------------- MODULE UpstreamPoolProofs -------------------------
(***************************************************************************)
(* Theorems about the upstream pool, for any targets, callers and          *)
(* configurations: a lease is of a target the request may be sent to, so   *)
(* failover never sends a request that may have been written to a second   *)
(* target without an idempotency key; and leases are counted and give      *)
(* their slots back through circuits and reloads.                          *)
(***************************************************************************)
EXTENDS UpstreamPool, Sequences, FiniteSetTheorems, WellFoundedInduction, TLAPS

\* A nonempty finite set of numbers has a last and a first element.
LEMMA FiniteExtremes ==
    ASSUME NEW S \in SUBSET Nat, IsFiniteSet(S), S # {}
    PROVE  Max(S) \in S /\ Min(S) \in S
<1> DEFINE R == StrictSubsetOrdering(S)
           Bare == {U \in FiniteSubsetsOf(S) :
                       /\ U # {}
                       /\ ~((\E m \in U : \A y \in U : m >= y) /\ (\E m \in U : \A y \in U : m <= y))}
<1>1. IsWellFoundedOn(R, FiniteSubsetsOf(S))
  BY FS_StrictSubsetOrderingWellFounded
<1>2. S \in FiniteSubsetsOf(S)
  BY DEF FiniteSubsetsOf
<1>3. ASSUME Bare # {} PROVE FALSE
  <2>1. PICK U \in Bare : \A V \in Bare : <<V, U>> \notin R
    <3>1. Bare \subseteq FiniteSubsetsOf(S)
      OBVIOUS
    <3> HIDE DEF Bare, R
    <3> QED
      BY <1>1, <1>3, <3>1, WFMin
  <2>2. U \in SUBSET S /\ IsFiniteSet(U) /\ U # {}
    BY DEF FiniteSubsetsOf
  <2>3. PICK x \in U : TRUE
    BY <2>2
  <2> DEFINE V == U \ {x}
  <2>4. V \in FiniteSubsetsOf(S) /\ <<V, U>> \in R
    BY <2>2, <2>3, FS_RemoveElement DEF FiniteSubsetsOf, StrictSubsetOrdering
  <2>5. V \notin Bare
    BY <2>1, <2>4
  <2>6. x \in Nat /\ U \subseteq Nat /\ U = V \union {x} /\ V \subseteq Nat
    BY <2>2, <2>3
  <2>7. CASE V = {}
    <3>1. U = {x} /\ x >= x /\ x <= x
      BY <2>6, <2>7
    <3> QED
      BY <3>1
  <2>8. CASE V # {}
    <3>1. PICK m \in V : \A y \in V : m >= y
      BY <2>4, <2>5, <2>8
    <3>2. PICK n \in V : \A y \in V : n <= y
      BY <2>4, <2>5, <2>8
    <3> HIDE DEF V
    <3>3. \E k \in U : \A y \in U : k >= y
      <4>1. CASE x >= m
        <5>1. \A y \in U : x >= y
          BY <2>6, <3>1, <4>1
        <5> QED
          BY <5>1
      <4>2. CASE ~(x >= m)
        <5>1. \A y \in U : m >= y
          BY <2>6, <3>1, <4>2
        <5> QED
          BY <2>6, <5>1
      <4> QED
        BY <4>1, <4>2
    <3>4. \E k \in U : \A y \in U : k <= y
      <4>1. CASE x <= n
        <5>1. \A y \in U : x <= y
          BY <2>6, <3>2, <4>1
        <5> QED
          BY <5>1
      <4>2. CASE ~(x <= n)
        <5>1. \A y \in U : n <= y
          BY <2>6, <3>2, <4>2
        <5> QED
          BY <2>6, <5>1
      <4> QED
        BY <4>1, <4>2
    <3> QED
      BY <3>3, <3>4
  <2> QED
    BY <2>7, <2>8
<1>4. (\E m \in S : \A y \in S : m >= y) /\ (\E m \in S : \A y \in S : m <= y)
  BY <1>2, <1>3
<1> QED
  BY <1>4, Zenon DEF Max, Min

\* Choose picks one of the targets it is given.
LEMMA ChosenOne ==
    ASSUME NEW S \in SUBSET Targets, S # {}, NEW n
    PROVE  Choose(S, n) \in S
<1> DEFINE reached == {t \in S : n % Weight(S) < Weight({s \in S : s <= t})}
<1>1. S \in SUBSET Nat /\ IsFiniteSet(S) /\ reached \in SUBSET S
  BY PoolAssumption, FS_Subset
<1>2. Choose(S, n) = IF reached = {} THEN Max(S) ELSE Min(reached)
  BY DEF Choose
<1>3. reached \in SUBSET Nat /\ IsFiniteSet(reached)
  <2> HIDE DEF reached
  <2> QED
    BY <1>1, FS_Subset
<1> HIDE DEF reached
<1> QED
  BY <1>1, <1>2, <1>3, FiniteExtremes

\* What is left of the candidates is able to take the attempt.
LEMMA CandidatesAble ==
    ASSUME NEW sel
    PROVE  Candidates(sel) \subseteq {t \in Targets : Healthy(t) /\ Safe(sel, t)}
<1> DEFINE able == {t \in Targets : Healthy(t) /\ Safe(sel, t)}
<1> HIDE DEF able
<1>1. Candidates(sel) =
        CASE sel.pref.id \in able -> {sel.pref.id}
          [] sel.pref.id # None /\ sel.pref.must /\ sel.pref.id \notin able -> {}
          [] OTHER -> IF /\ ~conf.primaryOnly /\ sel.prev # None
                         /\ able \ {sel.prev} # {} /\ CanChangeTarget(sel)
                      THEN able \ {sel.prev} ELSE able
  BY Zenon DEF Candidates, able
<1>2. Candidates(sel) \subseteq able
  BY <1>1
<1> QED
  BY <1>2 DEF able

-----------------------------------------------------------------------------
LeaseRecord  == [target : Targets, gen : Nat, domain : Nat, shadow : BOOLEAN]
TargetRecord == [gen : Nat, active : Nat, failures : 0..MaxFailures, successes : 0..MaxSuccesses,
                 circuit : Circuits, ripe : BOOLEAN, leases : Nat]
RequestRecord ==
    [attempts : 0..MaxAttempts, prev : Targets \cup {None}, domain : Nat, wrote : BOOLEAN,
     key : BOOLEAN, pref : [id : Targets \cup {None}, must : BOOLEAN],
     written : SUBSET (Targets \X Nat)]

\* The types, and that no lease is of a generation its target has not reached.
LeaseTypes ==
    /\ conf \in Configs
    /\ pool \in [Targets -> TargetRecord]
    /\ \A t \in Targets : pool[t].gen <= reloads
    /\ cursor \in 0..(CursorPeriod - 1)
    /\ lease \in [Callers -> {<<>>} \cup {<<l>> : l \in LeaseRecord}]
    /\ \A c \in Callers : lease[c] # <<>> => lease[c][1].gen <= pool[lease[c][1].target].gen
    /\ reloads \in 0..MaxReloads

PoolTypes == LeaseTypes /\ req \in [Requests -> RequestRecord]

\* What a configuration says.
LEMMA Configured ==
    ASSUME NEW c \in Configs
    PROVE  /\ c.target \in [Targets -> TargetConfigs]
           /\ c.enabled \in BOOLEAN /\ c.primaryOnly \in BOOLEAN /\ c.crossDomain \in BOOLEAN
           /\ c.halfOpenMax \in Nat \ {0} /\ c.minimum \in Nat \ {0} /\ c.percent \in Nat \ {0}
BY PoolAssumption

\* A lease that is held has its fields.
LEMMA HeldLease ==
    ASSUME PoolTypes, NEW c \in Callers
    PROVE  /\ lease[c] # <<>> => lease[c][1] \in LeaseRecord /\ lease[c] = <<lease[c][1]>>
           /\ \A l : <<l>> # <<>> /\ <<l>>[1] = l
<1>1. lease[c] \in {<<>>} \cup {<<l>> : l \in LeaseRecord}
  BY DEF PoolTypes, LeaseTypes
<1> QED
  BY <1>1

\* A circuit that half opens is a target's state.
LEMMA ThawedPool ==
    ASSUME PoolTypes
    PROVE  Thawed \in [Targets -> TargetRecord]
<1>1. pool \in [Targets -> TargetRecord]
  BY DEF PoolTypes, LeaseTypes
<1>2. ASSUME NEW u \in Targets
      PROVE  [pool[u] EXCEPT !.circuit = "half-open"] \in TargetRecord
  BY <1>1 DEF TargetRecord, Circuits
<1> QED
  BY <1>1, <1>2 DEF Thawed

\* It keeps the rest of the state.
LEMMA ThawedTarget ==
    ASSUME PoolTypes, NEW t \in Targets
    PROVE  /\ Thawed[t].gen = pool[t].gen /\ Thawed[t].active = pool[t].active
           /\ Thawed[t].failures = pool[t].failures /\ Thawed[t].successes = pool[t].successes
           /\ Thawed[t].ripe = pool[t].ripe /\ Thawed[t].leases = pool[t].leases
           /\ Thawed[t].circuit = pool[t].circuit
                \/ (pool[t].circuit = "open" /\ Thawed[t].circuit = "half-open")
<1>1. pool[t] \in TargetRecord
  BY DEF PoolTypes, LeaseTypes
<1>2. Thawed[t] = (IF Thaws(t) THEN [pool[t] EXCEPT !.circuit = "half-open"] ELSE pool[t])
  BY DEF Thawed
<1>3. Thaws(t) => pool[t].circuit = "open"
  BY DEF Thaws
<1> QED
  BY <1>1, <1>2, <1>3 DEF TargetRecord

\* What the steps do to the pool and the leases: a lease of t is handed to c,
\* none is handed out, c gives its lease back, the pool is reloaded, or
\* a circuit has been open long enough.
HandedOut(c, t, shadow) ==
    /\ pool' = [Thawed EXCEPT
                   ![t].active = @ + 1,
                   ![t].leases = IF Thawed[t].circuit = "half-open" THEN @ + 1 ELSE @]
    /\ cursor' = (cursor + 1) % CursorPeriod
    /\ lease' = [lease EXCEPT ![c] = <<[target |-> t, gen |-> pool[t].gen,
                                       domain |-> conf.target[t].domain, shadow |-> shadow]>>]

Granted(c, t, shadow) ==
    /\ lease[c] = <<>> /\ Healthy(t)
    /\ HandedOut(c, t, shadow)
    /\ UNCHANGED <<conf, reloads>>

Refused == pool' = Thawed /\ UNCHANGED <<cursor, lease, conf, reloads>>

\* The state of the target after the return, with or without an observation.
Returned(c, p) ==
    LET q == pool[lease[c][1].target] IN
        \/ p = Finished(q)
        \/ \E obs \in Observations : /\ p = Observed(Finished(q), obs)
                                     /\ p.failures <= MaxFailures /\ p.successes <= MaxSuccesses

GivenBack(c, p) ==
    /\ lease[c] # <<>> /\ Returned(c, p)
    /\ pool' = Report(c, p)
    /\ lease' = [lease EXCEPT ![c] = <<>>]
    /\ UNCHANGED <<conf, cursor, reloads>>

PoolStep ==
    \/ \E c \in Callers, t \in Targets, shadow \in BOOLEAN : Granted(c, t, shadow)
    \/ Refused
    \/ \E c \in Callers : \E p : GivenBack(c, p)
    \/ (\E c \in Configs : Apply(c))
    \/ (\E t \in Targets : Ripen(t))
    \/ UNCHANGED <<conf, pool, cursor, lease, reloads>>

\* A lease that is handed out is of a target that can take the attempt.
LEMMA LeasedTarget ==
    ASSUME NEW c, NEW sel, NEW shadow, Leased(c, sel, shadow)
    PROVE  \E t \in Targets : Healthy(t) /\ Safe(sel, t) /\ HandedOut(c, t, shadow)
<1> DEFINE S == Best(Available(Candidates(sel)))
           t == Choose(S, cursor)
<1>1. S # {} /\ S \subseteq Candidates(sel)
  BY DEF Leased, Best, Available
<1>2. Candidates(sel) \subseteq {u \in Targets : Healthy(u) /\ Safe(sel, u)}
  BY CandidatesAble
<1>3. HandedOut(c, t, shadow)
  BY Zenon DEF Leased, HandedOut
<1> HIDE DEF S
<1>4. t \in S
  BY <1>1, <1>2, ChosenOne
<1> HIDE DEF t
<1> QED
  BY <1>1, <1>2, <1>3, <1>4

\* Every step of the system is one of these for the pool.
LEMMA StepOfPool ==
    ASSUME [Next]_vars
    PROVE  PoolStep
<1>1. ASSUME NEW c \in Callers, NEW sel, NEW shadow \in BOOLEAN, Leased(c, sel, shadow),
             lease[c] = <<>>, UNCHANGED <<conf, reloads>>
      PROVE  PoolStep
  <2>1. PICK t \in Targets : Healthy(t) /\ HandedOut(c, t, shadow)
    BY <1>1, LeasedTarget
  <2>2. Granted(c, t, shadow)
    BY <1>1, <2>1, Zenon DEF Granted
  <2> QED
    BY <2>2, Zenon DEF PoolStep
<1>2. ASSUME NEW sel, NotLeased(sel), UNCHANGED <<conf, reloads>>
      PROVE  PoolStep
  BY <1>2 DEF PoolStep, Refused, NotLeased
<1>3. ASSUME NEW c \in Callers, NEW obs \in Observations, Complete(c, obs),
             UNCHANGED <<conf, cursor, reloads>>
      PROVE  PoolStep
  <2> DEFINE p == Observed(Finished(pool[lease[c][1].target]), obs)
  <2>1. /\ lease[c] # <<>> /\ p.failures <= MaxFailures /\ p.successes <= MaxSuccesses
        /\ pool' = Report(c, p) /\ lease' = [lease EXCEPT ![c] = <<>>]
    BY <1>3 DEF Complete
  <2>2. Returned(c, p)
    BY <2>1, Zenon DEF Returned
  <2> HIDE DEF p
  <2>3. GivenBack(c, p)
    BY <1>3, <2>1, <2>2 DEF GivenBack
  <2> QED
    BY <2>3 DEF PoolStep
<1>4. Requests \subseteq Callers /\ Others \subseteq Callers
  BY DEF Callers
<1>5. ASSUME NEW r \in Requests, Attempt(r) PROVE PoolStep
  BY <1>1, <1>4, <1>5 DEF Attempt, Ready
<1>6. ASSUME NEW r \in Requests, AttemptFails(r) PROVE PoolStep
  BY <1>2, <1>6 DEF AttemptFails
<1>7. ASSUME NEW r \in Requests, NEW obs \in Observations, NEW w \in BOOLEAN, AttemptEnds(r, obs, w)
      PROVE  PoolStep
  BY <1>3, <1>4, <1>7 DEF AttemptEnds
<1>8. ASSUME NEW r \in Requests, NEW key \in BOOLEAN, NEW pref \in Preferences, Arrive(r, key, pref)
      PROVE  PoolStep
  BY <1>8 DEF Arrive, PoolStep
<1>9. ASSUME NEW o \in Others, Execute(o) PROVE PoolStep
  BY <1>1, <1>2, <1>4, <1>9 DEF Execute
<1>10. ASSUME NEW o \in Others, NEW obs \in Observations, ExecutionEnds(o, obs) PROVE PoolStep
  BY <1>3, <1>4, <1>10 DEF ExecutionEnds
<1>11. ASSUME NEW o \in Others, NEW t \in Targets, Shadow(o, t) PROVE PoolStep
  BY <1>1, <1>2, <1>4, <1>11 DEF Shadow
<1>12. ASSUME NEW c \in Callers, Release(c) PROVE PoolStep
  <2> DEFINE p == Finished(pool[lease[c][1].target])
  <2>1. Returned(c, p)
    BY Zenon DEF Returned
  <2>2. /\ lease[c] # <<>> /\ pool' = Report(c, p) /\ lease' = [lease EXCEPT ![c] = <<>>]
        /\ UNCHANGED <<conf, cursor, reloads>>
    BY <1>12 DEF Release
  <2> HIDE DEF p
  <2> QED
    BY <2>1, <2>2 DEF PoolStep, GivenBack
<1>13. ASSUME (\E c \in Configs : Apply(c)) \/ (\E t \in Targets : Ripen(t)) PROVE PoolStep
  BY <1>13 DEF PoolStep
<1>14. CASE UNCHANGED vars
  BY <1>14 DEF vars, PoolStep
<1> QED
  BY <1>5, <1>6, <1>7, <1>8, <1>9, <1>10, <1>11, <1>12, <1>13, <1>14, Zenon DEF Next

\* The state of every target after a lease of t is handed out.
LEMMA GrantedTargets ==
    ASSUME PoolTypes, NEW c \in Callers, NEW t \in Targets, NEW shadow \in BOOLEAN,
           Granted(c, t, shadow)
    PROVE  /\ pool' \in [Targets -> TargetRecord]
           /\ \A u \in Targets :
                 /\ pool'[u].gen = pool[u].gen /\ pool'[u].circuit = Thawed[u].circuit
                 /\ pool'[u].active = IF u = t THEN pool[u].active + 1 ELSE pool[u].active
                 /\ pool'[u].leases = IF u = t /\ Thawed[t].circuit = "half-open"
                                      THEN pool[u].leases + 1 ELSE pool[u].leases
<1>1. Thawed \in [Targets -> TargetRecord] /\ Thawed[t] \in TargetRecord
  BY ThawedPool
<1> DEFINE new == [Thawed[t] EXCEPT
                      !.active = @ + 1,
                      !.leases = IF Thawed[t].circuit = "half-open" THEN @ + 1 ELSE @]
<1>2. pool' = [Thawed EXCEPT ![t] = new]
  BY <1>1 DEF Granted, HandedOut
<1> DEFINE a == Thawed[t].active + 1
           l == IF Thawed[t].circuit = "half-open" THEN Thawed[t].leases + 1 ELSE Thawed[t].leases
<1>3. a \in Nat /\ l \in Nat
  BY <1>1 DEF TargetRecord
<1>4. new = [Thawed[t] EXCEPT !.active = a, !.leases = l]
  BY <1>1 DEF TargetRecord
<1>5. /\ new \in TargetRecord
      /\ new.gen = Thawed[t].gen /\ new.circuit = Thawed[t].circuit
      /\ new.active = Thawed[t].active + 1
      /\ new.leases = IF Thawed[t].circuit = "half-open" THEN Thawed[t].leases + 1 ELSE Thawed[t].leases
  <2> HIDE DEF new, a, l
  <2>1. new \in TargetRecord /\ new.gen = Thawed[t].gen /\ new.circuit = Thawed[t].circuit
        /\ new.active = a /\ new.leases = l
    BY <1>1, <1>3, <1>4 DEF TargetRecord
  <2> QED
    BY <2>1 DEF a, l
<1> HIDE DEF new, a, l
<1>6. /\ pool' \in [Targets -> TargetRecord]
      /\ \A u \in Targets : pool'[u] = IF u = t THEN new ELSE Thawed[u]
  BY <1>1, <1>2, <1>5
<1>7. \A u \in Targets : /\ Thawed[u].gen = pool[u].gen /\ Thawed[u].active = pool[u].active
                         /\ Thawed[u].leases = pool[u].leases
  BY ThawedTarget
<1> QED
  BY <1>5, <1>6, <1>7

\* The state of a target whose lease comes back.
LEMMA ReturnedTarget ==
    ASSUME PoolTypes, NEW c \in Callers, NEW p, lease[c] # <<>>, Returned(c, p)
    PROVE  LET q == pool[lease[c][1].target] IN
             /\ lease[c][1].target \in Targets /\ q \in TargetRecord
             /\ p \in TargetRecord /\ p.gen = q.gen
             /\ p.active = IF q.active > 0 THEN q.active - 1 ELSE 0
             /\ p.leases = IF q.circuit = "half-open" /\ q.leases > 0 THEN q.leases - 1 ELSE q.leases
             /\ q.circuit # "half-open" => p.circuit # "half-open"
<1> DEFINE q == pool[lease[c][1].target]
<1>1. lease[c][1] \in LeaseRecord
  BY HeldLease
<1>2. lease[c][1].target \in Targets
  BY <1>1 DEF LeaseRecord
<1>3. q \in TargetRecord
  BY <1>2 DEF PoolTypes, LeaseTypes
<1> HIDE DEF q
<1>4. /\ Finished(q) \in TargetRecord /\ Finished(q).gen = q.gen
      /\ Finished(q).circuit = q.circuit
      /\ Finished(q).active = IF q.active > 0 THEN q.active - 1 ELSE 0
      /\ Finished(q).leases = IF q.circuit = "half-open" /\ q.leases > 0 THEN q.leases - 1 ELSE q.leases
  <2> DEFINE a == IF q.active > 0 THEN q.active - 1 ELSE 0
             l == IF q.circuit = "half-open" /\ q.leases > 0 THEN q.leases - 1 ELSE q.leases
  <2>1. a \in Nat /\ l \in Nat
    BY <1>3 DEF TargetRecord
  <2>2. Finished(q) = [q EXCEPT !.active = a, !.leases = l]
    BY <1>3 DEF Finished, TargetRecord
  <2> HIDE DEF a, l
  <2>3. /\ Finished(q) \in TargetRecord /\ Finished(q).gen = q.gen /\ Finished(q).circuit = q.circuit
        /\ Finished(q).active = a /\ Finished(q).leases = l
    BY <1>3, <2>1, <2>2 DEF TargetRecord
  <2> QED
    BY <2>3 DEF a, l
<1>5. CASE p = Finished(q)
  BY <1>2, <1>3, <1>4, <1>5 DEF q
<1>6. ASSUME NEW obs \in Observations, p = Observed(Finished(q), obs),
             p.failures <= MaxFailures, p.successes <= MaxSuccesses
      PROVE  /\ p \in TargetRecord /\ p.gen = q.gen
             /\ p.active = Finished(q).active /\ p.leases = Finished(q).leases
             /\ q.circuit # "half-open" => p.circuit # "half-open"
  <2> DEFINE f == Finished(q)
  <2>0. f \in TargetRecord /\ f.gen = q.gen /\ f.circuit = q.circuit
    BY <1>4
  <2> HIDE DEF f
  <2>1. p = Observed(f, obs)
    BY <1>6 DEF f
  <2>2. MaxFailures \in Nat /\ MaxSuccesses \in Nat
    BY PoolAssumption
  <2>3. /\ f.successes \in Nat /\ f.failures \in Nat /\ f.ripe \in BOOLEAN
        /\ f.circuit \in Circuits /\ "closed" \in Circuits /\ "open" \in Circuits
    BY <2>0, <2>2 DEF TargetRecord, Circuits
  <2>4. ASSUME NEW s \in Nat, NEW g \in Nat, NEW x \in Circuits, NEW b \in BOOLEAN,
               p = [f EXCEPT !.successes = s, !.failures = g, !.circuit = x, !.ripe = b],
               x # "half-open" \/ x = f.circuit
        PROVE  /\ p \in TargetRecord /\ p.gen = q.gen
               /\ p.active = f.active /\ p.leases = f.leases
               /\ q.circuit # "half-open" => p.circuit # "half-open"
    <3>1. s \in 0..MaxSuccesses /\ g \in 0..MaxFailures
      <4>1. p.successes = s /\ p.failures = g
        BY <2>0, <2>4 DEF TargetRecord
      <4> QED
        BY <1>6, <2>2, <2>4, <4>1
    <3> QED
      BY <2>0, <2>4, <3>1 DEF TargetRecord
  <2>5. CASE obs = "success"
    <3> DEFINE s == f.successes + 1
               g == IF f.circuit = "closed" THEN f.failures ELSE 0
    <3>1. p = [f EXCEPT !.successes = s, !.failures = g, !.circuit = "closed", !.ripe = FALSE]
      BY <2>0, <2>1, <2>5 DEF Observed, TargetRecord
    <3>2. s \in Nat /\ g \in Nat
      BY <2>3
    <3>3. s \in Nat /\ g \in Nat /\ "closed" \in Circuits /\ FALSE \in BOOLEAN /\ "closed" # "half-open"
      BY <2>3, <3>2
    <3> HIDE DEF s, g
    <3>4. /\ p \in TargetRecord /\ p.gen = q.gen
          /\ p.active = f.active /\ p.leases = f.leases
          /\ q.circuit # "half-open" => p.circuit # "half-open"
      BY <2>4, <3>1, <3>3
    <3> QED
      BY <3>4 DEF f
  <2>6. CASE obs = "failure"
    <3> DEFINE s == f.successes
               g == f.failures + 1
    <3>1. \/ p = [f EXCEPT !.successes = s, !.failures = g, !.circuit = "open", !.ripe = FALSE]
          \/ p = [f EXCEPT !.successes = s, !.failures = g, !.circuit = f.circuit, !.ripe = f.ripe]
      BY <2>0, <2>1, <2>6 DEF Observed, TargetRecord
    <3>2. s \in Nat /\ g \in Nat
      BY <2>3
    <3>3. s \in Nat /\ g \in Nat /\ "open" \in Circuits /\ FALSE \in BOOLEAN /\ "open" # "half-open"
      BY <2>3, <3>2
    <3> HIDE DEF s, g
    <3>4. /\ p \in TargetRecord /\ p.gen = q.gen
          /\ p.active = f.active /\ p.leases = f.leases
          /\ q.circuit # "half-open" => p.circuit # "half-open"
      <4>1. CASE p = [f EXCEPT !.successes = s, !.failures = g, !.circuit = "open", !.ripe = FALSE]
        BY <2>4, <3>3, <4>1
      <4>2. CASE p = [f EXCEPT !.successes = s, !.failures = g, !.circuit = f.circuit, !.ripe = f.ripe]
        BY <2>3, <2>4, <3>3, <4>2
      <4> QED
        BY <3>1, <4>1, <4>2
    <3> QED
      BY <3>4 DEF f
  <2>7. CASE obs \notin {"success", "failure"}
    <3>1. p = f
      BY <2>1, <2>7 DEF Observed
    <3> QED
      BY <2>0, <3>1 DEF f
  <2> QED
    BY <2>5, <2>6, <2>7
<1>7. ASSUME NEW obs \in Observations, p = Observed(Finished(q), obs),
             p.failures <= MaxFailures, p.successes <= MaxSuccesses
      PROVE  /\ p \in TargetRecord /\ p.gen = q.gen
             /\ p.active = IF q.active > 0 THEN q.active - 1 ELSE 0
             /\ p.leases = IF q.circuit = "half-open" /\ q.leases > 0 THEN q.leases - 1 ELSE q.leases
             /\ q.circuit # "half-open" => p.circuit # "half-open"
  BY <1>4, <1>6, <1>7
<1>8. p = Finished(q) \/ \E obs \in Observations :
         p = Observed(Finished(q), obs) /\ p.failures <= MaxFailures /\ p.successes <= MaxSuccesses
  BY Zenon DEF Returned, q
<1> QED
  BY <1>2, <1>3, <1>5, <1>7, <1>8 DEF q

\* The state of every target after c has given its lease back.
LEMMA GivenTargets ==
    ASSUME PoolTypes, NEW c \in Callers, NEW p, GivenBack(c, p)
    PROVE  /\ pool' \in [Targets -> TargetRecord]
           /\ lease[c][1].target \in Targets
           /\ \A u \in Targets :
                 /\ pool'[u].gen = pool[u].gen
                 /\ pool'[u] = IF u = lease[c][1].target /\ Current(c) THEN p ELSE pool[u]
<1>1. lease[c][1].target \in Targets /\ p \in TargetRecord /\ p.gen = pool[lease[c][1].target].gen
  BY ReturnedTarget DEF GivenBack
<1>2. pool \in [Targets -> TargetRecord]
  BY DEF PoolTypes, LeaseTypes
<1>3. pool' = IF Current(c) THEN [pool EXCEPT ![lease[c][1].target] = p] ELSE pool
  BY DEF GivenBack, Report
<1> QED
  BY <1>1, <1>2, <1>3

\* The state of every target after a reload: kept, with a new generation, or
\* fresh.
LEMMA AppliedTargets ==
    ASSUME PoolTypes, NEW c \in Configs, Apply(c)
    PROVE  /\ pool' \in [Targets -> TargetRecord]
           /\ \A u \in Targets :
                 \/ pool'[u] = pool[u]
                 \/ pool'[u] = FreshTarget(pool[u].gen + 1)
                 \/ pool'[u] = Renewed(u)
<1>1. pool \in [Targets -> TargetRecord]
  BY DEF PoolTypes, LeaseTypes
<1>2. \A u \in Targets : \/ pool'[u] = pool[u]
                         \/ pool'[u] = FreshTarget(pool[u].gen + 1)
                         \/ pool'[u] = Renewed(u)
  BY DEF Apply
<1>3. ASSUME NEW u \in Targets
      PROVE  FreshTarget(pool[u].gen + 1) \in TargetRecord /\ Renewed(u) \in TargetRecord
  <2>1. pool[u] \in TargetRecord /\ 0 \in 0..MaxFailures /\ 0 \in 0..MaxSuccesses
    BY <1>1, PoolAssumption
  <2>2. FreshTarget(pool[u].gen + 1) \in TargetRecord
    BY <2>1 DEF FreshTarget, TargetRecord, Circuits
  <2>3. Renewed(u) \in TargetRecord
    <3>1. PICK q \in TargetRecord : q = pool[u]
      BY <2>1
    <3>2. PICK g \in Nat : g = q.gen + 1
      BY <3>1 DEF TargetRecord
    <3>3. [q EXCEPT !.gen = g, !.active = 0, !.leases = 0] \in TargetRecord
      BY DEF TargetRecord
    <3>4. Renewed(u) = [q EXCEPT !.gen = g, !.active = 0, !.leases = 0]
      BY <3>1, <3>2 DEF Renewed
    <3> QED
      BY <3>3, <3>4
  <2> QED
    BY <2>2, <2>3
<1>4. \E f : pool' = [u \in Targets |-> f[u]]
  <2> DEFINE f == [t \in Targets |->
                  CASE t \notin c.present -> pool[t]
                    [] t \in c.present /\ (\/ t \notin conf.present
                                           \/ conf.target[t].base # c.target[t].base) ->
                         FreshTarget(pool[t].gen + 1)
                    [] OTHER -> IF conf.transport = c.transport THEN pool[t] ELSE Renewed(t)]
  <2>1. pool' = f
    BY Zenon DEF Apply
  <2>2. f = [u \in Targets |-> f[u]]
    OBVIOUS
  <2> QED
    BY <2>1, <2>2, Zenon
<1>5. pool' \in [Targets -> TargetRecord]
  BY <1>1, <1>2, <1>3, <1>4
<1> QED
  BY <1>2, <1>5

-----------------------------------------------------------------------------
\* A target that was renewed or made afresh has no lease out of the present
\* generation, and nothing of its counts is left.
LEMMA RenewedTarget ==
    ASSUME PoolTypes, NEW u \in Targets, NEW p,
           p = FreshTarget(pool[u].gen + 1) \/ p = Renewed(u)
    PROVE  p.gen = pool[u].gen + 1 /\ p.active = 0 /\ p.leases = 0
<1>1. pool[u] \in TargetRecord
  BY DEF PoolTypes, LeaseTypes
<1>2. CASE p = FreshTarget(pool[u].gen + 1)
  BY <1>2 DEF FreshTarget
<1>3. CASE p = Renewed(u)
  <2>1. PICK q \in TargetRecord : q = pool[u]
    BY <1>1
  <2>2. p = [q EXCEPT !.gen = @ + 1, !.active = 0, !.leases = 0]
    BY <1>3, <2>1 DEF Renewed
  <2> QED
    BY <2>1, <2>2 DEF TargetRecord
<1> QED
  BY <1>2, <1>3

\* Every step of the pool keeps its types.
LEMMA PoolTypesStep ==
    ASSUME PoolTypes, PoolStep
    PROVE  LeaseTypes'
<1>0. /\ conf \in Configs
      /\ pool \in [Targets -> TargetRecord]
      /\ \A t \in Targets : pool[t].gen <= reloads /\ pool[t].gen \in Nat
      /\ cursor \in 0..(CursorPeriod - 1)
      /\ lease \in [Callers -> {<<>>} \cup {<<l>> : l \in LeaseRecord}]
      /\ \A c \in Callers : lease[c] # <<>> => lease[c][1].gen <= pool[lease[c][1].target].gen
      /\ reloads \in 0..MaxReloads
  BY DEF PoolTypes, LeaseTypes, TargetRecord
<1>1. \A c \in Callers : lease[c] # <<>> =>
         lease[c][1].target \in Targets /\ lease[c][1].gen \in Nat
  BY HeldLease DEF LeaseRecord
<1>2. ASSUME NEW c \in Callers, NEW t \in Targets, NEW shadow \in BOOLEAN, Granted(c, t, shadow)
      PROVE  LeaseTypes'
  <2>1. /\ pool' \in [Targets -> TargetRecord]
        /\ \A u \in Targets : pool'[u].gen = pool[u].gen
    BY <1>2, GrantedTargets
  <2> DEFINE new == [target |-> t, gen |-> pool[t].gen, domain |-> conf.target[t].domain, shadow |-> shadow]
  <2>2. lease' = [lease EXCEPT ![c] = <<new>>] /\ UNCHANGED <<conf, reloads>>
        /\ cursor' = (cursor + 1) % CursorPeriod
    BY <1>2 DEF Granted, HandedOut
  <2>3. conf.target[t].domain \in Nat
    BY <1>0, Configured DEF TargetConfigs
  <2>4. new \in LeaseRecord /\ new.target = t /\ new.gen = pool[t].gen
    BY <1>0, <2>3 DEF LeaseRecord
  <2> HIDE DEF new
  <2>5. lease' \in [Callers -> {<<>>} \cup {<<l>> : l \in LeaseRecord}]
    BY <1>0, <2>2, <2>4
  <2>6. \A d \in Callers : lease'[d] = IF d = c THEN <<new>> ELSE lease[d]
    BY <1>0, <2>2
  <2>7. \A d \in Callers : lease'[d] # <<>> => lease'[d][1].gen <= pool'[lease'[d][1].target].gen
    <3> SUFFICES ASSUME NEW d \in Callers, lease'[d] # <<>>
                 PROVE  lease'[d][1].gen <= pool'[lease'[d][1].target].gen
      OBVIOUS
    <3>1. CASE d = c
      <4>1. lease'[d][1] = new
        BY <2>6, <3>1
      <4> QED
        BY <1>0, <2>1, <2>4, <4>1
    <3>2. CASE d # c
      <4>1. lease'[d] = lease[d] /\ lease[d] # <<>>
        BY <2>6, <3>2
      <4> QED
        BY <1>0, <1>1, <2>1, <4>1
    <3> QED
      BY <3>1, <3>2
  <2>8. cursor' \in 0..(CursorPeriod - 1)
    BY <1>0, <2>2, PoolAssumption
  <2> QED
    BY <1>0, <2>1, <2>2, <2>5, <2>7, <2>8 DEF LeaseTypes
<1>3. CASE Refused
  <2>1. pool' \in [Targets -> TargetRecord] /\ \A u \in Targets : pool'[u].gen = pool[u].gen
    <3>1. Thawed \in [Targets -> TargetRecord] /\ \A u \in Targets : Thawed[u].gen = pool[u].gen
      BY ThawedPool, ThawedTarget
    <3> QED
      BY <1>3, <3>1 DEF Refused
  <2> QED
    BY <1>0, <1>1, <1>3, <2>1 DEF Refused, LeaseTypes
<1>4. ASSUME NEW c \in Callers, NEW p, GivenBack(c, p) PROVE LeaseTypes'
  <2>1. /\ pool' \in [Targets -> TargetRecord] /\ \A u \in Targets : pool'[u].gen = pool[u].gen
    BY <1>4, GivenTargets
  <2>2. lease' = [lease EXCEPT ![c] = <<>>] /\ UNCHANGED <<conf, cursor, reloads>>
    BY <1>4 DEF GivenBack
  <2>3. lease' \in [Callers -> {<<>>} \cup {<<l>> : l \in LeaseRecord}]
    BY <1>0, <2>2
  <2>4. \A d \in Callers : lease'[d] # <<>> => lease'[d] = lease[d]
    BY <1>0, <2>2
  <2> QED
    BY <1>0, <1>1, <2>1, <2>2, <2>3, <2>4 DEF LeaseTypes
<1>5. ASSUME NEW c \in Configs, Apply(c) PROVE LeaseTypes'
  <2>1. pool' \in [Targets -> TargetRecord]
    BY <1>5, AppliedTargets
  <2>2. /\ reloads' = reloads + 1 /\ reloads < MaxReloads /\ conf' = c
        /\ UNCHANGED <<cursor, lease>>
    BY <1>5 DEF Apply
  <2>3. \A u \in Targets : pool'[u].gen = pool[u].gen \/ pool'[u].gen = pool[u].gen + 1
    BY <1>5, AppliedTargets, RenewedTarget
  <2>4. \A u \in Targets : pool[u].gen <= pool'[u].gen /\ pool'[u].gen <= reloads' /\ pool'[u].gen \in Nat
    <3>1. reloads \in Nat /\ reloads' = reloads + 1
      BY <1>0, <2>2, PoolAssumption
    <3> SUFFICES ASSUME NEW u \in Targets
                 PROVE  pool[u].gen <= pool'[u].gen /\ pool'[u].gen <= reloads' /\ pool'[u].gen \in Nat
      OBVIOUS
    <3>2. pool[u].gen \in Nat /\ pool[u].gen <= reloads
      BY <1>0
    <3>3. pool'[u].gen = pool[u].gen \/ pool'[u].gen = pool[u].gen + 1
      BY <2>3
    <3> QED
      BY <3>1, <3>2, <3>3
  <2>5. \A d \in Callers : lease'[d] # <<>> => lease'[d][1].gen <= pool'[lease'[d][1].target].gen
    BY <1>0, <1>1, <2>2, <2>4
  <2>6. reloads' \in 0..MaxReloads
    BY <1>0, <2>2, PoolAssumption
  <2> QED
    BY <1>0, <2>1, <2>2, <2>4, <2>5, <2>6 DEF LeaseTypes
<1>6. ASSUME NEW t \in Targets, Ripen(t) PROVE LeaseTypes'
  <2>1. pool' = [pool EXCEPT ![t].ripe = TRUE] /\ UNCHANGED <<conf, cursor, lease, reloads>>
    BY <1>6 DEF Ripen
  <2>2. pool[t] \in TargetRecord
    BY <1>0
  <2>3. [pool[t] EXCEPT !.ripe = TRUE] \in TargetRecord /\ [pool[t] EXCEPT !.ripe = TRUE].gen = pool[t].gen
    BY <2>2 DEF TargetRecord
  <2>4. pool' \in [Targets -> TargetRecord] /\ \A u \in Targets : pool'[u].gen = pool[u].gen
    BY <1>0, <2>1, <2>3
  <2> QED
    BY <1>0, <1>1, <2>1, <2>4 DEF LeaseTypes
<1>7. CASE UNCHANGED <<conf, pool, cursor, lease, reloads>>
  BY <1>0, <1>7 DEF LeaseTypes
<1> QED
  BY <1>2, <1>3, <1>4, <1>5, <1>6, <1>7 DEF PoolStep

-----------------------------------------------------------------------------
\* The active count of every target, also of one that is not configured at
\* present, is the number of leases of its present generation.
Counted == \A t \in Targets : pool[t].active = Cardinality(Out(t))

\* The leases out at a target are some of the callers.
LEMMA OutOfCallers ==
    ASSUME NEW t
    PROVE  /\ Out(t) \in SUBSET Callers /\ IsFiniteSet(Out(t)) /\ Cardinality(Out(t)) \in Nat
           /\ Cardinality(Out(t)) <= Cardinality(Callers)
           /\ \A c \in Callers : c \in Out(t) <=>
                 lease[c] # <<>> /\ lease[c][1].target = t /\ pool[t].gen = lease[c][1].gen
<1>1. IsFiniteSet(Callers)
  BY PoolAssumption DEF Callers
<1>2. Out(t) \in SUBSET Callers
  BY DEF Out
<1>3. IsFiniteSet(Out(t)) /\ Cardinality(Out(t)) <= Cardinality(Callers)
  BY <1>1, <1>2, FS_Subset
<1>4. Cardinality(Out(t)) \in Nat
  BY <1>3, FS_CardinalityType
<1> QED
  BY <1>2, <1>3, <1>4 DEF Out, Current

\* The leases out at a target after a step.
LEMMA OutAfter ==
    ASSUME NEW t, NEW A \in SUBSET Callers,
           \A c \in Callers : c \in A <=>
              lease'[c] # <<>> /\ lease'[c][1].target = t /\ pool'[t].gen = lease'[c][1].gen
    PROVE  Out(t)' = A
<1>1. Out(t)' = {c \in Callers : lease'[c] # <<>> /\ lease'[c][1].target = t
                                 /\ pool'[lease'[c][1].target].gen = lease'[c][1].gen}
  BY DEF Out, Current
<1> QED
  BY <1>1

\* A step that leaves the leases and a target's generation alone leaves the
\* leases out at it alone; a new generation has none.
LEMMA OutKept ==
    ASSUME LeaseTypes, lease' = lease, NEW t \in Targets
    PROVE  /\ pool'[t].gen = pool[t].gen => Out(t)' = Out(t)
           /\ pool'[t].gen = pool[t].gen + 1 => Out(t)' = {}
<1>0. pool[t].gen \in Nat
  BY DEF LeaseTypes, TargetRecord
<1>1. CASE pool'[t].gen = pool[t].gen
  <2>1. Out(t) \in SUBSET Callers
        /\ \A c \in Callers : c \in Out(t) <=>
              lease'[c] # <<>> /\ lease'[c][1].target = t /\ pool'[t].gen = lease'[c][1].gen
    BY <1>1, OutOfCallers
  <2>2. PICK A : A = Out(t)
    OBVIOUS
  <2>3. Out(t)' = A
    BY <2>1, <2>2, OutAfter
  <2> QED
    BY <1>0, <1>1, <2>2, <2>3
<1>2. CASE pool'[t].gen = pool[t].gen + 1
  <2>1. ASSUME NEW c \in Callers, lease'[c] # <<>>, lease'[c][1].target = t
        PROVE  pool'[t].gen # lease'[c][1].gen
    <3>1. lease[c][1].gen <= pool[t].gen
      BY <2>1 DEF LeaseTypes
    <3>2. pool[t].gen \in Nat
      BY DEF LeaseTypes, TargetRecord
    <3>3. lease[c] \in {<<>>} \cup {<<l>> : l \in LeaseRecord}
      BY DEF LeaseTypes
    <3>4. lease[c][1] \in LeaseRecord
      BY <2>1, <3>3
    <3>5. lease[c][1].gen \in Nat
      BY <3>4 DEF LeaseRecord
    <3> QED
      BY <1>2, <3>1, <3>2, <3>5
  <2>2. \A c \in Callers : c \in {} <=>
           lease'[c] # <<>> /\ lease'[c][1].target = t /\ pool'[t].gen = lease'[c][1].gen
    BY <2>1
  <2>3. {} \in SUBSET Callers
    OBVIOUS
  <2>4. Out(t)' = {}
    BY <2>2, <2>3, OutAfter, Zenon
  <2>5. pool[t].gen \in Nat
    BY DEF LeaseTypes, TargetRecord
  <2> QED
    BY <1>2, <2>4, <2>5
<1> QED
  BY <1>1, <1>2

\* The leases out at every target after one is handed to c, or given back by c.
LEMMA OutGranted ==
    ASSUME PoolTypes, NEW c \in Callers, NEW t \in Targets, NEW shadow \in BOOLEAN,
           Granted(c, t, shadow), NEW u \in Targets
    PROVE  /\ c \notin Out(u)
           /\ Out(u)' = IF u = t THEN Out(u) \cup {c} ELSE Out(u)
<1> DEFINE new == [target |-> t, gen |-> pool[t].gen, domain |-> conf.target[t].domain, shadow |-> shadow]
<1>1. lease[c] = <<>> /\ lease' = [lease EXCEPT ![c] = <<new>>]
  BY DEF Granted, HandedOut
<1>2. new.target = t /\ new.gen = pool[t].gen
  OBVIOUS
<1> HIDE DEF new
<1>3. \A d \in Callers : lease'[d] = IF d = c THEN <<new>> ELSE lease[d]
  BY <1>1 DEF PoolTypes, LeaseTypes
<1>4. pool'[u].gen = pool[u].gen
  BY GrantedTargets
<1>5. c \notin Out(u)
  BY <1>1, OutOfCallers
<1> DEFINE A == IF u = t THEN Out(u) \cup {c} ELSE Out(u)
<1>6. A \in SUBSET Callers
  BY OutOfCallers
<1>7. ASSUME NEW d \in Callers
      PROVE  d \in A <=> lease'[d] # <<>> /\ lease'[d][1].target = u /\ pool'[u].gen = lease'[d][1].gen
  <2>1. CASE d = c
    <3>1. lease'[d] = <<new>> /\ lease'[d] # <<>> /\ lease'[d][1] = new
      BY <1>3, <2>1
    <3> QED
      BY <1>2, <1>4, <1>5, <2>1, <3>1
  <2>2. CASE d # c
    <3>1. lease'[d] = lease[d] /\ (d \in A <=> d \in Out(u))
      BY <1>3, <2>2
    <3> QED
      BY <1>4, <3>1, OutOfCallers
  <2> QED
    BY <2>1, <2>2
<1> HIDE DEF A
<1>8. Out(u)' = A
  BY <1>6, <1>7, OutAfter
<1> QED
  BY <1>5, <1>8 DEF A

\* The same for a lease that is given back.
LEMMA OutGivenBack ==
    ASSUME PoolTypes, NEW c \in Callers, NEW p, GivenBack(c, p), NEW u \in Targets
    PROVE  /\ Out(u)' = Out(u) \ {c}
           /\ c \in Out(u) <=> u = lease[c][1].target /\ Current(c)
<1>1. lease[c] # <<>> /\ lease' = [lease EXCEPT ![c] = <<>>]
  BY DEF GivenBack
<1>2. \A d \in Callers : lease'[d] = IF d = c THEN <<>> ELSE lease[d]
  BY <1>1 DEF PoolTypes, LeaseTypes
<1>3. pool'[u].gen = pool[u].gen
  BY GivenTargets
<1>4. c \in Out(u) <=> u = lease[c][1].target /\ Current(c)
  BY <1>1, OutOfCallers DEF Current
<1> DEFINE A == Out(u) \ {c}
<1>5. A \in SUBSET Callers
  BY OutOfCallers
<1>6. \A d \in Callers : d \in A <=>
         lease'[d] # <<>> /\ lease'[d][1].target = u /\ pool'[u].gen = lease'[d][1].gen
  BY <1>2, <1>3, OutOfCallers
<1> HIDE DEF A
<1>7. Out(u)' = A
  BY <1>5, <1>6, OutAfter
<1> QED
  BY <1>4, <1>7 DEF A

\* Every step of the pool keeps the counts.
LEMMA CountedStep ==
    ASSUME PoolTypes, Counted, PoolStep
    PROVE  Counted'
<1>1. ASSUME NEW c \in Callers, NEW t \in Targets, NEW shadow \in BOOLEAN, Granted(c, t, shadow),
             NEW u \in Targets
      PROVE  (pool[u].active = Cardinality(Out(u)))'
  <2>1. /\ c \notin Out(u)
        /\ Out(u)' = IF u = t THEN Out(u) \cup {c} ELSE Out(u)
    BY <1>1, OutGranted
  <2>2. pool'[u].active = IF u = t THEN pool[u].active + 1 ELSE pool[u].active
    BY <1>1, GrantedTargets
  <2>3. pool[u].active = Cardinality(Out(u)) /\ IsFiniteSet(Out(u))
    BY OutOfCallers DEF Counted
  <2>4. Cardinality(Out(u) \cup {c}) = Cardinality(Out(u)) + 1
    BY <2>1, <2>3, FS_AddElement
  <2> QED
    BY <2>1, <2>2, <2>3, <2>4
<1>2. ASSUME NEW c \in Callers, NEW p, GivenBack(c, p), NEW u \in Targets
      PROVE  (pool[u].active = Cardinality(Out(u)))'
  <2>1. /\ Out(u)' = Out(u) \ {c}
        /\ c \in Out(u) <=> u = lease[c][1].target /\ Current(c)
    BY <1>2, OutGivenBack
  <2>2. pool[u].active = Cardinality(Out(u)) /\ IsFiniteSet(Out(u)) /\ Cardinality(Out(u)) \in Nat
    BY OutOfCallers DEF Counted
  <2>3. CASE c \in Out(u)
    <3>1. pool'[u] = p
      BY <1>2, <2>1, <2>3, GivenTargets
    <3>2. Cardinality(Out(u) \ {c}) = Cardinality(Out(u)) - 1 /\ Cardinality(Out(u) \ {c}) \in Nat
      BY <2>2, <2>3, FS_RemoveElement, FS_CardinalityType
    <3>3. p.active = IF pool[u].active > 0 THEN pool[u].active - 1 ELSE 0
      BY <1>2, <2>1, <2>3, ReturnedTarget DEF GivenBack
    <3> QED
      BY <2>1, <2>2, <3>1, <3>2, <3>3
  <2>4. CASE c \notin Out(u)
    <3>1. pool'[u] = pool[u] /\ Out(u)' = Out(u)
      BY <1>2, <2>1, <2>4, GivenTargets
    <3> QED
      BY <2>2, <3>1
  <2> QED
    BY <2>3, <2>4
<1>3. ASSUME lease' = lease, NEW u \in Targets,
             \/ pool'[u].gen = pool[u].gen /\ pool'[u].active = pool[u].active
             \/ pool'[u].gen = pool[u].gen + 1 /\ pool'[u].active = 0
      PROVE  (pool[u].active = Cardinality(Out(u)))'
  <2>1. CASE pool'[u].gen = pool[u].gen /\ pool'[u].active = pool[u].active
    <3>1. Out(u)' = Out(u)
      BY <1>3, <2>1, OutKept DEF PoolTypes
    <3> QED
      BY <2>1, <3>1 DEF Counted
  <2>2. CASE pool'[u].gen = pool[u].gen + 1 /\ pool'[u].active = 0
    <3>1. Out(u)' = {}
      BY <1>3, <2>2, OutKept DEF PoolTypes
    <3> QED
      BY <2>2, <3>1, FS_EmptySet
  <2> QED
    BY <1>3, <2>1, <2>2
<1>4. ASSUME Refused, NEW u \in Targets
      PROVE  (pool[u].active = Cardinality(Out(u)))'
  BY <1>3, <1>4, ThawedTarget DEF Refused
<1>5. ASSUME NEW c \in Configs, Apply(c), NEW u \in Targets
      PROVE  (pool[u].active = Cardinality(Out(u)))'
  <2>1. lease' = lease
    BY <1>5 DEF Apply
  <2>2. \/ pool'[u] = pool[u]
        \/ pool'[u].gen = pool[u].gen + 1 /\ pool'[u].active = 0
    BY <1>5, AppliedTargets, RenewedTarget
  <2> QED
    BY <1>3, <2>1, <2>2
<1>6. ASSUME NEW t \in Targets, Ripen(t), NEW u \in Targets
      PROVE  (pool[u].active = Cardinality(Out(u)))'
  <2>1. lease' = lease /\ pool' = [pool EXCEPT ![t].ripe = TRUE]
    BY <1>6 DEF Ripen
  <2>2. pool \in [Targets -> TargetRecord] /\ pool[u] \in TargetRecord
    BY DEF PoolTypes, LeaseTypes
  <2>3. pool'[u].gen = pool[u].gen /\ pool'[u].active = pool[u].active
    BY <2>1, <2>2 DEF TargetRecord
  <2> QED
    BY <1>3, <2>1, <2>3
<1>7. ASSUME UNCHANGED <<pool, lease>>, NEW u \in Targets
      PROVE  (pool[u].active = Cardinality(Out(u)))'
  BY <1>3, <1>7
<1> QED
  BY <1>1, <1>2, <1>4, <1>5, <1>6, <1>7, Zenon DEF PoolStep, Counted

-----------------------------------------------------------------------------
\* Whether domains are kept apart: every target names one, and no
\* configuration lets a request cross them.
Separate == \A c \in Configs : ~c.crossDomain /\ \A t \in Targets : c.target[t].domain # None

\* What a request remembers is right: where it may have been written is where
\* it was last, unless it has a key, and in one domain.
Memory(r) ==
    /\ req[r].wrote <=> req[r].written # {}
    /\ req[r].wrote => req[r].prev # None
    /\ \A w \in req[r].written : ~req[r].key => w[1] = req[r].prev
    /\ Separate => /\ req[r].wrote => req[r].domain # None
                   /\ \A w \in req[r].written : w[2] = req[r].domain

\* And the lease it holds is one it may use, whatever was reloaded since.
Bound(r) ==
    lease[r] # <<>> =>
        /\ req[r].wrote /\ ~req[r].key => lease[r][1].target = req[r].prev
        /\ Separate => /\ lease[r][1].domain # None
                       /\ req[r].wrote => lease[r][1].domain = req[r].domain

Remembered == \A r \in Requests : Memory(r) /\ Bound(r)

\* The same memory but for the number of attempts.
SameMemory(r) ==
    /\ req'[r].prev = req[r].prev /\ req'[r].domain = req[r].domain
    /\ req'[r].wrote = req[r].wrote /\ req'[r].key = req[r].key
    /\ req'[r].written = req[r].written

\* What one request remembers of the steps: those of others and those that
\* only count an attempt or end the request, an attempt that is leased, one
\* that ends, and the next request in its place.
MemoryStep(r) ==
    \/ SameMemory(r) /\ lease'[r] \in {<<>>, lease[r]}
    \/ /\ SameMemory(r)
       /\ \E t \in Targets : Safe(Context(r), t) /\ HandedOut(r, t, FALSE)
    \/ /\ lease[r] # <<>> /\ lease'[r] = <<>>
       /\ LET l == lease[r][1] IN
            \E written \in BOOLEAN :
               /\ req'[r].prev = l.target /\ req'[r].domain = l.domain
               /\ req'[r].wrote = (req[r].wrote \/ written) /\ req'[r].key = req[r].key
               /\ req'[r].written = IF written THEN req[r].written \cup {<<l.target, l.domain>>}
                                    ELSE req[r].written
    \/ req'[r].wrote = FALSE /\ req'[r].written = {} /\ lease'[r] = <<>>

\* Counting an attempt is all it does to a request.
LEMMA AttemptCounted ==
    ASSUME req \in [Requests -> RequestRecord], NEW q \in Requests, NEW n \in 0..MaxAttempts,
           req' = [req EXCEPT ![q].attempts = n], NEW r \in Requests
    PROVE  req' \in [Requests -> RequestRecord] /\ SameMemory(r)
<1>1. \A s \in Requests : req[s] \in RequestRecord
  OBVIOUS
<1>2. PICK old \in RequestRecord : old = req[q]
  BY <1>1
<1>3. PICK new : new = [old EXCEPT !.attempts = n]
  OBVIOUS
<1>4. /\ new \in RequestRecord
      /\ new.prev = old.prev /\ new.domain = old.domain /\ new.wrote = old.wrote
      /\ new.key = old.key /\ new.written = old.written
  BY <1>3 DEF RequestRecord
<1>5. req' = [req EXCEPT ![q] = new]
  BY <1>2, <1>3
<1>6. req'[r] = IF r = q THEN new ELSE req[r]
  BY <1>5
<1> QED
  BY <1>2, <1>4, <1>5, <1>6 DEF SameMemory

\* The requests and the others are different callers.
LEMMA OthersApart ==
    ASSUME LeaseTypes, NEW o \in Others, NEW r \in Requests, NEW x,
           lease' = lease \/ lease' = [lease EXCEPT ![o] = x]
    PROVE  lease'[r] = lease[r]
BY PoolAssumption DEF LeaseTypes, Callers

\* Every step is such a step for every request, and keeps the types of what
\* they remember.
LEMMA StepOfMemory ==
    ASSUME PoolTypes, [Next]_vars, NEW r \in Requests
    PROVE  req' \in [Requests -> RequestRecord] /\ MemoryStep(r)
<1>0. /\ LeaseTypes /\ req \in [Requests -> RequestRecord] /\ MaxAttempts \in Nat
      /\ Requests \subseteq Callers /\ Others \subseteq Callers
  BY PoolAssumption DEF PoolTypes, Callers
<1>1. ASSUME req' = req, lease'[r] \in {<<>>, lease[r]}
      PROVE  req' \in [Requests -> RequestRecord] /\ MemoryStep(r)
  BY <1>0, <1>1 DEF MemoryStep, SameMemory
<1>2. \A q \in Requests : req[q] \in RequestRecord /\ req[q].attempts \in 0..MaxAttempts
  BY <1>0 DEF RequestRecord
<1>3. ASSUME NEW q \in Requests, Attempt(q)
      PROVE  req' \in [Requests -> RequestRecord] /\ MemoryStep(r)
  <2>1. PICK n \in 0..MaxAttempts : n = req[q].attempts + 1
    BY <1>0, <1>2, <1>3 DEF Attempt, Ready
  <2>2. req' = [req EXCEPT ![q].attempts = n]
    BY <1>3, <2>1 DEF Attempt
  <2>3. req' \in [Requests -> RequestRecord] /\ SameMemory(r)
    BY <1>0, <2>2, AttemptCounted
  <2>4. PICK t \in Targets : Safe(Context(q), t) /\ HandedOut(q, t, FALSE)
    BY <1>3, LeasedTarget DEF Attempt
  <2>5. CASE q = r
    BY <2>3, <2>4, <2>5 DEF MemoryStep
  <2>6. CASE q # r
    <3>1. lease'[r] = lease[r]
      BY <1>0, <2>4, <2>6 DEF HandedOut, LeaseTypes
    <3> QED
      BY <2>3, <3>1 DEF MemoryStep
  <2> QED
    BY <2>5, <2>6
<1>4. ASSUME NEW q \in Requests, AttemptFails(q)
      PROVE  req' \in [Requests -> RequestRecord] /\ MemoryStep(r)
  <2>1. PICK n \in 0..MaxAttempts : n = req[q].attempts + 1
    BY <1>0, <1>2, <1>4 DEF AttemptFails, Ready
  <2>2. req' = [req EXCEPT ![q].attempts = n] /\ lease' = lease
    BY <1>4, <2>1 DEF AttemptFails, NotLeased
  <2>3. req' \in [Requests -> RequestRecord] /\ SameMemory(r)
    BY <1>0, <2>2, AttemptCounted
  <2> QED
    BY <2>2, <2>3 DEF MemoryStep
<1>5. ASSUME NEW q \in Requests, NEW obs \in Observations, NEW written \in BOOLEAN,
             AttemptEnds(q, obs, written)
      PROVE  req' \in [Requests -> RequestRecord] /\ MemoryStep(r)
  <2>1. lease[q] # <<>> /\ lease' = [lease EXCEPT ![q] = <<>>]
    BY <1>5 DEF AttemptEnds, Complete
  <2>2. PICK l \in LeaseRecord : l = lease[q][1]
    BY <1>0, <2>1, HeldLease
  <2>3. PICK old \in RequestRecord : old = req[q]
    BY <1>2
  <2>4. PICK n \in 0..MaxAttempts : n = IF obs = "success" THEN MaxAttempts ELSE old.attempts
    BY <1>0, <1>2, <2>3
  <2>5. PICK W : W = IF written THEN old.written \cup {<<l.target, l.domain>>} ELSE old.written
    OBVIOUS
  <2>6. PICK b \in BOOLEAN : b = (old.wrote \/ written)
    BY Zenon
  <2>7. PICK new : new = [old EXCEPT !.attempts = n, !.prev = l.target, !.domain = l.domain,
                                     !.wrote = b, !.written = W]
    OBVIOUS
  <2>8. req' = [req EXCEPT ![q].attempts = IF obs = "success" THEN MaxAttempts ELSE @,
                           ![q].prev = l.target, ![q].domain = l.domain,
                           ![q].wrote = @ \/ written,
                           ![q].written = IF written THEN @ \cup {<<l.target, l.domain>>} ELSE @]
    BY <1>5, <2>2 DEF AttemptEnds
  <2>9. req'[q] = new /\ \A s \in Requests \ {q} : req'[s] = req[s]
    BY <1>0, <2>3, <2>4, <2>5, <2>6, <2>7, <2>8 DEF RequestRecord
  <2>10. W \in SUBSET (Targets \X Nat)
    BY <2>5 DEF LeaseRecord, RequestRecord
  <2>11. /\ new \in RequestRecord
         /\ new.prev = l.target /\ new.domain = l.domain /\ new.wrote = b /\ new.written = W
         /\ new.key = old.key
    BY <2>7, <2>10 DEF RequestRecord, LeaseRecord
  <2>12. req' \in [Requests -> RequestRecord]
    <3>1. \E f : req' = [s \in Requests |-> f[s]]
      <4>1. DOMAIN req' = Requests /\ req' = [s \in DOMAIN req' |-> req'[s]]
        BY <1>0, <2>8
      <4> QED
        BY <4>1
    <3> QED
      BY <1>2, <2>9, <2>11, <3>1
  <2>13. CASE q = r
    <3>1. lease'[r] = <<>>
      BY <1>0, <2>1, <2>13 DEF LeaseTypes
    <3> QED
      BY <2>1, <2>2, <2>3, <2>5, <2>6, <2>9, <2>11, <2>12, <2>13, <3>1 DEF MemoryStep
  <2>14. CASE q # r
    <3>1. lease'[r] = lease[r] /\ req'[r] = req[r]
      BY <1>0, <2>1, <2>9, <2>14 DEF LeaseTypes
    <3> QED
      BY <2>12, <3>1 DEF MemoryStep, SameMemory
  <2> QED
    BY <2>13, <2>14
<1>6. ASSUME NEW q \in Requests, NEW key \in BOOLEAN, NEW pref \in Preferences, Arrive(q, key, pref)
      PROVE  req' \in [Requests -> RequestRecord] /\ MemoryStep(r)
  <2>1. PICK new : new = FreshRequest(key, pref)
    OBVIOUS
  <2>2. pref \in [id : Targets \cup {None}, must : BOOLEAN]
    BY PoolAssumption DEF None
  <2>3. new \in RequestRecord /\ new.wrote = FALSE /\ new.written = {}
    BY <1>0, <2>1, <2>2 DEF FreshRequest, RequestRecord, None
  <2>4. req' = [req EXCEPT ![q] = new] /\ lease' = lease /\ lease[q] = <<>>
    BY <1>6, <2>1 DEF Arrive
  <2>5. req' \in [Requests -> RequestRecord] /\ req'[r] = IF r = q THEN new ELSE req[r]
    BY <1>0, <2>3, <2>4
  <2> QED
    BY <2>3, <2>4, <2>5 DEF MemoryStep, SameMemory
<1>7. ASSUME NEW o \in Others,
             \/ Execute(o) \/ \E obs \in Observations : ExecutionEnds(o, obs)
             \/ \E t \in Targets : Shadow(o, t)
      PROVE  req' \in [Requests -> RequestRecord] /\ MemoryStep(r)
  <2>1. req' = req
    BY <1>7 DEF Execute, ExecutionEnds, Shadow
  <2>2. lease' = lease \/ \E x : lease' = [lease EXCEPT ![o] = x]
    BY <1>7, Zenon DEF Execute, ExecutionEnds, Shadow, Leased, NotLeased, Complete
  <2>3. lease'[r] = lease[r]
    BY <1>0, <2>2, OthersApart
  <2> QED
    BY <1>1, <2>1, <2>3
<1>8. ASSUME NEW c \in Callers, Release(c)
      PROVE  req' \in [Requests -> RequestRecord] /\ MemoryStep(r)
  <2>1. lease' = [lease EXCEPT ![c] = <<>>]
    BY <1>8 DEF Release
  <2>2. lease'[r] \in {<<>>, lease[r]}
    BY <1>0, <2>1 DEF LeaseTypes
  <2>3. CASE c \in Requests
    <3>1. req' = [req EXCEPT ![c].attempts = MaxAttempts] /\ MaxAttempts \in 0..MaxAttempts
      BY <1>0, <1>8, <2>3 DEF Release
    <3> QED
      BY <1>0, <2>2, <2>3, <3>1, AttemptCounted DEF MemoryStep
  <2>4. CASE c \notin Requests
    <3>1. req' = req
      BY <1>8, <2>4 DEF Release
    <3> QED
      BY <1>1, <2>2, <3>1
  <2> QED
    BY <2>3, <2>4
<1>9. CASE (\E c \in Configs : Apply(c)) \/ (\E t \in Targets : Ripen(t)) \/ UNCHANGED vars
  <2>1. req' = req /\ lease' = lease
    BY <1>9 DEF Apply, Ripen, vars
  <2> QED
    BY <1>1, <2>1
<1> QED
  BY <1>3, <1>4, <1>5, <1>6, <1>7, <1>8, <1>9, Zenon DEF Next

\* No step of a request forgets where it may have been written, or hands it a
\* lease it may not use.
LEMMA RememberedStep ==
    ASSUME PoolTypes, Remembered, [Next]_vars
    PROVE  Remembered'
<1> SUFFICES ASSUME NEW r \in Requests PROVE Memory(r)' /\ Bound(r)'
  BY DEF Remembered
<1>0. /\ Memory(r) /\ Bound(r) /\ MemoryStep(r) /\ r \in Callers
      /\ req[r] \in RequestRecord /\ conf \in Configs
  BY StepOfMemory DEF Remembered, PoolTypes, LeaseTypes, Callers
<1>1. Separate' = Separate
  BY DEF Separate
<1>2. ASSUME SameMemory(r) PROVE Memory(r)'
  BY <1>0, <1>1, <1>2 DEF SameMemory, Memory
<1>3. CASE SameMemory(r) /\ lease'[r] \in {<<>>, lease[r]}
  <2>1. Bound(r)'
    BY <1>0, <1>1, <1>3 DEF SameMemory, Bound
  <2> QED
    BY <1>2, <1>3, <2>1
<1>4. ASSUME SameMemory(r), NEW t \in Targets, Safe(Context(r), t), HandedOut(r, t, FALSE)
      PROVE  Memory(r)' /\ Bound(r)'
  <2>1. PICK l : l = [target |-> t, gen |-> pool[t].gen, domain |-> conf.target[t].domain, shadow |-> FALSE]
    OBVIOUS
  <2>2. l.target = t /\ l.domain = conf.target[t].domain
    BY <2>1
  <2>3. lease' = [lease EXCEPT ![r] = <<l>>] /\ lease \in [Callers -> {<<>>} \cup {<<k>> : k \in LeaseRecord}]
    BY <1>4, <2>1 DEF HandedOut, PoolTypes, LeaseTypes
  <2>4. lease'[r] = <<l>> /\ lease'[r][1] = l
    BY <1>0, <2>3
  <2>5. /\ req[r].prev # None /\ req[r].wrote /\ ~req[r].key => t = req[r].prev
        /\ req[r].domain # None /\ req[r].wrote /\ ~conf.crossDomain => l.domain = req[r].domain
    BY <1>4, <2>2 DEF Safe, Context, Selection
  <2>6. Separate => ~conf.crossDomain /\ l.domain # None
    BY <1>0, <2>2 DEF Separate
  <2>7. /\ req[r].wrote /\ ~req[r].key => l.target = req[r].prev
        /\ Separate => l.domain # None /\ (req[r].wrote => l.domain = req[r].domain)
    BY <1>0, <2>2, <2>5, <2>6 DEF Memory
  <2>8. Bound(r)'
    BY <1>1, <1>4, <2>4, <2>7 DEF SameMemory, Bound
  <2> QED
    BY <1>2, <1>4, <2>8
<1>5. ASSUME lease[r] # <<>>, lease'[r] = <<>>, NEW l, l = lease[r][1], NEW written \in BOOLEAN,
             req'[r].prev = l.target, req'[r].domain = l.domain,
             req'[r].wrote = (req[r].wrote \/ written), req'[r].key = req[r].key,
             req'[r].written = IF written THEN req[r].written \cup {<<l.target, l.domain>>}
                               ELSE req[r].written
      PROVE  Memory(r)' /\ Bound(r)'
  <2>1. l.target # None
    <3>1. l \in LeaseRecord
      BY <1>0, <1>5, HeldLease
    <3> QED
      BY <3>1, PoolAssumption DEF LeaseRecord, None
  <2>2. /\ req[r].wrote /\ ~req[r].key => l.target = req[r].prev
        /\ Separate => l.domain # None /\ (req[r].wrote => l.domain = req[r].domain)
    BY <1>0, <1>5 DEF Bound
  <2>3. \A w \in req'[r].written : w \in req[r].written \/ w = <<l.target, l.domain>>
    BY <1>5
  <2>4. \A w \in req[r].written :
           /\ req[r].wrote
           /\ ~req[r].key => w[1] = req[r].prev
           /\ Separate => w[2] = req[r].domain
    BY <1>0 DEF Memory
  <2>5. \A w \in req'[r].written : /\ ~req'[r].key => w[1] = l.target
                                   /\ Separate => w[2] = l.domain
    BY <1>5, <2>2, <2>3, <2>4
  <2>6. req'[r].wrote <=> req'[r].written # {}
    <3>1. req[r].wrote <=> req[r].written # {}
      BY <1>0 DEF Memory
    <3>2. CASE written
      BY <1>5, <3>2
    <3>3. CASE ~written
      BY <1>5, <3>1, <3>3
    <3> QED
      BY <3>2, <3>3
  <2>7. Memory(r)'
    BY <1>1, <1>5, <2>1, <2>2, <2>5, <2>6 DEF Memory
  <2> QED
    BY <1>5, <2>7 DEF Bound
<1>6. ASSUME req'[r].wrote = FALSE, req'[r].written = {}, lease'[r] = <<>>
      PROVE  Memory(r)' /\ Bound(r)'
  BY <1>6 DEF Memory, Bound
<1> QED
  BY <1>0, <1>2, <1>3, <1>4, <1>5, <1>6, Zenon DEF MemoryStep

-----------------------------------------------------------------------------
\* With one probe at a time a target has at most one slot for probes in use,
\* while its circuit is half open and a lease is out.
OneProbe == \A c \in Configs : c.halfOpenMax = 1

Probing ==
    \A t \in Targets :
        \/ pool[t].leases = 0
        \/ pool[t].leases = 1 /\ pool[t].circuit = "half-open" /\ Out(t) # {}

\* Every step of the pool keeps the slots.
LEMMA ProbingStep ==
    ASSUME OneProbe, PoolTypes, Probing, PoolStep
    PROVE  Probing'
<1> DEFINE Fine(u) == \/ pool[u].leases = 0
                      \/ pool[u].leases = 1 /\ pool[u].circuit = "half-open" /\ Out(u) # {}
<1>0. /\ LeaseTypes /\ conf.halfOpenMax = 1
      /\ pool \in [Targets -> TargetRecord] /\ \A u \in Targets : pool[u].leases \in Nat
  BY DEF PoolTypes, LeaseTypes, TargetRecord, OneProbe
<1>1. ASSUME NEW c \in Callers, NEW t \in Targets, NEW shadow \in BOOLEAN, Granted(c, t, shadow),
             NEW u \in Targets
      PROVE  Fine(u)'
  <2>1. /\ Out(u)' = IF u = t THEN Out(u) \cup {c} ELSE Out(u)
    BY <1>1, OutGranted
  <2>2. /\ pool'[u].circuit = Thawed[u].circuit
        /\ pool'[u].leases = IF u = t /\ Thawed[t].circuit = "half-open"
                             THEN pool[u].leases + 1 ELSE pool[u].leases
    BY <1>1, GrantedTargets
  <2>3. Thawed[u].circuit = pool[u].circuit
          \/ (pool[u].circuit = "open" /\ Thawed[u].circuit = "half-open")
    BY ThawedTarget
  <2>4. Thawed[t].circuit = "half-open" => pool[t].leases < 1
    BY <1>0, <1>1 DEF Granted, Healthy
  <2>5. Fine(u)
    BY DEF Probing
  <2>6. CASE u = t /\ Thawed[t].circuit = "half-open"
    <3>1. pool[u].leases = 0
      BY <1>0, <2>4, <2>6
    <3> QED
      BY <2>1, <2>2, <2>6, <3>1
  <2>7. CASE ~(u = t /\ Thawed[t].circuit = "half-open")
    <3>1. pool'[u].leases = pool[u].leases /\ Out(u) \subseteq Out(u)'
      BY <2>1, <2>2, <2>7
    <3> QED
      BY <2>2, <2>3, <2>5, <3>1
  <2> QED
    BY <2>6, <2>7
<1>2. ASSUME NEW c \in Callers, NEW p, GivenBack(c, p), NEW u \in Targets
      PROVE  Fine(u)'
  <2>1. /\ Out(u)' = Out(u) \ {c}
        /\ c \in Out(u) <=> u = lease[c][1].target /\ Current(c)
    BY <1>2, OutGivenBack
  <2>2. CASE c \in Out(u)
    <3>1. pool'[u] = p /\ u = lease[c][1].target
      BY <1>2, <2>1, <2>2, GivenTargets
    <3>2. p.leases = IF pool[u].circuit = "half-open" /\ pool[u].leases > 0
                     THEN pool[u].leases - 1 ELSE pool[u].leases
      BY <1>2, <3>1, ReturnedTarget DEF GivenBack
    <3>3. pool[u].leases = 0 \/ (pool[u].leases = 1 /\ pool[u].circuit = "half-open")
      BY DEF Probing
    <3> QED
      BY <3>1, <3>2, <3>3
  <2>3. CASE c \notin Out(u)
    <3>1. pool'[u] = pool[u] /\ Out(u)' = Out(u)
      BY <1>2, <2>1, <2>3, GivenTargets
    <3> QED
      BY <3>1 DEF Probing
  <2> QED
    BY <2>2, <2>3
<1>3. ASSUME Refused, NEW u \in Targets PROVE Fine(u)'
  <2>1. pool' = Thawed /\ lease' = lease
    BY <1>3 DEF Refused
  <2>2. /\ pool'[u].gen = pool[u].gen /\ pool'[u].leases = pool[u].leases
        /\ pool[u].circuit = "half-open" => pool'[u].circuit = "half-open"
    BY <2>1, ThawedTarget
  <2>3. Out(u)' = Out(u)
    BY <1>0, <2>1, <2>2, OutKept
  <2> QED
    BY <2>2, <2>3 DEF Probing
<1>4. ASSUME NEW c \in Configs, Apply(c), NEW u \in Targets PROVE Fine(u)'
  <2>1. lease' = lease
    BY <1>4 DEF Apply
  <2>2. pool'[u] = pool[u] \/ pool'[u].leases = 0
    BY <1>4, AppliedTargets, RenewedTarget
  <2>3. CASE pool'[u] = pool[u]
    <3>1. Out(u)' = Out(u)
      BY <1>0, <2>1, <2>3, OutKept
    <3> QED
      BY <2>3, <3>1 DEF Probing
  <2> QED
    BY <2>2, <2>3
<1>5. ASSUME NEW t \in Targets, Ripen(t), NEW u \in Targets PROVE Fine(u)'
  <2>1. lease' = lease /\ pool' = [pool EXCEPT ![t].ripe = TRUE]
    BY <1>5 DEF Ripen
  <2>2. pool[u] \in TargetRecord
    BY <1>0
  <2>3. /\ pool'[u].gen = pool[u].gen /\ pool'[u].leases = pool[u].leases
        /\ pool'[u].circuit = pool[u].circuit
    BY <1>0, <2>1, <2>2 DEF TargetRecord
  <2>4. Out(u)' = Out(u)
    BY <1>0, <2>1, <2>3, OutKept
  <2> QED
    BY <2>3, <2>4 DEF Probing
<1>6. ASSUME UNCHANGED <<pool, lease>>, NEW u \in Targets PROVE Fine(u)'
  <2>1. Out(u)' = Out(u)
    BY <1>0, <1>6, OutKept
  <2> QED
    BY <1>6, <2>1 DEF Probing
<1> HIDE DEF Fine
<1>7. \A u \in Targets : Fine(u)'
  BY <1>1, <1>2, <1>3, <1>4, <1>5, <1>6, Zenon DEF PoolStep
<1> QED
  BY <1>7 DEF Fine, Probing

-----------------------------------------------------------------------------
\* Initially nothing is leased and nothing remembered.
LEMMA PoolInit ==
    ASSUME Init
    PROVE  PoolTypes /\ Counted /\ Remembered /\ Probing
<1>1. /\ MaxAttempts \in Nat /\ MaxFailures \in Nat /\ MaxSuccesses \in Nat /\ MaxReloads \in Nat
      /\ CursorPeriod \in Nat \ {0}
  BY PoolAssumption
<1>2. FreshTarget(0) \in TargetRecord /\ FreshTarget(0).gen = 0 /\ FreshTarget(0).active = 0
      /\ FreshTarget(0).leases = 0
  BY <1>1 DEF FreshTarget, TargetRecord, Circuits
<1>3. LeaseTypes
  <2>1. pool \in [Targets -> TargetRecord] /\ \A t \in Targets : pool[t].gen <= reloads
    BY <1>2 DEF Init
  <2>2. /\ lease \in [Callers -> {<<>>} \cup {<<l>> : l \in LeaseRecord}]
        /\ \A c \in Callers : lease[c] = <<>>
    BY DEF Init
  <2>3. cursor \in 0..(CursorPeriod - 1) /\ reloads \in 0..MaxReloads /\ conf \in Configs
    BY <1>1 DEF Init
  <2> QED
    BY <2>1, <2>2, <2>3 DEF LeaseTypes
<1>4. ASSUME NEW r \in Requests
      PROVE  /\ req[r] \in RequestRecord /\ req[r].wrote = FALSE /\ req[r].written = {}
             /\ lease[r] = <<>>
  <2>1. PICK key \in [Requests -> BOOLEAN] :
           req = [s \in Requests |-> FreshRequest(key[s], [id |-> None, must |-> FALSE])]
    BY DEF Init
  <2>2. req[r] = FreshRequest(key[r], [id |-> None, must |-> FALSE]) /\ key[r] \in BOOLEAN
    BY <2>1
  <2> QED
    BY <1>1, <2>2 DEF FreshRequest, RequestRecord, None, Init, Callers
<1>5. req \in [Requests -> RequestRecord]
  BY <1>4 DEF Init
<1>6. Remembered
  BY <1>4 DEF Remembered, Memory, Bound
<1>7. ASSUME NEW t \in Targets PROVE pool[t].active = Cardinality(Out(t)) /\ pool[t].leases = 0
  <2>1. Out(t) = {}
    BY DEF Out, Init
  <2> QED
    BY <1>2, <2>1, FS_EmptySet DEF Init
<1> QED
  BY <1>3, <1>5, <1>6, <1>7 DEF PoolTypes, Counted, Probing

\* The types, the counts and the memory together are inductive.
LEMMA PoolInvariant == Spec => [](PoolTypes /\ Counted /\ Remembered)
<1>1. ASSUME PoolTypes, Counted, Remembered, [Next]_vars
      PROVE  (PoolTypes /\ Counted /\ Remembered)'
  <2>1. PoolStep
    BY <1>1, StepOfPool
  <2>2. LeaseTypes' /\ Counted' /\ Remembered'
    BY <1>1, <2>1, PoolTypesStep, CountedStep, RememberedStep
  <2>3. req' \in [Requests -> RequestRecord]
    <3>1. CASE Requests = {}
      <4>1. req \in [Requests -> RequestRecord] /\ req' = req
        BY <1>1, <3>1, PoolAssumption DEF PoolTypes, Next, Execute, ExecutionEnds, Shadow, Release,
                                          Apply, Ripen, vars
      <4> QED
        BY <4>1
    <3>2. CASE Requests # {}
      BY <1>1, <3>2, StepOfMemory
    <3> QED
      BY <3>1, <3>2
  <2> QED
    BY <2>2, <2>3 DEF PoolTypes
<1> QED
  BY <1>1, PoolInit, PTL DEF Spec

\* A request that may have been written is written again only to the same
\* target, if it has no idempotency key, whatever domains are configured.
WrittenToOne ==
    \A r \in Requests : ~req[r].key => \A w, v \in req[r].written : w[1] = v[1]

\* Without an idempotency key a request is written to one target (safeCandidatesLocked).
THEOREM NoSecondTarget == Spec => []WrittenToOne
<1>1. Remembered => WrittenToOne
  BY DEF Remembered, Memory, WrittenToOne
<1> QED
  BY <1>1, PoolInvariant, PTL

\* Failover is safe over all attempts of a request, through circuits,
\* releases and reloads, if every target names its domain: with an empty one
\* the pool does not compare domains (candidatesLocked).
THEOREM FailoverIsSafe ==
    ASSUME \A c \in Configs : \A t \in Targets : c.target[t].domain # None
    PROVE  Spec => []FailoverSafe
<1>1. Remembered => FailoverSafe
  <2> SUFFICES ASSUME Remembered, NEW r \in Requests,
                      NEW w \in req[r].written, NEW v \in req[r].written
               PROVE  /\ ~req[r].key => w[1] = v[1]
                      /\ (\A c \in Configs : ~c.crossDomain) => w[2] = v[2]
    BY DEF FailoverSafe
  <2>1. Memory(r)
    BY DEF Remembered
  <2>2. (\A c \in Configs : ~c.crossDomain) => Separate
    BY DEF Separate
  <2> QED
    BY <2>1, <2>2 DEF Memory
<1> QED
  BY <1>1, PoolInvariant, PTL

\* The active count of a target, which its limit on concurrency is compared
\* with, is the number of leases out (Select, finish, ApplyWithEgress).
THEOREM LeasesAreCounted == Spec => []LeasesCounted
<1>1. PoolTypes /\ Counted => LeasesCounted
  BY PoolAssumption DEF PoolTypes, LeaseTypes, Counted, LeasesCounted
<1> QED
  BY <1>1, PoolInvariant, PTL

\* The typing invariant of the component follows, where one probe is let through.
LEMMA PoolTyped ==
    ASSUME OneProbe, PoolTypes, Counted, Probing
    PROVE  TypeOK
<1>0. /\ LeaseTypes /\ reloads \in 0..MaxReloads /\ MaxReloads \in Nat
      /\ pool \in [Targets -> TargetRecord] /\ conf \in Configs
  BY PoolAssumption DEF PoolTypes, LeaseTypes
<1>1. Max({c.halfOpenMax : c \in Configs}) = 1
  <2>1. {c.halfOpenMax : c \in Configs} = {1}
    BY <1>0 DEF OneProbe
  <2>2. (CHOOSE x \in {1} : \A y \in {1} : x >= y) = 1
    OBVIOUS
  <2> QED
    BY <2>1, <2>2, Zenon DEF Max
<1>2. ASSUME NEW t \in Targets
      PROVE  pool[t] \in [gen : 0..MaxReloads, active : 0..Cardinality(Callers),
                          failures : 0..MaxFailures, successes : 0..MaxSuccesses,
                          circuit : Circuits, ripe : BOOLEAN, leases : 0..1]
  <2>1. pool[t].gen \in 0..MaxReloads
    BY <1>0 DEF LeaseTypes, TargetRecord
  <2>2. pool[t].active \in 0..Cardinality(Callers)
    <3>1. Cardinality(Callers) \in Nat
      BY PoolAssumption, FS_CardinalityType DEF Callers
    <3> QED
      BY <3>1, OutOfCallers DEF Counted
  <2>3. pool[t].leases \in 0..1
    BY DEF Probing
  <2>4. pool[t] \in TargetRecord
    BY <1>0
  <2> QED
    BY <2>1, <2>2, <2>3, <2>4 DEF TargetRecord
<1>3. ASSUME NEW c \in Callers, lease[c] # <<>>
      PROVE  lease[c][1] \in [target : Targets, gen : 0..MaxReloads, domain : Nat, shadow : BOOLEAN]
  <2>1. lease[c][1] \in LeaseRecord
    BY <1>3, HeldLease
  <2>2. lease[c][1].gen <= pool[lease[c][1].target].gen /\ pool[lease[c][1].target].gen <= reloads
    BY <1>0, <1>3, <2>1 DEF LeaseTypes, LeaseRecord
  <2>3. lease[c][1].target \in Targets /\ lease[c][1].gen \in Nat
    BY <2>1 DEF LeaseRecord
  <2>4. pool[lease[c][1].target].gen \in Nat
    BY <1>0, <2>3 DEF TargetRecord
  <2>5. lease[c][1].gen \in 0..MaxReloads
    BY <1>0, <2>2, <2>3, <2>4
  <2> QED
    BY <2>1, <2>5 DEF LeaseRecord
<1>4. ASSUME NEW r \in Requests
      PROVE  req[r].attempts \in 0..MaxAttempts /\ req[r].prev \in Targets \cup {None}
  BY DEF PoolTypes, RequestRecord
<1>5. pool \in [Targets -> [gen : 0..MaxReloads, active : 0..Cardinality(Callers),
                            failures : 0..MaxFailures, successes : 0..MaxSuccesses,
                            circuit : Circuits, ripe : BOOLEAN, leases : 0..1]]
  BY <1>0, <1>2
<1> QED
  BY <1>0, <1>1, <1>3, <1>4, <1>5 DEF TypeOK, LeaseTypes

\* A target whose leases have all come back has all its slots for probes, so
\* that its half-open circuit can close again, and every lease is counted while
\* it is out, where one probe at a time is let through (half-open-max: 1, the
\* default): with more, finish loses the slot of a lease that comes back when
\* another probe has opened the circuit again.
THEOREM LeasesAreSound ==
    ASSUME OneProbe
    PROVE  Spec => []LeasesSound
<1>1. ASSUME PoolTypes, Counted, Probing PROVE LeasesSound
  <2>1. TypeOK
    BY <1>1, PoolTyped
  <2>2. conf.present \subseteq Targets
    BY <1>1, PoolAssumption DEF PoolTypes, LeaseTypes
  <2>3. LeasesCounted
    BY <1>1, <2>2 DEF Counted, LeasesCounted
  <2>4. ProbesReturned
    BY <1>1, <2>2 DEF Probing, ProbesReturned
  <2> QED
    BY <2>1, <2>3, <2>4 DEF LeasesSound
<1>2. ASSUME PoolTypes, Probing, [Next]_vars PROVE Probing'
  BY <1>2, StepOfPool, ProbingStep
<1>3. Init => Probing
  BY PoolInit
<1> QED
  BY <1>1, <1>2, <1>3, PoolInvariant, PTL DEF Spec
=============================================================================
