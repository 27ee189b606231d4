----------------------------- MODULE UpstreamPool -----------------------------
(***************************************************************************)
(* The upstream pool (internal/upstream/manager.go) and those who take     *)
(* leases from it: the attempts of a request, the shadow copies of         *)
(* finished ones (internal/proxy/gateway.go) and the executions of repeat  *)
(* tasks (internal/proxy/repeat.go), which remember nothing of each other. *)
(*                                                                         *)
(* Every action is one critical section of the manager.  A target is a     *)
(* number, and numbers are ordered like IDs.  A reload that changes how a  *)
(* target is reached gives it a new state: a lease belongs to a generation *)
(* of its target, and what leases of older generations report is seen by   *)
(* nobody.  Latencies, rates and the tallies of rate limits are left out.  *)
(***************************************************************************)
EXTENDS Naturals, FiniteSets, FiniteSetsExt

CONSTANTS Targets,       \* target IDs, numbers above 0
          Requests,      \* requests of clients
          Others,        \* shadow copies and repeat tasks, as many as may be under way
          Configs,       \* configurations of the pool
          Preferences,   \* what the traffic policy may say: it prefers a target, or
                         \* insists on it
          CursorPeriod,  \* a common multiple of all sums of weights: the cursor
                         \* is used modulo such sums only
          MaxAttempts,   \* bound: attempts of a request
          MaxFailures,   \* bound: failures of a target
          MaxSuccesses,  \* bound: successes of a target
          MaxReloads     \* bound: reloads

TargetConfigs == [priority : Nat, weight : Nat \ {0}, maxActive : Nat, domain : Nat, base : Nat]

ASSUME PoolAssumption ==
    /\ Targets \subseteq Nat \ {0} /\ IsFiniteSet(Targets)
    /\ Requests \cap Others = {} /\ IsFiniteSet(Requests \cup Others)
    /\ Configs # {}
    /\ \A c \in Configs : /\ c.target \in [Targets -> TargetConfigs]
                          /\ c.present \subseteq Targets /\ c.present # {}
                          /\ c.enabled \in BOOLEAN /\ c.primaryOnly \in BOOLEAN
                          /\ c.crossDomain \in BOOLEAN /\ c.transport \in Nat
                          /\ c.halfOpenMax \in Nat \ {0}
                          /\ c.minimum \in Nat \ {0} /\ c.percent \in Nat \ {0}
    /\ Preferences \subseteq [id : Targets \cup {0}, must : BOOLEAN]
    /\ CursorPeriod \in Nat \ {0}
    /\ MaxAttempts \in Nat /\ MaxFailures \in Nat /\ MaxSuccesses \in Nat /\ MaxReloads \in Nat

Callers == Requests \cup Others
None    == 0  \* no target

VARIABLES conf,     \* Manager.strategy, circuit, cfg of the targets, lifecycle option
          pool,     \* Manager.targets: the state of each target
          cursor,   \* Manager.cursor, modulo CursorPeriod
          lease,    \* the lease each caller holds, or <<>>
          req,      \* what each request remembers of its attempts
          reloads   \* number of reloads so far

vars == <<conf, pool, cursor, lease, req, reloads>>

Circuits     == {"closed", "open", "half-open"}
Observations == {"success", "failure", "uncounted"}

\* The state of a target that was just configured.
FreshTarget(g) == [gen |-> g, active |-> 0, failures |-> 0, successes |-> 0,
                   circuit |-> "closed", ripe |-> FALSE, leases |-> 0]

\* A request before its first attempt.
FreshRequest(key, pref) ==
    [attempts |-> 0, prev |-> None, domain |-> None, wrote |-> FALSE,
     key |-> key, pref |-> pref, written |-> {}]

Init ==
    /\ conf \in Configs
    /\ pool = [t \in Targets |-> FreshTarget(0)]
    /\ cursor = 0
    /\ lease = [c \in Callers |-> <<>>]
    /\ \E key \in [Requests -> BOOLEAN] :
          req = [r \in Requests |-> FreshRequest(key[r], [id |-> None, must |-> FALSE])]
    /\ reloads = 0

-----------------------------------------------------------------------------
\* rebuildOrderLocked puts this target first.
First == CHOOSE t \in conf.present :
            \A s \in conf.present \ {t} :
                \/ conf.target[t].priority < conf.target[s].priority
                \/ conf.target[t].priority = conf.target[s].priority /\ t < s

Considered == IF conf.primaryOnly THEN {First} ELSE conf.present

\* candidatesLocked lets a circuit that has been open long enough half open.
Thaws(t) ==
    /\ t \in Considered /\ pool[t].circuit = "open" /\ pool[t].ripe
    /\ conf.enabled => pool[t].leases < conf.halfOpenMax

Thawed == [t \in Targets |-> IF Thaws(t) THEN [pool[t] EXCEPT !.circuit = "half-open"]
                                         ELSE pool[t]]

Healthy(t) ==
    /\ t \in Considered
    /\ Thawed[t].circuit # "open"
    /\ Thawed[t].circuit = "half-open" => pool[t].leases < conf.halfOpenMax

\* What a caller tells of its earlier attempts; a shadow copy has none.
Selection(prev, domain, wrote, key, pref) ==
    [prev |-> prev, domain |-> domain, wrote |-> wrote, key |-> key, pref |-> pref]

\* Slip: the previous target does not count.
SafeAnywhere(sel, t) ==
    (sel.domain # None /\ sel.wrote /\ ~conf.crossDomain) => conf.target[t].domain = sel.domain

\* A request that may have been written stays at its target, or with an
\* idempotency key in its domain.
Safe(sel, t) ==
    /\ (sel.prev # None /\ sel.wrote /\ ~sel.key) => t = sel.prev
    /\ (sel.domain # None /\ sel.wrote /\ ~conf.crossDomain) => conf.target[t].domain = sel.domain

CanChangeTarget(sel) == sel.wrote => sel.key

Candidates(sel) ==
    LET able == {t \in Targets : Healthy(t) /\ Safe(sel, t)}
        others == able \ {sel.prev}
    IN  CASE sel.pref.id \in able -> {sel.pref.id}
          [] sel.pref.id # None /\ sel.pref.must /\ sel.pref.id \notin able -> {}
          [] OTHER -> IF /\ ~conf.primaryOnly /\ sel.prev # None
                         /\ others # {} /\ CanChangeTarget(sel)
                      THEN others ELSE able

\* chooseLocked: of the targets below their limit those of the best priority,
\* and of these one by weight.
Available(S) == {t \in S : conf.target[t].maxActive = 0 \/ pool[t].active < conf.target[t].maxActive}

Best(S) == {t \in S : \A s \in S : conf.target[t].priority <= conf.target[s].priority}

Weight(S) == MapThenSumSet(LAMBDA t : conf.target[t].weight, S)

\* The first whose weight, with those of all before it, is above the point;
\* failing that the last.
Choose(S, n) ==
    LET reached == {t \in S : n % Weight(S) < Weight({s \in S : s <= t})}
    IN  IF reached = {} THEN Max(S) ELSE Min(reached)

-----------------------------------------------------------------------------
\* Select hands out a lease.
Leased(c, sel, shadow) ==
    LET S == Best(Available(Candidates(sel)))
        t == Choose(S, cursor)
    IN  /\ S # {}
        /\ pool' = [Thawed EXCEPT
                       ![t].active = @ + 1,
                       ![t].leases = IF Thawed[t].circuit = "half-open" THEN @ + 1 ELSE @]
        /\ cursor' = (cursor + 1) % CursorPeriod
        /\ lease' = [lease EXCEPT ![c] = <<[target |-> t, gen |-> pool[t].gen,
                                           domain |-> conf.target[t].domain,
                                           shadow |-> shadow]>>]

\* Select fails: no healthy target, no safe one, or none below its limit.
NotLeased(sel) ==
    /\ Available(Candidates(sel)) = {}
    /\ pool' = Thawed
    /\ UNCHANGED <<cursor, lease>>

Context(r) == Selection(req[r].prev, req[r].domain, req[r].wrote, req[r].key, req[r].pref)

Ready(r) == lease[r] = <<>> /\ req[r].attempts < MaxAttempts

Attempt(r) ==
    /\ Ready(r)
    /\ Leased(r, Context(r), FALSE)
    /\ req' = [req EXCEPT ![r].attempts = @ + 1]
    /\ UNCHANGED <<conf, reloads>>

AttemptFails(r) ==
    /\ Ready(r)
    /\ NotLeased(Context(r))
    /\ req' = [req EXCEPT ![r].attempts = @ + 1]
    /\ UNCHANGED <<conf, reloads>>

\* dispatchShadow, for a target the policy names.
ShadowContext(t) == Selection(None, None, FALSE, FALSE, [id |-> t, must |-> TRUE])

Shadow(o, t) ==
    /\ lease[o] = <<>>
    /\ Leased(o, ShadowContext(t), TRUE) \/ NotLeased(ShadowContext(t))
    /\ UNCHANGED <<conf, req, reloads>>

\* ExecuteRepeat: an execution starts without a history.
Execute(o) ==
    /\ lease[o] = <<>>
    /\ LET sel == Selection(None, None, FALSE, FALSE, [id |-> None, must |-> FALSE])
       IN  Leased(o, sel, FALSE) \/ NotLeased(sel)
    /\ UNCHANGED <<conf, req, reloads>>

-----------------------------------------------------------------------------
\* finish: the lease's own part.
Finished(p) ==
    [p EXCEPT !.active = IF @ > 0 THEN @ - 1 ELSE 0,
              !.leases = IF p.circuit = "half-open" /\ @ > 0 THEN @ - 1 ELSE @]

Opens(p) ==
    LET requests == p.failures + p.successes
    IN  conf.enabled /\ ( \/ p.circuit = "half-open"
                          \/ /\ requests >= conf.minimum
                             /\ p.failures * 100 >= requests * conf.percent )

\* observeLocked.
Observed(p, obs) ==
    LET failed == [p EXCEPT !.failures = @ + 1]
    IN  CASE obs = "success" ->
               [p EXCEPT !.successes = @ + 1,
                         !.circuit = "closed",
                         !.failures = IF p.circuit = "closed" THEN @ ELSE 0,
                         !.ripe = FALSE]
          [] obs = "failure" -> IF Opens(failed)
                                THEN [failed EXCEPT !.circuit = "open", !.ripe = FALSE]
                                ELSE failed
          [] OTHER -> p

\* The lease is of the target's present generation.
Current(c) == pool[lease[c][1].target].gen = lease[c][1].gen

Report(c, p) ==
    IF Current(c) THEN [pool EXCEPT ![lease[c][1].target] = p] ELSE pool

\* Complete.
Complete(c, obs) ==
    LET p == Observed(Finished(pool[lease[c][1].target]), obs)
    IN  /\ lease[c] # <<>>
        /\ p.failures <= MaxFailures /\ p.successes <= MaxSuccesses
        /\ pool' = Report(c, p)
        /\ lease' = [lease EXCEPT ![c] = <<>>]

\* After an attempt, which may or may not have been written; a success ends
\* the request.
AttemptEnds(r, obs, written) ==
    /\ Complete(r, obs)
    /\ LET l == lease[r][1]
       IN  req' = [req EXCEPT ![r].attempts = IF obs = "success" THEN MaxAttempts ELSE @,
                              ![r].prev = l.target, ![r].domain = l.domain,
                              ![r].wrote = @ \/ written,
                              ![r].written = IF written THEN @ \cup {<<l.target, l.domain>>} ELSE @]
    /\ UNCHANGED <<conf, cursor, reloads>>

ExecutionEnds(o, obs) ==
    /\ Complete(o, obs)
    /\ ~lease[o][1].shadow
    /\ UNCHANGED <<conf, cursor, req, reloads>>

\* Release: governance refuses the attempt, which ends the request, or a
\* shadow copy is over.
Release(c) ==
    /\ lease[c] # <<>>
    /\ pool' = Report(c, Finished(pool[lease[c][1].target]))
    /\ lease' = [lease EXCEPT ![c] = <<>>]
    /\ req' = IF c \in Requests THEN [req EXCEPT ![c].attempts = MaxAttempts] ELSE req
    /\ UNCHANGED <<conf, cursor, reloads>>

\* Another request takes the place of one that has ended.
Arrive(r, key, pref) ==
    /\ lease[r] = <<>> /\ req[r].attempts = MaxAttempts
    /\ req' = [req EXCEPT ![r] = FreshRequest(key, pref)]
    /\ UNCHANGED <<conf, pool, cursor, lease, reloads>>

\* Slip: the new state takes the leases of the old one over.
RenewedWhole(t) == [pool[t] EXCEPT !.gen = @ + 1]

\* Another transport: a new state with the old history and no leases.
Renewed(t) == [pool[t] EXCEPT !.gen = @ + 1, !.active = 0, !.leases = 0]

\* ApplyWithEgress: a target that is reached as before keeps its state.
Apply(c) ==
    /\ reloads < MaxReloads
    /\ c # conf
    /\ conf' = c
    /\ pool' = [t \in Targets |->
                  CASE t \notin c.present -> pool[t]
                    [] t \in c.present /\ (\/ t \notin conf.present
                                           \/ conf.target[t].base # c.target[t].base) ->
                         FreshTarget(pool[t].gen + 1)
                    [] OTHER -> IF conf.transport = c.transport THEN pool[t] ELSE Renewed(t)]
    /\ reloads' = reloads + 1
    /\ UNCHANGED <<cursor, lease, req>>

\* circuit.open-duration is over.
Ripen(t) ==
    /\ pool[t].circuit = "open" /\ ~pool[t].ripe
    /\ pool' = [pool EXCEPT ![t].ripe = TRUE]
    /\ UNCHANGED <<conf, cursor, lease, req, reloads>>

Next ==
    \/ \E r \in Requests : \/ Attempt(r) \/ AttemptFails(r)
                           \/ \E obs \in Observations, w \in BOOLEAN : AttemptEnds(r, obs, w)
                           \/ \E key \in BOOLEAN, pref \in Preferences : Arrive(r, key, pref)
    \/ \E o \in Others : \/ Execute(o)
                         \/ \E obs \in Observations : ExecutionEnds(o, obs)
                         \/ \E t \in Targets : Shadow(o, t)
    \/ \E c \in Callers : Release(c)
    \/ \E c \in Configs : Apply(c)
    \/ \E t \in Targets : Ripen(t)

Spec == Init /\ [][Next]_vars

-----------------------------------------------------------------------------
\* The leases of the target's present state that are still out.
Out(t) == {c \in Callers : lease[c] # <<>> /\ lease[c][1].target = t /\ Current(c)}

\* The variables have the types of the manager's fields.
TypeOK ==
    /\ conf \in Configs
    /\ pool \in [Targets -> [gen : 0..MaxReloads, active : 0..Cardinality(Callers),
                             failures : 0..MaxFailures, successes : 0..MaxSuccesses,
                             circuit : Circuits, ripe : BOOLEAN,
                             leases : 0..Max({c.halfOpenMax : c \in Configs})]]
    /\ cursor \in 0..(CursorPeriod - 1)
    /\ \A c \in Callers : \/ lease[c] = <<>>
                          \/ lease[c][1] \in [target : Targets, gen : 0..MaxReloads,
                                             domain : Nat, shadow : BOOLEAN]
    /\ \A r \in Requests : req[r].attempts \in 0..MaxAttempts /\ req[r].prev \in Targets \cup {None}
    /\ reloads \in 0..MaxReloads

\* The concurrency of a target is counted right across reloads, probes and
\* releases without a result: its active count is the number of leases out.
LeasesCounted == \A t \in conf.present : pool[t].active = Cardinality(Out(t))

\* No slot for a probe is lost where one probe at a time is let through: when all leases of a target have come back, its
\* half-open circuit has all its slots, so an open target can recover.
ProbesReturned == \A t \in conf.present : Out(t) = {} => pool[t].leases = 0

\* Failover is safe over all attempts of a request, whatever circuits and
\* configurations do in between: without an idempotency key it is written to
\* one target only, with a key to one domain unless crossing is allowed.
FailoverSafe ==
    \A r \in Requests : \A w, v \in req[r].written :
        /\ ~req[r].key => w[1] = v[1]
        /\ (\A c \in Configs : ~c.crossDomain) => w[2] = v[2]

\* The leases are sound: each is counted while it is out, and gives its slot
\* back.
LeasesSound == TypeOK /\ LeasesCounted /\ ProbesReturned
=============================================================================
