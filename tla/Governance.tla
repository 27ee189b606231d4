------------------------------ MODULE Governance ------------------------------
(***************************************************************************)
(* Budgets (internal/governance/manager.go) and their usage ledger         *)
(* (internal/governance/ledger.go), as the gateway uses them: a request    *)
(* reserves, binds the upstream it was given, settles attempts and is      *)
(* released; the process crashes, replays the ledger and reconciles.       *)
(*                                                                         *)
(* Every action is one critical section of the manager.  Cost is handled   *)
(* like tokens, and the keys of principal, tenant and model like one       *)
(* another: a reservation has a set of fixed keys and the key of its       *)
(* upstream.  The journal keeps the lines it acknowledged (see Timeline);  *)
(* since replay treats every reservation by itself and adds up, only the   *)
(* order of the lines of one reservation is kept.                          *)
(***************************************************************************)
EXTENDS Naturals, Sequences, SequencesExt, FiniteSets, FiniteSetsExt

CONSTANTS Reservations,  \* reservation IDs, each used once
          Fixed,         \* the keys of each reservation's principal, tenant and model
          Upstreams,     \* upstream IDs, which are budget keys too
          Configs,       \* configurations
          Usages,        \* tokens an attempt may use
          Retention,     \* persistence.retention, in whole windows
          Recommended,   \* what the traffic policy may recommend: an upstream, or None
          Attempts,      \* bound: attempts of each request
          MaxNow,        \* bound: windows
          MaxEvents      \* bound: new windows, reloads, crashes and failures of the
                         \* journal, taken together

Keys    == UNION {Fixed[r] : r \in Reservations} \cup Upstreams
Windows == 0..MaxNow
Numbers == 1..Max({Attempts[r] : r \in Reservations})
None    == "none"
Unknown == <<>>     \* usage of an attempt is unknown, or <<tokens>>
Usage   == {Unknown} \cup {<<n>> : n \in Usages}

ASSUME GovernanceAssumption ==
    /\ IsFiniteSet(Reservations) /\ IsFiniteSet(Keys)
    /\ \A r \in Reservations : Fixed[r] # {} /\ Fixed[r] \cap Upstreams = {}
    /\ None \notin Keys
    /\ \A c \in Configs : /\ c.enforce \in BOOLEAN /\ c.deny \in BOOLEAN /\ c.reserve \in Nat \ {0}
                          /\ c.scoped \subseteq Upstreams
                          /\ c.concurrent \in [Keys -> Nat]
                          /\ c.rate \in [Keys -> Nat] /\ c.tokens \in [Keys -> Nat]
                          /\ \A u \in Upstreams \ c.scoped :
                                c.concurrent[u] = 0 /\ c.rate[u] = 0 /\ c.tokens[u] = 0
    /\ Usages \subseteq Nat
    /\ Recommended \subseteq Upstreams \cup {None}
    /\ Retention \in Nat
    /\ Attempts \in [Reservations -> Nat \ {0}]
    /\ MaxNow \in Nat /\ MaxEvents \in Nat

VARIABLES conf,      \* Manager.config
          usage,     \* Manager.principalWindows and dimensionWindows
          res,       \* Manager.reservations
          ledger,    \* the lines of each reservation in the usage journal
          phantom,   \* a line in the file that was not acknowledged, or <<>>
          healthy,   \* the journal is not degraded
          phase,     \* the process: "up", "starting", "down"
          pc,        \* where the request of each reservation is
          try,       \* its attempt, 0 before the first one
          wrote,     \* it may have been written to an upstream
          now,       \* the current window
          compacted, \* the window of the last compaction, + 1
          dropped,   \* ghost: live reservations whose lines were removed while none of
                     \* their attempts was outstanding
          reloaded,  \* ghost: the configuration has been reloaded
          events     \* new windows, reloads, crashes and failures of the journal so far

memory == <<usage, res>>
disk   == <<ledger, phantom, healthy, events>>
worker == <<pc, try, wrote>>
rest   == <<now, compacted, dropped, reloaded>>
vars   == <<conf, memory, disk, phase, worker, rest>>

\* beyond is a ghost: what settled attempts used on top of their reservation.
NoUsage   == [requests |-> 0, tokens |-> 0, reserved |-> 0, unknown |-> 0, beyond |-> 0]
NoAttempt == [state |-> "none", window |-> 0, amount |-> 0, keys |-> {}]
NotLive   == [live |-> FALSE, upstream |-> None, keys |-> {}, att |-> [n \in Numbers |-> NoAttempt]]

NothingUsed == [k \in Keys |-> [w \in Windows |-> NoUsage]]
NobodyLive  == [r \in Reservations |-> NotLive]

Init ==
    /\ conf \in Configs
    /\ usage = NothingUsed /\ res = NobodyLive
    /\ ledger = [r \in Reservations |-> <<>>] /\ phantom = <<>> /\ healthy = TRUE
    /\ phase = "up"
    /\ pc = [r \in Reservations |-> "new"] /\ try = [r \in Reservations |-> 0]
    /\ wrote = [r \in Reservations |-> FALSE]
    /\ now = 0 /\ compacted = 0 /\ dropped = {} /\ reloaded = FALSE /\ events = 0

-----------------------------------------------------------------------------
(* What an attempt does to the usage of its keys in its window. *)

Less(a, b) == IF a > b THEN a - b ELSE 0

OnKeys(us, a, Op(_)) ==
    [k \in Keys |-> IF k \in a.keys THEN [us[k] EXCEPT ![a.window] = Op(@)] ELSE us[k]]

\* applyAttemptReservationLocked.
Charged(us, a) ==
    OnKeys(us, a, LAMBDA u : [u EXCEPT !.requests = @ + 1, !.reserved = @ + a.amount])

\* rebindReservationLocked: the old accounting is removed.
Uncharged(us, a) ==
    OnKeys(us, a, LAMBDA u : [u EXCEPT !.requests = Less(@, 1), !.reserved = Less(@, a.amount)])

\* releaseAttemptLocked.
Freed(us, a) == OnKeys(us, a, LAMBDA u : [u EXCEPT !.reserved = Less(@, a.amount)])

\* applyUsageLocked: whatever the upstream reports, within the reservation or not.
Used(us, a, used) ==
    OnKeys(us, a, LAMBDA u : IF used = Unknown
                             THEN [u EXCEPT !.unknown = @ + 1]
                             ELSE [u EXCEPT !.tokens = @ + used[1],
                                            !.beyond = @ + Less(used[1], a.amount)])

-----------------------------------------------------------------------------
(* The same steps on usage and reservation, taken live and at replay. *)

State(us, p) == [usage |-> us, p |-> p, ok |-> TRUE]

Out(p) == {n \in Numbers : p.att[n].state = "out"}

Outstanding(w, amount, keys) == [state |-> "out", window |-> w, amount |-> amount, keys |-> keys]

Admitted(us, u, w, amount, keys) ==
    LET a == Outstanding(w, amount, keys)
    IN  State(Charged(us, a), [NotLive EXCEPT !.live = TRUE, !.upstream = u, !.keys = keys,
                                              !.att[1] = a])

Begun(s, n, w, amount, keys) ==
    LET a == Outstanding(w, amount, keys)
    IN  State(Charged(s.usage, a), [s.p EXCEPT !.att[n] = a])

\* rebindReservationLocked, for the attempts that are outstanding.
Rebound(s, u, amount, keys) ==
    LET New(n) == [s.p.att[n] EXCEPT !.amount = amount, !.keys = keys]
    IN  State(FoldSet(LAMBDA n, us : Charged(Uncharged(us, s.p.att[n]), New(n)), s.usage, Out(s.p)),
              [s.p EXCEPT !.upstream = u, !.keys = keys,
                          !.att = [n \in Numbers |-> IF n \in Out(s.p) THEN New(n) ELSE @[n]]])

Settled(s, n, used) ==
    LET a == s.p.att[n]
    IN  State(Used(Freed(s.usage, a), a, used), [s.p EXCEPT !.att[n].state = "settled"])

\* releaseReservationLocked; the reservation is deleted.
Closed(s) == State(FoldSet(LAMBDA n, us : Freed(us, s.p.att[n]), s.usage, Out(s.p)), NotLive)

Held(r) == State(usage, res[r])

Becomes(r, s) == usage' = s.usage /\ res' = [res EXCEPT ![r] = s.p]

-----------------------------------------------------------------------------
(* The ledger. *)

Line(kind, n, u, amount, keys, used) ==
    [kind |-> kind, n |-> n, upstream |-> u, window |-> now, amount |-> amount,
     keys |-> keys, used |-> used]

ReservedLine(u, amount, keys) == Line("reserved", 1, u, amount, keys, Unknown)
AttemptLine(n, amount, keys)  == Line("attempt_reserved", n, None, amount, keys, Unknown)
BoundLine(u, amount, keys)    == Line("bound", 0, u, amount, keys, Unknown)
UsageLine(n, used)            == Line("usage_recorded", n, None, 0, {}, used)
PlainLine(kind)               == Line(kind, 0, None, 0, {}, Unknown)

Appends(r, line) ==
    /\ healthy
    /\ ledger' = [ledger EXCEPT ![r] = Append(@, line)]
    /\ UNCHANGED <<phantom, healthy, events>>

Event == events < MaxEvents /\ events' = events + 1

\* The journal degrades; the line may be in the file all the same.
Degrades(r, line) ==
    /\ healthy /\ healthy' = FALSE /\ Event
    /\ phantom' \in {<<>>, <<[id |-> r, line |-> line]>>}

AppendFails(r, line) ==
    /\ Degrades(r, line) \/ (~healthy /\ UNCHANGED <<phantom, healthy, events>>)
    /\ UNCHANGED ledger

\* The call goes on: only enforce insists on the ledger.
Persisted(r, line) == Appends(r, line) \/ (~conf.enforce /\ AppendFails(r, line))

\* The call gives up.
Unpersisted(r, line) == conf.enforce /\ AppendFails(r, line)

\* What the next process finds.
OnDisk == [r \in Reservations |->
             ledger[r] \o IF phantom # <<>> /\ phantom[1].id = r THEN <<phantom[1].line>> ELSE <<>>]

\* Slip: a binding is not replayed.
ReplayedUnbound(s, l) == s

ReplayedBound(s, l) ==
    LET t == Rebound(s, l.upstream, l.amount, l.keys)
    IN  [t EXCEPT !.p.att = [n \in Numbers |-> [@[n] EXCEPT !.keys = l.keys]]]

\* A line without attempt number would be of an older version; here every
\* attempt that is settled has been reserved.
ReplayedUsage(s, l) ==
    CASE s.p.att[l.n].state = "settled" -> s
      [] s.p.att[l.n].state = "out"     -> Settled(s, l.n, l.used)
      [] OTHER -> IF Out(s.p) = {} THEN [s EXCEPT !.ok = FALSE]
                                   ELSE Settled(s, Min(Out(s.p)), l.used)

\* replayLocked, one entry: one that belongs to no reservation is refused.
ReplayedLine(s, l) ==
    CASE ~s.ok -> s
      [] s.ok /\ l.kind = "reserved" -> Admitted(s.usage, l.upstream, l.window, l.amount, l.keys)
      [] s.ok /\ l.kind \in {"released", "reconciled"} -> IF s.p.live THEN Closed(s) ELSE s
      [] OTHER ->
         CASE ~s.p.live -> [s EXCEPT !.ok = FALSE]
           [] s.p.live /\ l.kind = "attempt_reserved" ->
                IF s.p.att[l.n].state = "none" THEN Begun(s, l.n, l.window, l.amount, l.keys) ELSE s
           [] s.p.live /\ l.kind = "bound"          -> ReplayedBound(s, l)
           [] s.p.live /\ l.kind = "usage_recorded" -> ReplayedUsage(s, l)
           [] s.p.live /\ l.kind = "heartbeat"      -> s

Replay(lines) ==
    FoldSet(LAMBDA r, t : LET e == FoldLeft(ReplayedLine, [usage |-> t.usage, p |-> NotLive, ok |-> t.ok],
                                            lines[r])
                          IN  [usage |-> e.usage, res |-> [t.res EXCEPT ![r] = e.p], ok |-> e.ok],
            [usage |-> NothingUsed, res |-> NobodyLive, ok |-> TRUE], Reservations)

-----------------------------------------------------------------------------
(* Decisions. *)

\* budgetKeysLocked.
KeysFor(r, u) == Fixed[r] \cup ({u} \cap conf.scoped)

\* reservationAmountsForKeysLocked, with a configured reservation.
Amount(keys) ==
    LET limits == {conf.tokens[k] : k \in keys} \ {0}
    IN  IF limits = {} THEN 0 ELSE Min(limits \cup {conf.reserve})

\* activeForBudgetLockedExcluding.
Active(k, S) == Cardinality({<<r, n>> \in S \X Numbers : n \in Out(res[r]) /\ k \in res[r].att[n].keys})

\* Slip: the budget may be exceeded by one.
BelowOrOne(x, limit) == limit = 0 \/ x <= limit + 1

Below(x, limit) == limit = 0 \/ x <= limit

\* The limits of a key allow so many attempts, so many of them new, and so much
\* more to be reserved.
Within(k, active, requests, amount) ==
    LET u == usage[k][now]
    IN  /\ conf.deny => u.unknown = 0
        /\ Below(active, conf.concurrent[k])
        /\ Below(u.requests + requests, conf.rate[k])
        /\ Below(u.tokens + u.reserved + amount, conf.tokens[k])

\* evaluateDecisionLimitsLocked, for one more attempt.
Fits(keys, others) ==
    conf.enforce => \A k \in keys : Within(k, Active(k, others) + 1, 1, Amount(keys))

\* bindingAmountsLocked: the attempts of this window, on top of what they have
\* reserved already.
BindFits(r, keys) ==
    LET mine == Cardinality({n \in Out(res[r]) : res[r].att[n].window = now})
    IN  conf.enforce =>
          \A k \in keys : Within(k, Active(k, Reservations \ {r}) + mine, mine, mine * Amount(keys))

-----------------------------------------------------------------------------
(* The request of a reservation. *)

Moves(r, from, to) ==
    /\ phase = "up" /\ pc[r] = from /\ pc' = [pc EXCEPT ![r] = to]
    /\ UNCHANGED <<conf, phase, try, rest>>

Goes(r, from, to) == Moves(r, from, to) /\ UNCHANGED wrote

\* It goes on after an error unless the configuration it read when the attempt
\* began says enforce, which a reload may have changed since, or be about to.
After(next) == {IF c.enforce THEN "leaving" ELSE next : c \in Configs}

\* AdmitWithContext, with the target the policy recommends.
Admit(r, u) ==
    LET keys == KeysFor(r, u)
    IN  /\ Goes(r, "new", "waiting")
        /\ (conf.enforce => healthy) /\ Fits(keys, Reservations)
        /\ Persisted(r, ReservedLine(u, Amount(keys), keys))
        /\ Becomes(r, Admitted(usage, u, now, Amount(keys), keys))

\* The request ends, or goes on without a reservation.
AdmitRefused(r, u) ==
    LET keys == KeysFor(r, u)
    IN  /\ conf.enforce
        /\ Goes(r, "new", "done")
        /\ \/ ~(healthy /\ Fits(keys, Reservations)) /\ UNCHANGED disk
           \/ /\ healthy /\ Fits(keys, Reservations)
              /\ Unpersisted(r, ReservedLine(u, Amount(keys), keys))
        /\ UNCHANGED memory

NextAttempt(r) ==
    /\ phase = "up" /\ pc[r] = "waiting" /\ try[r] < Attempts[r]
    /\ pc' = [pc EXCEPT ![r] = "selecting"] /\ try' = [try EXCEPT ![r] = @ + 1]
    /\ UNCHANGED <<conf, memory, disk, phase, wrote, rest>>

\* BindUpstreamWithDecision, alone or as the first half of BeginAttempt.
Bind(r, u) ==
    LET keys == KeysFor(r, u)
    IN  /\ Goes(r, "selecting", IF try[r] = 1 THEN "sending" ELSE "bound")
        /\ \/ res[r].upstream = u /\ UNCHANGED <<memory, disk>>
           \/ /\ res[r].upstream # u /\ BindFits(r, keys)
              /\ Persisted(r, BoundLine(u, Amount(keys), keys))
              /\ Becomes(r, Rebound(Held(r), u, Amount(keys), keys))

BindRefused(r, u) ==
    LET keys == KeysFor(r, u)
    IN  /\ \E to \in After("sending") : Goes(r, "selecting", to)
        /\ res[r].upstream # u
        /\ \/ ~BindFits(r, keys) /\ UNCHANGED disk
           \/ BindFits(r, keys) /\ Unpersisted(r, BoundLine(u, Amount(keys), keys))
        /\ UNCHANGED memory

\* BeginAttempt, the second half.
BeginAttempt(r) ==
    LET keys == res[r].keys
    IN  /\ Goes(r, "bound", "sending")
        /\ Fits(keys, Reservations \ {r})
        /\ Persisted(r, AttemptLine(try[r], Amount(keys), keys))
        /\ Becomes(r, Begun(Held(r), try[r], now, Amount(keys), keys))

AttemptRefused(r) ==
    LET keys == res[r].keys
    IN  /\ \E to \in After("sending") : Goes(r, "bound", to)
        /\ \/ ~Fits(keys, Reservations \ {r}) /\ UNCHANGED disk
           \/ Fits(keys, Reservations \ {r}) /\ Unpersisted(r, AttemptLine(try[r], Amount(keys), keys))
        /\ UNCHANGED memory

\* The attempt is over and was written, or may have been.
Written(r, from, to) == Moves(r, from, to) /\ wrote' = [wrote EXCEPT ![r] = TRUE]

\* Record, for an attempt with known or unknown usage.
Record(r, used) ==
    LET line == UsageLine(try[r], used)
    IN  /\ pc[r] = "sending" /\ res[r].att[try[r]].state = "out"
        /\ \/ Appends(r, line) /\ Written(r, "sending", "waiting")
           \/ /\ ~conf.enforce /\ AppendFails(r, line)
              /\ \E to \in After("waiting") : Written(r, "sending", to)
        /\ Becomes(r, Settled(Held(r), try[r], used))

RecordFails(r, used) ==
    /\ pc[r] = "sending" /\ res[r].att[try[r]].state = "out"
    /\ \E to \in After("waiting") : Written(r, "sending", to)
    /\ Unpersisted(r, UsageLine(try[r], used))
    /\ UNCHANGED memory

\* Nothing was written: the attempt stays outstanding.
Unsent(r) == Goes(r, "sending", "waiting") /\ UNCHANGED <<memory, disk>>

\* No target was selected, and the request has not been written before.
NoTarget(r) == Goes(r, "selecting", "waiting") /\ ~wrote[r] /\ UNCHANGED <<memory, disk>>

\* Record without a reservation for the attempt: it went on after an error, or
\* no target was selected for a request that has been written before.
Unreserved(r, from, used) ==
    /\ pc[r] = from /\ res[r].att[try[r]].state = "none"
    /\ from = "selecting" => wrote[r] /\ used = Unknown

\* Record reserves and settles at once.
RecordNew(r, from, used) ==
    LET keys   == res[r].keys
        begun  == Begun(Held(r), try[r], now, Amount(keys), keys)
        first  == AttemptLine(try[r], Amount(keys), keys)
        second == UsageLine(try[r], used)
        half   == Degrades(r, second) /\ ledger' = [ledger EXCEPT ![r] = Append(@, first)]
    IN  /\ Unreserved(r, from, used) /\ Fits(keys, Reservations \ {r})
        /\ \/ /\ healthy /\ ledger' = [ledger EXCEPT ![r] = @ \o <<first, second>>]
              /\ UNCHANGED <<phantom, healthy, events>>
              /\ Written(r, from, "waiting")
              /\ Becomes(r, Settled(begun, try[r], used))
           \/ /\ \E to \in After("waiting") : Written(r, from, to)
              /\ \/ /\ ~conf.enforce /\ (half \/ AppendFails(r, first))
                    /\ Becomes(r, Settled(begun, try[r], used))
                 \/ conf.enforce /\ half /\ Becomes(r, begun)
                 \/ conf.enforce /\ AppendFails(r, first) /\ UNCHANGED memory

RecordRefused(r, from, used) ==
    /\ Unreserved(r, from, used) /\ ~Fits(res[r].keys, Reservations \ {r})
    /\ \E to \in After("waiting") : Written(r, from, to)
    /\ UNCHANGED <<memory, disk>>

\* Release, when the request ends.
Release(r) ==
    /\ \E from \in {"waiting", "leaving"} : Goes(r, from, "done")
    /\ Persisted(r, PlainLine("released"))
    /\ Becomes(r, Closed(Held(r)))

ReleaseFails(r) ==
    /\ \E from \in {"waiting", "leaving"} : Goes(r, from, "done")
    /\ Unpersisted(r, PlainLine("released"))
    /\ UNCHANGED memory

-----------------------------------------------------------------------------
(* Compaction, restart, reload. *)

\* Compact writes a heartbeat for these.
Beating == {r \in Reservations : Out(res[r]) # {}}

Beat(S) == [r \in Reservations |-> IF r \in S THEN Append(ledger[r], PlainLine("heartbeat"))
                                              ELSE ledger[r]]

Expired(lines) == {r \in Reservations : /\ lines[r] # <<>>
                                        /\ \A l \in Range(lines[r]) : l.window + Retention < now}

\* Store.Compact, from the lines in memory.
Rewrite(lines, extra) ==
    /\ ledger' = [r \in Reservations |-> IF r \in Expired(lines) THEN <<>> ELSE lines[r]]
    /\ phantom' = IF Expired(lines) = {} THEN extra ELSE <<>>
    /\ dropped' = dropped \cup {r \in Expired(lines) : res[r].live /\ Out(res[r]) = {}}

Hourly ==
    /\ compacted <= now /\ compacted' = now + 1
    /\ UNCHANGED <<conf, memory, phase, worker, now, reloaded>>

Compact ==
    /\ phase = "up" /\ Hourly
    /\ \/ healthy /\ Rewrite(Beat(Beating), phantom)
       \/ ~healthy /\ (conf.enforce => Beating = {}) /\ Rewrite(ledger, phantom)
    /\ UNCHANGED <<healthy, events>>

\* A heartbeat cannot be written: enforce gives up.
CompactFails ==
    /\ phase = "up" /\ healthy /\ Hourly
    /\ healthy' = FALSE /\ Event
    /\ \E r \in Beating, S \in SUBSET Beating :
         /\ r \notin S
         /\ \E extra \in {<<>>, <<[id |-> r, line |-> PlainLine("heartbeat")]>>} :
              IF conf.enforce THEN ledger' = Beat(S) /\ phantom' = extra /\ UNCHANGED dropped
                              ELSE Rewrite(Beat(S), extra)

\* Memory is gone; the next process reads the file.
Exit ==
    /\ phase' = "down" /\ phantom' = <<>> /\ healthy' = TRUE
    /\ usage' = NothingUsed /\ res' = NobodyLive
    /\ pc' = [r \in Reservations |-> IF pc[r] = "new" THEN "new" ELSE "done"]
    /\ UNCHANGED <<conf, try, wrote, rest>>

Crash == phase # "down" /\ Event /\ Exit /\ ledger' = OnDisk

\* NewPersistent.
Start ==
    /\ phase = "down"
    /\ Replay(ledger).ok
    /\ usage' = Replay(ledger).usage /\ res' = Replay(ledger).res
    /\ phase' = "starting"
    /\ UNCHANGED <<conf, disk, worker, rest>>

Reconcile(r) ==
    /\ phase = "starting" /\ res[r].live
    /\ Persisted(r, PlainLine("reconciled"))
    /\ Becomes(r, Closed(Held(r)))
    /\ UNCHANGED <<conf, phase, worker, rest>>

\* Enforce gives up: the process exits.
ReconcileFails(r) ==
    /\ phase = "starting" /\ res[r].live /\ conf.enforce /\ Event /\ Exit
    /\ ledger' \in {ledger, [ledger EXCEPT ![r] = Append(@, PlainLine("reconciled"))]}

\* main compacts the ledger before it serves.
Serve ==
    /\ phase = "starting" /\ \A r \in Reservations : ~res[r].live
    /\ phase' = "up"
    /\ Rewrite(ledger, phantom)
    /\ UNCHANGED <<conf, memory, healthy, events, worker, now, compacted, reloaded>>

Tick ==
    /\ now < MaxNow /\ now' = now + 1 /\ Event
    /\ UNCHANGED <<conf, memory, ledger, phantom, healthy, phase, worker, compacted, dropped, reloaded>>

\* Apply.
Reload(c) ==
    /\ phase = "up" /\ c # conf /\ conf' = c /\ reloaded' = TRUE /\ Event
    /\ UNCHANGED <<memory, ledger, phantom, healthy, phase, worker, now, compacted, dropped>>

Next ==
    \/ \E r \in Reservations :
          \/ \E u \in Recommended : Admit(r, u) \/ AdmitRefused(r, u)
          \/ \E u \in Upstreams : Bind(r, u) \/ BindRefused(r, u)
          \/ BeginAttempt(r) \/ AttemptRefused(r)
          \/ \E used \in Usage : Record(r, used) \/ RecordFails(r, used)
          \/ \E used \in Usage, from \in {"sending", "selecting"} :
                RecordNew(r, from, used) \/ RecordRefused(r, from, used)
          \/ Unsent(r) \/ NoTarget(r) \/ NextAttempt(r)
          \/ Release(r) \/ ReleaseFails(r) \/ Reconcile(r) \/ ReconcileFails(r)
    \/ Compact \/ CompactFails \/ Crash \/ Start \/ Serve \/ Tick
    \/ \E c \in Configs : Reload(c)

Spec == Init /\ [][Next]_vars

-----------------------------------------------------------------------------
\* The variables have the types of the manager's fields; no key has more
\* requests than there are attempts.
TypeOK ==
    /\ conf \in Configs
    /\ \A k \in Keys, w \in Windows :
          /\ DOMAIN usage[k][w] = DOMAIN NoUsage
          /\ usage[k][w].requests \in 0..(Cardinality(Reservations \X Numbers))
          /\ usage[k][w].unknown <= usage[k][w].requests
          /\ usage[k][w].tokens \in Nat /\ usage[k][w].reserved \in Nat
          /\ usage[k][w].beyond <= usage[k][w].tokens
    /\ \A r \in Reservations :
          /\ res[r].live \in BOOLEAN /\ res[r].upstream \in Upstreams \cup {None}
          /\ res[r].keys \subseteq Keys
          /\ \A n \in Numbers : /\ res[r].att[n].state \in {"none", "out", "settled"}
                                /\ res[r].att[n].keys \subseteq Keys
                                /\ res[r].att[n].window \in Windows
    /\ phase \in {"up", "starting", "down"}
    /\ pc \in [Reservations -> {"new", "waiting", "selecting", "bound", "sending", "leaving", "done"}]
    /\ try \in [Reservations -> Numbers \cup {0}] /\ wrote \in [Reservations -> BOOLEAN]
    /\ healthy \in BOOLEAN /\ now \in Windows /\ dropped \subseteq Reservations
    /\ reloaded \in BOOLEAN /\ events \in 0..MaxEvents

\* What is reserved of a budget is what its outstanding attempts reserve,
\* whatever was bound, settled, retried or refused, across windows, reloads and
\* restarts.
ReservationsAccounted ==
    \A k \in Keys, w \in Windows :
        usage[k][w].reserved =
            MapThenSumSet(LAMBDA x : res[x[1]].att[x[2]].amount,
                {x \in Reservations \X Numbers :
                    LET a == res[x[1]].att[x[2]]
                    IN  x[2] \in Out(res[x[1]]) /\ k \in a.keys /\ a.window = w})

\* The process can always be started again: after any crash, failed write or
\* compaction the ledger can be replayed, unless a compaction removed a live
\* reservation that had no outstanding attempt.
LedgerReplays == dropped = {} => Replay(OnDisk).ok

\* Compaction retains the live reservations: what a healthy ledger has been told
\* of them is still there.
ActiveRetained == (phase = "up" /\ healthy) => \A r \in Reservations : res[r].live => ledger[r] # <<>>

\* A restart neither forgets nor invents usage: with a healthy ledger replay
\* yields what memory holds, for every window that is not past retention.
RestartConserves ==
    (phase = "up" /\ healthy /\ dropped = {}) =>
        LET image == Replay(ledger).usage
        IN  \A k \in Keys, w \in Windows : w + Retention >= now => image[k][w] = usage[k][w]

\* Enforced limits hold in the current window, with concurrent requests,
\* retries, rebinding and restarts, as long as they are not reloaded: the rate
\* of every key, for keys that are fixed at admission the number of concurrent
\* requests, and its tokens: what is reserved and what attempts used within their
\* reservations.  What an upstream reports above a reservation is charged in full
\* all the same and may take the budget past its limit by as much.
BudgetsKept ==
    (conf.enforce /\ ~reloaded) =>
        \A k \in Keys :
            LET u == usage[k][now]
            IN  /\ conf.rate[k] > 0 => u.requests <= conf.rate[k]
                /\ conf.tokens[k] > 0 => u.tokens + u.reserved <= conf.tokens[k] + u.beyond
                /\ (conf.concurrent[k] > 0 /\ k \notin Upstreams) =>
                      Cardinality({r \in Reservations : Active(k, {r}) > 0}) <= conf.concurrent[k]

\* Budgets are sound: amounts belong to outstanding attempts and stay within
\* the limits.
BudgetsSound == ReservationsAccounted /\ BudgetsKept

\* The ledger is sound: it can be replayed, and its replay is what memory holds.
LedgerSound == TypeOK /\ ReservationsAccounted /\ LedgerReplays /\ RestartConserves
=============================================================================
