------------------------------- MODULE Limiter -------------------------------
(***************************************************************************)
(* The concurrency limiter of the gateway (internal/proxy/limiter.go).     *)
(*                                                                         *)
(* A caller of Acquire reads the configured limits, then takes the mutex   *)
(* and either takes a permit at once, is refused because the queue is      *)
(* full, or joins the FIFO list of waiters.  A waiter repeats: lock, test  *)
(* whether it is the head and a permit is free, otherwise remember the     *)
(* current "changed" channel, unlock, and select on that channel and on    *)
(* its context.  Release and every change of the list close the channel    *)
(* and make a new one, which wakes every waiter parked on it.              *)
(*                                                                         *)
(* A caller is parked exactly when no close happened since it remembered   *)
(* the channel, so closing the channel moves all parked callers to         *)
(* "checking".  The limits live in the hot-reloadable configuration and    *)
(* may change at any time; a change does not touch the limiter.            *)
(***************************************************************************)
EXTENDS Integers, Sequences, FiniteSets, SequencesExt

CONSTANTS Callers,      \* goroutines that run ServeHTTP
          LimitChoices, \* the <<max-active, max-waiting>> pairs the configuration may hold
          MaxRounds     \* bound: how often one caller enters Acquire

ASSUME LimiterAssumption ==
    /\ IsFiniteSet(Callers)
    /\ LimitChoices \subseteq (Nat \X Nat)
    /\ LimitChoices # {}
    /\ MaxRounds \in Nat

VARIABLES limits,   \* the configured <<max-active, max-waiting>>
          active,   \* Limiter.active
          waiters,  \* Limiter.waiters
          pc,       \* where each caller stands
          read,     \* the limits a caller read before it took the mutex
          canceled, \* callers whose context is done
          rounds    \* how often each caller entered Acquire

vars == <<limits, active, waiters, pc, read, canceled, rounds>>

Idle     == "idle"      \* outside Acquire, no permit
Entering == "entering"  \* has read the limits, waits for the mutex
Queued   == "queued"    \* joined the list, about to make its first test
Parked   == "parked"    \* in the select of the waiter loop
Woken    == "woken"     \* in the same select, its channel is closed
Held     == "held"      \* Acquire returned nil
Refused  == "refused"   \* Acquire returned ErrQueueFull
Gone     == "gone"      \* Acquire returned ctx.Err()

PCs     == {Idle, Entering, Queued, Parked, Woken, Held, Refused, Gone}
Waiting == {Queued, Parked, Woken}

Init ==
    /\ limits \in LimitChoices
    /\ active = 0
    /\ waiters = <<>>
    /\ pc = [c \in Callers |-> Idle]
    /\ read = [c \in Callers |-> limits]
    /\ canceled = {}
    /\ rounds = [c \in Callers |-> 0]

\* signalLocked: closing the channel wakes every parked caller.
Signal == [c \in Callers |-> IF pc[c] = Parked THEN Woken ELSE pc[c]]

-----------------------------------------------------------------------------
\* Acquire, before the mutex: limits() is read from the configuration store.
\* A caller that held a permit before is a new request, or the same request
\* with the same context on its way to the next attempt.
ReadLimits(c) ==
    /\ pc[c] \in {Idle, Refused, Gone}
    /\ rounds[c] < MaxRounds
    /\ rounds' = [rounds EXCEPT ![c] = @ + 1]
    /\ read' = [read EXCEPT ![c] = limits]
    /\ pc' = [pc EXCEPT ![c] = Entering]
    /\ \/ canceled' = canceled \ {c}
       \/ pc[c] = Idle /\ UNCHANGED canceled
    /\ UNCHANGED <<limits, active, waiters>>

\* Acquire, first critical section: take a permit, be refused, or queue up.
\* Neither the context nor the waiters are looked at before a permit is taken.
EnterFast(c) ==
    /\ pc[c] = Entering
    /\ active < read[c][1]
    /\ active' = active + 1
    /\ pc' = [pc EXCEPT ![c] = Held]
    /\ UNCHANGED <<limits, waiters, read, canceled, rounds>>

EnterRefused(c) ==
    /\ pc[c] = Entering
    /\ active >= read[c][1]
    /\ Len(waiters) >= read[c][2]
    /\ pc' = [pc EXCEPT ![c] = Refused]
    /\ UNCHANGED <<limits, active, waiters, read, canceled, rounds>>

EnterQueue(c) ==
    /\ pc[c] = Entering
    /\ active >= read[c][1]
    /\ Len(waiters) < read[c][2]
    /\ waiters' = Append(waiters, c)
    /\ pc' = [pc EXCEPT ![c] = Queued]
    /\ UNCHANGED <<limits, active, read, canceled, rounds>>

\* Slip: the head of the list goes on whether a permit is free or not.
CanTakeAnyway(c) ==
    /\ waiters # <<>>
    /\ Head(waiters) = c

\* The waiter loop, one critical section: the limits are read again, under
\* the mutex this time, and the head of the list takes a free permit.
CanTake(c) ==
    /\ waiters # <<>>
    /\ Head(waiters) = c
    /\ active < limits[1]

\* Slip: the permit of a waiter is not counted.
TakeUncounted(c) ==
    /\ pc[c] \in {Queued, Woken}
    /\ CanTake(c)
    /\ waiters' = Tail(waiters)
    /\ pc' = [Signal EXCEPT ![c] = Held]
    /\ UNCHANGED <<limits, active, read, canceled, rounds>>

Take(c) ==
    /\ pc[c] \in {Queued, Woken}
    /\ CanTake(c)
    /\ active' = active + 1
    /\ waiters' = Tail(waiters)
    /\ pc' = [Signal EXCEPT ![c] = Held]
    /\ UNCHANGED <<limits, read, canceled, rounds>>

Park(c) ==
    /\ pc[c] \in {Queued, Woken}
    /\ ~CanTake(c)
    /\ pc' = [pc EXCEPT ![c] = Parked]
    /\ UNCHANGED <<limits, active, waiters, read, canceled, rounds>>

\* Slip: a canceled waiter stays in the list.
AbandonInPlace(c) ==
    /\ pc[c] \in {Parked, Woken}
    /\ c \in canceled
    /\ pc' = [pc EXCEPT ![c] = Gone]
    /\ UNCHANGED <<limits, active, waiters, read, canceled, rounds>>

\* The select chose ctx.Done(), which it may do as well when its channel is
\* closed: removeWaiter drops the caller from the list and wakes the others.
Abandon(c) ==
    /\ pc[c] \in {Parked, Woken}
    /\ c \in canceled
    /\ \E i \in 1..Len(waiters) :
          waiters[i] = c /\ waiters' = RemoveAt(waiters, i)
    /\ pc' = [Signal EXCEPT ![c] = Gone]
    /\ UNCHANGED <<limits, active, read, canceled, rounds>>

\* Slip: nobody is woken.
ReleaseSilent(c) ==
    /\ pc[c] = Held
    /\ active' = IF active > 0 THEN active - 1 ELSE active
    /\ pc' = [pc EXCEPT ![c] = Idle]
    /\ UNCHANGED <<limits, waiters, read, canceled, rounds>>

\* Release: the active count never drops below zero, and everyone is woken.
Release(c) ==
    /\ pc[c] = Held
    /\ active' = IF active > 0 THEN active - 1 ELSE active
    /\ pc' = [Signal EXCEPT ![c] = Idle]
    /\ UNCHANGED <<limits, waiters, read, canceled, rounds>>

-----------------------------------------------------------------------------
\* The environment: a context ends (disconnect, cancel, deadline), and the
\* configuration is reloaded, which does not signal the limiter.
Cancel(c) ==
    /\ pc[c] \in {Entering} \cup Waiting
    /\ c \notin canceled
    /\ canceled' = canceled \cup {c}
    /\ UNCHANGED <<limits, active, waiters, pc, read, rounds>>

Reload ==
    /\ limits' \in LimitChoices \ {limits}
    /\ UNCHANGED <<active, waiters, pc, read, canceled, rounds>>

Enter(c) == EnterFast(c) \/ EnterRefused(c) \/ EnterQueue(c)
Loop(c)  == Take(c) \/ Park(c) \/ Abandon(c)

Next == \/ \E c \in Callers : \/ ReadLimits(c) \/ Enter(c) \/ Loop(c)
                              \/ Release(c) \/ Cancel(c)
        \/ Reload

Spec == Init /\ [][Next]_vars

\* Goroutines keep running, a woken or canceled select returns, and a request
\* that holds a permit ends its attempt: attempts, retry waits and requests
\* are bounded by time-outs.  Nothing makes requests arrive or be canceled.
Fairness == \A c \in Callers : /\ WF_vars(Enter(c))
                               /\ WF_vars(Loop(c))
                               /\ WF_vars(Release(c))

FairSpec == Spec /\ Fairness

-----------------------------------------------------------------------------
\* The variables have the types limiter.go gives them.
TypeOK ==
    /\ limits \in LimitChoices
    /\ active \in Nat
    /\ waiters \in Seq(Callers)
    /\ pc \in [Callers -> PCs]
    /\ read \in [Callers -> LimitChoices]
    /\ canceled \subseteq Callers
    /\ rounds \in [Callers -> 0..MaxRounds]

\* Limiter.active is the number of callers that own a permit: no path of
\* Acquire loses or duplicates one, whatever is canceled or reloaded.
PermitAccounting == active = Cardinality({c \in Callers : pc[c] = Held})

\* The list holds the callers inside the waiter loop, each once: a canceled
\* caller leaves no dead entry that would block everyone behind it.
QueueAccounting ==
    /\ IsInjective(waiters)
    /\ Range(waiters) = {c \in Callers : pc[c] \in Waiting}

\* Neither the queue nor the set of owners outgrows the largest limits a
\* caller may have read, although the limits are read before the mutex.
Bounded ==
    /\ \E l \in LimitChoices : active <= l[1]
    /\ \E l \in LimitChoices : Len(waiters) <= l[2]

\* The limiter implements the pool that ServeHTTP relies on.
Owning == {c \in Callers : pc[c] = Held}
InLine == {c \in Callers : pc[c] \in Waiting}
Pool   == INSTANCE PermitPool WITH holders <- Owning, queue <- InLine

\* Every step of Acquire and Release is a step of the pool or leaves its
\* holders and waiting callers alone.
ImplementsPool == Pool!PoolSpec

\* The caller sleeps in the select although a permit is there for it.
Asleep(c) == pc[c] = Parked /\ CanTake(c)

\* No wake-up is lost between the test of the waiter loop and its select:
\* nothing but a reload, which signals nobody, leaves a caller asleep beside a
\* free permit.
NoLostWakeup ==
    [][\A c \in Callers : Asleep(c)' => Asleep(c) \/ limits' # limits]_vars

\* Every caller that waits leaves the queue, with a permit or because its
\* context ended.
WaitersLeave == \A c \in Callers : pc[c] \in Waiting ~> pc[c] \notin Waiting

\* The queue is sound: right types, an entry for each waiter and no other, and
\* nothing above the limits.
QueueSound == TypeOK /\ QueueAccounting /\ Bounded
=============================================================================
