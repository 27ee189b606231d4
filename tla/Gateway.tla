------------------------------- MODULE Gateway -------------------------------
(***************************************************************************)
(* The life of proxied requests: Gateway.ServeHTTP and awaitRetry          *)
(* (internal/proxy/gateway.go, retry_schedule.go) running against the      *)
(* request registry (internal/state/registry.go), the concurrency limiter  *)
(* (module PermitPool), the pause controller, the client connection and    *)
(* the administrators who cancel, retry, reschedule and resolve requests.  *)
(*                                                                         *)
(* One worker goroutine serves each request.  A step of a worker is what   *)
(* it does between two points where another goroutine can interfere: a     *)
(* lock it gives up, a channel it selects on, an upstream attempt.  An     *)
(* administrator's call that acts after it has given up the registry lock  *)
(* takes two steps, with the second one recorded in op.                    *)
(***************************************************************************)
EXTENDS Naturals, FiniteSets, Lifecycle

CONSTANTS Requests,        \* requests that arrive
          LimitChoices,    \* queue limits, see PermitPool
          MaxAttempts,     \* bound: attempts of one request
          TrackUncertain,  \* lifecycle.track-uncertain-delivery
          AllowChoices,    \* values of lifecycle.allow-uncertain-retry, hot-reloadable
          FinishAttempt,   \* lifecycle.client-disconnect-policy = "finish-attempt"
          Events           \* what the environment may do: a subset of AllEvents

AllEvents == {"disconnect", "deadline", "journal", "control", "cancel",
              "retry", "policy", "resolve", "deny"}

ASSUME GatewayAssumption ==
    /\ IsFiniteSet(Requests)
    /\ LimitChoices \subseteq (Nat \X Nat)
    /\ MaxAttempts \in Nat \ {0}
    /\ TrackUncertain \in BOOLEAN
    /\ FinishAttempt \in BOOLEAN
    /\ AllowChoices \subseteq BOOLEAN /\ AllowChoices # {}
    /\ Events \subseteq AllEvents

VARIABLES pc,        \* where the worker of each request stands
          st,        \* RequestInfo.State, Absent when the registry has no entry
          res,       \* RequestInfo.UncertainResolution
          ctx,       \* the request context: live, canceled, past its deadline, or
                     \* released by its own worker
          gone,      \* clientDisconnected
          token,     \* the retryNow channel holds a token
          changed,   \* the policyChanged channel holds a token
          outcome,   \* the local variable outcome of ServeHTTP
          result,    \* the last attemptResult
          manual,    \* the local variable manualUncertainRetry of awaitRetry
          attempt,   \* attempts started
          wrote,     \* everWroteRequest: "no", or what became of what was written
          tl,        \* the timeline record: none, active, or its final state
          op,        \* administrators' calls that have yet to send their signal
          holders,   \* requests that hold a permit of the limiter
          queue,     \* requests that wait for a permit
          mode,      \* Controller.mode
          allow,     \* the configured allow-uncertain-retry
          journal    \* the request journal accepts entries

reg   == <<st, res, token, changed, tl>>
local == <<outcome, result, manual, attempt, wrote>>
pool  == <<holders, queue>>
env   == <<mode, allow, journal>>
vars  == <<pc, reg, local, ctx, gone, op, pool, env>>

Absent == "absent"

\* Where a worker can be.  The points that hold a permit lie between the two
\* calls of the limiter.
HoldingPoints == {"gate", "start", "attempt", "doomed", "deliver", "await",
                  "manual", "schedule", "wait", "resume"}
Points == HoldingPoints \cup {"new", "reading", "admitted", "acquire", "line",
                             "finish", "remove", "done"}

\* The kinds of attemptResult a failed attempt can have: headers arrived;
\* they arrived and the failure is permanent; the request was written and no
\* headers came; nothing is known to have been written (a write that races
\* with the return of client.Do counts as this too); no target could be
\* selected, in which case the result repeats everWroteRequest.
FailureKinds == {"response", "permanent", "lost", "unsent", "notarget"}
ResultKinds  == FailureKinds \cup {"none", "success"}

Confirm    == "confirm_success"
Abandon    == "abandon"
Compensate == "request_compensation"
Resolutions == {Confirm, Abandon, Compensate}

Init ==
    /\ pc      = [r \in Requests |-> "new"]
    /\ st      = [r \in Requests |-> Absent]
    /\ res     = [r \in Requests |-> ""]
    /\ ctx     = [r \in Requests |-> "live"]
    /\ gone    = [r \in Requests |-> FALSE]
    /\ token   = [r \in Requests |-> FALSE]
    /\ changed = [r \in Requests |-> FALSE]
    /\ outcome = [r \in Requests |-> Failed]
    /\ result  = [r \in Requests |-> "none"]
    /\ manual  = [r \in Requests |-> FALSE]
    /\ attempt = [r \in Requests |-> 0]
    /\ wrote   = [r \in Requests |-> "no"]
    /\ tl      = [r \in Requests |-> "none"]
    /\ op      = [r \in Requests |-> {}]
    /\ holders = {}
    /\ queue   = {}
    /\ mode    = "running"
    /\ allow   \in AllowChoices
    /\ journal = TRUE

Pool == INSTANCE PermitPool WITH Callers <- Requests

Goto(r, p) == pc' = [pc EXCEPT ![r] = p]

\* UpdateMessage: an unknown request and an invalid transition are ignored.
Moved(s, to) == IF s # Absent /\ ValidTransition(s, to) THEN to ELSE s
Move(r, to)  == st' = [st EXCEPT ![r] = Moved(@, to)]

\* Registry.Remove: an invalid transition leaves the entry where it is, and so
\* does a journal that refuses the final entry of the timeline.
Remove(r, o) ==
    IF journal /\ ValidTransition(st[r], o)
    THEN /\ st' = [st EXCEPT ![r] = Absent]
         /\ tl' = [tl EXCEPT ![r] = o]
    ELSE UNCHANGED <<st, tl>>

\* cancel() on the context of a request: only the first end of a context
\* counts.
Ended(r, how) == [ctx EXCEPT ![r] = IF @ = "live" THEN how ELSE @]

-----------------------------------------------------------------------------
\* ServeHTTP asks the controller, then reads the request body; the gateway
\* may stop accepting requests while it does.
Accept(r) ==
    /\ pc[r] = "new"
    /\ mode \in {"running", "paused"}
    /\ Goto(r, "reading")
    /\ UNCHANGED <<reg, local, ctx, gone, op, pool, env>>

\* AddWithIdentityChecked: the timeline anchor is written first, then the
\* request becomes visible as queued.
Register(r) ==
    /\ pc[r] = "reading"
    /\ journal
    /\ st' = [st EXCEPT ![r] = Queued]
    /\ tl' = [tl EXCEPT ![r] = "active"]
    /\ Goto(r, "admitted")
    /\ UNCHANGED <<res, token, changed, local, ctx, gone, op, pool, env>>

\* The answers given before anything is registered: not accepting, a body
\* that is too large, too little disk space, no journal.
TurnAway(r) ==
    /\ \/ pc[r] = "new" /\ mode \notin {"running", "paused"}
       \/ pc[r] = "reading" /\ (~journal \/ "deny" \in Events)
    /\ Goto(r, "done")
    /\ UNCHANGED <<reg, local, ctx, gone, op, pool, env>>

\* A traffic policy or a governance budget denies the request.
Deny(r) ==
    /\ "deny" \in Events
    /\ pc[r] = "admitted"
    /\ ctx' = Ended(r, "released")
    /\ Remove(r, Rejected)
    /\ Goto(r, "done")
    /\ UNCHANGED <<res, token, changed, local, gone, op, pool, env>>

Admit(r) ==
    /\ pc[r] = "admitted"
    /\ Goto(r, "acquire")
    /\ UNCHANGED <<reg, local, ctx, gone, op, pool, env>>

\* Limiter.Acquire, called before the first attempt and before every retry.
\* A full queue rejects the request.  So does any error on the way to a retry,
\* the end of the context included.
Acquire(r) ==
    /\ pc[r] = "acquire"
    /\ \/ Pool!Grab(r) /\ Goto(r, "gate") /\ UNCHANGED outcome
       \/ Pool!Enqueue(r) /\ Goto(r, "line") /\ UNCHANGED outcome
       \/ /\ Pool!Refuse(r) /\ Goto(r, "finish")
          /\ outcome' = [outcome EXCEPT ![r] = Rejected]
    /\ UNCHANGED <<reg, result, manual, attempt, wrote, ctx, gone, op, env>>

Line(r) ==
    /\ pc[r] = "line"
    /\ \/ Pool!Grant(r) /\ Goto(r, "gate") /\ UNCHANGED outcome
       \/ /\ ctx[r] # "live" /\ Pool!Quit(r) /\ Goto(r, "finish")
          /\ outcome' = [outcome EXCEPT ![r] = IF attempt[r] = 0 THEN @ ELSE Rejected]
    /\ UNCHANGED <<reg, result, manual, attempt, wrote, ctx, gone, op, env>>

-----------------------------------------------------------------------------
\* Controller.Wait: a paused gateway holds the attempt back.  The context is
\* looked at only while the gateway is paused.
Gate(r) ==
    /\ pc[r] = "gate"
    /\ \/ mode # "paused" /\ Goto(r, "start")
       \/ mode = "paused" /\ ctx[r] # "live" /\ Goto(r, "finish")
    /\ UNCHANGED <<reg, local, ctx, gone, op, pool, env>>

\* RetryGate.Wait between two attempts, interrupted by the context.
Spacing(r) ==
    /\ pc[r] = "start"
    /\ attempt[r] > 0 /\ ctx[r] # "live"
    /\ Goto(r, "finish")
    /\ UNCHANGED <<reg, local, ctx, gone, op, pool, env>>

\* The attempt becomes visible and is written to the timeline; an approved
\* compensation is used up.  Without the journal no attempt is made.  An
\* attempt whose context has already ended is refused by the HTTP client.
Start(r) ==
    /\ pc[r] = "start"
    /\ Move(r, Forwarding)
    /\ res' = [res EXCEPT ![r] =
                 IF ValidTransition(st[r], Forwarding) /\ @ = Compensate THEN "" ELSE @]
    /\ attempt' = [attempt EXCEPT ![r] = @ + 1]
    /\ Goto(r, IF ~journal THEN "finish" ELSE IF ctx[r] = "live" THEN "attempt" ELSE "doomed")
    /\ UNCHANGED <<token, changed, tl, outcome, result, manual, wrote,
                   ctx, gone, op, pool, env>>

\* The client left and the attempt was only to be finished.
Pointless(r) == gone[r] /\ FinishAttempt

\* Governance refuses the attempt, or its ledger cannot record it: the request
\* fails without a retry.
Governed(r) ==
    /\ "deny" \in Events
    /\ pc[r] \in {"attempt", "doomed"}
    /\ Goto(r, "finish")
    /\ UNCHANGED <<reg, local, ctx, gone, op, pool, env>>

\* everWroteRequest after an attempt; once an attempt was lost, it stays lost.
Written(w, kind) ==
    CASE kind = "lost"                                         -> "lost"
      [] kind \in {"response", "permanent", "success"} /\ w = "no" -> "answered"
      [] OTHER                                                 -> w

\* A complete, validated response: buffered, then delivered.
Succeed(r) ==
    /\ pc[r] = "attempt"
    /\ result' = [result EXCEPT ![r] = "success"]
    /\ wrote' = [wrote EXCEPT ![r] = Written(@, "success")]
    /\ IF Pointless(r)
       THEN Goto(r, "finish") /\ UNCHANGED st
       ELSE /\ st' = [st EXCEPT ![r] = Moved(Moved(@, Buffering), Delivering)]
            /\ Goto(r, "deliver")
    /\ UNCHANGED <<res, token, changed, tl, outcome, manual, attempt,
                   ctx, gone, op, pool, env>>

\* result.response == nil && result.wroteRequest && TrackUncertainDelivery
InDoubt(r, kind) ==
    TrackUncertain /\ (kind = "lost" \/ (kind = "notarget" /\ wrote[r] # "no"))

\* A failed attempt.  Outcomes that ask for another attempt are cut off at
\* the bound MaxAttempts, where the retry limit denies the retry.
Fail(r, kind) ==
    /\ \/ pc[r] = "attempt"
       \/ pc[r] = "doomed" /\ kind \in {"unsent", "notarget"}
    /\ attempt[r] < MaxAttempts \/ kind \in {"response", "permanent", "unsent"}
    /\ result' = [result EXCEPT ![r] = kind]
    /\ wrote' = [wrote EXCEPT ![r] = Written(@, kind)]
    /\ manual' = [manual EXCEPT ![r] = FALSE]
    /\ IF Pointless(r)
       THEN Goto(r, "finish") /\ UNCHANGED st
       ELSE /\ CASE kind \in {"response", "permanent"} -> Move(r, Buffering)
                 [] InDoubt(r, kind)                   -> Move(r, Uncertain)
                 [] OTHER                              -> UNCHANGED st
            /\ Goto(r, IF journal THEN "await" ELSE "finish")
    /\ UNCHANGED <<res, token, changed, tl, outcome, attempt,
                   ctx, gone, op, pool, env>>

\* downstream.deliver succeeds or fails.
Deliver(r) ==
    /\ pc[r] = "deliver"
    /\ \/ /\ Move(r, Completed)
          /\ outcome' = [outcome EXCEPT ![r] = Successful]
       \/ UNCHANGED <<st, outcome>>
    /\ Goto(r, "finish")
    /\ UNCHANGED <<res, token, changed, tl, result, manual, attempt, wrote,
                   ctx, gone, op, pool, env>>

-----------------------------------------------------------------------------
\* awaitRetry, top of the loop: an attempt in doubt waits for an administrator
\* unless uncertain retries are allowed or one was just approved.
Blocked(r) == InDoubt(r, result[r]) /\ ~allow /\ ~manual[r]

Await(r) ==
    /\ pc[r] = "await"
    /\ IF Blocked(r)
       THEN Move(r, Uncertain) /\ Goto(r, "manual")
       ELSE UNCHANGED st /\ Goto(r, "schedule")
    /\ UNCHANGED <<res, token, changed, tl, local, ctx, gone, op, pool, env>>

\* Slip: a changed retry policy counts as the operator's approval.
ManualOnPolicy(r) ==
    /\ pc[r] = "manual"
    /\ \/ /\ ctx[r] # "live"
          /\ Goto(r, "finish")
          /\ UNCHANGED <<token, changed, manual>>
       \/ /\ token[r] \/ changed[r]
          /\ token' = [token EXCEPT ![r] = FALSE]
          /\ changed' = [changed EXCEPT ![r] = FALSE]
          /\ manual' = [manual EXCEPT ![r] = TRUE]
          /\ Goto(r, "schedule")
    /\ UNCHANGED <<st, res, tl, outcome, result, attempt, wrote, ctx, gone, op, pool, env>>

\* Slip: the select leaves out the context.
ManualDeaf(r) ==
    /\ pc[r] = "manual"
    /\ token[r]
    /\ token' = [token EXCEPT ![r] = FALSE]
    /\ manual' = [manual EXCEPT ![r] = TRUE]
    /\ Goto(r, "schedule")
    /\ UNCHANGED <<st, res, changed, tl, outcome, result, attempt, wrote,
                   ctx, gone, op, pool, env>>

\* waitForManualRetry: a select over the context, the retry token and the
\* policy token.
Manual(r) ==
    /\ pc[r] = "manual"
    /\ \/ /\ ctx[r] # "live"
          /\ Goto(r, "finish")
          /\ UNCHANGED <<token, changed, manual>>
       \/ /\ token[r]
          /\ token' = [token EXCEPT ![r] = FALSE]
          /\ manual' = [manual EXCEPT ![r] = TRUE]
          /\ Goto(r, "schedule")
          /\ UNCHANGED changed
       \/ /\ changed[r]
          /\ changed' = [changed EXCEPT ![r] = FALSE]
          /\ Goto(r, "await")
          /\ UNCHANGED <<token, manual>>
    /\ UNCHANGED <<st, res, tl, outcome, result, attempt, wrote, ctx, gone, op, pool, env>>

\* Slip: the wait is scheduled but not shown.
ScheduleUnseen(r) ==
    /\ pc[r] = "schedule"
    /\ result[r] # "permanent" /\ attempt[r] < MaxAttempts
    /\ Goto(r, "wait")
    /\ UNCHANGED <<reg, local, ctx, gone, op, pool, env>>

\* retryPolicyStop: a permanent failure ends the request, whatever else holds.
\* Otherwise the retry limit or a retry policy may end it; an approved retry
\* of an attempt in doubt overrides the limit but not the policy.
Schedule(r) ==
    /\ pc[r] = "schedule"
    /\ result[r] # "permanent" /\ attempt[r] < MaxAttempts
    /\ Move(r, Waiting)
    /\ Goto(r, "wait")
    /\ UNCHANGED <<res, token, changed, tl, local, ctx, gone, op, pool, env>>

Stop(r) ==
    /\ pc[r] = "schedule"
    /\ "policy" \in Events \/ ~(manual[r] /\ InDoubt(r, result[r]))
    /\ Goto(r, "finish")
    /\ UNCHANGED <<reg, local, ctx, gone, op, pool, env>>

\* The retry window (retry.max-elapsed, or the deadline of a retry policy)
\* has passed: seen before, or right after, the wait.
Elapse(r) ==
    /\ "deadline" \in Events
    /\ pc[r] \in {"await", "schedule", "wait"}
    /\ outcome' = [outcome EXCEPT ![r] = Expired]
    /\ Goto(r, "finish")
    /\ UNCHANGED <<reg, result, manual, attempt, wrote, ctx, gone, op, pool, env>>

\* waitForRetry: a select over the context, the two tokens and the timer.
Wait(r) ==
    /\ pc[r] = "wait"
    /\ \/ /\ ctx[r] # "live"
          /\ Goto(r, "finish")
          /\ UNCHANGED <<token, changed>>
       \/ /\ token[r]
          /\ token' = [token EXCEPT ![r] = FALSE]
          /\ Goto(r, "resume")
          /\ UNCHANGED changed
       \/ /\ changed[r]
          /\ changed' = [changed EXCEPT ![r] = FALSE]
          /\ Goto(r, "await")
          /\ UNCHANGED token
       \/ /\ Goto(r, "resume")
          /\ UNCHANGED <<token, changed>>
    /\ UNCHANGED <<st, res, tl, local, ctx, gone, op, pool, env>>

\* Slip: the permit is kept while the next one is asked for.
ResumeKeepsPermit(r) ==
    /\ pc[r] = "resume"
    /\ Goto(r, "acquire")
    /\ UNCHANGED <<reg, local, ctx, gone, op, pool, env>>

\* The permit is given back before a new one is asked for.
Resume(r) ==
    /\ pc[r] = "resume"
    /\ Pool!GiveBack(r)
    /\ Goto(r, "acquire")
    /\ UNCHANGED <<reg, local, ctx, gone, op, env>>

-----------------------------------------------------------------------------
\* An outcome that is not an answer gives way to the end of the context.
OfContext(r) ==
    IF outcome[r] \in {Successful, Rejected} THEN outcome[r]
    ELSE IF ctx[r] = "expired" THEN Expired
    ELSE IF ctx[r] # "live" \/ gone[r] THEN Canceled
    ELSE outcome[r]

\* Slip: every decision counts as a confirmation.
SettledByAny(r) == IF res[r] # "" THEN ConfirmedSuccess ELSE OfContext(r)

\* Slip: the context is asked before the operator's decision, which ends it.
SettledByContext(r) ==
    IF OfContext(r) # outcome[r] THEN OfContext(r)
    ELSE IF res[r] = Confirm THEN ConfirmedSuccess
    ELSE IF res[r] = Abandon THEN Abandoned
    ELSE outcome[r]

\* The deferred functions of ServeHTTP: the permit is given back, and the
\* outcome is settled from the operator's resolution and the context.
Settled(r) ==
    IF res[r] = Confirm THEN ConfirmedSuccess
    ELSE IF res[r] = Abandon THEN Abandoned
    ELSE OfContext(r)

Finish(r) ==
    /\ pc[r] = "finish"
    /\ holders' = holders \ {r}
    /\ outcome' = [outcome EXCEPT ![r] = Settled(r)]
    /\ ctx' = Ended(r, "released")
    /\ Goto(r, "remove")
    /\ UNCHANGED <<reg, result, manual, attempt, wrote, gone, op, queue, env>>

\* The registry is asked to remove the request only after the resolution was
\* read: another critical section.
Depart(r) ==
    /\ pc[r] = "remove"
    /\ Remove(r, outcome[r])
    /\ Goto(r, "done")
    /\ UNCHANGED <<res, token, changed, local, ctx, gone, op, pool, env>>

Worker(r) ==
    \/ Accept(r) \/ Register(r) \/ TurnAway(r) \/ Deny(r) \/ Admit(r) \/ Acquire(r) \/ Line(r)
    \/ Gate(r) \/ Spacing(r) \/ Start(r) \/ Governed(r) \/ Succeed(r)
    \/ (\E kind \in FailureKinds : Fail(r, kind)) \/ Deliver(r)
    \/ Await(r) \/ Manual(r) \/ Schedule(r) \/ Stop(r) \/ Elapse(r) \/ Wait(r)
    \/ Resume(r) \/ Finish(r) \/ Depart(r)

-----------------------------------------------------------------------------
\* An administrator's call that was accepted and has left the lock.
Signals == {"cancel", "retry", "policy"}

Issue(r, signal) ==
    /\ signal \notin op[r]
    /\ op' = [op EXCEPT ![r] = @ \cup {signal}]

\* CancelChecked: written to the timeline under the lock, cancel() after it.
AdminCancel(r) ==
    /\ "cancel" \in Events
    /\ st[r] # Absent /\ CanCancel(st[r]) /\ journal
    /\ Issue(r, "cancel")
    /\ UNCHANGED <<pc, reg, local, ctx, gone, pool, env>>

\* RetryNowChecked, one request or all waiting ones at shutdown: the state is
\* read under the lock, the token is sent after it.
AdminRetry(r) ==
    /\ "retry" \in Events
    /\ CanRetryNow(st[r])
    /\ Issue(r, "retry")
    /\ UNCHANGED <<pc, reg, local, ctx, gone, pool, env>>

\* ApplyRetryPolicy and ClearRetryPolicy on a waiting request; in the other
\* states no signal is sent.
AdminPolicy(r) ==
    /\ "policy" \in Events
    /\ CanSetRetryPolicy(st[r]) /\ st[r] = Waiting /\ journal
    /\ Issue(r, "policy")
    /\ UNCHANGED <<pc, reg, local, ctx, gone, pool, env>>

\* ResolveUncertain: only in the uncertain state, only once.  The decision is
\* recorded under the lock, the worker is woken after it.
AdminResolve(r, x) ==
    /\ "resolve" \in Events
    /\ st[r] = Uncertain /\ res[r] = "" /\ journal
    /\ res' = [res EXCEPT ![r] = x]
    /\ Issue(r, IF x = Compensate THEN "retry" ELSE "cancel")
    /\ UNCHANGED <<pc, st, token, changed, tl, local, ctx, gone, pool, env>>

\* Slip: the context of a resolved request is not canceled.
AdminSignalMute(r, signal) ==
    /\ signal \in op[r]
    /\ op' = [op EXCEPT ![r] = @ \ {signal}]
    /\ token' = [token EXCEPT ![r] = @ \/ signal = "retry"]
    /\ changed' = [changed EXCEPT ![r] = @ \/ signal = "policy"]
    /\ UNCHANGED <<pc, st, res, tl, local, ctx, gone, pool, env>>

\* The second half of these calls; a full channel drops the token.
AdminSignal(r, signal) ==
    /\ signal \in op[r]
    /\ op' = [op EXCEPT ![r] = @ \ {signal}]
    /\ ctx' = IF signal = "cancel" THEN Ended(r, "canceled") ELSE ctx
    /\ token' = [token EXCEPT ![r] = @ \/ signal = "retry"]
    /\ changed' = [changed EXCEPT ![r] = @ \/ signal = "policy"]
    /\ UNCHANGED <<pc, st, res, tl, local, gone, pool, env>>

Admin(r) == \/ AdminCancel(r) \/ AdminRetry(r) \/ AdminPolicy(r)
            \/ (\E x \in Resolutions : AdminResolve(r, x))

\* The client goes away.
Disconnect(r) ==
    /\ "disconnect" \in Events
    /\ pc[r] \notin {"new", "done"} /\ ~gone[r]
    /\ gone' = [gone EXCEPT ![r] = TRUE]
    /\ ctx' = IF FinishAttempt THEN ctx ELSE Ended(r, "canceled")
    /\ UNCHANGED <<pc, reg, local, op, pool, env>>

\* lifecycle.max-request-duration is over.
Deadline(r) ==
    /\ "deadline" \in Events
    /\ pc[r] \notin {"new", "done"} /\ ctx[r] = "live"
    /\ ctx' = [ctx EXCEPT ![r] = "expired"]
    /\ UNCHANGED <<pc, reg, local, gone, op, pool, env>>

\* Controller: Pause works only when running, the others from every mode.
Control(m) ==
    /\ "control" \in Events
    /\ mode # m
    /\ m = "paused" => mode = "running"
    /\ mode' = m
    /\ UNCHANGED <<pc, reg, local, ctx, gone, op, pool, allow, journal>>

\* The journal degrades and refuses entries from now on.
JournalFails ==
    /\ "journal" \in Events
    /\ journal /\ journal' = FALSE
    /\ UNCHANGED <<pc, reg, local, ctx, gone, op, pool, mode, allow>>

Reload ==
    /\ allow' \in AllowChoices \ {allow}
    /\ UNCHANGED <<pc, reg, local, ctx, gone, op, pool, mode, journal>>

Environment ==
    \/ \E r \in Requests : Admin(r) \/ Disconnect(r) \/ Deadline(r)
    \/ \E m \in {"running", "paused", "draining", "maintenance"} : Control(m)
    \/ JournalFails \/ Reload

AllDone == \A r \in Requests : pc[r] = "done"

\* Nothing is left to do once every request was served.
Terminated == AllDone /\ UNCHANGED vars

Next == \/ \E r \in Requests : Worker(r)
        \/ \E r \in Requests, signal \in Signals : AdminSignal(r, signal)
        \/ Environment
        \/ Terminated

Spec == Init /\ [][Next]_vars

\* A worker goroutine keeps running while it can, an administrator's call
\* that has been accepted runs to its end, and a deadline passes.
Fairness == \A r \in Requests : /\ WF_vars(Worker(r))
                                /\ \A signal \in Signals : WF_vars(AdminSignal(r, signal))
                                /\ WF_vars(Deadline(r))

FairSpec == Spec /\ Fairness

-----------------------------------------------------------------------------
\* The variables have the types of the source.
TypeOK ==
    /\ pc      \in [Requests -> Points]
    /\ st      \in [Requests -> LiveStates \cup {Absent}]
    /\ res     \in [Requests -> Resolutions \cup {""}]
    /\ ctx     \in [Requests -> {"live", "canceled", "expired", "released"}]
    /\ gone    \in [Requests -> BOOLEAN]
    /\ token   \in [Requests -> BOOLEAN]
    /\ changed \in [Requests -> BOOLEAN]
    /\ outcome \in [Requests -> TerminalStates]
    /\ result  \in [Requests -> ResultKinds]
    /\ manual  \in [Requests -> BOOLEAN]
    /\ attempt \in [Requests -> Nat]
    /\ wrote   \in [Requests -> {"no", "answered", "lost"}]
    /\ tl      \in [Requests -> TerminalStates \cup {"none", "active"}]
    /\ op      \in [Requests -> SUBSET Signals]
    /\ holders \subseteq Requests
    /\ queue   \subseteq Requests
    /\ mode    \in {"running", "paused", "draining", "maintenance"}
    /\ allow   \in BOOLEAN
    /\ journal \in BOOLEAN

\* permitHeld of ServeHTTP is right on every path: a worker between Acquire
\* and Release owns exactly one permit, a worker anywhere else owns none and
\* waits for none, so a request that ended, however it ended, gives its
\* permit back and leaves the queue.
PermitDiscipline ==
    \A r \in Requests :
        /\ pc[r] \in HoldingPoints => r \in holders
        /\ r \in holders => pc[r] \in HoldingPoints \cup {"finish"}
        /\ r \in queue <=> pc[r] = "line"

\* What the registry shows is where the worker is: UpdateMessage drops invalid
\* transitions without a word, so nothing but the order of the calls in
\* ServeHTTP and awaitRetry keeps the two together.
StateMatchesWorker ==
    \A r \in Requests :
        /\ pc[r] \in {"admitted"}          => st[r] = Queued
        /\ pc[r] \in {"attempt", "doomed"} => st[r] = Forwarding
        /\ pc[r] = "deliver"               => st[r] = Delivering
        /\ pc[r] = "manual"                => st[r] = Uncertain /\ wrote[r] # "no"
        /\ pc[r] \in {"wait", "resume"}    => st[r] = Waiting
        /\ pc[r] \in {"acquire", "line", "gate", "start"} =>
               st[r] = IF attempt[r] = 0 THEN Queued ELSE Waiting

\* The final entry of the timeline tells what happened: success only for a
\* response that was delivered, a rejection only for a request no attempt was
\* made for, an operator's verdict only if an operator gave it, cancellation
\* and expiry only if the context or the client ended.
OutcomeJustified ==
    \A r \in Requests :
        /\ tl[r] = Successful       => result[r] = "success"
        /\ tl[r] = Rejected         => attempt[r] = 0
        /\ tl[r] = ConfirmedSuccess => res[r] = Confirm /\ wrote[r] # "no"
        /\ tl[r] = Abandoned        => res[r] = Abandon /\ wrote[r] # "no"
        /\ tl[r] = Canceled         => ctx[r] = "canceled" \/ gone[r]
        /\ tl[r] = Failed           => attempt[r] > 0

\* With a working journal a request that was served leaves the registry.  The
\* two exceptions are the outcomes Remove refuses in the state the request is
\* in: a retry that got no permit, and an operator's verdict that reached the
\* worker after it had left the uncertain state.
LeavesRegistry ==
    \A r \in Requests :
        (pc[r] = "done" /\ st[r] # Absent /\ journal) =>
            \/ outcome[r] = Rejected /\ st[r] = Waiting
            \/ res[r] \in {Confirm, Abandon} /\ st[r] # Uncertain

\* How a request ends: with a true final entry, and out of the registry
\* (gateway.go complete, registry.go Remove).
EndsRight == OutcomeJustified /\ LeavesRegistry

\* After an attempt in doubt no further attempt starts without the operator's
\* approval, unless the configuration allows uncertain retries.
UncertainNeedsOperator ==
    [][\A r \in Requests :
         (attempt'[r] > attempt[r] /\ InDoubt(r, result[r]) /\ ~allow)
            => res[r] = Compensate]_vars

\* A verdict that ResolveUncertain accepted is the final state of the request,
\* unless the journal could not take it.
ResolutionHonoured ==
    \A r \in Requests :
        (pc[r] = "done" /\ journal) =>
            /\ res[r] = Confirm => tl[r] = ConfirmedSuccess
            /\ res[r] = Abandon => tl[r] = Abandoned

\* No wake-up of an operator is lost: a verdict that was accepted ends the
\* request, wherever its worker has got to, and an approved compensation gets
\* the worker out of its wait.
ResolutionWakes ==
    \A r \in Requests :
        /\ res[r] \in {Confirm, Abandon} ~> pc[r] = "done"
        /\ (pc[r] = "manual" /\ res[r] = Compensate) ~> pc[r] # "manual"

\* Every request that is registered is served to its end once its deadline has
\* passed, wherever it waits: for a permit, a resume, an operator or a retry.
EveryRequestEnds == \A r \in Requests : pc[r] = "admitted" ~> pc[r] = "done"
=============================================================================
