---------------------------- MODULE GatewayProofs ----------------------------
(***************************************************************************)
(* Theorems about Gateway, for every set of requests, every queue limits,  *)
(* every bound on attempts and every choice of environment events.         *)
(***************************************************************************)
EXTENDS Gateway, TLAPS

\* UpdateMessage leaves a live state or no entry at all.
LEMMA MovedType ==
    ASSUME NEW s \in LiveStates \cup {Absent}, NEW to \in LiveStates
    PROVE  Moved(s, to) \in LiveStates \cup {Absent}
BY DEF Moved

\* The states the workers move a request to are live ones, the outcomes they
\* report are final ones.
LEMMA StateNames ==
    /\ Queued \in LiveStates /\ Forwarding \in LiveStates /\ Uncertain \in LiveStates
    /\ Waiting \in LiveStates /\ Buffering \in LiveStates /\ Delivering \in LiveStates
    /\ Completed \in LiveStates
    /\ Successful \in TerminalStates /\ Failed \in TerminalStates
    /\ Canceled \in TerminalStates /\ Rejected \in TerminalStates
    /\ Expired \in TerminalStates /\ ConfirmedSuccess \in TerminalStates
    /\ Abandoned \in TerminalStates
BY DEF LiveStates, TerminalStates

\* UpdateMessage keeps the type of the registry entries.
LEMMA MoveType ==
    ASSUME TypeOK, NEW r \in Requests, NEW to \in LiveStates
    PROVE  [st EXCEPT ![r] = Moved(@, to)] \in [Requests -> LiveStates \cup {Absent}]
BY MovedType DEF TypeOK

\* Remove keeps the types of the registry entry and of the timeline.
LEMMA RemoveType ==
    ASSUME TypeOK, NEW r \in Requests, NEW o \in TerminalStates, Remove(r, o)
    PROVE  /\ st' \in [Requests -> LiveStates \cup {Absent}]
           /\ tl' \in [Requests -> TerminalStates \cup {"none", "active"}]
<1>1. CASE journal /\ ValidTransition(st[r], o)
  BY <1>1, ZenonT(60) DEF Remove, TypeOK
<1>2. CASE ~(journal /\ ValidTransition(st[r], o))
  BY <1>2 DEF Remove, TypeOK
<1> QED BY <1>1, <1>2

\* Every step of ServeHTTP, of the administrators and of the environment keeps
\* the types of the registry, the limiter and the workers.
THEOREM TypeCorrect == Spec => []TypeOK
<1>1. Init => TypeOK
  <2> SUFFICES ASSUME Init PROVE TypeOK
    OBVIOUS
  <2>1. /\ pc \in [Requests -> Points]
        /\ st \in [Requests -> LiveStates \cup {Absent}]
        /\ outcome \in [Requests -> TerminalStates]
        /\ result \in [Requests -> ResultKinds]
    BY StateNames DEF Init, Points, ResultKinds
  <2>2. allow \in BOOLEAN
    BY GatewayAssumption DEF Init
  <2> QED BY <2>1, <2>2 DEF Init, TypeOK
<1>2. TypeOK /\ [Next]_vars => TypeOK'
  <2> SUFFICES ASSUME TypeOK, [Next]_vars PROVE TypeOK'
    OBVIOUS
  <2>0. st \in [Requests -> LiveStates \cup {Absent}]
    BY DEF TypeOK
  <2> USE DEF reg, local, pool, env, Goto
  <2>1. ASSUME NEW r \in Requests, Worker(r) PROVE TypeOK'
    <3>1. CASE Accept(r)
      BY <3>1 DEF TypeOK, Accept, Points
    <3>2. CASE Register(r)
      BY <3>2, StateNames DEF TypeOK, Register, Points
    <3>3. CASE TurnAway(r)
      BY <3>3 DEF TypeOK, TurnAway, Points
    <3>4. CASE Deny(r)
      <4>1. Rejected \in TerminalStates
        BY StateNames
      <4>2. Remove(r, Rejected)
        BY <3>4 DEF Deny
      <4> QED BY <3>4, <4>1, <4>2, RemoveType DEF TypeOK, Deny, Points, Ended
    <3>5. CASE Admit(r)
      BY <3>5 DEF TypeOK, Admit, Points
    <3>6. CASE Acquire(r)
      <4>1. CASE Pool!Grab(r) /\ Goto(r, "gate") /\ UNCHANGED outcome
        BY <3>6, <4>1 DEF TypeOK, Acquire, Points, HoldingPoints, Pool!Grab
      <4>2. CASE Pool!Enqueue(r) /\ Goto(r, "line") /\ UNCHANGED outcome
        BY <3>6, <4>2 DEF TypeOK, Acquire, Points, Pool!Enqueue
      <4>3. CASE /\ Pool!Refuse(r) /\ Goto(r, "finish")
                 /\ outcome' = [outcome EXCEPT ![r] = Rejected]
        BY <3>6, <4>3, StateNames DEF TypeOK, Acquire, Points, Pool!Refuse, Pool!poolVars
      <4> QED BY <3>6, <4>1, <4>2, <4>3 DEF Acquire
    <3>7. CASE Line(r)
      <4>1. CASE Pool!Grant(r) /\ Goto(r, "gate") /\ UNCHANGED outcome
        BY <3>7, <4>1 DEF TypeOK, Line, Points, HoldingPoints, Pool!Grant
      <4>2. CASE /\ Pool!Quit(r) /\ Goto(r, "finish")
                 /\ outcome' = [outcome EXCEPT ![r] = IF attempt[r] = 0 THEN @ ELSE Rejected]
        BY <3>7, <4>2, StateNames DEF TypeOK, Line, Points, Pool!Quit
      <4> QED BY <3>7, <4>1, <4>2 DEF Line
    <3>8. CASE Gate(r)
      BY <3>8 DEF TypeOK, Gate, Points, HoldingPoints
    <3>9. CASE Spacing(r)
      BY <3>9 DEF TypeOK, Spacing, Points
    <3>10. CASE Start(r)
      <4>1. st' \in [Requests -> LiveStates \cup {Absent}]
        BY <3>10, StateNames, MoveType DEF Start, Move
      <4>2. res' \in [Requests -> Resolutions \cup {""}]
        BY <3>10 DEF TypeOK, Start
      <4>3. pc' \in [Requests -> Points]
        BY <3>10 DEF TypeOK, Start, Points, HoldingPoints
      <4>4. attempt' \in [Requests -> Nat]
        <5>1. attempt \in [Requests -> Nat]
          BY DEF TypeOK
        <5>2. attempt' = [attempt EXCEPT ![r] = @ + 1]
          BY <3>10 DEF Start
        <5> QED BY <5>1, <5>2
      <4>5. UNCHANGED <<token, changed, tl, outcome, result, manual, wrote,
                        ctx, gone, op, pool, env>>
        BY <3>10 DEF Start
      <4> QED BY <4>1, <4>2, <4>3, <4>4, <4>5 DEF TypeOK
    <3>11. CASE Governed(r)
      BY <3>11 DEF TypeOK, Governed, Points
    <3>12. CASE Succeed(r)
      <4>1. Moved(Moved(st[r], Buffering), Delivering) \in LiveStates \cup {Absent}
        BY <2>0, StateNames, MovedType
      <4>2. st' \in [Requests -> LiveStates \cup {Absent}]
        BY <2>0, <3>12, <4>1 DEF Succeed
      <4> QED BY <3>12, <4>2 DEF TypeOK, Succeed, Points, HoldingPoints, Written, ResultKinds
    <3>13. ASSUME NEW kind \in FailureKinds, Fail(r, kind) PROVE TypeOK'
      <4>1. st' \in [Requests -> LiveStates \cup {Absent}]
        BY <2>0, <3>13, StateNames, MoveType DEF Fail, Move
      <4> QED BY <3>13, <4>1, ZenonT(60)
              DEF TypeOK, Fail, Points, HoldingPoints, Written, ResultKinds, FailureKinds
    <3>14. CASE Deliver(r)
      <4>1. st' \in [Requests -> LiveStates \cup {Absent}]
        BY <2>0, <3>14, StateNames, MoveType DEF Deliver, Move
      <4> QED BY <3>14, <4>1, StateNames DEF TypeOK, Deliver, Points
    <3>15. CASE Await(r)
      <4>1. st' \in [Requests -> LiveStates \cup {Absent}]
        BY <2>0, <3>15, StateNames, MoveType DEF Await, Move
      <4> QED BY <3>15, <4>1, StateNames DEF TypeOK, Await, Points, HoldingPoints
    <3>16. CASE Manual(r)
      BY <3>16, ZenonT(60) DEF TypeOK, Manual, Points, HoldingPoints
    <3>17. CASE Schedule(r)
      <4>1. st' \in [Requests -> LiveStates \cup {Absent}]
        BY <3>17, StateNames, MoveType DEF Schedule, Move
      <4> QED BY <3>17, <4>1, StateNames DEF TypeOK, Schedule, Points, HoldingPoints
    <3>18. CASE Stop(r)
      BY <3>18 DEF TypeOK, Stop, Points
    <3>19. CASE Elapse(r)
      BY <3>19, StateNames DEF TypeOK, Elapse, Points
    <3>20. CASE Wait(r)
      BY <3>20 DEF TypeOK, Wait, Points, HoldingPoints
    <3>21. CASE Resume(r)
      BY <3>21 DEF TypeOK, Resume, Points, Pool!GiveBack
    <3>22. CASE Finish(r)
      BY <3>22, StateNames DEF TypeOK, Finish, Points, Settled, OfContext, Ended
    <3>23. CASE Depart(r)
      <4>1. outcome[r] \in TerminalStates
        BY DEF TypeOK
      <4>2. Remove(r, outcome[r])
        BY <3>23 DEF Depart
      <4> QED BY <3>23, <4>1, <4>2, RemoveType DEF TypeOK, Depart, Points
    <3> QED
      BY <2>1, <3>1, <3>2, <3>3, <3>4, <3>5, <3>6, <3>7, <3>8, <3>9, <3>10, <3>11,
         <3>12, <3>13, <3>14, <3>15, <3>16, <3>17, <3>18, <3>19, <3>20, <3>21,
         <3>22, <3>23 DEF Worker
  <2>2. ASSUME NEW r \in Requests, NEW signal \in Signals, AdminSignal(r, signal)
        PROVE  TypeOK'
    BY <2>2 DEF TypeOK, AdminSignal, Ended, Signals
  <2>3. ASSUME NEW r \in Requests, Admin(r) PROVE TypeOK'
    <3>1. CASE AdminCancel(r)
      BY <3>1 DEF TypeOK, AdminCancel, Issue, Signals
    <3>2. CASE AdminRetry(r)
      BY <3>2 DEF TypeOK, AdminRetry, Issue, Signals
    <3>3. CASE AdminPolicy(r)
      BY <3>3 DEF TypeOK, AdminPolicy, Issue, Signals
    <3>4. ASSUME NEW x \in Resolutions, AdminResolve(r, x) PROVE TypeOK'
      BY <3>4 DEF TypeOK, AdminResolve, Issue, Signals
    <3> QED BY <2>3, <3>1, <3>2, <3>3, <3>4 DEF Admin
  <2>4. ASSUME NEW r \in Requests, Disconnect(r) PROVE TypeOK'
    BY <2>4 DEF TypeOK, Disconnect, Ended
  <2>5. ASSUME NEW r \in Requests, Deadline(r) PROVE TypeOK'
    BY <2>5 DEF TypeOK, Deadline
  <2>6. CASE \E m \in {"running", "paused", "draining", "maintenance"} : Control(m)
    BY <2>6 DEF TypeOK, Control
  <2>7. CASE JournalFails
    BY <2>7 DEF TypeOK, JournalFails
  <2>8. CASE Reload
    BY <2>8, GatewayAssumption DEF TypeOK, Reload
  <2>9. CASE UNCHANGED vars
    BY <2>9 DEF TypeOK, vars
  <2> QED
    BY <2>1, <2>2, <2>3, <2>4, <2>5, <2>6, <2>7, <2>8, <2>9
       DEF Next, Environment, Terminated
<1> QED BY <1>1, <1>2, PTL DEF Spec

-----------------------------------------------------------------------------
Permitless == Points \ (HoldingPoints \cup {"finish", "line"})

\* A worker that holds a permit keeps it while it goes from one point between
\* Acquire and Release to another, or to the deferred functions.
LEMMA StaysInside ==
    ASSUME TypeOK, PermitDiscipline, NEW r \in Requests,
           pc[r] \in HoldingPoints,
           NEW p \in HoldingPoints \cup {"finish"}, Goto(r, p),
           UNCHANGED pool
    PROVE  PermitDiscipline'
BY DEF TypeOK, PermitDiscipline, Goto, pool, HoldingPoints

\* A worker without a permit does not get one by going elsewhere.
LEMMA StaysOutside ==
    ASSUME TypeOK, PermitDiscipline, NEW r \in Requests,
           pc[r] \in Permitless, NEW p \in Permitless, Goto(r, p),
           UNCHANGED pool
    PROVE  PermitDiscipline'
BY DEF TypeOK, PermitDiscipline, Goto, pool, HoldingPoints, Permitless

\* The points of ServeHTTP by what they own.
LEMMA PointsOwn ==
    /\ {"new", "reading", "admitted", "acquire", "remove", "done"} \subseteq Permitless
    /\ {"gate", "start", "attempt", "doomed", "deliver", "await", "manual", "schedule",
        "wait", "resume"} = HoldingPoints
BY DEF Permitless, HoldingPoints, Points

\* permitHeld is right on every path of ServeHTTP: nobody runs an attempt
\* without a permit, nobody keeps or waits for one after the end.
THEOREM PermitsDisciplined == Spec => []PermitDiscipline
<1>1. Init => PermitDiscipline
  <2> SUFFICES ASSUME Init PROVE PermitDiscipline
    OBVIOUS
  <2>1. holders = {} /\ queue = {} /\ \A r \in Requests : pc[r] = "new"
    BY DEF Init
  <2> QED BY <2>1 DEF PermitDiscipline, HoldingPoints
<1>2. TypeOK /\ PermitDiscipline /\ [Next]_vars => PermitDiscipline'
  <2> SUFFICES ASSUME TypeOK, PermitDiscipline, [Next]_vars PROVE PermitDiscipline'
    OBVIOUS
  <2>1. ASSUME UNCHANGED <<pc, pool>> PROVE PermitDiscipline'
    BY <2>1 DEF PermitDiscipline, pool
  <2>2. ASSUME NEW r \in Requests, Worker(r) PROVE PermitDiscipline'
    <3>1. CASE Accept(r) \/ Register(r) \/ TurnAway(r) \/ Deny(r) \/ Admit(r)
      BY <3>1, PointsOwn, StaysOutside
         DEF Accept, Register, TurnAway, Deny, Admit
    <3>2. CASE Acquire(r)
      <4>1. pc[r] = "acquire"
        BY <3>2 DEF Acquire
      <4>2. CASE Pool!Grab(r) /\ Goto(r, "gate")
        BY <4>1, <4>2 DEF TypeOK, PermitDiscipline, Goto, Pool!Grab, HoldingPoints
      <4>3. CASE Pool!Enqueue(r) /\ Goto(r, "line")
        BY <4>1, <4>3 DEF TypeOK, PermitDiscipline, Goto, Pool!Enqueue, HoldingPoints
      <4>4. CASE Pool!Refuse(r) /\ Goto(r, "finish")
        BY <4>1, <4>4 DEF TypeOK, PermitDiscipline, Goto, Pool!Refuse, Pool!poolVars,
                          HoldingPoints
      <4> QED BY <3>2, <4>2, <4>3, <4>4 DEF Acquire
    <3>3. CASE Line(r)
      <4>1. pc[r] = "line"
        BY <3>3 DEF Line
      <4>2. CASE Pool!Grant(r) /\ Goto(r, "gate")
        BY <4>1, <4>2 DEF TypeOK, PermitDiscipline, Goto, Pool!Grant, HoldingPoints
      <4>3. CASE Pool!Quit(r) /\ Goto(r, "finish")
        BY <4>1, <4>3 DEF TypeOK, PermitDiscipline, Goto, Pool!Quit, HoldingPoints
      <4> QED BY <3>3, <4>2, <4>3 DEF Line
    <3>4. CASE Gate(r) \/ Spacing(r) \/ Governed(r)
      BY <3>4, PointsOwn, StaysInside DEF Gate, Spacing, Governed
    <3>5. CASE Start(r)
      <4>1. pc[r] \in HoldingPoints /\ UNCHANGED pool
        BY <3>5, PointsOwn DEF Start
      <4>2. \E p \in HoldingPoints \cup {"finish"} : Goto(r, p)
        BY <3>5, PointsOwn DEF Start
      <4> QED BY <4>1, <4>2, StaysInside
    <3>6. CASE Succeed(r)
      BY <3>6, PointsOwn, StaysInside DEF Succeed
    <3>7. ASSUME NEW kind \in FailureKinds, Fail(r, kind) PROVE PermitDiscipline'
      <4>1. pc[r] \in HoldingPoints /\ UNCHANGED pool
        BY <3>7, PointsOwn DEF Fail
      <4>2. \E p \in HoldingPoints \cup {"finish"} : Goto(r, p)
        BY <3>7, PointsOwn DEF Fail
      <4> QED BY <4>1, <4>2, StaysInside
    <3>8. CASE Deliver(r) \/ Await(r) \/ Schedule(r) \/ Stop(r)
      BY <3>8, PointsOwn, StaysInside DEF Deliver, Await, Schedule, Stop
    <3>9. CASE Manual(r)
      BY <3>9, PointsOwn, StaysInside DEF Manual
    <3>10. CASE Elapse(r)
      BY <3>10, PointsOwn, StaysInside DEF Elapse
    <3>11. CASE Wait(r)
      BY <3>11, PointsOwn, StaysInside DEF Wait
    <3>12. CASE Resume(r)
      BY <3>12 DEF TypeOK, PermitDiscipline, Resume, Goto, Pool!GiveBack, HoldingPoints
    <3>13. CASE Finish(r)
      BY <3>13 DEF TypeOK, PermitDiscipline, Finish, Goto, HoldingPoints
    <3>14. CASE Depart(r)
      BY <3>14, PointsOwn, StaysOutside DEF Depart
    <3> QED
      BY <2>2, <3>1, <3>2, <3>3, <3>4, <3>5, <3>6, <3>7, <3>8, <3>9, <3>10, <3>11,
         <3>12, <3>13, <3>14 DEF Worker
  <2>3. ASSUME NEW r \in Requests, NEW signal \in Signals, AdminSignal(r, signal)
        PROVE  PermitDiscipline'
    BY <2>1, <2>3 DEF AdminSignal
  <2>4. CASE Environment
    BY <2>1, <2>4 DEF Environment, Admin, AdminCancel, AdminRetry, AdminPolicy,
         AdminResolve, Disconnect, Deadline, Control, JournalFails, Reload
  <2>5. CASE UNCHANGED vars
    BY <2>1, <2>5 DEF vars
  <2> QED BY <2>2, <2>3, <2>4, <2>5 DEF Next, Terminated
<1> QED BY <1>1, <1>2, TypeCorrect, PTL DEF Spec

-----------------------------------------------------------------------------
\* What StateMatchesWorker rests on: the states in which awaitRetry can find a
\* request, why a blocked request is shown as uncertain, and that the branch
\* on the first attempt agrees with the state.
Retrying == {Uncertain, Waiting, Buffering, Forwarding}

WorkerState(r) ==
    /\ pc[r] \in {"new", "reading", "admitted"} => attempt[r] = 0
    /\ pc[r] = "admitted" => st[r] = Queued
    /\ pc[r] \in {"acquire", "line", "gate", "start"} =>
          st[r] = IF attempt[r] = 0 THEN Queued ELSE Waiting
    /\ pc[r] \in {"attempt", "doomed", "deliver", "await", "manual", "schedule",
                  "wait", "resume"} => attempt[r] > 0
    /\ pc[r] \in {"attempt", "doomed"} => st[r] = Forwarding
    /\ pc[r] = "deliver" => st[r] = Delivering
    /\ pc[r] = "await" => st[r] \in Retrying /\ (Blocked(r) => st[r] = Uncertain)
    /\ pc[r] = "manual" => st[r] = Uncertain /\ InDoubt(r, result[r])
    /\ pc[r] = "schedule" => st[r] \in Retrying /\ ~Blocked(r)
    /\ pc[r] \in {"wait", "resume"} => st[r] = Waiting /\ ~Blocked(r)
    /\ result[r] = "lost" => wrote[r] = "lost"

WorkerInv == allow \in AllowChoices /\ \A r \in Requests : WorkerState(r)

\* The transitions the workers rely on are valid ones.
LEMMA ReliedOn ==
    /\ Moved(Queued, Forwarding) = Forwarding
    /\ Moved(Waiting, Forwarding) = Forwarding
    /\ Moved(Forwarding, Buffering) = Buffering
    /\ Moved(Buffering, Delivering) = Delivering
    /\ Moved(Forwarding, Uncertain) = Uncertain
    /\ Moved(Uncertain, Uncertain) = Uncertain
    /\ \A s \in Retrying : Moved(s, Waiting) = Waiting
<1> USE DEF Moved, Absent, ValidTransition, Queued, Forwarding, Uncertain, Waiting,
            Buffering, Delivering
<1>1. Forwarding \in Targets(Queued) /\ Forwarding \in Targets(Waiting)
  BY DEF Targets, Completed
<1>2. Buffering \in Targets(Forwarding) /\ Uncertain \in Targets(Forwarding)
  BY DEF Targets, Completed
<1>3. Delivering \in Targets(Buffering)
  BY DEF Targets, Completed
<1>4. /\ Waiting \in Targets(Forwarding) /\ Waiting \in Targets(Uncertain)
      /\ Waiting \in Targets(Buffering)
  BY DEF Targets, Completed
<1> QED BY <1>1, <1>2, <1>3, <1>4 DEF Retrying

\* Nothing that concerns q has changed.
Untouched(q) ==
    /\ pc'[q] = pc[q] /\ st'[q] = st[q] /\ attempt'[q] = attempt[q]
    /\ result'[q] = result[q] /\ wrote'[q] = wrote[q] /\ manual'[q] = manual[q]
    /\ allow' = allow

\* What a step leaves untouched stays in step with its worker.
LEMMA Frame ==
    ASSUME NEW q \in Requests, WorkerState(q), Untouched(q)
    PROVE  WorkerState(q)'
BY DEF WorkerState, Untouched, Blocked, InDoubt

\* A worker touches nothing but its own request.
LEMMA WorkerLocal ==
    ASSUME TypeOK, NEW r \in Requests, Worker(r), NEW q \in Requests \ {r}
    PROVE  Untouched(q)
<1> USE DEF TypeOK, Untouched, Goto, reg, local, env
<1>1. CASE Accept(r) \/ TurnAway(r) \/ Admit(r) \/ Gate(r) \/ Spacing(r)
  BY <1>1 DEF Accept, TurnAway, Admit, Gate, Spacing
<1>2. CASE Register(r)
  BY <1>2 DEF Register
<1>3. CASE Deny(r)
  BY <1>3 DEF Deny, Remove
<1>4. CASE Acquire(r)
  BY <1>4 DEF Acquire
<1>5. CASE Line(r)
  BY <1>5 DEF Line
<1>6. CASE Start(r)
  BY <1>6 DEF Start, Move
<1>7. CASE Governed(r) \/ Stop(r) \/ Elapse(r) \/ Resume(r)
  BY <1>7 DEF Governed, Stop, Elapse, Resume
<1>8. CASE Succeed(r)
  BY <1>8 DEF Succeed
<1>9. ASSUME NEW kind \in FailureKinds, Fail(r, kind) PROVE Untouched(q)
  BY <1>9, ZenonT(60) DEF Fail, Move
<1>10. CASE Deliver(r)
  BY <1>10 DEF Deliver, Move
<1>11. CASE Await(r)
  BY <1>11 DEF Await, Move
<1>12. CASE Manual(r)
  BY <1>12 DEF Manual
<1>13. CASE Schedule(r)
  BY <1>13 DEF Schedule, Move
<1>14. CASE Wait(r)
  BY <1>14 DEF Wait
<1>15. CASE Finish(r)
  BY <1>15 DEF Finish
<1>16. CASE Depart(r)
  BY <1>16 DEF Depart, Remove
<1> QED
  BY <1>1, <1>2, <1>3, <1>4, <1>5, <1>6, <1>7, <1>8, <1>9, <1>10, <1>11, <1>12,
     <1>13, <1>14, <1>15, <1>16 DEF Worker

\* A worker leaves its own request in a state that agrees with where it goes.
LEMMA WorkerKeeps ==
    ASSUME TypeOK, NEW r \in Requests, WorkerState(r), Worker(r)
    PROVE  WorkerState(r)'
<1> USE DEF Goto, reg, local, env
<1>0. /\ pc \in [Requests -> Points] /\ st \in [Requests -> LiveStates \cup {Absent}]
      /\ attempt \in [Requests -> Nat] /\ result \in [Requests -> ResultKinds]
      /\ wrote \in [Requests -> {"no", "answered", "lost"}]
      /\ manual \in [Requests -> BOOLEAN]
  BY DEF TypeOK
<1>1. CASE Accept(r) \/ TurnAway(r) \/ Admit(r)
  BY <1>0, <1>1 DEF WorkerState, Accept, TurnAway, Admit
<1>2. CASE Register(r)
  BY <1>0, <1>2 DEF WorkerState, Register
<1>3. CASE Deny(r)
  BY <1>0, <1>3 DEF WorkerState, Deny
<1>4. CASE Acquire(r)
  BY <1>0, <1>4 DEF WorkerState, Acquire
<1>5. CASE Line(r)
  BY <1>0, <1>5 DEF WorkerState, Line
<1>6. CASE Gate(r) \/ Spacing(r)
  BY <1>0, <1>6 DEF WorkerState, Gate, Spacing
<1>7. CASE Start(r)
  <2>1. st'[r] = Forwarding
    BY <1>0, <1>7, ReliedOn DEF WorkerState, Start, Move
  <2>2. attempt'[r] > 0
    <3>1. attempt' = [attempt EXCEPT ![r] = @ + 1]
      BY <1>7 DEF Start
    <3> QED BY <1>0, <3>1
  <2>3. pc'[r] \in {"attempt", "doomed", "finish"}
    BY <1>0, <1>7 DEF Start
  <2>4. UNCHANGED <<result, wrote>>
    BY <1>7 DEF Start
  <2> QED BY <2>1, <2>2, <2>3, <2>4 DEF WorkerState
<1>8. CASE Governed(r) \/ Stop(r) \/ Elapse(r)
  BY <1>0, <1>8 DEF WorkerState, Governed, Stop, Elapse
<1>9. CASE Succeed(r)
  <2>1. st[r] = Forwarding /\ attempt[r] > 0
    BY <1>9 DEF WorkerState, Succeed
  <2>2. pc'[r] = "finish" \/ (pc'[r] = "deliver" /\ st'[r] = Delivering)
    BY <1>0, <1>9, <2>1, ReliedOn DEF Succeed
  <2>3. result'[r] = "success" /\ UNCHANGED attempt
    BY <1>0, <1>9 DEF Succeed
  <2> QED BY <2>1, <2>2, <2>3 DEF WorkerState
<1>10. ASSUME NEW kind \in FailureKinds, Fail(r, kind) PROVE WorkerState(r)'
  <2>1. st[r] = Forwarding /\ attempt[r] > 0
    BY <1>10 DEF WorkerState, Fail
  <2>2. /\ result'[r] = kind /\ wrote'[r] = Written(wrote[r], kind)
        /\ UNCHANGED <<attempt, allow>>
    BY <1>0, <1>10 DEF Fail
  <2>3. kind = "lost" => wrote'[r] = "lost"
    BY <2>2 DEF Written
  <2>4. InDoubt(r, kind)' <=> InDoubt(r, kind)
    BY <2>2 DEF InDoubt, Written
  <2>5. CASE Pointless(r)
    BY <1>0, <1>10, <2>2, <2>3, <2>5 DEF WorkerState, Fail
  <2>6. CASE ~Pointless(r)
    <3>1. st'[r] \in Retrying /\ (InDoubt(r, kind) => st'[r] = Uncertain)
      <4>1. CASE kind \in {"response", "permanent"}
        <5>1. st'[r] = Buffering
          <6>0. ~InDoubt(r, kind)
            BY <4>1 DEF InDoubt
          <6>1. Move(r, Buffering)
            BY <1>10, <2>6, <4>1, <6>0 DEF Fail
          <6> QED BY <1>0, <2>1, <6>1, ReliedOn DEF Move
        <5> QED BY <4>1, <5>1 DEF InDoubt, Retrying
      <4>2. CASE kind \notin {"response", "permanent"} /\ InDoubt(r, kind)
        <5>1. st'[r] = Uncertain
          BY <1>0, <1>10, <2>1, <2>6, <4>2, ReliedOn DEF Fail, Move
        <5> QED BY <5>1 DEF Retrying
      <4>3. CASE kind \notin {"response", "permanent"} /\ ~InDoubt(r, kind)
        <5>1. st'[r] = Forwarding
          BY <1>0, <1>10, <2>1, <2>6, <4>3 DEF Fail
        <5> QED BY <4>3, <5>1 DEF Retrying
      <4> QED BY <4>1, <4>2, <4>3
    <3>2. pc'[r] \in {"await", "finish"}
      BY <1>0, <1>10, <2>6 DEF Fail
    <3>3. Blocked(r)' => st'[r] = Uncertain
      BY <2>2, <2>4, <3>1 DEF Blocked
    <3> QED BY <2>1, <2>2, <2>3, <3>1, <3>2, <3>3 DEF WorkerState
  <2> QED BY <2>5, <2>6
<1>11. CASE Deliver(r)
  BY <1>0, <1>11 DEF WorkerState, Deliver
<1>12. CASE Await(r)
  <2>1. /\ st[r] \in Retrying /\ attempt[r] > 0 /\ (Blocked(r) => st[r] = Uncertain)
        /\ (result[r] = "lost" => wrote[r] = "lost")
    BY <1>12 DEF WorkerState, Await
  <2>2. UNCHANGED <<result, wrote, manual, attempt, allow>>
    BY <1>12 DEF Await
  <2>3. CASE Blocked(r)
    <3>1. pc'[r] = "manual" /\ st'[r] = Uncertain
      BY <1>0, <1>12, <2>1, <2>3, ReliedOn DEF Await, Move
    <3>2. InDoubt(r, result[r])'
      BY <2>2, <2>3 DEF Blocked, InDoubt
    <3> QED BY <2>1, <2>2, <3>1, <3>2 DEF WorkerState
  <2>4. CASE ~Blocked(r)
    <3>1. pc'[r] = "schedule" /\ st'[r] = st[r]
      BY <1>0, <1>12, <2>4 DEF Await
    <3>2. ~Blocked(r)'
      BY <2>2, <2>4 DEF Blocked, InDoubt
    <3> QED BY <2>1, <2>2, <3>1, <3>2 DEF WorkerState
  <2> QED BY <2>3, <2>4
<1>13. CASE Manual(r)
  <2>1. /\ st[r] = Uncertain /\ attempt[r] > 0
        /\ (result[r] = "lost" => wrote[r] = "lost")
    BY <1>13 DEF WorkerState, Manual
  <2>2. UNCHANGED <<st, result, wrote, attempt, allow>>
    BY <1>13 DEF Manual
  <2>3. \/ pc'[r] \in {"finish", "await"}
        \/ pc'[r] = "schedule" /\ manual'[r]
    BY <1>0, <1>13 DEF Manual
  <2> QED BY <2>1, <2>2, <2>3 DEF WorkerState, Retrying, Blocked
<1>14. CASE Schedule(r)
  <2>1. st'[r] = Waiting /\ pc'[r] = "wait"
    BY <1>0, <1>14, ReliedOn DEF WorkerState, Schedule, Move
  <2>2. UNCHANGED <<result, wrote, manual, attempt, allow>>
    BY <1>14 DEF Schedule
  <2>3. attempt[r] > 0 /\ ~Blocked(r) /\ (result[r] = "lost" => wrote[r] = "lost")
    BY <1>14 DEF WorkerState, Schedule
  <2>4. ~Blocked(r)'
    BY <2>2, <2>3 DEF Blocked, InDoubt
  <2> QED BY <2>1, <2>2, <2>3, <2>4 DEF WorkerState
<1>15. CASE Wait(r)
  <2>1. /\ st[r] = Waiting /\ attempt[r] > 0 /\ ~Blocked(r)
        /\ (result[r] = "lost" => wrote[r] = "lost")
    BY <1>15 DEF WorkerState, Wait
  <2>2. UNCHANGED <<st, result, wrote, manual, attempt, allow>>
    BY <1>15 DEF Wait
  <2>3. pc'[r] \in {"finish", "resume", "await"}
    BY <1>0, <1>15 DEF Wait
  <2>4. ~Blocked(r)'
    BY <2>1, <2>2 DEF Blocked, InDoubt
  <2> QED BY <2>1, <2>2, <2>3, <2>4 DEF WorkerState, Retrying
<1>16. CASE Resume(r)
  BY <1>0, <1>16 DEF WorkerState, Resume
<1>17. CASE Finish(r)
  BY <1>0, <1>17 DEF WorkerState, Finish
<1>18. CASE Depart(r)
  BY <1>0, <1>18 DEF WorkerState, Depart
<1> QED
  BY <1>1, <1>2, <1>3, <1>4, <1>5, <1>6, <1>7, <1>8, <1>9, <1>10, <1>11, <1>12,
     <1>13, <1>14, <1>15, <1>16, <1>17, <1>18 DEF Worker

\* While allow-uncertain-retry is not reloaded, no step separates the workers
\* from the registry.
LEMMA WorkersInStep ==
    ASSUME \A a, b \in AllowChoices : a = b
    PROVE  Spec => []WorkerInv
<1>1. Init => WorkerInv
  <2> SUFFICES ASSUME Init PROVE WorkerInv
    OBVIOUS
  <2>1. /\ allow \in AllowChoices
        /\ \A r \in Requests : pc[r] = "new" /\ attempt[r] = 0 /\ result[r] = "none"
    BY DEF Init
  <2> QED BY <2>1 DEF WorkerInv, WorkerState
<1>2. TypeOK /\ WorkerInv /\ [Next]_vars => WorkerInv'
  <2> SUFFICES ASSUME TypeOK, WorkerInv, [Next]_vars PROVE WorkerInv'
    OBVIOUS
  <2>1. ASSUME UNCHANGED <<pc, st, attempt, result, wrote, manual, allow>> PROVE WorkerInv'
    BY <2>1, Frame DEF WorkerInv, Untouched
  <2>2. ASSUME NEW r \in Requests, Worker(r) PROVE WorkerInv'
    <3>1. WorkerState(r)'
      BY <2>2, WorkerKeeps DEF WorkerInv
    <3>2. ASSUME NEW q \in Requests \ {r} PROVE WorkerState(q)'
      BY <2>2, <3>2, WorkerLocal, Frame DEF WorkerInv
    <3>3. allow' = allow
      BY <2>2 DEF Worker, env, Accept, Register, TurnAway, Deny, Admit, Acquire, Line, Gate,
           Spacing, Start, Governed, Succeed, Fail, Deliver, Await, Manual, Schedule, Stop,
           Elapse, Wait, Resume, Finish, Depart
    <3> QED BY <3>1, <3>2, <3>3 DEF WorkerInv
  <2>3. ASSUME NEW r \in Requests, NEW signal \in Signals, AdminSignal(r, signal)
        PROVE  WorkerInv'
    BY <2>1, <2>3 DEF AdminSignal, local, env
  <2>4. CASE Environment
    <3>1. ASSUME Reload PROVE FALSE
      BY <3>1 DEF Reload, WorkerInv
    <3> QED
      BY <2>1, <2>4, <3>1 DEF Environment, Admin, AdminCancel, AdminRetry, AdminPolicy,
           AdminResolve, Disconnect, Deadline, Control, JournalFails, reg, local, env
  <2>5. CASE UNCHANGED vars
    BY <2>1, <2>5 DEF vars, reg, local, env
  <2> QED BY <2>2, <2>3, <2>4, <2>5 DEF Next, Terminated
<1> QED BY <1>1, <1>2, TypeCorrect, PTL DEF Spec

\* While allow-uncertain-retry is not reloaded, the state the registry shows
\* for a request is the one its worker is in, although UpdateMessage drops
\* every transition the table does not list.
THEOREM RegistryTellsTheTruth ==
    ASSUME \A a, b \in AllowChoices : a = b
    PROVE  Spec => []StateMatchesWorker
<1>1. WorkerInv => StateMatchesWorker
  BY DEF WorkerInv, WorkerState, StateMatchesWorker, InDoubt
<1> QED BY <1>1, WorkersInStep, PTL

-----------------------------------------------------------------------------
(***************************************************************************)
(* How requests end.  EndsRight is about requests that are done; it rests  *)
(* on what holds of them at every point on the way there.                  *)
(***************************************************************************)
\* Where a request is while its worker serves it, and that its outcome is
\* still the one ServeHTTP starts with.
Serving(r) ==
    /\ pc[r] \in {"new", "reading"} => st[r] = Absent
    /\ pc[r] \in {"new", "reading", "admitted"} => attempt[r] = 0
    /\ pc[r] = "admitted" => st[r] = Queued
    /\ pc[r] \in {"acquire", "line", "gate", "start"} =>
          st[r] = IF attempt[r] = 0 THEN Queued ELSE Waiting
    /\ pc[r] \in {"attempt", "doomed", "deliver", "await", "manual", "schedule",
                  "wait", "resume"} => attempt[r] > 0
    /\ pc[r] \in {"attempt", "doomed"} => st[r] = Forwarding
    /\ pc[r] = "deliver" => st[r] = Delivering /\ result[r] = "success"
    /\ pc[r] \in {"await", "manual", "schedule"} => st[r] \in Retrying
    /\ pc[r] \in {"wait", "resume"} => st[r] = Waiting
    /\ pc[r] \notin {"finish", "remove", "done"} => outcome[r] = Failed /\ ctx[r] # "released"

\* What the deferred functions find: the entry is there, it was never
\* attempted just when it is still queued, and the outcome is one of the four
\* a worker sets on its way.
Finishing(r) ==
    /\ st[r] \in LiveStates /\ (st[r] = Queued <=> attempt[r] = 0)
    /\ outcome[r] \in {Failed, Rejected, Successful, Expired}
    /\ outcome[r] = Successful <=> st[r] = Completed
    /\ outcome[r] = Successful => result[r] = "success"
    /\ outcome[r] = Rejected => st[r] \in {Queued, Waiting}
    /\ outcome[r] \in {Failed, Expired} /\ st[r] = Queued => ctx[r] # "live"
    /\ ctx[r] # "released"

\* The two outcomes Remove refuses.
Stuck(r) ==
    \/ outcome[r] = Rejected /\ st[r] = Waiting
    \/ res[r] \in {Confirm, Abandon} /\ st[r] # Uncertain

\* The outcome o tells what happened to r.
Justified(r, o) ==
    /\ o = Successful       => result[r] = "success"
    /\ o = Rejected         => attempt[r] = 0
    /\ o = ConfirmedSuccess => res[r] = Confirm
    /\ o = Abandoned        => res[r] = Abandon
    /\ o = Canceled         => ctx[r] = "canceled" \/ gone[r]
    /\ o = Failed           => attempt[r] > 0

\* What Remove is asked for: an outcome that is true of the request, unless
\* it is one Remove refuses.
Leaving(r) ==
    /\ st[r] \in LiveStates
    /\ ctx[r] # "live"
    /\ \/ Stuck(r) /\ ~ValidTransition(st[r], outcome[r])
       \/ ValidTransition(st[r], outcome[r]) /\ Justified(r, outcome[r])

\* After the end: the timeline entry is final, or there is none to end, or
\* the journal or Remove refused it.
Departed(r) ==
    /\ tl[r] \in TerminalStates => st[r] = Absent /\ ctx[r] # "live" /\ Justified(r, tl[r])
    /\ st[r] = Absent \/ ~journal \/ Stuck(r)

\* A verdict is about something that was written.
Sent(r) ==
    /\ result[r] = "lost" => wrote[r] = "lost"
    /\ st[r] = Uncertain => wrote[r] # "no"
    /\ res[r] \in {Confirm, Abandon} => wrote[r] # "no"

EndState(r) ==
    /\ Serving(r)
    /\ Sent(r)
    /\ pc[r] = "finish" => Finishing(r)
    /\ pc[r] = "remove" => Leaving(r)
    /\ pc[r] = "done" => Departed(r)
    /\ pc[r] # "done" => tl[r] \in {"none", "active"}

EndInv == \A r \in Requests : EndState(r)

\* The final states Remove accepts for a live one.
LEMMA FinalTransitions ==
    ASSUME NEW s \in LiveStates
    PROVE  /\ s # Completed => ValidTransition(s, Expired) /\ ValidTransition(s, Canceled)
           /\ ValidTransition(s, Failed) <=> s \notin {Queued, Completed}
           /\ ValidTransition(s, Successful) <=> s = Completed
           /\ ValidTransition(s, Rejected) <=> s = Queued
           /\ ValidTransition(s, ConfirmedSuccess) <=> s = Uncertain
           /\ ValidTransition(s, Abandoned) <=> s = Uncertain
<1> USE DEF ValidTransition, Targets, Queued, Forwarding, Uncertain, Waiting, Buffering,
            Delivering, Completed, Successful, Failed, Canceled, Rejected, Expired,
            ConfirmedSuccess, Abandoned
<1>1. CASE s = Queued
  BY <1>1
<1>2. CASE s = Forwarding
  BY <1>2
<1>3. CASE s = Uncertain
  BY <1>3
<1>4. CASE s = Waiting
  BY <1>4
<1>5. CASE s = Buffering
  BY <1>5
<1>6. CASE s = Delivering
  BY <1>6
<1>7. CASE s = Completed
  BY <1>7
<1> QED BY <1>1, <1>2, <1>3, <1>4, <1>5, <1>6, <1>7 DEF LiveStates

\* Live states, final states and the absence of an entry are different things.
LEMMA StatesApart ==
    /\ Absent \notin LiveStates
    /\ "none" \notin TerminalStates /\ "active" \notin TerminalStates
    /\ \A s \in Retrying : s \in LiveStates /\ s # Queued /\ s # Completed
    /\ Queued # Waiting /\ Queued # Completed /\ Waiting # Completed /\ Waiting # Uncertain
    /\ Queued # Forwarding /\ Forwarding # Completed /\ Delivering # Queued
    /\ Delivering # Completed /\ Queued # Uncertain /\ Forwarding # Uncertain
    /\ Delivering # Uncertain /\ Completed # Uncertain /\ Buffering # Uncertain
    /\ Failed # Successful /\ Failed # Rejected /\ Rejected # Successful
    /\ Expired # Successful /\ Expired # Rejected /\ Expired # Failed
BY DEF Absent, LiveStates, TerminalStates, Retrying, Queued, Forwarding, Uncertain, Waiting,
       Buffering, Delivering, Completed, Successful, Failed, Canceled, Rejected, Expired,
       Orphaned, ConfirmedSuccess, Abandoned

\* What the others may do to q: end its context, note that its client has
\* left, resolve it while it is uncertain, break the journal.
FromOutside(q) ==
    /\ pc'[q] = pc[q] /\ st'[q] = st[q] /\ outcome'[q] = outcome[q]
    /\ result'[q] = result[q] /\ attempt'[q] = attempt[q] /\ wrote'[q] = wrote[q]
    /\ tl'[q] = tl[q]
    /\ ctx'[q] = ctx[q] \/ (ctx[q] = "live" /\ ctx'[q] \in {"canceled", "expired"})
    /\ gone[q] => gone'[q]
    /\ res'[q] = res[q] \/ (res[q] = "" /\ st[q] = Uncertain)
    /\ journal' => journal

\* Nothing the others do to a request disturbs how it ends.
LEMMA OutsideKeeps ==
    ASSUME NEW q \in Requests, EndState(q), FromOutside(q)
    PROVE  EndState(q)'
<1>1. Serving(q)'
  BY ZenonT(60) DEF EndState, Serving, FromOutside
<1>2. Sent(q)'
  BY DEF EndState, Sent, FromOutside
<1>3. Finishing(q) => Finishing(q)'
  BY DEF Finishing, FromOutside
<1>4. Stuck(q) => Stuck(q)'
  BY StatesApart DEF Stuck, FromOutside, Confirm, Abandon
<1>5. ASSUME NEW o, ctx[q] # "live", Justified(q, o)
      PROVE  /\ o = Successful       => result'[q] = "success"
             /\ o = Rejected         => attempt'[q] = 0
             /\ o = ConfirmedSuccess => res'[q] = Confirm
             /\ o = Abandoned        => res'[q] = Abandon
             /\ o = Canceled         => ctx'[q] = "canceled" \/ gone'[q]
             /\ o = Failed           => attempt'[q] > 0
  BY <1>5 DEF Justified, FromOutside, Confirm, Abandon
<1>6. Leaving(q) => Leaving(q)'
  <2> SUFFICES ASSUME Leaving(q) PROVE Leaving(q)'
    OBVIOUS
  <2>1. st'[q] \in LiveStates /\ ctx'[q] # "live"
    BY DEF Leaving, FromOutside
  <2>2. ValidTransition(st[q], outcome[q])' <=> ValidTransition(st[q], outcome[q])
    BY DEF FromOutside
  <2>3. ctx[q] # "live" /\ Justified(q, outcome[q]) => Justified(q, outcome[q])'
    BY <1>5 DEF Justified, FromOutside
  <2> QED BY <1>4, <2>1, <2>2, <2>3 DEF Leaving
<1>7. Departed(q) => Departed(q)'
  <2> SUFFICES ASSUME Departed(q) PROVE Departed(q)'
    OBVIOUS
  <2>1. ASSUME tl'[q] \in TerminalStates
        PROVE  st'[q] = Absent /\ ctx'[q] # "live" /\ Justified(q, tl[q])'
    <3>1. st[q] = Absent /\ ctx[q] # "live" /\ Justified(q, tl[q])
      BY <2>1 DEF Departed, FromOutside
    <3> QED BY <1>5, <3>1 DEF Justified, FromOutside
  <2>2. st'[q] = Absent \/ ~journal' \/ Stuck(q)'
    BY <1>4 DEF Departed, FromOutside
  <2> QED BY <2>1, <2>2 DEF Departed
<1>8. pc'[q] = pc[q] /\ tl'[q] = tl[q]
  BY DEF FromOutside
<1> QED BY <1>1, <1>2, <1>3, <1>6, <1>7, <1>8 DEF EndState

\* A worker touches nothing but its own request.
LEMMA OthersUntouched ==
    ASSUME TypeOK, NEW r \in Requests, Worker(r), NEW q \in Requests \ {r}
    PROVE  FromOutside(q)
<1> USE DEF TypeOK, FromOutside, Goto, reg, local, env
<1>1. ASSUME NEW p, Goto(r, p),
             UNCHANGED <<st, res, tl, outcome, result, attempt, wrote, ctx, gone, journal>>
      PROVE  FromOutside(q)
  BY <1>1
<1>2. CASE \/ Accept(r) \/ TurnAway(r) \/ Admit(r) \/ Gate(r) \/ Spacing(r)
           \/ Governed(r) \/ Stop(r) \/ Resume(r)
  <2>1. UNCHANGED <<st, res, tl, outcome, result, attempt, wrote, ctx, gone, journal>>
    BY <1>2 DEF Accept, TurnAway, Admit, Gate, Spacing, Governed, Stop, Resume
  <2>2. \E p : Goto(r, p)
    BY <1>2 DEF Accept, TurnAway, Admit, Gate, Spacing, Governed, Stop, Resume
  <2> QED
    <3>1. PICK p : Goto(r, p)
      BY <2>2
    <3> QED BY <1>1, <2>1, <3>1
<1>3. CASE Deny(r)
  BY <1>3 DEF Deny, Remove, Ended
<1>17. CASE Register(r)
  BY <1>17 DEF Register
<1>4. CASE Acquire(r)
  BY <1>4 DEF Acquire
<1>5. CASE Line(r)
  BY <1>5 DEF Line
<1>6. CASE Start(r)
  BY <1>6 DEF Start, Move
<1>7. CASE Elapse(r)
  BY <1>7 DEF Elapse
<1>8. CASE Succeed(r)
  BY <1>8 DEF Succeed
<1>9. ASSUME NEW kind \in FailureKinds, Fail(r, kind) PROVE FromOutside(q)
  BY <1>9, ZenonT(60) DEF Fail, Move
<1>10. CASE Deliver(r)
  BY <1>10 DEF Deliver, Move
<1>11. CASE Await(r)
  BY <1>11 DEF Await, Move
<1>12. CASE Manual(r)
  BY <1>12 DEF Manual
<1>13. CASE Schedule(r)
  BY <1>13 DEF Schedule, Move
<1>14. CASE Wait(r)
  BY <1>14 DEF Wait
<1>15. CASE Finish(r)
  BY <1>15 DEF Finish, Ended
<1>16. CASE Depart(r)
  BY <1>16 DEF Depart, Remove
<1> QED
  BY <1>1, <1>2, <1>3, <1>4, <1>5, <1>6, <1>7, <1>8, <1>9, <1>10, <1>11, <1>12,
     <1>13, <1>14, <1>15, <1>16, <1>17 DEF Worker

\* A worker whose request is not at its end keeps the end open: the timeline
\* has no final entry.
LEMMA OnTheWay ==
    ASSUME NEW r \in Requests,
           Serving(r)', Sent(r)', pc'[r] \notin {"finish", "remove", "done"},
           tl'[r] \in {"none", "active"}
    PROVE  EndState(r)'
BY DEF EndState

\* Where a worker goes to the deferred functions from, the request is attempted
\* unless it is still queued, and not yet answered.
LEMMA GivingUp ==
    ASSUME TypeOK, NEW r \in Requests, EndState(r),
           pc[r] \in HoldingPoints \cup {"acquire", "line"},
           pc'[r] = "finish", outcome'[r] \in {Failed, Rejected, Expired},
           outcome'[r] = Rejected => st'[r] \in {Queued, Waiting},
           outcome'[r] # Rejected => ctx[r] # "live" \/ attempt'[r] > 0,
           st'[r] \in LiveStates \ {Completed},
           st'[r] = Queued <=> attempt'[r] = 0, attempt'[r] \in Nat,
           Sent(r)', UNCHANGED <<tl, ctx>>
    PROVE  EndState(r)'
<1>1. ctx[r] # "released" /\ tl[r] \in {"none", "active"}
  BY DEF EndState, Serving, HoldingPoints
<1>2. Finishing(r)'
  BY <1>1, StatesApart DEF Finishing
<1> QED BY <1>1, <1>2 DEF EndState, Serving

\* The points before the end: what is known of a request there.
LEMMA Underway ==
    ASSUME TypeOK, NEW r \in Requests, EndState(r),
           pc[r] \in HoldingPoints \cup {"acquire", "line"}
    PROVE  /\ st[r] \in LiveStates \ {Completed} /\ (st[r] = Queued <=> attempt[r] = 0)
           /\ outcome[r] = Failed /\ ctx[r] # "released" /\ Sent(r)
           /\ tl[r] \in {"none", "active"} /\ attempt[r] \in Nat
           /\ pc[r] \in {"attempt", "doomed", "deliver", "await", "manual", "schedule",
                         "wait", "resume"} => attempt[r] > 0
<1>1. attempt[r] \in Nat
  BY DEF TypeOK
<1> QED BY <1>1, StatesApart, StateNames DEF EndState, Serving, HoldingPoints

\* A worker keeps its own request on a way that ends right.
LEMMA WorkerEnds ==
    ASSUME TypeOK, NEW r \in Requests, EndState(r), Worker(r)
    PROVE  EndState(r)'
<1> USE DEF Goto, reg, local, env
<1>0. /\ pc \in [Requests -> Points] /\ st \in [Requests -> LiveStates \cup {Absent}]
      /\ attempt \in [Requests -> Nat] /\ result \in [Requests -> ResultKinds]
      /\ wrote \in [Requests -> {"no", "answered", "lost"}]
      /\ outcome \in [Requests -> TerminalStates]
      /\ tl \in [Requests -> TerminalStates \cup {"none", "active"}]
      /\ ctx \in [Requests -> {"live", "canceled", "expired", "released"}]
      /\ res \in [Requests -> Resolutions \cup {""}]
      /\ attempt[r] \in Nat
  BY DEF TypeOK
<1>00. Serving(r) /\ Sent(r) /\ (pc[r] # "done" => tl[r] \in {"none", "active"})
  BY DEF EndState
<1>000. UNCHANGED <<st, res, result, wrote>> => Sent(r)'
  BY <1>00 DEF Sent
<1>1. CASE Accept(r) \/ Admit(r)
  <2>1. Serving(r)' /\ pc'[r] \in {"reading", "acquire"} /\ UNCHANGED tl
    BY <1>0, <1>00, <1>1, ZenonT(60) DEF Serving, Accept, Admit
  <2>2. pc[r] # "done" /\ UNCHANGED <<st, res, result, wrote>>
    BY <1>1 DEF Accept, Admit
  <2> QED BY <1>00, <1>000, <2>1, <2>2, OnTheWay
<1>2. CASE Register(r)
  <2>1. st'[r] = Queued /\ tl'[r] = "active" /\ pc'[r] = "admitted"
    BY <1>0, <1>2 DEF Register
  <2>2. UNCHANGED <<res, result, wrote, attempt, outcome, ctx>> /\ pc[r] = "reading"
    BY <1>2 DEF Register
  <2>3. Serving(r)'
    BY <1>00, <2>1, <2>2 DEF Serving
  <2>4. Sent(r)'
    BY <1>00, <2>1, <2>2, StatesApart DEF Sent
  <2> QED BY <2>1, <2>3, <2>4, OnTheWay
<1>3. CASE TurnAway(r)
  <2>1. pc'[r] = "done" /\ st[r] = Absent /\ tl[r] \in {"none", "active"}
    BY <1>0, <1>00, <1>3 DEF TurnAway, Serving
  <2>2. UNCHANGED <<st, res, result, wrote, tl>>
    BY <1>3 DEF TurnAway
  <2>3. Departed(r)'
    BY <2>1, <2>2, StatesApart DEF Departed
  <2> QED BY <1>000, <2>1, <2>2, <2>3 DEF EndState, Serving
<1>4. CASE Deny(r)
  <2>1. st[r] = Queued /\ attempt[r] = 0 /\ pc'[r] = "done" /\ tl[r] \in {"none", "active"}
    BY <1>0, <1>00, <1>4 DEF Deny, Serving
  <2>2. /\ UNCHANGED <<res, result, wrote, attempt, journal, gone>> /\ ctx'[r] # "live"
        /\ Remove(r, Rejected)
    BY <1>0, <1>4 DEF Deny, Ended
  <2>3. ValidTransition(st[r], Rejected)
    BY <2>1, FinalTransitions, StateNames
  <2>4. CASE journal
    <3>1. st'[r] = Absent /\ tl'[r] = Rejected
      BY <1>0, <2>2, <2>3, <2>4 DEF Remove
    <3>2. Justified(r, tl[r])'
      BY <2>1, <2>2, <3>1 DEF Justified, Rejected, Successful, ConfirmedSuccess, Abandoned,
                              Canceled, Failed
    <3>3. Sent(r)'
      BY <1>00, <2>2, <3>1 DEF Sent, Absent, Uncertain
    <3> QED BY <2>1, <2>2, <3>1, <3>2, <3>3 DEF EndState, Serving, Departed
  <2>5. CASE ~journal
    <3>1. UNCHANGED <<st, tl>>
      BY <2>2, <2>5 DEF Remove
    <3>2. Departed(r)'
      BY <2>1, <2>2, <2>5, <3>1, StatesApart DEF Departed
    <3> QED BY <1>000, <2>1, <2>2, <3>1, <3>2 DEF EndState, Serving
  <2> QED BY <2>4, <2>5
<1>5. CASE Acquire(r)
  <2>1. UNCHANGED <<st, res, result, wrote, attempt, ctx, tl>> /\ pc[r] = "acquire"
    BY <1>5 DEF Acquire
  <2>2. CASE pc'[r] \in {"gate", "line"} /\ UNCHANGED outcome
    <3>1. Serving(r)'
      BY <1>00, <2>1, <2>2 DEF Serving
    <3> QED BY <1>00, <1>000, <2>1, <2>2, <3>1, OnTheWay
  <2>3. CASE pc'[r] = "finish" /\ outcome'[r] = Rejected
    <3>1. st[r] \in {Queued, Waiting}
      BY <1>00, <2>1 DEF Serving
    <3> QED BY <1>000, <2>1, <2>3, <3>1, Underway, GivingUp
  <2> QED BY <1>0, <1>5, <2>2, <2>3 DEF Acquire
<1>6. CASE Line(r)
  <2>1. UNCHANGED <<st, res, result, wrote, attempt, ctx, tl>> /\ pc[r] = "line"
    BY <1>6 DEF Line
  <2>2. CASE pc'[r] = "gate" /\ UNCHANGED outcome
    <3>1. Serving(r)'
      BY <1>00, <2>1, <2>2 DEF Serving
    <3> QED BY <1>00, <1>000, <2>1, <2>2, <3>1, OnTheWay
  <2>3. CASE /\ pc'[r] = "finish" /\ ctx[r] # "live"
             /\ outcome'[r] \in {outcome[r], Rejected}
    <3>1. st[r] \in {Queued, Waiting}
      BY <1>00, <2>1 DEF Serving
    <3> QED BY <1>000, <2>1, <2>3, <3>1, Underway, GivingUp
  <2> QED BY <1>0, <1>6, <2>2, <2>3 DEF Line
<1>7. CASE Gate(r)
  <2>1. UNCHANGED <<st, res, result, wrote, attempt, ctx, tl, outcome>> /\ pc[r] = "gate"
    BY <1>7 DEF Gate
  <2>2. CASE pc'[r] = "start"
    <3>1. Serving(r)'
      BY <1>00, <2>1, <2>2 DEF Serving
    <3> QED BY <1>00, <1>000, <2>1, <2>2, <3>1, OnTheWay
  <2>3. CASE pc'[r] = "finish" /\ ctx[r] # "live"
    BY <1>000, <2>1, <2>3, Underway, GivingUp, StatesApart DEF HoldingPoints
  <2> QED BY <1>0, <1>7, <2>2, <2>3 DEF Gate
<1>8. CASE Spacing(r)
  <2>1. /\ UNCHANGED <<st, res, result, wrote, attempt, ctx, tl, outcome>> /\ pc[r] = "start"
        /\ pc'[r] = "finish" /\ ctx[r] # "live"
    BY <1>0, <1>8 DEF Spacing
  <2> QED BY <1>000, <2>1, Underway, GivingUp, StatesApart DEF HoldingPoints
<1>9. CASE Start(r)
  <2>1. /\ UNCHANGED <<result, wrote, ctx, tl, outcome>> /\ pc[r] = "start"
        /\ pc'[r] \in {"attempt", "doomed", "finish"}
    BY <1>0, <1>9 DEF Start
  <2>2. st'[r] = Forwarding
    BY <1>0, <1>00, <1>9, ReliedOn DEF Serving, Start, Move
  <2>3. attempt'[r] \in Nat /\ attempt'[r] > 0
    <3>1. attempt' = [attempt EXCEPT ![r] = @ + 1]
      BY <1>9 DEF Start
    <3>2. attempt \in [Requests -> Nat]
      BY <1>0
    <3> QED BY <3>1, <3>2
  <2>4. Sent(r)'
    <3>1. res'[r] \in {res[r], ""}
      BY <1>0, <1>9 DEF Start
    <3> QED BY <1>00, <2>1, <2>2, <3>1, StatesApart DEF Sent, Confirm, Abandon
  <2>5. outcome[r] = Failed /\ ctx[r] # "released"
    BY <1>00, <2>1 DEF Serving
  <2>6. CASE pc'[r] # "finish"
    <3>1. Serving(r)'
      BY <2>1, <2>2, <2>3, <2>5, <2>6 DEF Serving
    <3> QED BY <1>00, <2>1, <2>4, <2>6, <3>1, OnTheWay
  <2>7. CASE pc'[r] = "finish"
    BY <2>1, <2>2, <2>3, <2>4, <2>5, <2>7, GivingUp, StatesApart, StateNames DEF HoldingPoints
  <2> QED BY <2>6, <2>7
<1>10. CASE Governed(r) \/ Stop(r)
  <2>1. /\ UNCHANGED <<st, res, result, wrote, attempt, ctx, tl, outcome>>
        /\ pc[r] \in {"attempt", "doomed", "schedule"}
    BY <1>10 DEF Governed, Stop
  <2>2. pc'[r] = "finish"
    BY <1>0, <1>10 DEF Governed, Stop
  <2> QED BY <1>000, <2>1, <2>2, Underway, GivingUp, StatesApart DEF HoldingPoints
<1>11. CASE Succeed(r)
  <2>1. /\ UNCHANGED <<res, attempt, ctx, tl, outcome>> /\ pc[r] = "attempt"
        /\ result'[r] = "success" /\ wrote'[r] = Written(wrote[r], "success")
    BY <1>0, <1>11 DEF Succeed
  <2>2. st[r] = Forwarding /\ attempt[r] > 0 /\ outcome[r] = Failed /\ ctx[r] # "released"
    BY <1>00, <2>1 DEF Serving
  <2>3. wrote'[r] # "no"
    BY <2>1 DEF Written
  <2>4. Sent(r)'
    BY <2>1, <2>3 DEF Sent
  <2>5. CASE pc'[r] = "deliver" /\ st'[r] = Delivering
    <3>1. Serving(r)'
      BY <2>1, <2>2, <2>5 DEF Serving
    <3> QED BY <1>00, <2>1, <2>4, <2>5, <3>1, OnTheWay
  <2>6. CASE pc'[r] = "finish" /\ st'[r] = st[r]
    BY <2>1, <2>2, <2>4, <2>6, Underway, GivingUp, StatesApart DEF HoldingPoints
  <2>7. \/ pc'[r] = "finish" /\ st'[r] = st[r]
        \/ pc'[r] = "deliver" /\ st'[r] = Moved(Moved(st[r], Buffering), Delivering)
    BY <1>0, <1>11 DEF Succeed
  <2> QED BY <2>2, <2>5, <2>6, <2>7, ReliedOn
<1>12. ASSUME NEW kind \in FailureKinds, Fail(r, kind) PROVE EndState(r)'
  <2>1. /\ UNCHANGED <<res, attempt, ctx, tl, outcome>> /\ pc[r] \in {"attempt", "doomed"}
        /\ result'[r] = kind /\ wrote'[r] = Written(wrote[r], kind)
    BY <1>0, <1>12 DEF Fail
  <2>2. st[r] = Forwarding /\ attempt[r] > 0 /\ outcome[r] = Failed /\ ctx[r] # "released"
    BY <1>00, <2>1 DEF Serving
  <2>3. /\ kind = "lost" => wrote'[r] = "lost"
        /\ wrote[r] # "no" => wrote'[r] # "no"
    BY <2>1 DEF Written
  <2>4. /\ st'[r] \in Retrying /\ (st'[r] = Uncertain => InDoubt(r, kind))
        /\ pc'[r] \in {"await", "finish"}
    <3>1. CASE Pointless(r)
      BY <1>0, <1>12, <2>2, <3>1, StatesApart DEF Fail, Retrying
    <3>2. CASE ~Pointless(r) /\ kind \in {"response", "permanent"}
      <4>1. ~InDoubt(r, kind)
        BY <3>2 DEF InDoubt
      <4>2. Move(r, Buffering) /\ pc'[r] \in {"await", "finish"}
        BY <1>0, <1>12, <3>2, <4>1 DEF Fail
      <4>3. st'[r] = Buffering
        BY <1>0, <2>2, <4>2, ReliedOn DEF Move
      <4> QED BY <4>2, <4>3, StatesApart DEF Retrying
    <3>3. CASE ~Pointless(r) /\ kind \notin {"response", "permanent"} /\ InDoubt(r, kind)
      <4>1. Move(r, Uncertain) /\ pc'[r] \in {"await", "finish"}
        BY <1>0, <1>12, <3>3 DEF Fail
      <4>2. st'[r] = Uncertain
        BY <1>0, <2>2, <4>1, ReliedOn DEF Move
      <4> QED BY <3>3, <4>1, <4>2 DEF Retrying
    <3>4. CASE ~Pointless(r) /\ kind \notin {"response", "permanent"} /\ ~InDoubt(r, kind)
      <4>1. UNCHANGED st /\ pc'[r] \in {"await", "finish"}
        BY <1>0, <1>12, <3>4 DEF Fail
      <4> QED BY <2>2, <4>1, StatesApart DEF Retrying
    <3> QED BY <3>1, <3>2, <3>3, <3>4
  <2>5. Sent(r)'
    <3>1. InDoubt(r, kind) => wrote'[r] # "no"
      BY <2>3 DEF InDoubt
    <3> QED BY <1>00, <2>1, <2>3, <2>4, <3>1 DEF Sent
  <2>6. CASE pc'[r] = "await"
    <3>1. Serving(r)'
      BY <2>1, <2>2, <2>4, <2>6 DEF Serving
    <3> QED BY <1>00, <2>1, <2>5, <2>6, <3>1, OnTheWay
  <2>7. CASE pc'[r] = "finish"
    <3>1. st'[r] \in LiveStates \ {Completed} /\ st'[r] # Queued
      BY <2>4, StatesApart
    <3> QED BY <2>1, <2>2, <2>5, <2>7, <3>1, Underway, GivingUp, StatesApart DEF HoldingPoints
  <2> QED BY <2>4, <2>6, <2>7
<1>13. CASE Deliver(r)
  <2>1. /\ UNCHANGED <<res, attempt, ctx, tl, result, wrote>> /\ pc[r] = "deliver"
        /\ pc'[r] = "finish"
    BY <1>0, <1>13 DEF Deliver
  <2>2. /\ st[r] = Delivering /\ attempt[r] > 0 /\ result[r] = "success"
        /\ outcome[r] = Failed /\ ctx[r] # "released"
    BY <1>00, <2>1 DEF Serving
  <2>3. CASE UNCHANGED <<st, outcome>>
    BY <1>000, <2>1, <2>2, <2>3, Underway, GivingUp, StatesApart DEF HoldingPoints
  <2>4. CASE Move(r, Completed) /\ outcome' = [outcome EXCEPT ![r] = Successful]
    <3>1. st'[r] = Completed
      <4>1. Moved(Delivering, Completed) = Completed
        BY DEF Moved, ValidTransition, Targets, Delivering, Completed, Absent, Queued,
               Forwarding, Uncertain, Waiting, Buffering
      <4> QED BY <1>0, <2>2, <2>4, <4>1 DEF Move
    <3>2. outcome'[r] = Successful
      BY <1>0, <2>4
    <3>3. Finishing(r)'
      BY <2>1, <2>2, <3>1, <3>2, StatesApart, StateNames DEF Finishing
    <3>4. Sent(r)'
      BY <1>00, <2>1, <3>1, StatesApart DEF Sent
    <3> QED BY <1>00, <2>1, <3>3, <3>4 DEF EndState, Serving
  <2> QED BY <1>13, <2>3, <2>4 DEF Deliver
<1>14. CASE Await(r)
  <2>1. /\ UNCHANGED <<res, attempt, ctx, tl, outcome, result, wrote>> /\ pc[r] = "await"
        /\ pc'[r] \in {"manual", "schedule"}
    BY <1>0, <1>14 DEF Await
  <2>2. st[r] \in Retrying
    BY <1>00, <2>1 DEF Serving
  <2>3. st'[r] = st[r] \/ (st'[r] = Uncertain /\ Blocked(r))
    BY <1>0, <1>14 DEF Await, Move, Moved
  <2>4. st'[r] \in Retrying
    BY <2>2, <2>3 DEF Retrying
  <2>5. Serving(r)'
    BY <1>00, <2>1, <2>4 DEF Serving
  <2>6. Blocked(r) => wrote[r] # "no"
    BY <1>00 DEF Blocked, InDoubt, Sent
  <2>7. Sent(r)'
    BY <1>00, <2>1, <2>3, <2>6 DEF Sent
  <2> QED BY <1>00, <2>1, <2>5, <2>7, OnTheWay
<1>15. CASE Manual(r)
  <2>1. /\ UNCHANGED <<st, res, attempt, ctx, tl, outcome, result, wrote>> /\ pc[r] = "manual"
        /\ pc'[r] \in {"finish", "schedule", "await"}
    BY <1>0, <1>15 DEF Manual
  <2>2. CASE pc'[r] # "finish"
    <3>1. Serving(r)'
      BY <1>00, <2>1, <2>2 DEF Serving
    <3> QED BY <1>00, <1>000, <2>1, <2>2, <3>1, OnTheWay
  <2>3. CASE pc'[r] = "finish"
    BY <1>000, <2>1, <2>3, Underway, GivingUp, StatesApart DEF HoldingPoints
  <2> QED BY <2>2, <2>3
<1>16. CASE Schedule(r)
  <2>1. /\ UNCHANGED <<res, attempt, ctx, tl, outcome, result, wrote>> /\ pc[r] = "schedule"
        /\ pc'[r] = "wait"
    BY <1>0, <1>16 DEF Schedule
  <2>2. st'[r] = Waiting
    BY <1>0, <1>00, <1>16, ReliedOn DEF Serving, Schedule, Move
  <2>3. Serving(r)'
    BY <1>00, <2>1, <2>2 DEF Serving
  <2>4. Sent(r)'
    BY <1>00, <2>1, <2>2, StatesApart DEF Sent
  <2> QED BY <1>00, <2>1, <2>3, <2>4, OnTheWay
<1>17. CASE Elapse(r)
  <2>1. /\ UNCHANGED <<st, res, attempt, ctx, tl, result, wrote>>
        /\ pc[r] \in {"await", "schedule", "wait"}
        /\ pc'[r] = "finish" /\ outcome'[r] = Expired
    BY <1>0, <1>17 DEF Elapse
  <2> QED BY <1>000, <2>1, Underway, GivingUp, StatesApart DEF HoldingPoints
<1>18. CASE Wait(r)
  <2>1. /\ UNCHANGED <<st, res, attempt, ctx, tl, outcome, result, wrote>> /\ pc[r] = "wait"
        /\ pc'[r] \in {"finish", "resume", "await"}
    BY <1>0, <1>18 DEF Wait
  <2>2. CASE pc'[r] # "finish"
    <3>1. Serving(r)'
      BY <1>00, <2>1, <2>2 DEF Serving, Retrying
    <3> QED BY <1>00, <1>000, <2>1, <2>2, <3>1, OnTheWay
  <2>3. CASE pc'[r] = "finish"
    BY <1>000, <2>1, <2>3, Underway, GivingUp, StatesApart DEF HoldingPoints
  <2> QED BY <2>2, <2>3
<1>19. CASE Resume(r)
  <2>1. /\ UNCHANGED <<st, res, attempt, ctx, tl, outcome, result, wrote>> /\ pc[r] = "resume"
        /\ pc'[r] = "acquire"
    BY <1>0, <1>19 DEF Resume
  <2>2. Serving(r)'
    BY <1>00, <2>1 DEF Serving
  <2> QED BY <1>00, <1>000, <2>1, <2>2, OnTheWay
<1>20. CASE Finish(r)
  <2>1. /\ UNCHANGED <<st, res, attempt, gone, tl, result, wrote>> /\ pc[r] = "finish"
        /\ pc'[r] = "remove" /\ outcome'[r] = Settled(r)
        /\ ctx'[r] = IF ctx[r] = "live" THEN "released" ELSE ctx[r]
    BY <1>0, <1>20 DEF Finish, Ended
  <2>2. Finishing(r)
    BY <2>1 DEF EndState
  <2>3. ctx'[r] # "live" /\ st'[r] \in LiveStates
    BY <2>1, <2>2 DEF Finishing
  <2>4. CASE res[r] \in {Confirm, Abandon}
    <3>1. outcome'[r] = IF res[r] = Confirm THEN ConfirmedSuccess ELSE Abandoned
      BY <2>1, <2>4 DEF Settled
    <3>2. CASE st[r] = Uncertain
      <4>1. ValidTransition(st[r], outcome[r])'
        BY <2>1, <2>3, <3>1, <3>2, FinalTransitions
      <4>2. Justified(r, outcome[r])'
        BY <2>1, <2>4, <3>1 DEF Justified, ConfirmedSuccess, Abandoned, Successful, Rejected,
                                Canceled, Failed
      <4> QED BY <1>000, <1>00, <2>1, <2>3, <4>1, <4>2 DEF EndState, Serving, Leaving
    <3>3. CASE st[r] # Uncertain
      <4>1. ~ValidTransition(st[r], outcome[r])'
        BY <2>1, <2>3, <3>1, <3>3, FinalTransitions
      <4>2. Stuck(r)'
        BY <2>1, <2>4, <3>3 DEF Stuck
      <4> QED BY <1>000, <1>00, <2>1, <2>3, <4>1, <4>2 DEF EndState, Serving, Leaving
    <3> QED BY <3>2, <3>3
  <2>5. CASE res[r] \notin {Confirm, Abandon}
    <3>1. outcome'[r] = OfContext(r)
      BY <2>1, <2>5 DEF Settled
    <3>2. CASE outcome[r] = Rejected /\ st[r] = Waiting
      <4>1. outcome'[r] = Rejected
        BY <3>1, <3>2 DEF OfContext
      <4>2. ~ValidTransition(st[r], outcome[r])'
        BY <2>1, <2>3, <3>2, <4>1, FinalTransitions, StatesApart
      <4>3. Stuck(r)'
        BY <2>1, <3>2, <4>1 DEF Stuck
      <4> QED BY <1>000, <1>00, <2>1, <2>3, <4>2, <4>3 DEF EndState, Serving, Leaving
    <3>3. CASE outcome[r] = Rejected /\ st[r] # Waiting
      <4>1. outcome'[r] = Rejected /\ st[r] = Queued /\ attempt[r] = 0
        BY <2>2, <3>1, <3>3 DEF OfContext, Finishing
      <4>2. ValidTransition(st[r], outcome[r])'
        BY <2>1, <2>3, <4>1, FinalTransitions
      <4>3. Justified(r, outcome[r])'
        BY <2>1, <4>1 DEF Justified, Rejected, Successful, ConfirmedSuccess, Abandoned,
                          Canceled, Failed
      <4> QED BY <1>000, <1>00, <2>1, <2>3, <4>2, <4>3 DEF EndState, Serving, Leaving
    <3>4. CASE outcome[r] = Successful
      <4>1. outcome'[r] = Successful /\ st[r] = Completed /\ result[r] = "success"
        BY <2>2, <3>1, <3>4 DEF OfContext, Finishing
      <4>2. ValidTransition(st[r], outcome[r])'
        BY <2>1, <2>3, <4>1, FinalTransitions
      <4>3. Justified(r, outcome[r])'
        BY <2>1, <4>1 DEF Justified, Rejected, Successful, ConfirmedSuccess, Abandoned,
                          Canceled, Failed
      <4> QED BY <1>000, <1>00, <2>1, <2>3, <4>2, <4>3 DEF EndState, Serving, Leaving
    <3>5. CASE outcome[r] \in {Failed, Expired}
      <4>1. st[r] # Completed
        BY <2>2, <3>5, StatesApart DEF Finishing
      <4>2. CASE outcome'[r] = Expired
        <5>1. ValidTransition(st[r], outcome[r])'
          BY <2>1, <2>3, <4>1, <4>2, FinalTransitions
        <5>2. Justified(r, outcome[r])'
          BY <4>2 DEF Justified, Rejected, Successful, ConfirmedSuccess, Abandoned,
                      Canceled, Failed, Expired
        <5> QED BY <1>000, <1>00, <2>1, <2>3, <5>1, <5>2 DEF EndState, Serving, Leaving
      <4>3. CASE outcome'[r] = Canceled /\ (gone[r] \/ ctx[r] \notin {"live", "expired"})
        <5>1. ValidTransition(st[r], outcome[r])'
          BY <2>1, <2>3, <4>1, <4>3, FinalTransitions
        <5>2. ctx[r] \in {"live", "canceled", "expired"}
          BY <1>0, <2>2 DEF Finishing
        <5>3. Justified(r, outcome[r])'
          BY <2>1, <4>3, <5>2 DEF Justified, Rejected, Successful, ConfirmedSuccess, Abandoned,
                                  Canceled, Failed
        <5> QED BY <1>000, <1>00, <2>1, <2>3, <5>1, <5>3 DEF EndState, Serving, Leaving
      <4>4. CASE outcome'[r] = Failed /\ outcome[r] = Failed /\ ctx[r] = "live"
        <5>0. attempt[r] \in Nat
          BY <1>0
        <5>1. st[r] # Queued /\ attempt[r] > 0
          BY <2>2, <4>4, <5>0 DEF Finishing
        <5>2. ValidTransition(st[r], outcome[r])'
          BY <2>1, <2>3, <4>1, <4>4, <5>1, FinalTransitions
        <5>3. Justified(r, outcome[r])'
          BY <2>1, <4>4, <5>1 DEF Justified, Rejected, Successful, ConfirmedSuccess, Abandoned,
                                  Canceled, Failed
        <5> QED BY <1>000, <1>00, <2>1, <2>3, <5>2, <5>3 DEF EndState, Serving, Leaving
      <4> QED BY <3>1, <3>5, <4>2, <4>3, <4>4, StatesApart DEF OfContext
    <3> QED BY <2>2, <3>2, <3>3, <3>4, <3>5 DEF Finishing
  <2> QED BY <2>4, <2>5
<1>21. CASE Depart(r)
  <2>1. /\ UNCHANGED <<res, attempt, ctx, gone, result, wrote, outcome, journal>>
        /\ pc[r] = "remove" /\ pc'[r] = "done" /\ Remove(r, outcome[r])
    BY <1>0, <1>21 DEF Depart
  <2>2. Leaving(r) /\ tl[r] \in {"none", "active"}
    BY <1>00, <2>1 DEF EndState
  <2>3. CASE journal /\ ValidTransition(st[r], outcome[r])
    <3>1. st'[r] = Absent /\ tl'[r] = outcome[r]
      BY <1>0, <2>1, <2>3 DEF Remove
    <3>2. Justified(r, outcome[r]) /\ ctx[r] # "live"
      BY <2>2, <2>3 DEF Leaving
    <3>3. Justified(r, tl[r])'
      BY <2>1, <3>1, <3>2 DEF Justified
    <3>4. Sent(r)'
      BY <1>00, <2>1, <3>1 DEF Sent, Absent, Uncertain
    <3> QED BY <2>1, <3>1, <3>2, <3>3, <3>4 DEF EndState, Serving, Departed
  <2>4. CASE ~(journal /\ ValidTransition(st[r], outcome[r]))
    <3>1. UNCHANGED <<st, tl>>
      BY <2>1, <2>4 DEF Remove
    <3>2. ~journal' \/ Stuck(r)'
      BY <2>1, <2>2, <2>4, <3>1 DEF Leaving, Stuck
    <3>3. Departed(r)'
      BY <2>2, <3>1, <3>2, StatesApart DEF Departed
    <3> QED BY <1>000, <2>1, <3>1, <3>3 DEF EndState, Serving
  <2> QED BY <2>3, <2>4
<1> QED
  BY <1>1, <1>2, <1>3, <1>4, <1>5, <1>6, <1>7, <1>8, <1>9, <1>10, <1>11, <1>12, <1>13,
     <1>14, <1>15, <1>16, <1>17, <1>18, <1>19, <1>20, <1>21 DEF Worker

\* Whatever the administrators, the client, the deadline, the journal and a
\* reload do, every request is on a way that ends right.
LEMMA EndsInSight == Spec => []EndInv
<1>1. Init => EndInv
  <2> SUFFICES ASSUME Init, NEW r \in Requests PROVE EndState(r)
    BY DEF EndInv
  <2>1. /\ pc[r] = "new" /\ st[r] = Absent /\ res[r] = "" /\ ctx[r] = "live"
        /\ outcome[r] = Failed /\ result[r] = "none" /\ attempt[r] = 0 /\ tl[r] = "none"
    BY DEF Init
  <2>2. Sent(r)
    BY <2>1 DEF Sent, Absent, Uncertain, Confirm, Abandon
  <2> QED BY <2>1, <2>2 DEF EndState, Serving
<1>2. TypeOK /\ EndInv /\ [Next]_vars => EndInv'
  <2> SUFFICES ASSUME TypeOK, EndInv, [Next]_vars PROVE EndInv'
    OBVIOUS
  <2>1. ASSUME \A q \in Requests : FromOutside(q) PROVE EndInv'
    BY <2>1, OutsideKeeps DEF EndInv
  <2>2. ASSUME NEW r \in Requests, Worker(r) PROVE EndInv'
    <3>1. EndState(r)'
      BY <2>2, WorkerEnds DEF EndInv
    <3>2. ASSUME NEW q \in Requests \ {r} PROVE EndState(q)'
      BY <2>2, <3>2, OthersUntouched, OutsideKeeps DEF EndInv
    <3> QED BY <3>1, <3>2 DEF EndInv
  <2> USE DEF reg, local, env
  <2>3. ASSUME NEW r \in Requests, NEW signal \in Signals, AdminSignal(r, signal)
        PROVE  EndInv'
    <3>1. \A q \in Requests : FromOutside(q)
      BY <2>3 DEF AdminSignal, Ended, TypeOK, FromOutside
    <3> QED BY <2>1, <3>1
  <2>4. ASSUME NEW r \in Requests, Admin(r) PROVE EndInv'
    <3>1. \A q \in Requests : FromOutside(q)
      BY <2>4 DEF Admin, AdminCancel, AdminRetry, AdminPolicy, AdminResolve, TypeOK, FromOutside
    <3> QED BY <2>1, <3>1
  <2>5. ASSUME NEW r \in Requests, Disconnect(r) \/ Deadline(r) PROVE EndInv'
    <3>1. \A q \in Requests : FromOutside(q)
      BY <2>5, ZenonT(60) DEF Disconnect, Deadline, Ended, TypeOK, FromOutside
    <3> QED BY <2>1, <3>1
  <2>6. CASE \/ \E m \in {"running", "paused", "draining", "maintenance"} : Control(m)
             \/ JournalFails \/ Reload
    <3>1. \A q \in Requests : FromOutside(q)
      BY <2>6 DEF Control, JournalFails, Reload, FromOutside
    <3> QED BY <2>1, <3>1
  <2>7. CASE UNCHANGED vars
    <3>1. \A q \in Requests : FromOutside(q)
      BY <2>7 DEF vars, FromOutside
    <3> QED BY <2>1, <3>1
  <2> QED BY <2>2, <2>3, <2>4, <2>5, <2>6, <2>7 DEF Next, Environment, Terminated
<1> QED BY <1>1, <1>2, TypeCorrect, PTL DEF Spec

\* Every request that was served ends with a final entry that tells what
\* happened to it, and leaves the registry except for the two outcomes Remove
\* refuses: whatever the administrators, the client, the deadline, the journal
\* and a reload of allow-uncertain-retry do on the way.
THEOREM RequestsEndRight == Spec => []EndsRight
<1>1. TypeOK /\ EndInv => EndsRight
  <2> SUFFICES ASSUME TypeOK, EndInv, NEW r \in Requests
               PROVE  /\ tl[r] = Successful       => result[r] = "success"
                      /\ tl[r] = Rejected         => attempt[r] = 0
                      /\ tl[r] = ConfirmedSuccess => res[r] = Confirm /\ wrote[r] # "no"
                      /\ tl[r] = Abandoned        => res[r] = Abandon /\ wrote[r] # "no"
                      /\ tl[r] = Canceled         => ctx[r] = "canceled" \/ gone[r]
                      /\ tl[r] = Failed           => attempt[r] > 0
                      /\ (pc[r] = "done" /\ st[r] # Absent /\ journal) => Stuck(r)
    BY DEF EndsRight, OutcomeJustified, LeavesRegistry, Stuck
  <2>1. EndState(r)
    BY DEF EndInv
  <2>2. ASSUME tl[r] \in TerminalStates PROVE Justified(r, tl[r]) /\ Sent(r)
    <3>1. pc[r] = "done"
      BY <2>1, <2>2, StatesApart DEF EndState
    <3> QED BY <2>1, <2>2, <3>1 DEF EndState, Departed
  <2>3. (pc[r] = "done" /\ st[r] # Absent /\ journal) => Stuck(r)
    BY <2>1 DEF EndState, Departed
  <2> QED BY <2>2, <2>3, StateNames DEF Justified, Sent
<1> QED BY <1>1, EndsInSight, TypeCorrect, PTL

-----------------------------------------------------------------------------
(***************************************************************************)
(* What an operator's decision is worth.  RetryNow sends its token after   *)
(* it has left the lock (module Gateway, AdminRetry), so it can be taken   *)
(* for an approval; the theorems about decisions leave it out.             *)
(***************************************************************************)

\* The points on the way from awaitRetry to the next attempt.
Onward == {"schedule", "wait", "resume", "acquire", "line", "gate", "start"}
Ending == {"finish", "remove", "done"}

\* Where an approval is: asked for only while the request is uncertain, it is
\* on its way, then in the token, then in manualUncertainRetry, and it is there
\* until the next attempt uses it up.
Approved(r) ==
    /\ "retry" \in op[r] \/ token[r] =>
          /\ res[r] = Compensate
          /\ pc[r] \in Ending \/ (pc[r] \in {"await", "manual"} /\ st[r] = Uncertain)
    /\ ~("retry" \in op[r] /\ token[r])
    /\ pc[r] \in {"new", "reading", "admitted"} => result[r] = "none"
    /\ pc[r] \in {"await", "schedule"} /\ st[r] = Uncertain => InDoubt(r, result[r])
    /\ pc[r] = "await" /\ st[r] = Uncertain => ~manual[r]
    /\ pc[r] = "await" /\ manual[r] /\ InDoubt(r, result[r]) => res[r] = Compensate
    /\ pc[r] = "manual" => ~manual[r]
    /\ pc[r] \in Onward /\ InDoubt(r, result[r]) => res[r] = Compensate

\* Everything the decisions about q depend on is left alone.
Steady(q) ==
    /\ Untouched(q) /\ FromOutside(q) /\ ctx'[q] = ctx[q] /\ gone'[q] = gone[q]
    /\ res'[q] = res[q] /\ token'[q] = token[q] /\ op'[q] = op[q]

\* A worker leaves the decisions about other requests alone.
LEMMA OthersSteady ==
    ASSUME TypeOK, NEW r \in Requests, Worker(r), NEW q \in Requests \ {r}
    PROVE  Steady(q)
<1>1. Untouched(q) /\ FromOutside(q)
  BY WorkerLocal, OthersUntouched
<1>2. UNCHANGED <<gone, op>>
  BY DEF Worker, reg, local, env, Accept, Register, TurnAway, Deny, Admit, Acquire, Line, Gate,
         Spacing, Start, Governed, Succeed, Fail, Deliver, Await, Manual, Schedule, Stop,
         Elapse, Wait, Resume, Finish, Depart
<1>3. res'[q] = res[q]
  <2>1. CASE Start(r)
    BY <2>1 DEF Start, TypeOK
  <2>2. CASE ~Start(r)
    <3>1. UNCHANGED res
      BY <2>2 DEF Worker, reg, Accept, Register, TurnAway, Deny, Admit, Acquire, Line, Gate,
           Spacing, Governed, Succeed, Fail, Deliver, Await, Manual, Schedule, Stop,
           Elapse, Wait, Resume, Finish, Depart
    <3> QED BY <3>1
  <2> QED BY <2>1, <2>2
<1>4. token'[q] = token[q]
  <2>1. CASE Manual(r) \/ Wait(r)
    BY <2>1 DEF Manual, Wait, TypeOK
  <2>2. CASE ~(Manual(r) \/ Wait(r))
    <3>1. UNCHANGED token
      BY <2>2 DEF Worker, reg, Accept, Register, TurnAway, Deny, Admit, Acquire, Line, Gate,
           Spacing, Start, Governed, Succeed, Fail, Deliver, Await, Schedule, Stop,
           Elapse, Resume, Finish, Depart
    <3> QED BY <3>1
  <2> QED BY <2>1, <2>2
<1>5. ctx'[q] = ctx[q]
  <2>1. CASE Deny(r) \/ Finish(r)
    BY <2>1 DEF Deny, Finish, Ended, TypeOK
  <2>2. CASE ~(Deny(r) \/ Finish(r))
    <3>1. UNCHANGED ctx
      BY <2>2 DEF Worker, Accept, Register, TurnAway, Admit, Acquire, Line, Gate,
           Spacing, Start, Governed, Succeed, Fail, Deliver, Await, Manual, Schedule, Stop,
           Elapse, Wait, Resume, Depart
    <3> QED BY <3>1
  <2> QED BY <2>1, <2>2
<1> QED BY <1>1, <1>2, <1>3, <1>4, <1>5 DEF Steady

\* What a step leaves steady keeps the approval it had.
LEMMA SteadyApproved ==
    ASSUME NEW q \in Requests, Approved(q), Steady(q)
    PROVE  Approved(q)'
BY DEF Approved, Steady, Untouched, InDoubt

\* A worker on its way out has no more use for an approval.
LEMMA WayOut ==
    ASSUME NEW r \in Requests, Approved(r), pc'[r] \in Ending, op'[r] = op[r],
           token'[r] = token[r], res'[r] = res[r] \/ pc[r] \in Onward
    PROVE  Approved(r)'
BY DEF Approved, Ending, Onward

\* Where no attempt is made, the result and what was written stay.
LEMMA DoubtStays ==
    ASSUME NEW r, result'[r] = result[r], wrote'[r] = wrote[r]
    PROVE  InDoubt(r, result[r])' <=> InDoubt(r, result[r])
BY DEF InDoubt

\* A worker keeps to the approvals of its own request.
LEMMA WorkerApproved ==
    ASSUME TypeOK, NEW r \in Requests, ~allow, WorkerState(r), EndState(r), Approved(r),
           Worker(r)
    PROVE  Approved(r)'
<1> USE DEF Goto, reg, local, env
<1>0. /\ pc \in [Requests -> Points] /\ st \in [Requests -> LiveStates \cup {Absent}]
      /\ result \in [Requests -> ResultKinds] /\ manual \in [Requests -> BOOLEAN]
      /\ wrote \in [Requests -> {"no", "answered", "lost"}]
      /\ token \in [Requests -> BOOLEAN]
      /\ res \in [Requests -> Resolutions \cup {""}]
  BY DEF TypeOK
<1>1. CASE Accept(r) \/ Register(r)
  <2>1. pc'[r] \in {"reading", "admitted"} /\ pc[r] \in {"new", "reading"}
    BY <1>0, <1>1 DEF Accept, Register
  <2>2. UNCHANGED <<res, token, op, result>>
    BY <1>1 DEF Accept, Register
  <2> QED BY <2>1, <2>2 DEF Approved, Ending, Onward
<1>2. CASE TurnAway(r) \/ Deny(r) \/ Governed(r) \/ Stop(r) \/ Spacing(r)
  <2>1. pc'[r] \in {"done", "finish"}
    BY <1>0, <1>2 DEF TurnAway, Deny, Governed, Stop, Spacing
  <2>2. UNCHANGED <<res, token, op>>
    BY <1>2 DEF TurnAway, Deny, Governed, Stop, Spacing
  <2> QED BY <2>1, <2>2, WayOut DEF Ending
<1>3. CASE Admit(r)
  <2>1. pc'[r] = "acquire" /\ pc[r] = "admitted" /\ UNCHANGED <<res, token, op, result>>
    BY <1>0, <1>3 DEF Admit
  <2>2. ~InDoubt(r, result[r])'
    BY <2>1 DEF InDoubt, Approved
  <2> QED BY <2>1, <2>2 DEF Approved, Ending, Onward
<1>4. ASSUME pc[r] \in Onward, pc'[r] \in Onward, UNCHANGED <<res, token, op, result, wrote>>,
             pc'[r] # "schedule" PROVE Approved(r)'
  BY <1>4, DoubtStays DEF Approved, Ending, Onward
<1>5. CASE Acquire(r)
  <2>1. UNCHANGED <<res, token, op, result, wrote>> /\ pc[r] = "acquire"
    BY <1>5 DEF Acquire
  <2>2. pc'[r] \in {"gate", "line", "finish"}
    BY <1>0, <1>5 DEF Acquire
  <2> QED BY <1>4, <2>1, <2>2, WayOut DEF Onward, Ending
<1>6. CASE Line(r)
  <2>1. UNCHANGED <<res, token, op, result, wrote>> /\ pc[r] = "line"
    BY <1>6 DEF Line
  <2>2. pc'[r] \in {"gate", "finish"}
    BY <1>0, <1>6 DEF Line
  <2> QED BY <1>4, <2>1, <2>2, WayOut DEF Onward, Ending
<1>7. CASE Gate(r)
  <2>1. UNCHANGED <<res, token, op, result, wrote>> /\ pc[r] = "gate"
    BY <1>7 DEF Gate
  <2>2. pc'[r] \in {"start", "finish"}
    BY <1>0, <1>7 DEF Gate
  <2> QED BY <1>4, <2>1, <2>2, WayOut DEF Onward, Ending
<1>8. CASE Start(r)
  <2>1. /\ UNCHANGED <<token, op>> /\ pc[r] = "start"
        /\ pc'[r] \in {"attempt", "doomed", "finish"}
    BY <1>0, <1>8 DEF Start
  <2> QED BY <2>1 DEF Approved, Onward, Ending
<1>9. CASE Succeed(r)
  <2>1. /\ UNCHANGED <<res, token, op>> /\ pc[r] = "attempt"
        /\ pc'[r] \in {"deliver", "finish"}
    BY <1>0, <1>9 DEF Succeed
  <2> QED BY <2>1 DEF Approved, Onward, Ending
<1>10. ASSUME NEW kind \in FailureKinds, Fail(r, kind) PROVE Approved(r)'
  <2>1. /\ UNCHANGED <<res, token, op>> /\ pc[r] \in {"attempt", "doomed"}
        /\ pc'[r] \in {"await", "finish"} /\ ~manual'[r]
        /\ result'[r] = kind /\ wrote'[r] = Written(wrote[r], kind)
    BY <1>0, <1>10 DEF Fail
  <2>2. CASE pc'[r] = "finish"
    BY <2>1, <2>2, WayOut DEF Ending
  <2>3. CASE pc'[r] = "await"
    <3>1. ~Pointless(r)
      BY <1>0, <1>10, <2>3 DEF Fail
    <3>2. InDoubt(r, kind) => InDoubt(r, result[r])'
      BY <2>1 DEF InDoubt, Written
    <3>3. st'[r] = Uncertain => InDoubt(r, kind)
      <4>0. st[r] = Forwarding
        BY <2>1 DEF WorkerState
      <4>1. CASE ~InDoubt(r, kind) /\ kind \in {"response", "permanent"}
        <5>1. Move(r, Buffering)
          BY <1>10, <3>1, <4>1 DEF Fail
        <5> QED BY <1>0, <4>0, <5>1, ReliedOn, StatesApart DEF Move
      <4>2. CASE ~InDoubt(r, kind) /\ kind \notin {"response", "permanent"}
        <5>1. UNCHANGED st
          BY <1>10, <3>1, <4>2 DEF Fail
        <5> QED BY <4>0, <5>1, StatesApart
      <4> QED BY <4>1, <4>2
    <3>4. ~token[r] /\ "retry" \notin op[r]
      BY <2>1 DEF Approved, Ending
    <3> QED BY <2>1, <2>3, <3>2, <3>3, <3>4 DEF Approved, Onward
  <2> QED BY <2>1, <2>2, <2>3
<1>11. CASE Deliver(r) \/ Elapse(r) \/ Finish(r) \/ Depart(r)
  <2>1. pc'[r] \in Ending
    BY <1>0, <1>11 DEF Deliver, Elapse, Finish, Depart, Ending
  <2>2. UNCHANGED <<res, token, op>>
    BY <1>11 DEF Deliver, Elapse, Finish, Depart
  <2> QED BY <2>1, <2>2, WayOut
<1>12. CASE Await(r)
  <2>1. UNCHANGED <<res, token, op, result, wrote, manual>> /\ pc[r] = "await"
    BY <1>12 DEF Await
  <2>2. CASE Blocked(r)
    <3>1. pc'[r] = "manual" /\ ~manual'[r] /\ Move(r, Uncertain)
      BY <1>0, <1>12, <2>1, <2>2 DEF Await, Blocked
    <3>2. st[r] = Uncertain
      BY <2>1, <2>2 DEF WorkerState
    <3>3. st'[r] = Uncertain
      BY <1>0, <3>1, <3>2, ReliedOn DEF Move
    <3> QED BY <2>1, <3>1, <3>3 DEF Approved, Onward
  <2>3. CASE ~Blocked(r)
    <3>1. pc'[r] = "schedule" /\ UNCHANGED st
      BY <1>0, <1>12, <2>3 DEF Await
    <3>2. InDoubt(r, result[r]) => manual[r]
      BY <2>3 DEF Blocked
    <3>3. ~token[r] /\ "retry" \notin op[r]
      BY <2>1, <3>2 DEF Approved, Ending
    <3> QED BY <2>1, <3>1, <3>2, <3>3, DoubtStays DEF Approved, Onward
  <2> QED BY <2>2, <2>3
<1>13. CASE Manual(r)
  <2>1. UNCHANGED <<st, res, op, result, wrote>> /\ pc[r] = "manual"
    BY <1>13 DEF Manual
  <2>2. st[r] = Uncertain /\ InDoubt(r, result[r]) /\ ~manual[r]
    BY <2>1 DEF WorkerState, Approved
  <2>3. CASE pc'[r] = "finish" /\ UNCHANGED token
    BY <2>1, <2>3, WayOut DEF Ending
  <2>4. CASE token[r] /\ ~token'[r] /\ pc'[r] = "schedule"
    <3>1. res[r] = Compensate /\ "retry" \notin op[r]
      BY <2>4 DEF Approved
    <3> QED BY <2>1, <2>2, <2>4, <3>1, DoubtStays DEF Approved, Onward
  <2>5. CASE pc'[r] = "await" /\ UNCHANGED <<token, manual>>
    BY <2>1, <2>2, <2>5, DoubtStays DEF Approved, Onward
  <2> QED BY <1>0, <1>13, <2>3, <2>4, <2>5 DEF Manual
<1>14. CASE Schedule(r)
  <2>1. UNCHANGED <<res, token, op, result, wrote>> /\ pc[r] = "schedule" /\ pc'[r] = "wait"
    BY <1>0, <1>14 DEF Schedule
  <2> QED BY <1>4, <2>1 DEF Onward
<1>15. CASE Wait(r)
  <2>1. UNCHANGED <<st, res, op, result, wrote, manual>> /\ pc[r] = "wait"
    BY <1>15 DEF Wait
  <2>2. ~token[r] /\ "retry" \notin op[r]
    BY <2>1 DEF Approved, Ending
  <2>3. st[r] # Uncertain
    BY <2>1, StatesApart DEF WorkerState
  <2>4. token'[r] = token[r] /\ pc'[r] \in {"finish", "resume", "await"}
    BY <1>0, <1>15, <2>2 DEF Wait
  <2>5. CASE pc'[r] = "finish"
    BY <2>1, <2>4, <2>5, WayOut DEF Ending
  <2>6. CASE pc'[r] = "resume"
    BY <2>1, <2>2, <2>4, <2>6, DoubtStays DEF Approved, Onward
  <2>7. CASE pc'[r] = "await"
    BY <2>1, <2>2, <2>3, <2>4, <2>7, DoubtStays DEF Approved, Onward
  <2> QED BY <2>4, <2>5, <2>6, <2>7
<1>16. CASE Resume(r)
  <2>1. UNCHANGED <<res, token, op, result, wrote>> /\ pc[r] = "resume" /\ pc'[r] = "acquire"
    BY <1>0, <1>16 DEF Resume
  <2> QED BY <1>4, <2>1 DEF Onward
<1> QED
  BY <1>1, <1>2, <1>3, <1>5, <1>6, <1>7, <1>8, <1>9, <1>10, <1>11, <1>12, <1>13,
     <1>14, <1>15, <1>16 DEF Worker

\* An operator can resolve a request only where its worker waits for him, or
\* where nobody will look at the answer any more.
LEMMA ResolvableWhere ==
    ASSUME TypeOK, NEW r \in Requests, ~allow, WorkerState(r), EndState(r), Approved(r),
           st[r] = Uncertain, res[r] = ""
    PROVE  pc[r] \in {"await", "manual"} \cup Ending
<1>1. pc[r] \in Points
  BY DEF TypeOK
<1>2. pc[r] # "schedule"
  BY DEF Approved, Compensate, Onward
<1>3. pc[r] \notin {"new", "reading", "admitted", "acquire", "line", "gate", "start", "attempt",
                   "doomed", "deliver", "wait", "resume"}
  BY StatesApart, StateNames DEF EndState, Serving
<1> QED BY <1>1, <1>2, <1>3 DEF Points, HoldingPoints, Ending

ApprovedInv == allow \/ \A r \in Requests : Approved(r)

\* Without RetryNow, and while allow-uncertain-retry is not reloaded, the only
\* retry token is the one an approved compensation sends.
LEMMA TokensAreApprovals ==
    ASSUME \A a, b \in AllowChoices : a = b, "retry" \notin Events
    PROVE  Spec => []ApprovedInv
<1>1. Init => ApprovedInv
  <2> SUFFICES ASSUME Init, NEW r \in Requests PROVE Approved(r)
    BY DEF ApprovedInv
  <2>1. pc[r] = "new" /\ op[r] = {} /\ ~token[r] /\ result[r] = "none"
    BY DEF Init
  <2> QED BY <2>1 DEF Approved, Onward
<1>2. TypeOK /\ WorkerInv /\ EndInv /\ ApprovedInv /\ [Next]_vars => ApprovedInv'
  <2> SUFFICES ASSUME TypeOK, WorkerInv, EndInv, ApprovedInv, [Next]_vars PROVE ApprovedInv'
    OBVIOUS
  <2>0. allow' = allow
    <3>1. CASE Reload
      BY <3>1 DEF Reload, WorkerInv
    <3>2. CASE ~Reload
      BY <3>2, ZenonT(60) DEF Next, Environment, Terminated, vars, Worker, env, Accept, Register, TurnAway,
           Deny, Admit, Acquire, Line, Gate, Spacing, Start, Governed, Succeed, Fail, Deliver,
           Await, Manual, Schedule, Stop, Elapse, Wait, Resume, Finish, Depart, AdminSignal,
           Admin, AdminCancel, AdminRetry, AdminPolicy, AdminResolve, Disconnect, Deadline,
           Control, JournalFails
    <3> QED BY <3>1, <3>2
  <2>1. CASE allow
    BY <2>0, <2>1 DEF ApprovedInv
  <2>2. CASE ~allow
    <3>0. \A q \in Requests : Approved(q) /\ WorkerState(q) /\ EndState(q)
      BY <2>2 DEF ApprovedInv, WorkerInv, EndInv
    <3>1. ASSUME NEW r \in Requests, Worker(r) PROVE ApprovedInv'
      <4>1. Approved(r)'
        BY <2>2, <3>0, <3>1, WorkerApproved
      <4>2. ASSUME NEW q \in Requests \ {r} PROVE Approved(q)'
        BY <3>0, <3>1, <4>2, OthersSteady, SteadyApproved
      <4> QED BY <4>1, <4>2 DEF ApprovedInv
    <3> USE DEF reg, local, env
    <3>2. ASSUME NEW r \in Requests, NEW signal \in Signals, AdminSignal(r, signal)
          PROVE  ApprovedInv'
      <4>1. UNCHANGED <<pc, st, res, result, wrote, manual>>
        BY <3>2 DEF AdminSignal
      <4>2. \A q \in Requests : /\ op'[q] \subseteq op[q]
                                /\ token'[q] => token[q] \/ ("retry" \in op[q] /\ "retry" \notin op'[q])
        BY <3>2 DEF AdminSignal, TypeOK
      <4>3. ASSUME NEW q \in Requests PROVE Approved(q)'
        BY <3>0, <4>1, <4>2 DEF Approved, InDoubt
      <4> QED BY <4>3 DEF ApprovedInv
    <3>3. ASSUME NEW r \in Requests, Admin(r) PROVE ApprovedInv'
      <4>1. CASE AdminCancel(r) \/ AdminPolicy(r)
        <5>1. UNCHANGED <<pc, st, res, token, result, wrote, manual>>
          BY <4>1 DEF AdminCancel, AdminPolicy
        <5>2. \A q \in Requests : "retry" \in op'[q] => "retry" \in op[q]
          <6>1. PICK s \in {"cancel", "policy"} : op' = [op EXCEPT ![r] = @ \cup {s}]
            BY <4>1 DEF AdminCancel, AdminPolicy, Issue
          <6>2. op \in [Requests -> SUBSET Signals]
            BY DEF TypeOK
          <6> QED BY <6>1, <6>2
        <5>3. ASSUME NEW q \in Requests PROVE Approved(q)'
          BY <3>0, <5>1, <5>2 DEF Approved, InDoubt
        <5> QED BY <5>3 DEF ApprovedInv
      <4>2. ASSUME NEW x \in Resolutions, AdminResolve(r, x) PROVE ApprovedInv'
        <5>1. /\ UNCHANGED <<pc, st, token, result, wrote, manual>>
              /\ st[r] = Uncertain /\ res[r] = "" /\ res'[r] = x
          BY <4>2 DEF AdminResolve, TypeOK
        <5>2. \A q \in Requests \ {r} : res'[q] = res[q] /\ op'[q] = op[q]
          BY <4>2 DEF AdminResolve, Issue, TypeOK
        <5>3. "retry" \in op'[r] => "retry" \in op[r] \/ x = Compensate
          BY <4>2 DEF AdminResolve, Issue, TypeOK
        <5>4. pc[r] \in {"await", "manual"} \cup Ending
          BY <2>2, <3>0, <5>1, ResolvableWhere
        <5>5. ~token[r] /\ "retry" \notin op[r]
          BY <3>0, <5>1 DEF Approved, Compensate
        <5>6. Approved(r)'
          BY <3>0, <5>1, <5>3, <5>4, <5>5, DoubtStays DEF Approved, Onward, Ending
        <5>7. ASSUME NEW q \in Requests \ {r} PROVE Approved(q)'
          BY <3>0, <5>1, <5>2 DEF Approved, InDoubt
        <5> QED BY <5>6, <5>7 DEF ApprovedInv
      <4>3. ~AdminRetry(r)
        BY DEF AdminRetry
      <4> QED BY <3>3, <4>1, <4>2, <4>3 DEF Admin
    <3>4. ASSUME UNCHANGED <<pc, st, res, token, op, result, wrote, manual>> PROVE ApprovedInv'
      BY <3>0, <3>4 DEF ApprovedInv, Approved, InDoubt
    <3>5. ASSUME NEW r \in Requests, Disconnect(r) \/ Deadline(r) PROVE ApprovedInv'
      BY <3>4, <3>5 DEF Disconnect, Deadline
    <3>6. CASE \/ \E m \in {"running", "paused", "draining", "maintenance"} : Control(m)
               \/ JournalFails \/ Reload
      BY <3>4, <3>6 DEF Control, JournalFails, Reload
    <3>7. CASE UNCHANGED vars
      BY <3>4, <3>7 DEF vars
    <3> QED BY <3>1, <3>2, <3>3, <3>5, <3>6, <3>7 DEF Next, Environment, Terminated
  <2> QED BY <2>1, <2>2
<1> QED BY <1>1, <1>2, TypeCorrect, WorkersInStep, EndsInSight, PTL DEF Spec

\* Only Start begins an attempt, and only of its own request.
LEMMA AttemptsStart ==
    ASSUME TypeOK, [Next]_vars, NEW r \in Requests, attempt'[r] > attempt[r]
    PROVE  Start(r)
<1>0. attempt[r] \in Nat
  BY DEF TypeOK
<1>1. SUFFICES ASSUME ~Start(r) PROVE attempt'[r] = attempt[r]
  BY <1>0, <1>1
<1> USE DEF local
<1>2. ASSUME NEW q \in Requests, Worker(q) PROVE attempt'[r] = attempt[r]
  <2>1. CASE q = r
    BY <1>1, <1>2, <2>1 DEF Worker, Accept, Register, TurnAway, Deny, Admit, Acquire, Line,
         Gate, Spacing, Governed, Succeed, Fail, Deliver, Await, Manual, Schedule, Stop,
         Elapse, Wait, Resume, Finish, Depart
  <2>2. CASE q # r
    BY <1>2, <2>2, WorkerLocal DEF Untouched
  <2> QED BY <2>1, <2>2
<1>3. CASE \/ \E q \in Requests, signal \in Signals : AdminSignal(q, signal)
           \/ Environment \/ UNCHANGED vars
  BY <1>3 DEF AdminSignal, Environment, Admin, AdminCancel, AdminRetry, AdminPolicy,
       AdminResolve, Disconnect, Deadline, Control, JournalFails, Reload, vars
<1> QED BY <1>2, <1>3 DEF Next, Terminated

\* Where uncertain retries are not allowed and nobody uses RetryNow, an attempt
\* in doubt is followed by another one only after an operator asked for
\* compensation: no cancellation, policy change, timer or resume gets past
\* waitForManualRetry.
THEOREM NoRetryUnasked ==
    ASSUME \A a, b \in AllowChoices : a = b, "retry" \notin Events
    PROVE  Spec => UncertainNeedsOperator
<1>1. TypeOK /\ ApprovedInv /\ [Next]_vars =>
         [\A r \in Requests : (attempt'[r] > attempt[r] /\ InDoubt(r, result[r]) /\ ~allow)
                                 => res[r] = Compensate]_vars
  <2> SUFFICES ASSUME TypeOK, ApprovedInv, [Next]_vars, NEW r \in Requests,
                      attempt'[r] > attempt[r], InDoubt(r, result[r]), ~allow
               PROVE  res[r] = Compensate
    OBVIOUS
  <2>1. pc[r] = "start"
    BY AttemptsStart DEF Start
  <2> QED BY <2>1 DEF ApprovedInv, Approved, Onward
<1> QED BY <1>1, TypeCorrect, TokensAreApprovals, PTL DEF Spec, UncertainNeedsOperator

-----------------------------------------------------------------------------
Verdicts == {Confirm, Abandon}
VerdictState(r) == IF res[r] = Confirm THEN ConfirmedSuccess ELSE Abandoned

\* A verdict holds the request in the uncertain state until Remove has written
\* it: only a verdict ends a context, and a request that nobody waits for any
\* more is uncertain only if the journal has failed.
Decided(r) ==
    /\ ~gone[r] /\ ctx[r] # "expired"
    /\ ctx[r] = "canceled" \/ "cancel" \in op[r] => res[r] \in Verdicts
    /\ pc[r] \notin {"await", "manual"} \cup Ending => res[r] \notin Verdicts
    /\ pc[r] \in {"await", "manual"} /\ st[r] = Uncertain => InDoubt(r, result[r]) /\ ~manual[r]
    /\ pc[r] \in Ending /\ st[r] = Uncertain /\ res[r] = "" => ~journal
    /\ pc[r] \in {"await", "manual", "finish", "remove"} /\ res[r] \in Verdicts =>
          st[r] = Uncertain
    /\ pc[r] = "remove" /\ res[r] \in Verdicts => outcome[r] = VerdictState(r)
    /\ pc[r] = "done" /\ res[r] \in Verdicts => ~journal \/ tl[r] = VerdictState(r)
    /\ pc[r] \in {"new", "reading", "admitted", "attempt", "doomed", "deliver"} => res[r] = ""

\* What a step leaves steady keeps the verdict it had.
LEMMA SteadyDecided ==
    ASSUME NEW q \in Requests, Decided(q), Steady(q)
    PROVE  Decided(q)'
BY DEF Decided, Steady, Untouched, FromOutside, InDoubt, VerdictState

\* A worker that goes on its way leaves no verdict behind.
LEMMA NoVerdictOnward ==
    ASSUME NEW r \in Requests, Decided(r), gone'[r] = gone[r], ctx'[r] = ctx[r],
           op'[r] = op[r], res'[r] = res[r],
           pc[r] \notin {"await", "manual"} \cup Ending,
           \/ pc'[r] \in Onward
           \/ /\ pc'[r] \in {"new", "reading", "admitted", "attempt", "doomed", "deliver"}
              /\ res[r] = ""
           \/ pc'[r] = "finish" /\ (st'[r] = Uncertain /\ res[r] = "" => ~journal')
           \/ /\ pc'[r] = "await"
              /\ st'[r] = Uncertain => InDoubt(r, result[r])' /\ ~manual'[r]
    PROVE  Decided(r)'
BY DEF Decided, Ending, Onward

\* A worker carries the verdict on its own request to Remove.
LEMMA WorkerDecided ==
    ASSUME TypeOK, NEW r \in Requests, ~allow, "deadline" \notin Events,
           WorkerState(r), EndState(r), Approved(r), Decided(r), Worker(r)
    PROVE  Decided(r)'
<1> USE DEF Goto, reg, local, env
<1>0. /\ pc \in [Requests -> Points] /\ st \in [Requests -> LiveStates \cup {Absent}]
      /\ result \in [Requests -> ResultKinds] /\ manual \in [Requests -> BOOLEAN]
      /\ wrote \in [Requests -> {"no", "answered", "lost"}]
      /\ token \in [Requests -> BOOLEAN]
      /\ res \in [Requests -> Resolutions \cup {""}]
      /\ ctx \in [Requests -> {"live", "canceled", "expired", "released"}]
      /\ outcome \in [Requests -> TerminalStates]
      /\ tl \in [Requests -> TerminalStates \cup {"none", "active"}]
      /\ journal \in BOOLEAN
  BY DEF TypeOK
<1>00. /\ Serving(r) /\ (pc[r] \in {"acquire", "line", "gate", "start"} => st[r] # Uncertain)
       /\ (pc[r] \in {"attempt", "doomed", "deliver", "wait", "resume"} => st[r] # Uncertain)
  BY StatesApart DEF EndState, Serving
<1>1. CASE Accept(r) \/ Register(r)
  <2>1. pc'[r] \in {"reading", "admitted"} /\ pc[r] \in {"new", "reading"}
    BY <1>0, <1>1 DEF Accept, Register
  <2>2. UNCHANGED <<res, ctx, op, gone>>
    BY <1>1 DEF Accept, Register
  <2>3. res[r] = ""
    BY <2>1 DEF Decided
  <2> QED BY <2>1, <2>2, <2>3, NoVerdictOnward DEF Ending
<1>2. CASE TurnAway(r)
  <2>1. /\ pc[r] \in {"new", "reading"} /\ pc'[r] = "done"
        /\ UNCHANGED <<st, res, ctx, op, gone>>
    BY <1>0, <1>2 DEF TurnAway
  <2>2. res[r] = "" /\ st[r] = Absent
    BY <1>00, <2>1 DEF Decided, Serving
  <2> QED BY <2>1, <2>2 DEF Decided, Ending, Verdicts, Confirm, Abandon, Absent, Uncertain
<1>3. CASE Deny(r)
  <2>1. /\ pc[r] = "admitted" /\ pc'[r] = "done" /\ UNCHANGED <<res, op, gone>>
        /\ ctx'[r] \in {ctx[r], "released"} /\ st'[r] \in {st[r], Absent}
    BY <1>0, <1>3 DEF Deny, Ended, Remove
  <2>2. res[r] = "" /\ st[r] = Queued
    BY <1>00, <2>1 DEF Decided, Serving
  <2>3. st'[r] # Uncertain
    BY <2>1, <2>2, StatesApart, StateNames
  <2> QED BY <2>1, <2>2, <2>3 DEF Decided, Ending, Verdicts, Confirm, Abandon
<1>4. CASE Admit(r) \/ Resume(r) \/ Schedule(r)
  <2>1. pc'[r] \in {"acquire", "wait"} /\ pc[r] \in {"admitted", "resume", "schedule"}
    BY <1>0, <1>4 DEF Admit, Resume, Schedule
  <2>2. UNCHANGED <<res, ctx, op, gone>>
    BY <1>4 DEF Admit, Resume, Schedule
  <2> QED BY <2>1, <2>2, NoVerdictOnward DEF Onward, Ending
<1>5. CASE Acquire(r) \/ Line(r) \/ Gate(r) \/ Spacing(r)
  <2>1. /\ pc'[r] \in {"gate", "line", "start", "finish"}
        /\ pc[r] \in {"acquire", "line", "gate", "start"}
    <3>1. CASE Acquire(r)
      BY <1>0, <3>1 DEF Acquire
    <3>2. CASE Line(r)
      BY <1>0, <3>2 DEF Line
    <3>3. CASE Gate(r) \/ Spacing(r)
      BY <1>0, <3>3 DEF Gate, Spacing
    <3> QED BY <1>5, <3>1, <3>2, <3>3
  <2>2. UNCHANGED <<st, res, ctx, op, gone>>
    BY <1>5 DEF Acquire, Line, Gate, Spacing
  <2> QED BY <1>00, <2>1, <2>2, NoVerdictOnward DEF Onward, Ending
<1>6. CASE Start(r)
  <2>1. /\ UNCHANGED <<op, ctx, gone>> /\ pc[r] = "start"
        /\ pc'[r] \in {"attempt", "doomed", "finish"}
        /\ res'[r] = IF ValidTransition(st[r], Forwarding) /\ res[r] = Compensate
                     THEN "" ELSE res[r]
    BY <1>0, <1>6 DEF Start
  <2>2. ValidTransition(st[r], Forwarding)
    <3>1. st[r] \in {Queued, Waiting}
      BY <1>00, <2>1 DEF Serving
    <3> QED BY <3>1 DEF ValidTransition, Targets, Queued, Forwarding, Uncertain, Waiting,
                        Buffering, Delivering, Completed
  <2>3. res'[r] = ""
    <3>1. res[r] \in Resolutions \cup {""} /\ res[r] \notin Verdicts
      BY <1>0, <2>1 DEF Decided, Ending
    <3> QED BY <2>1, <2>2, <3>1 DEF Resolutions, Verdicts
  <2>4. st'[r] # Uncertain
    BY <1>0, <1>00, <1>6, <2>1, ReliedOn, StatesApart DEF Serving, Start, Move
  <2>5. "cancel" \notin op[r] /\ ctx[r] # "canceled"
    BY <2>1 DEF Decided, Ending
  <2> QED BY <2>1, <2>3, <2>4, <2>5 DEF Decided, Ending, Verdicts, Confirm, Abandon
<1>7. CASE Governed(r) \/ Deliver(r) \/ Succeed(r)
  <2>1. /\ pc[r] \in {"attempt", "doomed", "deliver"} /\ pc'[r] \in {"finish", "deliver"}
    BY <1>0, <1>7 DEF Governed, Deliver, Succeed
  <2>2. UNCHANGED <<res, op, ctx, gone>>
    BY <1>7 DEF Governed, Deliver, Succeed
  <2>3. st'[r] # Uncertain
    <3>1. CASE Governed(r)
      BY <1>00, <2>1, <3>1 DEF Governed
    <3>2. CASE Deliver(r)
      BY <1>0, <1>00, <2>1, <3>2, StatesApart DEF Deliver, Move, Moved
    <3>3. CASE Succeed(r)
      <4>1. st'[r] \in {st[r], Buffering, Delivering}
        BY <1>0, <3>3, ZenonT(60) DEF Succeed, Moved
      <4> QED BY <1>00, <2>1, <4>1, StatesApart
    <3> QED BY <1>7, <3>1, <3>2, <3>3
  <2>4. res[r] = ""
    BY <2>1 DEF Decided
  <2> QED BY <2>1, <2>2, <2>3, <2>4, NoVerdictOnward DEF Ending
<1>8. ASSUME NEW kind \in FailureKinds, Fail(r, kind) PROVE Decided(r)'
  <2>1. /\ UNCHANGED <<res, ctx, op, gone, journal>> /\ pc[r] \in {"attempt", "doomed"}
        /\ pc'[r] \in {"await", "finish"} /\ ~manual'[r]
    BY <1>0, <1>8 DEF Fail
  <2>2. ~Pointless(r)
    BY DEF Pointless, Decided
  <2>3. CASE pc'[r] = "finish"
    <3>1. ~journal
      BY <1>0, <1>8, <2>2, <2>3 DEF Fail
    <3> QED BY <2>1, <2>3, <3>1, NoVerdictOnward DEF Ending
  <2>4. CASE pc'[r] = "await"
    <3>1. st'[r] = Uncertain => InDoubt(r, result[r])'
      BY <1>8, <2>4, WorkerApproved DEF Worker, Approved
    <3> QED BY <2>1, <2>4, <3>1, NoVerdictOnward DEF Ending
  <2> QED BY <2>1, <2>3, <2>4
<1>9. CASE Await(r)
  <2>1. /\ UNCHANGED <<res, op, ctx, gone, result, wrote, manual>> /\ pc[r] = "await"
    BY <1>9 DEF Await
  <2>2. CASE Blocked(r)
    <3>1. pc'[r] = "manual" /\ Move(r, Uncertain)
      BY <1>0, <1>9, <2>2 DEF Await
    <3>2. st[r] = Uncertain
      BY <2>1, <2>2 DEF WorkerState
    <3>3. st'[r] = Uncertain
      BY <1>0, <3>1, <3>2, ReliedOn DEF Move
    <3> QED BY <2>1, <3>1, <3>2, <3>3, DoubtStays DEF Decided, Ending
  <2>3. CASE ~Blocked(r)
    <3>1. pc'[r] = "schedule" /\ UNCHANGED st
      BY <1>0, <1>9, <2>3 DEF Await
    <3>2. res[r] \notin Verdicts
      BY <2>1, <2>3 DEF Decided, Blocked
    <3> QED BY <2>1, <3>1, <3>2 DEF Decided, Ending
  <2> QED BY <2>2, <2>3
<1>10. CASE Manual(r)
  <2>1. UNCHANGED <<st, res, op, ctx, gone, result, wrote>> /\ pc[r] = "manual"
    BY <1>10 DEF Manual
  <2>2. st[r] = Uncertain /\ InDoubt(r, result[r]) /\ ~manual[r]
    BY <2>1 DEF WorkerState, Approved
  <2>3. CASE pc'[r] = "finish" /\ ctx[r] # "live"
    <3>1. ctx[r] = "canceled"
      BY <1>0, <1>00, <2>1, <2>3 DEF Serving, Decided
    <3>2. res[r] \in Verdicts
      BY <3>1 DEF Decided
    <3> QED BY <2>1, <2>2, <2>3, <3>2 DEF Decided, Ending, Verdicts, Confirm, Abandon
  <2>4. CASE token[r] /\ pc'[r] = "schedule"
    <3>1. res[r] = Compensate
      BY <2>4 DEF Approved
    <3> QED BY <2>1, <2>4, <3>1 DEF Decided, Ending, Verdicts, Confirm, Abandon, Compensate
  <2>5. CASE pc'[r] = "await" /\ UNCHANGED manual
    BY <2>1, <2>2, <2>5, DoubtStays DEF Decided, Ending
  <2> QED BY <1>0, <1>10, <2>3, <2>4, <2>5 DEF Manual
<1>11. CASE Stop(r)
  <2>1. UNCHANGED <<st, res, op, ctx, gone>> /\ pc[r] = "schedule" /\ pc'[r] = "finish"
    BY <1>0, <1>11 DEF Stop
  <2>2. st[r] = Uncertain => res[r] # ""
    BY <2>1 DEF Approved, Onward, Compensate
  <2> QED BY <2>1, <2>2, NoVerdictOnward DEF Ending
<1>12. ~Elapse(r)
  BY DEF Elapse
<1>13. CASE Wait(r)
  <2>1. UNCHANGED <<st, res, op, ctx, gone>> /\ pc[r] = "wait"
    BY <1>13 DEF Wait
  <2>2. pc'[r] \in {"finish", "resume", "await"}
    BY <1>0, <1>13 DEF Wait
  <2> QED BY <1>00, <2>1, <2>2, NoVerdictOnward DEF Onward, Ending
<1>14. CASE Finish(r)
  <2>1. /\ UNCHANGED <<st, res, op, gone, journal>> /\ pc[r] = "finish" /\ pc'[r] = "remove"
        /\ ctx'[r] \in {ctx[r], "released"} /\ outcome'[r] = Settled(r)
    BY <1>0, <1>14 DEF Finish, Ended
  <2>2. res[r] \in Verdicts => outcome'[r] = VerdictState(r)'
    BY <2>1 DEF Settled, Verdicts, VerdictState
  <2> QED BY <2>1, <2>2 DEF Decided, Ending
<1>15. CASE Depart(r)
  <2>1. /\ UNCHANGED <<res, op, ctx, gone, outcome, journal>> /\ pc[r] = "remove"
        /\ pc'[r] = "done" /\ Remove(r, outcome[r])
    BY <1>0, <1>15 DEF Depart
  <2>2. st'[r] \in {st[r], Absent}
    BY <1>0, <2>1 DEF Remove
  <2>3. ASSUME res[r] \in Verdicts, journal PROVE tl'[r] = VerdictState(r)'
    <3>1. st[r] = Uncertain /\ outcome[r] = VerdictState(r)
      BY <2>1, <2>3 DEF Decided
    <3>2. ValidTransition(st[r], outcome[r])
      BY <3>1, FinalTransitions, StateNames DEF VerdictState
    <3> QED BY <1>0, <2>1, <2>3, <3>1, <3>2 DEF Remove, VerdictState
  <2>4. Absent # Uncertain
    BY DEF Absent, Uncertain
  <2> QED BY <2>1, <2>2, <2>3, <2>4 DEF Decided, Ending
<1> QED
  BY <1>1, <1>2, <1>3, <1>4, <1>5, <1>6, <1>7, <1>8, <1>9, <1>10, <1>11, <1>12, <1>13,
     <1>14, <1>15 DEF Worker

DecidedInv == \A r \in Requests : Decided(r)

\* While nothing but a verdict ends a context, no step loses a verdict.
LEMMA VerdictsKept ==
    ASSUME AllowChoices = {FALSE},
           Events \cap {"disconnect", "deadline", "cancel", "retry"} = {}
    PROVE  Spec => []DecidedInv
<1>0. (\A a, b \in AllowChoices : a = b) /\ "retry" \notin Events
  OBVIOUS
<1>1. Init => DecidedInv
  <2> SUFFICES ASSUME Init, NEW r \in Requests PROVE Decided(r)
    BY DEF DecidedInv
  <2>1. /\ pc[r] = "new" /\ op[r] = {} /\ res[r] = "" /\ ctx[r] = "live" /\ ~gone[r]
    BY DEF Init
  <2> QED BY <2>1 DEF Decided, Ending, Verdicts, Confirm, Abandon
<1>2. TypeOK /\ WorkerInv /\ EndInv /\ ApprovedInv /\ DecidedInv /\ [Next]_vars => DecidedInv'
  <2> SUFFICES ASSUME TypeOK, WorkerInv, EndInv, ApprovedInv, DecidedInv, [Next]_vars
               PROVE  DecidedInv'
    OBVIOUS
  <2>0. ~allow
    BY DEF WorkerInv
  <2>1. \A q \in Requests : Decided(q) /\ Approved(q) /\ WorkerState(q) /\ EndState(q)
    BY <2>0 DEF DecidedInv, ApprovedInv, WorkerInv, EndInv
  <2>2. ASSUME NEW r \in Requests, Worker(r) PROVE DecidedInv'
    <3>1. Decided(r)'
      BY <2>0, <2>1, <2>2, WorkerDecided
    <3>2. ASSUME NEW q \in Requests \ {r} PROVE Decided(q)'
      BY <2>1, <2>2, <3>2, OthersSteady, SteadyDecided
    <3> QED BY <3>1, <3>2 DEF DecidedInv
  <2> USE DEF reg, local, env
  <2>3. ASSUME NEW r \in Requests, NEW signal \in Signals, AdminSignal(r, signal)
        PROVE  DecidedInv'
    <3>1. UNCHANGED <<pc, st, res, tl, outcome, result, wrote, manual, gone, journal>>
      BY <2>3 DEF AdminSignal
    <3>2. \A q \in Requests : /\ op'[q] \subseteq op[q]
                              /\ ctx'[q] = ctx[q] \/ (ctx'[q] = "canceled" /\ "cancel" \in op[q])
      BY <2>3 DEF AdminSignal, Ended, TypeOK
    <3>3. ASSUME NEW q \in Requests PROVE Decided(q)'
      BY <2>1, <3>1, <3>2 DEF Decided, InDoubt, VerdictState
    <3> QED BY <3>3 DEF DecidedInv
  <2>4. ASSUME NEW r \in Requests, Admin(r) PROVE DecidedInv'
    <3>1. CASE AdminPolicy(r)
      <4>1. UNCHANGED <<pc, st, res, tl, ctx, outcome, result, wrote, manual, gone, journal>>
        BY <3>1 DEF AdminPolicy
      <4>2. \A q \in Requests : "cancel" \in op'[q] => "cancel" \in op[q]
        BY <3>1 DEF AdminPolicy, Issue, TypeOK
      <4>3. ASSUME NEW q \in Requests PROVE Decided(q)'
        BY <2>1, <4>1, <4>2 DEF Decided, InDoubt, VerdictState
      <4> QED BY <4>3 DEF DecidedInv
    <3>2. ASSUME NEW x \in Resolutions, AdminResolve(r, x) PROVE DecidedInv'
      <4>1. /\ UNCHANGED <<pc, st, tl, ctx, outcome, result, wrote, manual, gone, journal>>
            /\ st[r] = Uncertain /\ res[r] = "" /\ journal /\ res'[r] = x
        BY <3>2 DEF AdminResolve, TypeOK
      <4>2. \A q \in Requests \ {r} : res'[q] = res[q] /\ op'[q] = op[q]
        BY <3>2 DEF AdminResolve, Issue, TypeOK
      <4>3. "cancel" \in op'[r] => "cancel" \in op[r] \/ x # Compensate
        BY <3>2 DEF AdminResolve, Issue, TypeOK
      <4>4. pc[r] \in {"await", "manual"}
        <5>1. pc[r] \in {"await", "manual"} \cup Ending
          BY <2>0, <2>1, <4>1, ResolvableWhere
        <5>2. pc[r] \notin Ending
          BY <2>1, <4>1 DEF Decided
        <5> QED BY <5>1, <5>2
      <4>5. "cancel" \notin op[r] /\ ctx[r] # "canceled"
        BY <2>1, <4>1 DEF Decided, Verdicts, Confirm, Abandon
      <4>6. x # Compensate => x \in Verdicts
        BY DEF Resolutions, Verdicts
      <4>7. Decided(r)'
        BY <2>1, <4>1, <4>3, <4>4, <4>5, <4>6, DoubtStays DEF Decided, Ending
      <4>8. ASSUME NEW q \in Requests \ {r} PROVE Decided(q)'
        BY <2>1, <4>1, <4>2 DEF Decided, InDoubt, VerdictState
      <4> QED BY <4>7, <4>8 DEF DecidedInv
    <3>3. ~AdminCancel(r) /\ ~AdminRetry(r)
      BY DEF AdminCancel, AdminRetry
    <3> QED BY <2>4, <3>1, <3>2, <3>3 DEF Admin
  <2>5. ASSUME UNCHANGED <<pc, st, res, tl, op, ctx, outcome, result, wrote, manual, gone>>,
               journal' => journal
        PROVE  DecidedInv'
    BY <2>1, <2>5 DEF DecidedInv, Decided, InDoubt, VerdictState
  <2>6. ASSUME NEW r \in Requests PROVE ~Disconnect(r) /\ ~Deadline(r)
    BY DEF Disconnect, Deadline
  <2>7. CASE \/ \E m \in {"running", "paused", "draining", "maintenance"} : Control(m)
             \/ JournalFails \/ Reload
    BY <2>5, <2>7 DEF Control, JournalFails, Reload
  <2>8. CASE UNCHANGED vars
    BY <2>5, <2>8 DEF vars
  <2> QED BY <2>2, <2>3, <2>4, <2>6, <2>7, <2>8 DEF Next, Environment, Terminated
<1> QED BY <1>0, <1>1, <1>2, TypeCorrect, WorkersInStep, EndsInSight, TokensAreApprovals, PTL
        DEF Spec

\* Where uncertain retries are not allowed and nothing but a verdict ends the
\* context of a request, the verdict an operator gave is the final entry of its
\* timeline, wherever its worker was when ResolveUncertain accepted it, unless
\* the journal could not take it.
THEOREM VerdictsAreFinal ==
    ASSUME AllowChoices = {FALSE},
           Events \cap {"disconnect", "deadline", "cancel", "retry"} = {}
    PROVE  Spec => []ResolutionHonoured
<1>1. DecidedInv => ResolutionHonoured
  <2> SUFFICES ASSUME DecidedInv, NEW r \in Requests, pc[r] = "done", journal
               PROVE  /\ res[r] = Confirm => tl[r] = ConfirmedSuccess
                      /\ res[r] = Abandon => tl[r] = Abandoned
    BY DEF ResolutionHonoured
  <2>1. Decided(r)
    BY DEF DecidedInv
  <2> QED BY <2>1 DEF Decided, Verdicts, VerdictState, Confirm, Abandon
<1> QED BY <1>1, VerdictsKept, PTL
=============================================================================
