-------------------------------- MODULE Repeat --------------------------------
(***************************************************************************)
(* Repeat tasks: a request that is sent again and again.  The manager      *)
(* (internal/repeat/manager.go) with one goroutine per task and a journal, *)
(* its API (internal/admin/repeat_api.go), and the dialog and the panel of *)
(* the console (components/RepeatTaskDialog.tsx, RepeatTasksPanel.tsx).    *)
(*                                                                         *)
(* Time is left out: a wait may end at any time, and a deadline passes at  *)
(* some time.  So are the labels of a task (its last outcome, why it       *)
(* stopped).  Of the journal, whose file is the subject of Journal, only   *)
(* the last snapshot of a task matters, and that a store that failed once  *)
(* refuses every append until it is opened again.                          *)
(*                                                                         *)
(* Bounds: MaxPresses things the operator does, MaxFaults crashes and      *)
(* failing writes.  The tasks are the ids there are.                       *)
(***************************************************************************)
EXTENDS Integers, FiniteSets

CONSTANTS Tasks, Sources,
          Inputs,          \* what can be sent by the dialog
          Absent,          \* no task, or no request
          ThresholdLimit,  \* 1000 in the code
          MaxPresses, MaxFaults

ASSUME RepeatAssumption ==
    /\ Absent \notin Tasks \cup Sources
    /\ {ThresholdLimit, MaxPresses, MaxFaults} \subseteq Nat

\* types.ts RepeatTask, manager.go Task.  A limit of zero is none.
CreateInput == [executions : Nat, failures : Nat, threshold : Nat, tokens : Nat, forever : BOOLEAN]
TaskStates  == {"running", "paused", "stopped", "expired", "interrupted"}
Task        == [source : Sources, input : CreateInput, state : TaskStates, inFlight : BOOLEAN,
                executions : Nat, failures : Nat, consecutive : Nat, tokens : Nat]
NewTask(s, input) == [source |-> s, input |-> input, state |-> "running", inFlight |-> FALSE,
                      executions |-> 0, failures |-> 0, consecutive |-> 0, tokens |-> 0]

ASSUME InputAssumption == Inputs \subseteq CreateInput /\ Absent \notin Task

VARIABLES sources,     \* the requests: their templates are registered until they are gone
          manager,     \* "up", "closed" or "down"
          tasks,       \* the tasks in memory
          snapshots,   \* the last snapshot of each in the journal
          degraded,    \* the journal has failed
          worker,      \* where the goroutine of a task is
          wake, cancelled, overdue,
          launched,    \* history: executions begun
          creating,    \* calls that create a task, under way
          presses, faults

taskVars    == <<tasks, snapshots, degraded, faults>>
threadVars  == <<worker, wake, cancelled, overdue, launched>>
consoleVars == <<creating, presses>>
repeatVars  == <<sources, manager, taskVars, threadVars, consoleVars>>

terminal(state) == state \in {"stopped", "expired", "interrupted"}
Ended(task)  == task # Absent /\ terminal(task.state)
Active(task) == task # Absent /\ ~terminal(task.state)

\* The tasks, their goroutines and the calls.
RepeatTypeOK ==
    /\ tasks \in [Tasks -> Task \cup {Absent}] /\ snapshots \in [Tasks -> Task \cup {Absent}]
    /\ worker \in [Tasks -> {"none", "next", "wait", "begin", "execute"}]
    /\ manager \in {"up", "closed", "down"} /\ sources \in [Sources -> {"live", "uncertain", "gone"}]
    /\ \A call \in creating : call.which \in Sources /\ call.checked \in BOOLEAN

RepeatInit ==
    /\ sources = [s \in Sources |-> "live"] /\ manager = "up"
    /\ tasks = [t \in Tasks |-> Absent] /\ snapshots = tasks /\ degraded = FALSE
    /\ worker = [t \in Tasks |-> "none"]
    /\ wake = [t \in Tasks |-> FALSE] /\ cancelled = wake /\ overdue = wake
    /\ launched = [t \in Tasks |-> 0]
    /\ creating = {}
    /\ presses = 0 /\ faults = 0

Press == presses < MaxPresses /\ presses' = presses + 1
Fault == faults < MaxFaults /\ faults' = faults + 1

------------------------------------------------------------------------------
\* appendLocked: the snapshot is in the journal, or the append fails: a store
\* that has failed refuses it, and one that fails now may have written it.

Written(t, task) ==
    /\ ~degraded
    /\ snapshots' = [snapshots EXCEPT ![t] = task]
    /\ UNCHANGED <<degraded, faults>>
NotWritten(t, task) ==
    /\ degraded' = TRUE
    /\ \/ degraded /\ UNCHANGED <<snapshots, faults>>
       \/ ~degraded /\ Fault /\ snapshots' \in {snapshots, [snapshots EXCEPT ![t] = task]}

Becomes(t, task) == tasks' = [tasks EXCEPT ![t] = task]
Moves(t, place)  == worker' = [worker EXCEPT ![t] = place]
Cancels(t)       == cancelled' = [cancelled EXCEPT ![t] = TRUE]

\* finishLocked, and what commitLocked leaves of a task it could not record.
finishLocked(task) == [task EXCEPT !.state = "expired", !.inFlight = FALSE]
Suspended(task)    == [task EXCEPT !.state = "paused", !.inFlight = FALSE]
commitLocked(t, task, previous) ==
    \/ /\ Written(t, task) /\ Becomes(t, task)
       /\ IF Ended(task) THEN Cancels(t) ELSE UNCHANGED cancelled
    \/ /\ NotWritten(t, task) /\ Becomes(t, Suspended(previous))
       /\ Cancels(t)
expireLocked(t) == commitLocked(t, finishLocked(tasks[t]), tasks[t])

------------------------------------------------------------------------------
\* The goroutine of a task: next, waitFor, beginExecution, the executor and
\* finishExecution.

next(t) ==
    /\ worker[t] = "next"
    /\ \/ /\ Ended(tasks[t])
          /\ Moves(t, "none")
          /\ UNCHANGED <<taskVars, cancelled>>
       \/ /\ Active(tasks[t]) /\ (tasks[t].state = "paused" \/ ~overdue[t])
          /\ Moves(t, "wait")
          /\ UNCHANGED <<taskVars, cancelled>>
       \/ /\ Active(tasks[t]) /\ tasks[t].state = "running" /\ overdue[t]
          /\ expireLocked(t)
          /\ Moves(t, "none")
    /\ UNCHANGED <<sources, manager, wake, overdue, launched, consoleVars>>

\* The context, the wake-up or the timer, whichever is chosen of those there.
waitFor(t) ==
    /\ worker[t] = "wait"
    /\ \/ cancelled[t] /\ Moves(t, "none") /\ UNCHANGED wake
       \/ wake[t] /\ Moves(t, "begin") /\ wake' = [wake EXCEPT ![t] = FALSE]
       \/ Moves(t, "begin") /\ UNCHANGED wake
    /\ UNCHANGED <<sources, manager, taskVars, cancelled, overdue, launched, consoleVars>>

MayBeginUnlessInFlight(task) == ~task.inFlight
MayBegin(task) == task.state = "running" /\ ~task.inFlight
Exhausted(task) == task.input.executions > 0 /\ task.executions >= task.input.executions
beginExecution(t) ==
    /\ worker[t] = "begin"
    /\ LET task   == tasks[t]
           begun  == [task EXCEPT !.inFlight = TRUE]
           paused == [task EXCEPT !.state = "paused"]
       IN  \/ /\ ~MayBegin(task)
              /\ Moves(t, "next")
              /\ UNCHANGED <<taskVars, cancelled, launched>>
           \/ /\ MayBegin(task) /\ Exhausted(task)
              /\ Becomes(t, finishLocked(task)) /\ Cancels(t) /\ Moves(t, "next")
              /\ UNCHANGED <<snapshots, degraded, faults, launched>>
           \/ /\ MayBegin(task) /\ ~Exhausted(task) /\ overdue[t]
              /\ expireLocked(t) /\ Moves(t, "next")
              /\ UNCHANGED launched
           \/ /\ MayBegin(task) /\ ~Exhausted(task) /\ ~overdue[t]
              /\ \/ /\ Written(t, begun) /\ Becomes(t, begun) /\ Moves(t, "execute")
                    /\ launched' = [launched EXCEPT ![t] = @ + 1]
                    /\ UNCHANGED cancelled
                 \/ /\ NotWritten(t, begun) /\ Becomes(t, paused) /\ Cancels(t) /\ Moves(t, "next")
                    /\ UNCHANGED launched
    /\ UNCHANGED <<sources, manager, wake, overdue, consoleVars>>

\* What a result makes of a task: it is counted, and the task goes on, is
\* paused because its tokens are unknown or it keeps failing, or has reached
\* one of its limits.
Results == [success : BOOLEAN, usage : {Absent, 1}]
CountedResult(task, result) ==
    [task EXCEPT !.inFlight = FALSE, !.executions = @ + 1,
                 !.failures = IF result.success THEN @ ELSE @ + 1,
                 !.consecutive = IF result.success THEN 0 ELSE @ + 1,
                 !.tokens = IF task.input.tokens > 0 /\ result.usage # Absent THEN @ + result.usage ELSE @]
Reached(limit, count) == limit > 0 /\ count >= limit
Finished(task, result) ==
    LET counted == CountedResult(task, result)
        input   == task.input
        Paused  == [counted EXCEPT !.state = "paused"]
        Unknown == input.tokens > 0 /\ result.usage = Absent
        Spent   == Reached(input.tokens, counted.tokens) \/ Reached(input.failures, counted.failures)
        Tripped == ~result.success /\ Reached(input.threshold, counted.consecutive)
        Done    == Reached(input.executions, counted.executions)
    IN  IF Unknown \/ (Tripped /\ ~Spent) THEN Paused
        ELSE IF Spent \/ Done THEN finishLocked(counted)
        ELSE counted
finishExecution(t) ==
    /\ worker[t] = "execute"
    /\ Moves(t, "next")
    /\ \/ Ended(tasks[t]) /\ UNCHANGED <<taskVars, cancelled>>
       \/ /\ Active(tasks[t])
          /\ \E result \in Results : commitLocked(t, Finished(tasks[t], result), tasks[t])
    /\ UNCHANGED <<sources, manager, wake, overdue, launched, consoleVars>>

\* Time, and the request a task was made from.
deadlinePasses(t) ==
    /\ Active(tasks[t]) /\ ~tasks[t].input.forever /\ ~overdue[t]
    /\ overdue' = [overdue EXCEPT ![t] = TRUE]
    /\ UNCHANGED <<sources, manager, taskVars, worker, wake, cancelled, launched, consoleVars>>
sourceMoves(s) ==
    /\ sources[s] # "gone"
    /\ \E to \in {"live", "uncertain", "gone"} \ {sources[s]} : sources' = [sources EXCEPT ![s] = to]
    /\ UNCHANGED <<manager, taskVars, threadVars, consoleVars>>

------------------------------------------------------------------------------
\* The dialog, the panel and the API.  The dialog can be closed and opened again
\* while its call is under way and stays when its request is gone, so calls may
\* be under way together, for any request.  Each is checked against the
\* registry and then handed to the manager.

validInput(input) ==
    /\ input.threshold <= ThresholdLimit
    /\ (input.threshold > 0 /\ input.failures > 0) => input.threshold <= input.failures
hasRunningTask(s) == \E t \in Tasks : Active(tasks[t]) /\ tasks[t].source = s /\ tasks[t].state = "running"
hasActiveTask(s) == \E t \in Tasks : Active(tasks[t]) /\ tasks[t].source = s

\* newID: ids are random, so which of the unused ones is all the same.
Unused == {t \in Tasks : tasks[t] = Absent /\ snapshots[t] = Absent}

submit(s) ==
    /\ Press
    /\ \E input \in Inputs : creating' = creating \cup {[which |-> s, input |-> input, number |-> presses, checked |-> FALSE]}
    /\ UNCHANGED <<sources, manager, taskVars, threadVars>>
createRepeatTask(call) ==
    /\ manager # "down" /\ ~call.checked
    /\ creating' = (creating \ {call}) \cup (IF sources[call.which] = "live" THEN {[call EXCEPT !.checked = TRUE]} ELSE {})
    /\ UNCHANGED <<sources, manager, taskVars, threadVars, presses>>
Create(call) ==
    /\ manager # "down" /\ call.checked
    /\ creating' = creating \ {call}
    /\ IF /\ validInput(call.input) /\ manager = "up"
          /\ sources[call.which] # "gone" /\ ~hasActiveTask(call.which)
       THEN /\ Unused # {}
            /\ LET t    == CHOOSE t \in Unused : TRUE
                   task == NewTask(call.which, call.input)
               IN  \/ Written(t, task) /\ Becomes(t, task) /\ Moves(t, "next")
                   \/ NotWritten(t, task) /\ UNCHANGED <<tasks, worker>>
       ELSE UNCHANGED <<taskVars, worker>>
    /\ UNCHANGED <<sources, manager, wake, cancelled, overdue, launched, presses>>

\* Pause, Resume, RunNow and Stop: recorded, or undone and refused.
Changed(task, what) ==
    CASE what = "pause"  -> [task EXCEPT !.state = "paused"]
      [] what = "resume" -> [task EXCEPT !.state = "running", !.consecutive = 0]
      [] what = "run"    -> [task EXCEPT !.state = "running"]
      [] what = "stop"   -> [task EXCEPT !.state = "stopped", !.inFlight = FALSE]
repeatTaskAction(t, what) ==
    /\ manager # "down"
    /\ LET task == Changed(tasks[t], what)
       IN  \/ ~Active(tasks[t]) /\ UNCHANGED <<taskVars, wake, cancelled>>
           \/ /\ Active(tasks[t]) /\ Written(t, task) /\ Becomes(t, task)
              /\ IF what = "stop" THEN Cancels(t) /\ UNCHANGED wake
                 ELSE wake' = [wake EXCEPT ![t] = TRUE] /\ UNCHANGED cancelled
           \/ Active(tasks[t]) /\ NotWritten(t, task) /\ UNCHANGED <<tasks, wake, cancelled>>

\* A button of the panel.  It is there for the states of a copy of the tasks
\* that may be of any age, and the call is carried out some time later, so
\* any of them may be carried out at any time; the answer is a refresh.
act(t) ==
    /\ Press /\ tasks[t] # Absent
    /\ \E what \in {"pause", "resume", "run", "stop"} : repeatTaskAction(t, what)
    /\ UNCHANGED <<sources, manager, worker, overdue, launched, creating>>

------------------------------------------------------------------------------
\* Close, the end of the process, and New with replay.

Interrupted(f, which) ==
    [t \in Tasks |-> IF t \in which THEN [f[t] EXCEPT !.state = "interrupted", !.inFlight = FALSE] ELSE f[t]]
\* The snapshots of `open`, up to the first that fails, which may be written.
Interrupts(f, open, done) ==
    /\ done \subseteq open
    /\ \/ /\ done = open /\ (open # {} => ~degraded)
          /\ snapshots' = [t \in Tasks |-> IF t \in open THEN Interrupted(f, open)[t] ELSE snapshots[t]]
          /\ UNCHANGED <<degraded, faults>>
       \/ /\ done # open /\ ~degraded /\ Fault /\ degraded' = TRUE
          /\ \E more \in {{}} \cup {{t} : t \in open \ done} :
                snapshots' = [t \in Tasks |-> IF t \in done \cup more THEN Interrupted(f, open)[t] ELSE snapshots[t]]
       \/ done = {} /\ open # {} /\ degraded /\ UNCHANGED <<snapshots, degraded, faults>>
Close ==
    /\ manager = "up" /\ manager' = "closed"
    /\ LET open == {t \in Tasks : Active(tasks[t])}
       IN  /\ \E done \in SUBSET open : Interrupts(tasks, open, done) /\ tasks' = Interrupted(tasks, done)
           /\ cancelled' = [t \in Tasks |-> cancelled[t] \/ t \in open]
    /\ UNCHANGED <<sources, worker, wake, overdue, launched, consoleVars>>

\* The process ends, before or after Close: the memory is gone, and so are the
\* requests.
processEnds ==
    /\ manager # "down" /\ manager' = "down"
    /\ \/ manager = "closed" /\ UNCHANGED faults
       \/ manager = "up" /\ Fault
    /\ tasks' = [t \in Tasks |-> Absent] /\ worker' = [t \in Tasks |-> "none"]
    /\ wake' = [t \in Tasks |-> FALSE] /\ cancelled' = wake' /\ overdue' = wake'
    /\ sources' = [s \in Sources |-> "gone"]
    /\ creating' = {}
    /\ UNCHANGED <<snapshots, degraded, launched, presses>>
\* The journal is open again; a replay that cannot record fails the start.
replay ==
    /\ manager = "down"
    /\ LET open == {t \in Tasks : Active(snapshots[t])}
       IN  \E done \in SUBSET open :
              /\ \/ /\ done = open
                    /\ snapshots' = Interrupted(snapshots, open) /\ tasks' = snapshots'
                    /\ manager' = "up" /\ UNCHANGED faults
                 \/ /\ done # open /\ Fault
                    /\ snapshots' = Interrupted(snapshots, done)
                    /\ UNCHANGED <<tasks, manager>>
    /\ degraded' = FALSE
    /\ UNCHANGED <<sources, threadVars, consoleVars>>

------------------------------------------------------------------------------
RepeatNext ==
    \/ \E t \in Tasks : next(t)
    \/ \E t \in Tasks : waitFor(t)
    \/ \E t \in Tasks : beginExecution(t)
    \/ \E t \in Tasks : finishExecution(t)
    \/ \E t \in Tasks : deadlinePasses(t)
    \/ \E s \in Sources : sourceMoves(s)
    \/ \E s \in Sources : submit(s)
    \/ \E call \in creating : createRepeatTask(call)
    \/ \E call \in creating : Create(call)
    \/ \E t \in Tasks : act(t)
    \/ Close
    \/ processEnds
    \/ replay
RepeatSpec == RepeatInit /\ [][RepeatNext]_repeatVars

------------------------------------------------------------------------------
\* A request has one task at a time that is not at its end (Create and
\* hasActiveTaskLocked).
OneActiveTask ==
    \A t, u \in Tasks : (Active(tasks[t]) /\ Active(tasks[u]) /\ tasks[t].source = tasks[u].source) => t = u

\* The executor is not called more often than a task allows, whatever results
\* could not be recorded, and never once its tokens are used up or its
\* failures are too many (beginExecution and finishExecution, with the undoing
\* of commitLocked).  With one exception, which is the code's: a result whose
\* tokens are unknown pauses a task whose tokens are limited before its
\* failures are looked at, so that such a task, resumed, is sent once more
\* for each time it is resumed, past the failures it is allowed.
WithinLimits ==
    \A t \in Tasks : tasks[t] # Absent =>
        LET input == tasks[t].input
        IN  /\ tasks[t].executions <= launched[t]
            /\ input.executions > 0 => launched[t] <= input.executions
            /\ (worker[t] = "execute" /\ Active(tasks[t])) =>
                  /\ ~Reached(input.tokens, tasks[t].tokens)
                  /\ input.tokens = 0 => ~Reached(input.failures, tasks[t].failures)

\* A task that is running has a goroutine with a context that can still run
\* it: one whose goroutine left when the journal failed cannot be resumed
\* (Resume, RunNow and commitLocked).
RunningRuns ==
    \A t \in Tasks : (manager = "up" /\ Active(tasks[t]) /\ tasks[t].state = "running") =>
        worker[t] # "none" /\ ~cancelled[t]

\* An execution under way is in the journal, or its task is stopped there, so
\* a restart finds no execution it does not know of (beginExecution).
RecordedFirst ==
    \A t \in Tasks : worker[t] = "execute" =>
        snapshots[t] # Absent /\ (snapshots[t].inFlight \/ Ended(snapshots[t]))

\* The four of them: one task per request, within its limits, with a
\* goroutine while it runs, and in the journal before it is sent
\* (manager.go Create, beginExecution, finishExecution, Resume).
RepeatSound == RepeatTypeOK /\ OneActiveTask /\ WithinLimits /\ RunningRuns /\ RecordedFirst

\* A task that has ended never runs again and never becomes anything but
\* ended, in memory and in the journal, whatever result of its last execution
\* comes in late, whatever buttons of an old panel are pressed, and over a
\* restart (finishExecution, changeState, Resume, RunNow, Stop and replay).
EndedForGood ==
    [][ \A t \in Tasks :
          /\ (Ended(tasks[t]) \/ Ended(snapshots[t])) => launched'[t] = launched[t]
          /\ Ended(tasks[t]) => (manager' = "down" \/ Ended(tasks'[t]))
          /\ Ended(snapshots[t]) => Ended(snapshots'[t]) ]_repeatVars
=============================================================================
