------------------------------ MODULE Timeline ------------------------------
(***************************************************************************)
(* The request timeline (internal/timeline/store.go) on its journal, with  *)
(* the start of the process and the hourly compaction (cmd/relay-lifeline/ *)
(* main.go).                                                               *)
(*                                                                         *)
(* Start, Add and Finish hold the timeline's lock while they append, so    *)
(* one call is under way at a time.  The compaction asks the timeline for  *)
(* the active requests, gives its lock up, and only then takes the         *)
(* journal's: calls come in between.  After a crash the journal is         *)
(* verified and replayed, and every request it shows as active is finished *)
(* as orphaned before the process serves.                                  *)
(*                                                                         *)
(* A record is whether its request is active.  The details of its events   *)
(* and the pruned list of finished requests are left out.                  *)
(***************************************************************************)
EXTENDS Journal

CONSTANT MaxLives  \* bound: how often the process is started

VARIABLES phase,   \* "down", "orphaning", "starting", "running", "exiting" or "refused"
          active,  \* Store.active: IDs of the active records
          mine,    \* requests that have a worker in this process
          told,    \* the last record change that a caller was told of; "found" once a
                   \* start of the process found an ending nobody was told of
          snap,    \* the compaction under way: its protected IDs and its cutoff
          lives    \* how often the process was started

tvars == <<phase, active, mine, told, snap, lives>>
vars  == <<jvars, tvars>>

EventKinds == {"start", "event", "ended", "orphaned"}
Final      == {"ended", "orphaned"}

ASSUME TimelineAssumption == Kinds = EventKinds /\ MaxLives \in Nat

Phases == {"down", "orphaning", "starting", "running", "exiting", "refused"}

Init ==
    /\ JournalInit
    /\ phase = "down" /\ lives = 0
    /\ active = {} /\ mine = {} /\ snap = <<>>
    /\ told = [r \in Entities |-> "none"]

-----------------------------------------------------------------------------
\* replay, as a function of the lines: a request is open after line i if its
\* last line that is no event is a start.
OpenAfter(ls, i, r) ==
    \E j \in 1..i : /\ ls[j].id = r /\ ls[j].kind = "start"
                    /\ \A k \in (j + 1)..i : ls[k].id = r => ls[k].kind \notin Final

\* replay reports no error: what is not a start belongs to an active request.
Replayable(ls) ==
    \A i \in DOMAIN ls : ls[i].kind # "start" => OpenAfter(ls, i - 1, ls[i].id)

\* The requests that are active after the replay.
Live(ls) == {r \in Entities : OpenAfter(ls, Len(ls), r)}

\* The lines finish the request.
Ended(ls, r) == \E i \in DOMAIN ls : ls[i].id = r /\ ls[i].kind \in Final

\* OpenWithIntegrity and NewPersistent: a journal that does not verify, or
\* cannot be replayed, keeps the process from starting.
Startup ==
    /\ phase = "down" /\ lives < MaxLives
    /\ lives' = lives + 1
    /\ IF Accepts
       THEN /\ Open
            /\ phase' = IF Replayable(file) THEN "orphaning" ELSE "refused"
            /\ active' = Live(file)
            /\ told' = [r \in Entities |-> IF told[r] \notin Final /\ Ended(file, r)
                                          THEN "found" ELSE told[r]]
       ELSE /\ phase' = "refused"
            /\ UNCHANGED <<jvars, active, told>>
    /\ UNCHANGED <<mine, snap>>

\* After the last orphan: the journal is compacted before the process serves.
Restored ==
    /\ phase = "orphaning" /\ active = {} /\ at = "idle"
    /\ snap' = <<[ids |-> active, cutoff |-> clock]>>
    /\ phase' = "starting"
    /\ UNCHANGED <<jvars, active, mine, told, lives>>

\* orphanInterrupted, one request.
Interrupted(r) == phase = "orphaning" /\ r \in active

\* StartWithIdentity, Add and Finish: Add and Finish ignore a request that is
\* not active.
Call(r, kind) ==
    \/ /\ phase = "running" /\ kind = "start" /\ told[r] = "none" /\ r \notin mine
    \/ /\ phase = "running" /\ kind \in {"event", "ended"} /\ r \in mine \cap active
    \/ /\ kind = "orphaned" /\ Interrupted(r)

\* The call takes the locks and writes its line.
Begin(r, kind) ==
    /\ Call(r, kind)
    /\ Write(r, kind)
    /\ mine' = IF kind = "start" THEN mine \cup {r} ELSE mine
    /\ UNCHANGED <<phase, active, told, snap, lives>>

\* A record changes only when its line is safe.
Succeed ==
    /\ Commit
    /\ LET l == pending[1]
       IN  /\ active' = CASE l.kind = "start" -> active \cup {l.id}
                          [] l.kind \in Final -> active \ {l.id}
                          [] OTHER            -> active
           /\ told' = IF l.kind = "event" THEN told ELSE [told EXCEPT ![l.id] = l.kind]
    /\ UNCHANGED <<phase, mine, snap, lives>>

\* An error goes back to the caller; while the process starts it is fatal.
Fail ==
    /\ SyncFails \/ CommitFails \/ \E r \in Entities, k \in Kinds : Call(r, k) /\ WriteFails(r, k)
    /\ phase' = IF phase = "running" THEN phase ELSE "exiting"
    /\ UNCHANGED <<active, mine, told, snap, lives>>

-----------------------------------------------------------------------------
\* maintainJournals: the ticker sets the cutoff, ActiveIDs copies the active
\* requests.
ActiveIDs ==
    /\ phase = "running" /\ at = "idle" /\ snap = <<>>
    /\ snap' = <<[ids |-> active, cutoff |-> clock]>>
    /\ UNCHANGED <<jvars, phase, active, mine, told, lives>>

Compaction ==
    /\ snap # <<>>
    /\ Compact(snap[1].ids, snap[1].cutoff)
    /\ UNCHANGED tvars

\* The compaction is over: it had nothing to remove, or it is complete.
CompactionEnds ==
    /\ snap # <<>>
    /\ \/ at = "idle" /\ ~Removable(snap[1].ids, snap[1].cutoff) /\ UNCHANGED jvars
       \/ CompactCommit
    /\ snap' = <<>>
    /\ phase' = "running"
    /\ UNCHANGED <<active, mine, told, lives>>

\* It failed, before the rename or at the anchor: fatal only at the start.
CompactionFails ==
    /\ snap # <<>>
    /\ \/ at = "idle" /\ Removable(snap[1].ids, snap[1].cutoff) /\ UNCHANGED jvars
       \/ CompactCommitFails
    /\ snap' = <<>>
    /\ phase' = IF phase = "running" THEN phase ELSE "exiting"
    /\ UNCHANGED <<active, mine, told, lives>>

\* The process is killed, loses power, or exits.
Die ==
    /\ phase \notin {"down", "refused"}
    /\ Crash
    /\ phase' = "down"
    /\ active' = {} /\ mine' = {} /\ snap' = <<>>
    /\ UNCHANGED <<told, lives>>

TimePasses == Tick /\ UNCHANGED tvars

Next ==
    \/ Startup \/ Restored
    \/ \E r \in Entities, k \in Kinds : Begin(r, k)
    \/ (Sync /\ UNCHANGED tvars) \/ Succeed \/ Fail
    \/ ActiveIDs \/ Compaction \/ CompactionEnds \/ CompactionFails
    \/ Die \/ TimePasses

Spec == Init /\ [][Next]_vars

-----------------------------------------------------------------------------
\* The variables have the types of the two stores.
TypeOK ==
    /\ JournalTypeOK
    /\ phase \in Phases
    /\ active \subseteq Entities /\ mine \subseteq Entities
    /\ told \in [Entities -> EventKinds \cup {"none", "found"}]
    /\ snap \in {<<>>} \cup {<<s>> : s \in [ids : SUBSET Entities, cutoff : 0..MaxClock]}
    /\ lives \in 0..MaxLives

\* Whatever fails and wherever the process stops, the whole lines on the disk
\* are an unbroken chain that replay accepts: a compaction never takes the
\* start of a request away that later lines belong to.
FileReplays == torn # "partial" => Chained(file) /\ Replayable(file)

\* With synced writes, what a caller was told survives: an active request is
\* found again after a crash, and a finished one is never called orphaned.
AcknowledgedSurvives ==
    SyncWrites =>
        \A r \in Entities :
            /\ told[r] = "start" => \E i \in DOMAIN file : file[i].id = r /\ file[i].kind = "start"
            /\ told[r] = "ended" => /\ r \notin Live(file)
                                    /\ \A i \in DOMAIN file :
                                          file[i].id = r => file[i].kind # "orphaned"

\* Outside a call the records in memory are what the journal's entries say,
\* and while the store is healthy these are the lines of the file: a restart
\* finds the state the process was in.
MemoryIsReplay ==
    (phase = "running" /\ at = "idle") =>
        /\ active = Live(entries)
        /\ health = "healthy" => entries = file

\* A running process has no active record without a worker that will finish
\* it: interrupted requests were all finished as orphaned.
NoGhosts == phase = "running" => active \subseteq mine

\* A process that stops between two calls, with a healthy journal whose lines
\* can all be decoded, can be started again: file, chain and anchor agree.
CleanStopReopens ==
    (phase = "running" /\ at = "idle" /\ health = "healthy" /\ torn # "partial") => Accepts

\* Journal and memory agree: what is on the disk can be replayed, and gives the
\* records in memory.
ReplaySound == TypeOK /\ FileReplays /\ MemoryIsReplay

\* A restart is sound: nothing that was acknowledged is lost, nothing stays
\* active without a worker, and a clean stop leaves a journal that opens.
RestartSound == AcknowledgedSurvives /\ NoGhosts /\ CleanStopReopens
=============================================================================
