------------------------------- MODULE Journal -------------------------------
(***************************************************************************)
(* The append-only journal (internal/journal/store.go): a file of chained  *)
(* lines, an optional integrity anchor beside it, and the Store that       *)
(* appends to both, compacts the file and verifies it when it is opened.   *)
(*                                                                         *)
(* The Store's mutex is held from the first to the last step of an append  *)
(* or a compaction; the steps are separate because the process can die     *)
(* and the disk can fail between them.  The hash chain and the sequence    *)
(* numbers say the same thing about lines that only the Store writes, so a *)
(* line keeps its number alone.                                            *)
(***************************************************************************)
EXTENDS Sequences, Ordering

CONSTANTS Entities,    \* entity IDs
          Kinds,       \* event types
          SyncWrites,  \* persistence.sync-writes
          KeyChoices,  \* whether an HMAC key may be configured, so that there is an anchor
          Tears,       \* how a write can fall short: see Torn
          MaxLines,    \* bound: lines of the file
          MaxClock     \* bound: retention periods that pass

\* A write that falls short leaves part of a line, or all of it but for its
\* newline.
Torn == {"partial", "bare"}

ASSUME JournalAssumption ==
    /\ SyncWrites \in BOOLEAN /\ KeyChoices \subseteq BOOLEAN
    /\ Tears \subseteq Torn
    /\ MaxLines \in Nat /\ MaxClock \in Nat

VARIABLES file,      \* the lines of the journal file
          torn,      \* "no", "partial": some line cannot be decoded, "bare": the
                     \* last line lacks its newline
          durable,   \* how many lines a power failure cannot take away
          anchor,    \* the sequence number in the anchor file, {} if there is none
          entries,   \* Store.entries
          sequence,  \* Store.sequence
          health,    \* Store.state
          at,        \* the step of the append or the compaction under way
          pending,   \* the line being appended, or <<>>
          clock,     \* time, in retention periods
          keyed      \* an HMAC key is configured

disk     == <<file, torn, durable, anchor>>
store    == <<entries, sequence, health, at, pending>>
jvars    == <<disk, store, clock, keyed>>

Lines == [id : Entities, kind : Kinds, time : 0..MaxClock, seq : 1..(MaxLines + 1)]

JournalInit ==
    /\ file = <<>> /\ torn = "no" /\ durable = 0 /\ anchor = {}
    /\ entries = <<>> /\ sequence = 0 /\ health = "healthy"
    /\ at = "idle" /\ pending = <<>>
    /\ clock = 0
    /\ keyed \in KeyChoices

\* updateAnchorLocked, when it succeeds.
Anchored(n) == IF keyed THEN {n} ELSE anchor

\* recordFailureLocked: from now on the store refuses to append.
Degrade == health' = "degraded"

-----------------------------------------------------------------------------
\* append: the next line of the chain.
Line(id, kind) == [id |-> id, kind |-> kind, time |-> clock, seq |-> sequence + 1]

\* A line written behind one without newline makes both unreadable.
Write(id, kind) ==
    /\ at = "idle" /\ health = "healthy"
    /\ Len(file) < MaxLines
    /\ file' = Append(file, Line(id, kind))
    /\ torn' = IF torn = "bare" THEN "partial" ELSE torn
    /\ pending' = <<Line(id, kind)>>
    /\ at' = "written"
    /\ UNCHANGED <<durable, anchor, entries, sequence, health, clock, keyed>>

\* Nothing is written, or not all of it.
WriteFails(id, kind) ==
    /\ at = "idle" /\ health = "healthy"
    /\ Len(file) < MaxLines
    /\ \/ UNCHANGED <<file, torn>>
       \/ "partial" \in Tears /\ torn' = "partial" /\ UNCHANGED file
       \/ /\ "bare" \in Tears /\ file' = Append(file, Line(id, kind))
          /\ torn' = IF torn = "bare" THEN "partial" ELSE "bare"
    /\ Degrade
    /\ UNCHANGED <<durable, anchor, entries, sequence, at, pending, clock, keyed>>

\* Slip: the file is not synced.
SyncSkipped ==
    /\ at = "written"
    /\ at' = "synced"
    /\ UNCHANGED <<file, torn, durable, anchor, entries, sequence, health, pending, clock, keyed>>

Sync ==
    /\ at = "written"
    /\ durable' = IF SyncWrites THEN Len(file) ELSE durable
    /\ at' = "synced"
    /\ UNCHANGED <<file, torn, anchor, entries, sequence, health, pending, clock, keyed>>

\* The line is in the file, and the caller is told that it is not.
SyncFails ==
    /\ at = "written" /\ SyncWrites
    /\ Degrade
    /\ at' = "idle" /\ pending' = <<>>
    /\ UNCHANGED <<disk, entries, sequence, clock, keyed>>

Commit ==
    /\ at = "synced"
    /\ sequence' = pending[1].seq
    /\ anchor' = Anchored(pending[1].seq)
    /\ entries' = Append(entries, pending[1])
    /\ at' = "idle" /\ pending' = <<>>
    /\ UNCHANGED <<file, torn, durable, health, clock, keyed>>

\* The anchor could not be written, or it was and its directory not synced.
CommitFails ==
    /\ at = "synced" /\ keyed
    /\ sequence' = pending[1].seq
    /\ anchor' \in {anchor, {pending[1].seq}}
    /\ Degrade
    /\ at' = "idle" /\ pending' = <<>>
    /\ UNCHANGED <<file, torn, durable, entries, clock, keyed>>

-----------------------------------------------------------------------------
\* CompactWithProtection: entities that are protected or have a recent line
\* keep all their lines, in a rebuilt chain.
Recent(cutoff) == {entries[i].id : i \in {j \in DOMAIN entries : entries[j].time >= cutoff}}

Retained(protected, cutoff) ==
    Subsequence(entries, {i \in DOMAIN entries : entries[i].id \in protected \cup Recent(cutoff)})

RebuildChain(ls) == [i \in DOMAIN ls |-> [ls[i] EXCEPT !.seq = i]]

Removable(protected, cutoff) == Len(Retained(protected, cutoff)) < Len(entries)

\* Slip: expired lines are dropped one by one.
CompactByLine(protected, cutoff) ==
    LET kept == RebuildChain(Subsequence(entries, {i \in DOMAIN entries :
                    entries[i].id \in protected \/ entries[i].time >= cutoff}))
    IN  /\ at = "idle"
        /\ Len(kept) < Len(entries)
        /\ file' = kept /\ torn' = "no" /\ durable' = Len(kept)
        /\ entries' = kept /\ sequence' = Len(kept)
        /\ at' = "renamed"
        /\ UNCHANGED <<anchor, health, pending, clock, keyed>>

\* The new file is complete and synced before it is renamed over the old one.
\* A degraded store is compacted like any other, from its memory.
Compact(protected, cutoff) ==
    LET kept == RebuildChain(Retained(protected, cutoff))
    IN  /\ at = "idle"
        /\ Removable(protected, cutoff)
        /\ file' = kept /\ torn' = "no" /\ durable' = Len(kept)
        /\ entries' = kept /\ sequence' = Len(kept)
        /\ at' = "renamed"
        /\ UNCHANGED <<anchor, health, pending, clock, keyed>>

CompactCommit ==
    /\ at = "renamed"
    /\ anchor' = Anchored(sequence)
    /\ at' = "idle"
    /\ UNCHANGED <<file, torn, durable, entries, sequence, health, pending, clock, keyed>>

CompactCommitFails ==
    /\ at = "renamed" /\ keyed
    /\ anchor' \in {anchor, {sequence}}
    /\ Degrade
    /\ at' = "idle"
    /\ UNCHANGED <<file, torn, durable, entries, sequence, pending, clock, keyed>>

-----------------------------------------------------------------------------
\* readAndVerify and verifyOrCreateAnchor.
Chained(ls) == \A i \in DOMAIN ls : ls[i].seq = i

Accepts == /\ torn # "partial"
           /\ Chained(file)
           /\ keyed => anchor \in {{}, {Len(file)}}

Open ==
    /\ Accepts
    /\ entries' = file /\ sequence' = Len(file)
    /\ anchor' = Anchored(Len(file))
    /\ health' = "healthy" /\ at' = "idle" /\ pending' = <<>>
    /\ UNCHANGED <<file, torn, durable, clock, keyed>>

\* The process ends: lines that were not synced may be lost, or left short.
Crash ==
    /\ \E keep \in durable..Len(file) :
         /\ file' = SubSeq(file, 1, keep)
         /\ torn' \in IF torn = "partial" THEN {torn}
                      ELSE {IF keep = Len(file) THEN torn ELSE "no"} \cup
                           {t \in Tears : IF t = "bare" THEN keep > durable
                                                       ELSE keep < Len(file)}
    /\ entries' = <<>> /\ sequence' = 0 /\ health' = "healthy"
    /\ at' = "idle" /\ pending' = <<>>
    /\ UNCHANGED <<durable, anchor, clock, keyed>>

\* A retention period passes.
Tick == clock < MaxClock /\ clock' = clock + 1 /\ UNCHANGED <<disk, store, keyed>>

JournalTypeOK ==
    /\ file \in Seq(Lines)
    /\ torn \in Torn \cup {"no"}
    /\ durable \in 0..Len(file)
    /\ anchor \subseteq 0..(MaxLines + 1) /\ Cardinality(anchor) <= 1
    /\ entries \in Seq(Lines)
    /\ sequence \in 0..(MaxLines + 1)
    /\ health \in {"healthy", "degraded"}
    /\ at \in {"idle", "written", "synced", "renamed"}
    /\ pending \in {<<>>} \cup {<<l>> : l \in Lines}
    /\ clock \in 0..MaxClock
    /\ keyed \in KeyChoices
=============================================================================
