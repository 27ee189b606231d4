-------------------------------- MODULE Panels --------------------------------
(***************************************************************************)
(* The views of the console that poll for themselves: the run log          *)
(* (views/LogsView.tsx) and the captures (views/CapturesView.tsx).  One    *)
(* view is open at a time; opening another unmounts it, and an answer to   *)
(* an unmounted view changes nothing.                                      *)
(*                                                                         *)
(* A log entry is a number, newer ones are larger, and a filter the set of *)
(* entries it matches.  The server reads for a call at some time, and the  *)
(* answer arrives later, in any order.                                     *)
(*                                                                         *)
(* Bounds: MaxSteps things the operator does or calls that fail,           *)
(* MaxEntries log entries, MaxLoads calls of a poll under way.             *)
(***************************************************************************)
EXTENDS Integers, Sequences, FiniteSets, SequencesExt

CONSTANTS LogFilters, \* sets of entries
          All,        \* the filter with every field empty
          Tail500,    \* entries of one page of the log
          Captures,   \* the captures there are at the start
          Expired,    \* those of them whose retention has ended
          None,       \* no preview, or a part not yet read
          MaxSaved,   \* filters that are kept: 6 in the code
          MaxSteps, MaxEntries, MaxLoads

ASSUME PanelsAssumption ==
    /\ All \in LogFilters /\ LogFilters \subseteq SUBSET (1 .. MaxEntries)
    /\ {MaxSteps, MaxEntries} \subseteq Nat /\ {Tail500, MaxLoads, MaxSaved} \subseteq Nat \ {0}
    /\ Expired \subseteq Captures /\ None \notin Captures

VARIABLES view,      \* "logs" or "captures"
          shownPage, \* pageVisible
          logged,    \* the newest entry of the run log
          log,       \* the state of the log view
          saved,     \* the filters kept in the browser
          stored,    \* the captures on disk
          capturing, \* capturing is switched on
          captures,  \* the state of the capture view
          calls,     \* calls of the open view whose answers are not applied
          panelSteps

logPart     == <<logged, log, saved>>
capturePart == <<stored, capturing, captures>>
panelVars   == <<view, shownPage, logPart, capturePart, calls, panelSteps>>

\* One page of the log: its newest matching entries.
Entries(filter) ==
    LET matching == {e \in filter : e <= logged}
    IN  {e \in matching : Cardinality({f \in matching : f > e}) < Tail500}

NewLog == [filter |-> All, paused |-> FALSE, entries |-> {}, pending |-> {}, newCount |-> 0]
NewCaptures == [records |-> {}, active |-> FALSE, preview |-> None, keys |-> FALSE, busy |-> FALSE]

\* The states of the two views and what they ask of the server.
PanelsTypeOK ==
    /\ view \in {"logs", "captures"} /\ shownPage \in BOOLEAN
    /\ logged \in 0 .. MaxEntries /\ log.filter \in LogFilters
    /\ saved \in Seq(LogFilters) /\ Len(saved) <= MaxSaved /\ IsInjective(saved)
    /\ stored \subseteq Captures /\ captures.records \subseteq Captures
    /\ captures.preview \in Captures \cup {None} /\ {captures.busy, captures.keys} \subseteq BOOLEAN

PanelsInit ==
    /\ view \in {"logs", "captures"} /\ shownPage = TRUE
    /\ logged = 0 /\ log = NewLog /\ saved = <<>>
    /\ stored = Captures /\ capturing = FALSE /\ captures = NewCaptures
    /\ calls = {}
    /\ panelSteps = 0

Step == panelSteps < MaxSteps /\ panelSteps' = panelSteps + 1

------------------------------------------------------------------------------
\* Calls of the open view: asked, read by the server, applied.

LogCall(filter) == [for |-> "log", filter |-> filter, paused |-> log.paused, pc |-> "asked"]
RecordsCall(busy) == [for |-> "records", records |-> None, active |-> None, busy |-> busy, pc |-> "asked"]
Asked(call) == calls' = calls \cup {call}

\* The effect of either view: at once and then at every interval while the
\* page is shown.  The button loads whether it is shown or not.
pollLogsAtFirst ==
    /\ view = "logs" /\ shownPage /\ Cardinality(calls) < MaxLoads
    /\ Asked(LogCall(All))
    /\ UNCHANGED <<view, shownPage, logPart, capturePart, panelSteps>>
pollLogs ==
    /\ view = "logs" /\ shownPage /\ Cardinality(calls) < MaxLoads
    /\ Asked(LogCall(log.filter))
    /\ UNCHANGED <<view, shownPage, logPart, capturePart, panelSteps>>
pollCaptures ==
    /\ view = "captures" /\ shownPage /\ Cardinality(calls) < MaxLoads
    /\ Asked(RecordsCall(FALSE))
    /\ UNCHANGED <<view, shownPage, logPart, capturePart, panelSteps>>
reloadByHand ==
    /\ Step
    /\ Asked(IF view = "logs" THEN LogCall(log.filter) ELSE RecordsCall(FALSE))
    /\ UNCHANGED <<view, shownPage, logPart, capturePart>>

changePageVisible ==
    /\ Step
    /\ shownPage' = ~shownPage
    /\ UNCHANGED <<view, logPart, capturePart, calls>>

\* Another view: the state of this one is gone, what it asked changes nothing.
\* Search opens the log or one capture; the effect then asks for its preview.
openView ==
    /\ Step
    /\ view' = IF view = "logs" THEN "captures" ELSE "logs"
    /\ log' = NewLog /\ captures' = NewCaptures
    /\ calls' \in {{}} \cup (IF view = "logs" THEN {{[for |-> "preview", which |-> r, pc |-> "asked"]} : r \in Captures}
                              ELSE {})
    /\ UNCHANGED <<shownPage, logged, saved, stored, capturing>>

Answered(call, answer) == calls' = (calls \ {call}) \cup {answer}

\* The server reads for a call, or carries it out.  A load of the captures is
\* several calls answered in any order; it goes on when all of them are.
Joined(call) == IF None \in {call.records, call.active} THEN call ELSE [call EXCEPT !.pc = "read"]
Serve(call) ==
    /\ call.pc = "asked"
    /\ \/ /\ call.for = "log"
          /\ Answered(call, [for |-> "log", paused |-> call.paused, page |-> Entries(call.filter), pc |-> "read"])
          /\ UNCHANGED <<stored, capturing>>
       \/ /\ call.for = "records"
          /\ \/ call.records = None /\ Answered(call, Joined([call EXCEPT !.records = stored]))
             \/ call.active = None /\ Answered(call, Joined([call EXCEPT !.active = capturing]))
          /\ UNCHANGED <<stored, capturing>>
       \/ /\ call.for \in {"start", "stop"}
          /\ capturing' = (call.for = "start")
          /\ Answered(call, [call EXCEPT !.pc = "read"])
          /\ UNCHANGED stored
       \/ /\ call.for \in {"delete", "expired", "rewrap"}
          /\ stored' = stored \ call.which
          /\ Answered(call, [call EXCEPT !.pc = "read"])
          /\ UNCHANGED capturing
       \/ /\ call.for = "preview"
          /\ calls' = (calls \ {call}) \cup {[call EXCEPT !.pc = "read"] : r \in stored \cap {call.which}}
          /\ UNCHANGED <<stored, capturing>>
    /\ UNCHANGED <<view, shownPage, logPart, captures, panelSteps>>

\* A call fails, before or after the server carried it out: the error is shown
\* and the button works again.
Fails(call) ==
    /\ Step
    /\ calls' = calls \ {call}
    /\ captures' = IF call.for \in {"start", "stop", "expired", "rewrap"} \/ (call.for = "records" /\ call.busy)
                   THEN [captures EXCEPT !.busy = FALSE] ELSE captures
    /\ UNCHANGED <<view, shownPage, logPart, stored, capturing>>

------------------------------------------------------------------------------
\* LogsView.

newEntry ==
    /\ logged < MaxEntries
    /\ logged' = logged + 1
    /\ UNCHANGED <<view, shownPage, log, saved, capturePart, calls, panelSteps>>

\* The rest of load: a paused view keeps its entries and counts the new ones.
AppliedAsAsked(call) ==
    IF call.paused
    THEN [log EXCEPT !.pending = call.page, !.newCount = Cardinality(call.page \ log.entries)]
    ELSE [log EXCEPT !.pending = call.page, !.entries = call.page, !.newCount = 0]
Applied(call) ==
    IF log.paused
    THEN [log EXCEPT !.pending = call.page, !.newCount = Cardinality(call.page \ log.entries)]
    ELSE [log EXCEPT !.pending = call.page, !.entries = call.page, !.newCount = 0]
logsLand(call) ==
    /\ call.for = "log" /\ call.pc = "read"
    /\ log' = Applied(call)
    /\ calls' = calls \ {call}
    /\ UNCHANGED <<view, shownPage, logged, saved, capturePart, panelSteps>>

togglePaused ==
    /\ view = "logs" /\ Step
    /\ log' = IF log.paused
              THEN [log EXCEPT !.paused = FALSE, !.entries = log.pending, !.newCount = 0]
              ELSE [log EXCEPT !.paused = TRUE]
    /\ UNCHANGED <<view, shownPage, logged, saved, capturePart, calls>>

\* A field of the filter, or a filter kept earlier: the effect loads at once.
applyFilter(filter) ==
    /\ view = "logs" /\ Step
    /\ filter # log.filter
    /\ log' = [log EXCEPT !.filter = filter]
    /\ IF shownPage THEN Asked(LogCall(filter)) ELSE UNCHANGED calls
    /\ UNCHANGED <<view, shownPage, logged, saved, capturePart>>

\* The filter in front of the others, of which no two are the same.
KeptFirst(filter, others) ==
    LET kept == <<filter>> \o others
    IN  SubSeq(kept, 1, IF Len(kept) < MaxSaved THEN Len(kept) ELSE MaxSaved)
saveFilter ==
    /\ view = "logs" /\ Step
    /\ log.filter # All
    /\ \/ log.filter \notin Range(saved) /\ saved' = KeptFirst(log.filter, saved)
       \/ \E i \in DOMAIN saved : saved[i] = log.filter /\ saved' = KeptFirst(log.filter, RemoveAt(saved, i))
    /\ UNCHANGED <<view, shownPage, logged, log, capturePart, calls>>
removeFilter(i) ==
    /\ view = "logs" /\ Step
    /\ saved' = RemoveAt(saved, i)
    /\ UNCHANGED <<view, shownPage, logged, log, capturePart, calls>>

------------------------------------------------------------------------------
\* CapturesView.  A button that asks again is pressed and confirmed in one step.

\* A window for captures ends by itself, after its time or its requests.
captureEnds ==
    /\ capturing /\ capturing' = FALSE
    /\ UNCHANGED <<view, shownPage, logPart, stored, captures, calls, panelSteps>>

\* start and stop hold the buttons until they are answered, cleanExpired and
\* rewrapKeys until the load after them is.
startCapture ==
    /\ view = "captures" /\ Step
    /\ ~captures.busy
    /\ captures' = [captures EXCEPT !.busy = TRUE]
    /\ Asked([for |-> IF captures.active THEN "stop" ELSE "start", pc |-> "asked"])
    /\ UNCHANGED <<view, shownPage, logPart, stored, capturing>>
cleanExpired ==
    /\ view = "captures" /\ Step
    /\ ~captures.busy /\ captures.records # {}
    /\ captures' = [captures EXCEPT !.busy = TRUE]
    /\ Asked([for |-> "expired", which |-> Expired, pc |-> "asked"])
    /\ UNCHANGED <<view, shownPage, logPart, stored, capturing>>
rewrapKeys ==
    /\ view = "captures" /\ Step
    /\ ~captures.busy /\ captures.keys
    /\ captures' = [captures EXCEPT !.busy = TRUE]
    /\ Asked([for |-> "rewrap", which |-> {}, pc |-> "asked"])
    /\ UNCHANGED <<view, shownPage, logPart, stored, capturing>>
showPreview(record) ==
    /\ view = "captures" /\ Step
    /\ record \in captures.records
    /\ Asked([for |-> "preview", which |-> record, pc |-> "asked"])
    /\ UNCHANGED <<view, shownPage, logPart, capturePart>>
removeCapture(record) ==
    /\ view = "captures" /\ Step
    /\ record \in captures.records
    /\ Asked([for |-> "delete", which |-> {record}, preview |-> captures.preview, pc |-> "asked"])
    /\ UNCHANGED <<view, shownPage, logPart, capturePart>>

\* The answers: a list, a state, a preview, or a deletion and a load after it.
\* The preview is closed if it was the deleted one when the button was pressed.
PreviewAfter(call) == IF call.preview \in call.which THEN None ELSE captures.preview
capturesLand(call) ==
    /\ call.pc = "read"
    /\ \/ /\ call.for = "records"
          /\ captures' = [captures EXCEPT !.records = call.records, !.active = call.active,
                                            !.keys = TRUE, !.busy = @ /\ ~call.busy]
          /\ calls' = calls \ {call}
       \/ /\ call.for \in {"start", "stop"}
          /\ captures' = [captures EXCEPT !.active = (call.for = "start"), !.busy = FALSE]
          /\ calls' = calls \ {call}
       \/ /\ call.for = "preview"
          /\ captures' = [captures EXCEPT !.preview = call.which]
          /\ calls' = calls \ {call}
       \/ /\ call.for = "delete"
          /\ captures' = [captures EXCEPT !.preview = PreviewAfter(call)]
          /\ Answered(call, RecordsCall(FALSE))
       \/ /\ call.for \in {"expired", "rewrap"}
          /\ Answered(call, RecordsCall(TRUE))
          /\ UNCHANGED captures
    /\ UNCHANGED <<view, shownPage, logPart, stored, capturing, panelSteps>>

------------------------------------------------------------------------------
Answering == \E call \in calls : Serve(call)
HalfRead(call) == call.for = "records" /\ call # RecordsCall(call.busy)
AnsweringRest == \E call \in calls : HalfRead(call) /\ Serve(call)
Landing   == \E call \in calls : logsLand(call) \/ capturesLand(call)

PanelsNext ==
    \/ pollLogs
    \/ pollCaptures
    \/ reloadByHand
    \/ changePageVisible
    \/ openView
    \/ Answering
    \/ Landing
    \/ \E call \in calls : Fails(call)
    \/ newEntry
    \/ togglePaused
    \/ \E filter \in LogFilters : applyFilter(filter)
    \/ saveFilter
    \/ \E i \in DOMAIN saved : removeFilter(i)
    \/ startCapture
    \/ cleanExpired
    \/ rewrapKeys
    \/ captureEnds
    \/ \E record \in Captures : showPreview(record)
    \/ \E record \in Captures : removeCapture(record)

PanelsSpec == PanelsInit /\ [][PanelsNext]_panelVars

\* A timer goes off for as long as it is set, and a call that does not fail
\* is answered.
PanelsFair == /\ WF_panelVars(pollLogs) /\ WF_panelVars(pollCaptures)
              /\ WF_panelVars(Answering) /\ WF_panelVars(AnsweringRest) /\ WF_panelVars(Landing)
PanelsFairSpec == PanelsSpec /\ PanelsFair

------------------------------------------------------------------------------
\* While the log is paused its entries do not move, whatever answers arrive
\* and whenever they were asked for, and the count beside the button is that
\* of the entries a press would add (LogsView.tsx load, togglePaused).
PausedFrozen ==
    [][ /\ PanelsTypeOK'
        /\ (log.paused /\ log'.paused) =>
              /\ log'.entries = log.entries
              /\ log'.newCount = Cardinality(log'.pending \ log'.entries) ]_panelVars

\* A view that stays open on a page that stays shown comes to show what the
\* server has: the newest entries of the chosen filter unless the log is
\* paused, the captures on disk and whether capturing is on (the polls of
\* LogsView.tsx and CapturesView.tsx).
PanelsConverge ==
    <>[](shownPage => \/ view = "logs" /\ (log.paused \/ log.entries = Entries(log.filter))
                      \/ view = "captures" /\ captures.records = stored /\ captures.active = capturing)
=============================================================================
