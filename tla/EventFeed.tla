------------------------------ MODULE EventFeed ------------------------------
(***************************************************************************)
(* The operational event feed of the console: the cursor reader and the    *)
(* merge of web/src/eventFeed.ts and the single-flight load of App.tsx,    *)
(* against the event ring of the server (internal/monitoring/events.go).   *)
(*                                                                         *)
(* An event is its number: the server counts them from 1 and keeps the     *)
(* last Capacity.  A load reads pages from the console's cursor until a    *)
(* page says there is no more, collecting the events, and only then moves  *)
(* the cursor and merges.  The ring moves on between two pages, so a page  *)
(* may report a gap.  Signing out empties the feed and the cursor but      *)
(* leaves a load that is under way alone: what it lands belongs to the     *)
(* feed of the next sign-in.                                               *)
(***************************************************************************)
EXTENDS Integers, FiniteSets

CONSTANTS Capacity,  \* what the ring and the list of the console hold
          PageLimit, \* events of one page
          MaxEvents  \* bound: events the server records

ASSUME FeedAssumption ==
    /\ Capacity \in Nat \ {0}
    /\ PageLimit \in Nat \ {0}
    /\ MaxEvents \in Nat

VARIABLES latest, \* the number of the newest event of the server
          cursor, \* eventCursor
          shown,  \* the events of the console
          load    \* eventLoad: the load under way

feedVars == <<latest, cursor, shown, load>>

Event == 1 .. MaxEvents
Page  == [events : SUBSET Event, nextAfter : 0 .. MaxEvents, hasMore : BOOLEAN, hasGap : BOOLEAN]

NoLoad == [busy |-> FALSE]
NoPage == [none |-> TRUE]
Load   == [busy : {TRUE}, at : 0 .. MaxEvents, events : SUBSET Event, reset : BOOLEAN,
           crossed : BOOLEAN, page : Page \union {NoPage}]

FeedTypeOK ==
    /\ latest \in 0 .. MaxEvents
    /\ cursor \in 0 .. MaxEvents
    /\ shown \in SUBSET Event
    /\ load \in Load \union {NoLoad}

FeedInit ==
    /\ latest = 0
    /\ cursor = 0
    /\ shown = {}
    /\ load = NoLoad

Larger(a, b)  == IF a > b THEN a ELSE b
Smaller(a, b) == IF a < b THEN a ELSE b

\* The events up to this number have been overwritten.
OldestAfter == Larger(latest - Capacity, 0)

\* What the server answers to a read after `after`.
EventsPage(after) ==
    LET first == Larger(after, OldestAfter) + 1
        last  == Smaller(first + PageLimit - 1, latest)
    IN  [events    |-> first .. last,
         nextAfter |-> IF last < first THEN after ELSE last,
         hasMore   |-> last >= first /\ last < latest,
         hasGap    |-> after < OldestAfter]

\* The newest Capacity of what is merged; a reset drops what was shown.
mergeMonitoringEvents(current, incoming, reset) ==
    LET all == (IF reset THEN {} ELSE current) \union incoming
    IN  {e \in all : Cardinality({d \in all : d > e}) < Capacity}

\* RecordEvent: the server records an event, overwriting the oldest.
RecordEvent ==
    /\ latest < MaxEvents
    /\ latest' = latest + 1
    /\ UNCHANGED <<cursor, shown, load>>

\* refreshEvents: a second caller joins the load that is under way.
refreshEvents ==
    /\ load = NoLoad
    /\ load' = [busy |-> TRUE, at |-> cursor, events |-> {}, reset |-> FALSE,
                crossed |-> FALSE, page |-> NoPage]
    /\ UNCHANGED <<latest, cursor, shown>>

\* The server answers the read of the load's next page.
ServePage ==
    /\ load # NoLoad
    /\ load.page = NoPage
    /\ load' = [load EXCEPT !.page = EventsPage(load.at)]
    /\ UNCHANGED <<latest, cursor, shown>>

\* The events collected so far, with the page that has just arrived.
CollectedLast(l) == l.page.events
Collected(l) == (IF l.page.hasGap THEN {} ELSE l.events) \union l.page.events

Stuck(l) == l.page.hasMore /\ l.page.nextAfter <= l.at

\* A page that is not the last: the load goes on from its cursor.
TakePageAdvancing ==
    /\ load # NoLoad
    /\ load.page # NoPage
    /\ load.page.hasMore
    /\ cursor' = load.page.nextAfter
    /\ load' = [load EXCEPT !.at = load.page.nextAfter, !.events = Collected(load), !.page = NoPage]
    /\ UNCHANGED <<latest, shown>>
TakePage ==
    /\ load # NoLoad
    /\ load.page # NoPage
    /\ load.page.hasMore
    /\ load' = IF Stuck(load) THEN NoLoad
               ELSE [load EXCEPT !.at = load.page.nextAfter, !.events = Collected(load),
                                 !.reset = load.reset \/ load.page.hasGap, !.page = NoPage]
    /\ UNCHANGED <<latest, cursor, shown>>

\* The last page: the cursor moves and the batch is merged.
FinishLoadBehind ==
    /\ load # NoLoad
    /\ load.page # NoPage
    /\ ~load.page.hasMore
    /\ cursor' = load.at
    /\ shown' = mergeMonitoringEvents(shown, Collected(load), load.reset \/ load.page.hasGap)
    /\ load' = NoLoad
    /\ UNCHANGED latest
FinishLoad ==
    /\ load # NoLoad
    /\ load.page # NoPage
    /\ ~load.page.hasMore
    /\ cursor' = load.page.nextAfter
    /\ shown' = mergeMonitoringEvents(shown, Collected(load), load.reset \/ load.page.hasGap)
    /\ load' = NoLoad
    /\ UNCHANGED latest

\* A read of the load fails: nothing of it is used.
FailLoad ==
    /\ load # NoLoad
    /\ load' = NoLoad
    /\ UNCHANGED <<latest, cursor, shown>>

\* resetAuthentication, as far as the feed goes.
ResetFeed ==
    /\ shown' = {}
    /\ cursor' = 0
    /\ load' = IF load = NoLoad THEN NoLoad ELSE [load EXCEPT !.crossed = TRUE]
    /\ UNCHANGED latest

\* The load itself is told that the session is over.
DenyLoad ==
    /\ load # NoLoad
    /\ shown' = {}
    /\ cursor' = 0
    /\ load' = NoLoad
    /\ UNCHANGED latest

FeedNext ==
    \/ RecordEvent \/ refreshEvents \/ ServePage \/ TakePage \/ FinishLoad
    \/ FailLoad \/ DenyLoad \/ ResetFeed

FeedSpec == FeedInit /\ [][FeedNext]_feedVars

------------------------------------------------------------------------------
\* The feed has no silent hole: from the oldest event shown up to the cursor
\* every event is there, whatever the ring overwrote between two pages, and
\* even when a load lands after a sign-out.  (A merge that kept events from
\* before a gap would show two runs as one.)
NoHoles ==
    /\ \A e \in shown : e <= cursor
    /\ \A e \in shown : \A d \in e .. cursor : d \in shown

\* Every event the server still holds, up to the cursor, is shown.
Complete == OldestAfter + 1 .. cursor \subseteq shown

\* Once complete, the feed stays complete, page limits, gaps and failed loads
\* included: only a load that a sign-out crossed may leave events out.
StaysComplete == [][Complete /\ (load = NoLoad \/ ~load.crossed) => Complete']_feedVars
=============================================================================
