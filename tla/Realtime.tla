------------------------------- MODULE Realtime -------------------------------
(***************************************************************************)
(* The management stream: the feed of one language                         *)
(* (internal/admin/realtime.go), the handler of one console's connection,  *)
(* another console on the same feed, and what the first console shows      *)
(* (web/src/App.tsx, web/src/api.ts).                                      *)
(*                                                                         *)
(* A domain (status, alerts, ...) is a version number: its value carries   *)
(* counters and times and does not repeat.  Each of the feed's methods     *)
(* holds its lock and is one step; between two of them the other console   *)
(* may publish.  What a handler writes travels in order on a wire that is  *)
(* lost with the connection.  A refresh reads all domains at once, and its *)
(* answer may arrive after messages that are newer.                        *)
(*                                                                         *)
(* Bounds: MaxChanges changes, MaxDrops lost connections, MaxToggles times *)
(* the page is hidden or shown, MaxEvents of these together; one refresh   *)
(* is under way at a time.                                                 *)
(***************************************************************************)
EXTENDS Integers, Sequences, SequencesExt, Ordering

CONSTANTS Domains,    \* the domains, in the order in which they are published
          RingSize,   \* realtimeEventCapacity
          MaxChanges, MaxDrops, MaxToggles, MaxEvents

ASSUME RealtimeAssumption ==
    /\ Domains \in Seq(Range(Domains)) /\ Len(Domains) > 0 /\ RingSize \in Nat \ {0}
    /\ {MaxChanges, MaxDrops, MaxToggles, MaxEvents} \subseteq Nat

VARIABLES current,     \* the state of the gateway, by domain
          feed,        \* the ring of events, its last number and the last value of each domain
          conn,        \* the handler of the console's connection
          other,       \* the handler of the other console's
          wire,        \* what is written and not yet received
          source,      \* the EventSource: "closed", "retry" or "open"
          lastId,      \* its Last-Event-ID, 0 for none
          streamed,    \* history: what the stream has told the console
          shown,       \* what the console shows
          overwritten, \* history: domains a late answer has put back
          pageVisible,
          refresh,     \* the refresh under way
          budget       \* what is left of the bounds

streamVars == <<current, feed, conn, other, wire, source, lastId, streamed, shown, overwritten,
                pageVisible, refresh, budget>>

Names == Range(Domains)
RealtimeSnapshot == [Names -> 0 .. MaxChanges]
RealtimeEvent == [sequence : Nat \ {0}, type : Names, data : 0 .. MaxChanges]
Message == [sequence : Nat, data : UNION {[S -> 0 .. MaxChanges] : S \in SUBSET Names}]

Nothing == [d \in Names |-> 0]
Off     == [pc |-> "off"]
Quiet   == [pc |-> "idle"]

StreamTypeOK ==
    /\ {current, shown, streamed} \subseteq RealtimeSnapshot
    /\ feed.events \in Seq(RealtimeEvent) /\ Len(feed.events) <= RingSize
    /\ conn.pc \in {"off", "snapshot", "publish", "sync", "page", "wait"}
    /\ wire \in Seq(Message) /\ lastId <= feed.next
    /\ (source = "open") = (conn # Off)

\* The page is open and shown: its effect begins with a refresh and then an
\* EventSource; nobody has subscribed yet.
StreamInit ==
    /\ current = Nothing /\ shown = Nothing /\ streamed = Nothing /\ overwritten = {}
    /\ feed = [next |-> 0, events |-> <<>>, hashes |-> [d \in Names |-> -1]]
    /\ conn = Off /\ other = Quiet /\ wire = <<>>
    /\ source = "retry" /\ lastId = 0 /\ pageVisible = TRUE
    /\ refresh = [pc |-> "asked"]
    /\ budget = [changes |-> MaxChanges, drops |-> MaxDrops, toggles |-> MaxToggles, all |-> MaxEvents]

Spend(left) == left > 0 /\ budget.all > 0

------------------------------------------------------------------------------
\* The feed.

\* publishData: an event only for what has changed, in a ring.
publishData(f, type, data) ==
    IF f.hashes[type] = data THEN f
    ELSE LET all  == Append(f.events, [sequence |-> f.next + 1, type |-> type, data |-> data])
             over == Len(all) - RingSize
         IN  [next   |-> f.next + 1,
              events |-> IF over > 0 THEN SubSeq(all, over + 1, Len(all)) ELSE all,
              hashes |-> [f.hashes EXCEPT ![type] = data]]

\* after: the events behind a cursor, unless some are gone.
GapLate(cursor) ==
    feed.events # <<>> /\ cursor > 0 /\ cursor < feed.events[1].sequence - 2
Gap(cursor) ==
    feed.events # <<>> /\ cursor > 0 /\ cursor < feed.events[1].sequence - 1
after(cursor) ==
    Subsequence(feed.events, {i \in DOMAIN feed.events : feed.events[i].sequence > cursor})

------------------------------------------------------------------------------
\* Handler.stream of the console: a snapshot is taken and published domain by
\* domain; the first time it is sent whole unless the browser named a cursor,
\* later the events behind the cursor are sent.

Writes(messages) == wire' = wire \o messages

takeSnapshot ==
    /\ conn.pc = "snapshot"
    /\ conn' = [conn EXCEPT !.pc = "publish", !.snapshot = current, !.left = Domains]
    /\ UNCHANGED <<current, feed, other, wire, source, lastId, streamed, shown, overwritten,
                   pageVisible, refresh, budget>>

publishRealtime ==
    /\ conn.pc = "publish"
    /\ feed' = publishData(feed, Head(conn.left), conn.snapshot[Head(conn.left)])
    /\ conn' = [conn EXCEPT !.left = Tail(@),
                            !.pc = IF Len(conn.left) > 1 THEN "publish"
                                   ELSE IF ~conn.first THEN "page"
                                   ELSE IF conn.cursor = 0 THEN "sync" ELSE "wait"]
    /\ UNCHANGED <<current, other, wire, source, lastId, streamed, shown, overwritten,
                   pageVisible, refresh, budget>>

sendSync ==
    /\ conn.pc = "sync"
    /\ conn' = [conn EXCEPT !.pc = "wait", !.cursor = feed.next]
    /\ Writes(<<[sequence |-> feed.next, data |-> conn.snapshot]>>)
    /\ UNCHANGED <<current, feed, other, source, lastId, streamed, shown, overwritten,
                   pageVisible, refresh, budget>>

tickUnpublished ==
    /\ conn.pc = "wait"
    /\ conn' = [conn EXCEPT !.pc = "page", !.first = FALSE]
    /\ UNCHANGED <<current, feed, other, wire, source, lastId, streamed, shown, overwritten,
                   pageVisible, refresh, budget>>
tick ==
    /\ conn.pc = "wait"
    /\ conn' = [conn EXCEPT !.pc = "snapshot", !.first = FALSE]
    /\ UNCHANGED <<current, feed, other, wire, source, lastId, streamed, shown, overwritten,
                   pageVisible, refresh, budget>>

sendPage ==
    /\ conn.pc = "page"
    /\ IF Gap(conn.cursor)
       THEN /\ Writes(<<[sequence |-> feed.next, data |-> conn.snapshot]>>)
            /\ conn' = [conn EXCEPT !.pc = "wait", !.cursor = feed.next]
       ELSE LET events == after(conn.cursor)
            IN  /\ Writes([i \in DOMAIN events |->
                             [sequence |-> events[i].sequence,
                              data     |-> [d \in {events[i].type} |-> events[i].data]]])
                /\ conn' = [conn EXCEPT !.pc = "wait",
                                        !.cursor = IF events = <<>> THEN @ ELSE Last(events).sequence]
    /\ UNCHANGED <<current, feed, other, source, lastId, streamed, shown, overwritten,
                   pageVisible, refresh, budget>>

\* The other console's handler: only what it publishes is seen from here.
otherSnapshot ==
    /\ other.pc = "idle" /\ feed.hashes # current
    /\ other' = [pc |-> "publish", snapshot |-> current, left |-> Domains]
    /\ UNCHANGED <<current, feed, conn, wire, source, lastId, streamed, shown, overwritten,
                   pageVisible, refresh, budget>>
otherPublishes ==
    /\ other.pc = "publish"
    /\ feed' = publishData(feed, Head(other.left), other.snapshot[Head(other.left)])
    /\ other' = IF Len(other.left) = 1 THEN Quiet ELSE [other EXCEPT !.left = Tail(@)]
    /\ UNCHANGED <<current, conn, wire, source, lastId, streamed, shown, overwritten,
                   pageVisible, refresh, budget>>

\* Something happens in the gateway.
change(d) ==
    /\ Spend(budget.changes)
    /\ current' = [current EXCEPT ![d] = @ + 1]
    /\ budget' = [budget EXCEPT !.changes = @ - 1, !.all = @ - 1]
    /\ UNCHANGED <<feed, conn, other, wire, source, lastId, streamed, shown, overwritten, pageVisible, refresh>>

------------------------------------------------------------------------------
\* The browser.

StartsRefresh == refresh' = IF refresh.pc = "idle" THEN [pc |-> "asked"] ELSE refresh

\* An EventSource connects, or connects again with the last id it has seen.
connect ==
    /\ source = "retry"
    /\ source' = "open"
    /\ conn' = [pc |-> "snapshot", cursor |-> lastId, first |-> TRUE,
                snapshot |-> Nothing, left |-> <<>>]
    /\ UNCHANGED <<current, feed, other, wire, lastId, streamed, shown, overwritten,
                   pageVisible, refresh, budget>>

\* The effect of App: sync and reset replace every domain, an update one.
receive ==
    /\ source = "open" /\ wire # <<>>
    /\ LET message == Head(wire)
       IN  /\ lastId' = message.sequence
           /\ streamed' = [d \in Names |-> IF d \in DOMAIN message.data
                                           THEN message.data[d] ELSE streamed[d]]
           /\ shown' = [d \in Names |-> IF d \in DOMAIN message.data
                                        THEN message.data[d] ELSE shown[d]]
           /\ overwritten' = overwritten \ DOMAIN message.data
    /\ wire' = Tail(wire)
    /\ UNCHANGED <<current, feed, conn, other, source, pageVisible, refresh, budget>>

\* The connection is lost with what is on the wire; onError refreshes.
drop ==
    /\ source = "open" /\ Spend(budget.drops)
    /\ source' = "retry" /\ conn' = Off /\ wire' = <<>>
    /\ StartsRefresh
    /\ budget' = [budget EXCEPT !.drops = @ - 1, !.all = @ - 1]
    /\ UNCHANGED <<current, feed, other, lastId, streamed, shown, overwritten, pageVisible>>

\* A hidden page closes its EventSource; a page shown again makes a new one.
visibilityChange ==
    /\ Spend(budget.toggles)
    /\ budget' = [budget EXCEPT !.toggles = @ - 1, !.all = @ - 1]
    /\ pageVisible' = ~pageVisible
    /\ conn' = Off /\ wire' = <<>>
    /\ IF pageVisible
       THEN source' = "closed" /\ UNCHANGED <<lastId, refresh>>
       ELSE source' = "retry" /\ lastId' = 0 /\ StartsRefresh
    /\ UNCHANGED <<current, feed, other, streamed, shown, overwritten>>

refreshAnswered ==
    /\ refresh.pc = "asked"
    /\ refresh' = [pc |-> "read", data |-> current]
    /\ UNCHANGED <<current, feed, conn, other, wire, source, lastId, streamed, shown, overwritten,
                   pageVisible, budget>>
refreshLands ==
    /\ refresh.pc = "read"
    /\ shown' = refresh.data /\ refresh' = Quiet
    /\ overwritten' = {d \in Names : refresh.data[d] < streamed[d]}
    /\ UNCHANGED <<current, feed, conn, other, wire, source, lastId, streamed, pageVisible, budget>>
refreshFails ==
    /\ refresh.pc # "idle"
    /\ refresh' = Quiet
    /\ UNCHANGED <<current, feed, conn, other, wire, source, lastId, streamed, shown, overwritten,
                   pageVisible, budget>>

Handler == takeSnapshot \/ publishRealtime \/ sendSync \/ tick \/ sendPage
Browser == connect \/ receive
Refreshing == refreshAnswered \/ refreshLands

StreamNext ==
    \/ Handler \/ Browser \/ Refreshing
    \/ \E d \in Names : change(d)
    \/ drop \/ visibilityChange \/ refreshFails

StreamSpec == StreamInit /\ [][StreamNext]_streamVars

\* The same with another console on the feed.
SharedNext == StreamNext \/ otherSnapshot \/ otherPublishes
SharedSpec == StreamInit /\ [][SharedNext]_streamVars

\* The ticker keeps running, the browser keeps reconnecting and reading.
StreamFair == WF_streamVars(Handler) /\ WF_streamVars(Browser) /\ WF_streamVars(Refreshing)
StreamFairSpec == StreamSpec /\ StreamFair

------------------------------------------------------------------------------
\* A console that has received all that was written to it, on a connection
\* whose cursor is that of the feed, has been told the last value of every
\* domain: whatever was lost with earlier connections or fell off the ring, a
\* replay or a reset made up for it (realtime.go, after and stream).
NothingMissed ==
    /\ StreamTypeOK
    /\ (source = "open" /\ conn.pc = "wait" /\ wire = <<>> /\ conn.cursor = feed.next)
        => streamed = feed.hashes

\* Once the gateway is quiet, a page that is shown comes to show its state and
\* goes on showing it, through lost connections, a ring that overflows and a
\* page hidden and shown again.  Only a domain that a refresh answered before
\* the stream's last message and applied after it stays behind (App.tsx, the
\* effect that subscribes).
StatusConverges == <>[](pageVisible => \A d \in Names : shown[d] = current[d] \/ d \in overwritten)
==============================================================================
