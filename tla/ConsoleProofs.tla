---------------------------- MODULE ConsoleProofs ----------------------------
(***************************************************************************)
(* The event feed of the console for every capacity of the ring, every     *)
(* page limit and every number of events: what it shows has no hole, and   *)
(* once complete it stays complete.                                        *)
(*                                                                         *)
(* The feed inside the console behaves as the feed alone: whatever the     *)
(* session, the calls and the confirmations do, each step of the console   *)
(* is a step of EventFeed or leaves the feed alone.  What is proved of the *)
(* feed therefore holds in the console.                                    *)
(*                                                                         *)
(* The session itself: when nothing but answers to loads outlives a        *)
(* session (LateAnswers is FALSE), every other call under way is of the    *)
(* last session issued (InTime, inductive with the types), so tokens are   *)
(* never those of an earlier session, and a session is not left early.     *)
(***************************************************************************)
EXTENDS Console, FiniteSetTheorems, SequenceTheorems, TLAPS

------------------------------------------------------------------------------
\* The feed alone.

\* The set has no hole below n: it holds everything from each of its members
\* up to n.
Upward(S, n) == \A e \in S : e <= n /\ \A d \in e .. n : d \in S

\* What the merge keeps of a batch is again without holes.
LEMMA MergeUpward ==
    ASSUME NEW S \in SUBSET Event, NEW n \in 0 .. MaxEvents, Upward(S, n)
    PROVE  LET kept == {e \in S : Cardinality({d \in S : d > e}) < Capacity}
           IN  kept \in SUBSET Event /\ Upward(kept, n)
<1> DEFINE Above(e) == {d \in S : d > e}
           kept == {e \in S : Cardinality(Above(e)) < Capacity}
<1>1. IsFiniteSet(S)
  <2>1. IsFiniteSet(1 .. MaxEvents)
    BY FeedAssumption, FS_Interval
  <2> QED
    BY <2>1, FS_Subset DEF Event
<1>2. ASSUME NEW e \in kept, NEW d \in e .. n
      PROVE  d \in kept
  <2>1. d \in S /\ e \in S
    BY DEF Upward
  <2>2. IsFiniteSet(Above(e)) /\ Above(d) \subseteq Above(e)
    <3>1. IsFiniteSet(Above(e))
      BY <1>1, FS_Subset
    <3>2. Above(d) \subseteq Above(e)
      <4>1. e \in Int /\ d \in Int /\ e <= d /\ S \subseteq Int
        BY <2>1, FeedAssumption DEF Event
      <4>2. ASSUME NEW x \in S, x > d
            PROVE  x > e
        BY <4>1, <4>2
      <4> HIDE DEF kept
      <4> QED
        BY <4>2
    <3> QED
      BY <3>1, <3>2
  <2>3. Cardinality(Above(d)) <= Cardinality(Above(e))
    BY <2>2, FS_Subset
  <2>4. Cardinality(Above(d)) \in Nat /\ Cardinality(Above(e)) \in Nat
    BY <2>2, FS_Subset, FS_CardinalityType
  <2>5. Cardinality(Above(d)) < Capacity
    <3> HIDE DEF Above
    <3>1. Cardinality(Above(e)) < Capacity
      BY DEF kept
    <3> QED
      BY <3>1, <2>3, <2>4, FeedAssumption
  <2> QED
    BY <2>1, <2>5
<1>3. kept \in SUBSET Event
  OBVIOUS
<1>4. Upward(kept, n)
  <2>1. \A e \in kept : e <= n
    BY DEF Upward
  <2> QED
    BY <2>1, <1>2 DEF Upward
<1> QED
  BY <1>3, <1>4

\* What the page of a load says about the events behind the load's position.
\* The ring may have moved on since it was served.
PageRight(l) ==
    /\ l.at <= l.page.nextAfter
    /\ l.page.nextAfter <= latest
    /\ l.page.hasMore => l.at < l.page.nextAfter
    /\ Upward(l.page.events, l.page.nextAfter)
    /\ ~l.page.hasGap => \A d \in (l.at + 1) .. l.page.nextAfter : d \in l.page.events
    /\ l.page.hasGap => \A d \in 1 .. l.page.nextAfter : d <= OldestAfter \/ d \in l.page.events

\* What a load has collected continues what is shown, unless a gap has made it
\* start anew; a load that a sign-out crossed finds nothing shown.
BatchRight(l) ==
    /\ l.at <= latest
    /\ Upward(l.events, l.at)
    /\ ~l.reset => \A e \in shown : e <= l.at /\ \A d \in e .. l.at : d \in shown \/ d \in l.events
    /\ l.reset => \A d \in 1 .. l.at : d <= OldestAfter \/ d \in l.events
    /\ l.crossed => shown = {}
    /\ ~l.crossed => cursor <= l.at
    /\ ~l.crossed => \A d \in (cursor + 1) .. l.at : d <= OldestAfter \/ d \in l.events

FeedInv ==
    /\ FeedTypeOK
    /\ NoHoles
    /\ cursor <= latest
    /\ load # NoLoad => BatchRight(load)
    /\ (load # NoLoad /\ load.page # NoPage) => PageRight(load)

\* The page the server answers is one, and is right.
LEMMA ServedRight ==
    ASSUME NEW after \in 0 .. MaxEvents, latest \in 0 .. MaxEvents, after <= latest
    PROVE  LET p == EventsPage(after) IN
             /\ p \in Page
             /\ after <= p.nextAfter
             /\ p.nextAfter <= latest
             /\ p.hasMore => after < p.nextAfter
             /\ Upward(p.events, p.nextAfter)
             /\ ~p.hasGap => \A d \in (after + 1) .. p.nextAfter : d \in p.events
             /\ p.hasGap => \A d \in 1 .. p.nextAfter : d <= OldestAfter \/ d \in p.events
<1> DEFINE first == Larger(after, OldestAfter) + 1
           last  == Smaller(first + PageLimit - 1, latest)
           next  == IF last < first THEN after ELSE last
           more  == last >= first /\ last < latest
           gap   == after < OldestAfter
<1>1. OldestAfter \in 0 .. latest /\ (latest > 0 => OldestAfter < latest)
  BY FeedAssumption DEF OldestAfter, Larger
<1>2. /\ first \in Nat /\ 1 <= first /\ after < first /\ OldestAfter < first
      /\ after >= OldestAfter => first = after + 1
      /\ after < OldestAfter => first = OldestAfter + 1
  BY <1>1 DEF Larger
<1>3. last \in Nat /\ last <= latest /\ (last < first => latest < first)
  <2> HIDE DEF first
  <2> QED
    BY <1>2, FeedAssumption DEF Smaller
<1>4. EventsPage(after) = [events |-> first .. last, nextAfter |-> next,
                           hasMore |-> more, hasGap |-> gap]
  BY DEF EventsPage
<1> HIDE DEF first, last
<1>5. after < OldestAfter => first <= last
  BY <1>1, <1>2, <1>3
<1>6. EventsPage(after) \in Page
  <2>1. first .. last \in SUBSET Event
    BY <1>2, <1>3, FeedAssumption DEF Event
  <2>2. next \in 0 .. MaxEvents
    BY <1>3, FeedAssumption
  <2>3. (last >= first /\ last < latest) \in BOOLEAN /\ (after < OldestAfter) \in BOOLEAN
    OBVIOUS
  <2> QED
    BY <1>4, <2>1, <2>2, <2>3 DEF Page
<1>7. after <= next /\ next <= latest /\ (last >= first => after < next)
  BY <1>2, <1>3
<1>8. Upward(first .. last, next)
  BY <1>2, <1>3 DEF Upward
<1>9. ~(after < OldestAfter) => \A d \in (after + 1) .. next : d \in first .. last
  BY <1>1, <1>2, <1>3
<1>10. after < OldestAfter => \A d \in 1 .. next : d <= OldestAfter \/ d \in first .. last
  BY <1>1, <1>2, <1>3, <1>5
<1> HIDE DEF next
<1> DEFINE p == EventsPage(after)
<1>11. /\ p.events = first .. last /\ p.nextAfter = next
       /\ p.hasMore = more /\ p.hasGap = gap
  <2> HIDE DEF more, gap
  <2> QED
    BY <1>4
<1>12. p \in Page
  BY <1>6
<1> HIDE DEF p
<1>13. /\ after <= p.nextAfter /\ p.nextAfter <= latest
       /\ p.hasMore => after < p.nextAfter
       /\ Upward(p.events, p.nextAfter)
  BY <1>7, <1>8, <1>11
<1>14. ~p.hasGap => \A d \in (after + 1) .. p.nextAfter : d \in p.events
  BY <1>9, <1>11
<1>15. p.hasGap => \A d \in 1 .. p.nextAfter : d <= OldestAfter \/ d \in p.events
  BY <1>10, <1>11
<1> QED
  BY <1>12, <1>13, <1>14, <1>15 DEF p

\* The events collected with the page that has arrived have no hole up to the
\* cursor of the page, and neither have they together with what is shown.
LEMMA CollectedRight ==
    ASSUME FeedInv, load # NoLoad, load.page # NoPage
    PROVE  /\ load \in Load /\ load.page \in Page
           /\ Collected(load) \in SUBSET Event
           /\ Upward(Collected(load), load.page.nextAfter)
           /\ ~(load.reset \/ load.page.hasGap) =>
                 \A e \in shown : /\ e <= load.page.nextAfter
                                  /\ \A d \in e .. load.page.nextAfter : d \in shown \/ d \in Collected(load)
           /\ (load.reset \/ load.page.hasGap) =>
                 \A d \in 1 .. load.page.nextAfter : d <= OldestAfter \/ d \in Collected(load)
           /\ ~load.crossed =>
                 \A d \in (cursor + 1) .. load.page.nextAfter : d <= OldestAfter \/ d \in Collected(load)
<1>1. load \in Load /\ load.page \in Page
  BY DEF FeedInv, FeedTypeOK, Load
<1>2. /\ load.at \in 0 .. MaxEvents /\ load.events \in SUBSET Event
      /\ load.reset \in BOOLEAN /\ load.crossed \in BOOLEAN
      /\ load.page.events \in SUBSET Event /\ load.page.nextAfter \in 0 .. MaxEvents
      /\ load.page.hasGap \in BOOLEAN
      /\ cursor \in 0 .. MaxEvents /\ shown \in SUBSET Event /\ latest \in 0 .. MaxEvents
  BY <1>1 DEF Load, Page, FeedInv, FeedTypeOK
<1>3. BatchRight(load) /\ PageRight(load)
  BY DEF FeedInv
<1>4. OldestAfter \in Int
  BY <1>2, FeedAssumption DEF OldestAfter, Larger
<1>5. CASE load.page.hasGap
  <2>1. Collected(load) = load.page.events
    BY <1>5 DEF Collected
  <2> QED
    BY <1>1, <1>2, <1>3, <1>4, <1>5, <2>1, FeedAssumption DEF PageRight
<1>6. CASE ~load.page.hasGap
  <2>1. Collected(load) = load.events \union load.page.events
    BY <1>6 DEF Collected
  <2>2. \A d \in (load.at + 1) .. load.page.nextAfter : d \in load.page.events
    BY <1>3, <1>6 DEF PageRight
  <2>3. Upward(Collected(load), load.page.nextAfter)
    BY <1>2, <1>3, <2>1, <2>2, FeedAssumption DEF BatchRight, PageRight, Upward, Event
  <2>4. ASSUME ~load.reset, NEW e \in shown
        PROVE  /\ e <= load.page.nextAfter
               /\ \A d \in e .. load.page.nextAfter : d \in shown \/ d \in Collected(load)
    BY <1>2, <1>3, <2>1, <2>2, <2>4, FeedAssumption DEF BatchRight, PageRight, Event
  <2>5. ASSUME load.reset
        PROVE  \A d \in 1 .. load.page.nextAfter : d <= OldestAfter \/ d \in Collected(load)
    BY <1>2, <1>3, <2>1, <2>2, <2>5, FeedAssumption DEF BatchRight, PageRight
  <2>6. ASSUME ~load.crossed
        PROVE  \A d \in (cursor + 1) .. load.page.nextAfter : d <= OldestAfter \/ d \in Collected(load)
    BY <1>2, <1>3, <2>1, <2>2, <2>6, FeedAssumption DEF BatchRight, PageRight
  <2> QED
    BY <1>1, <1>2, <1>6, <2>1, <2>3, <2>4, <2>5, <2>6
<1> QED
  BY <1>2, <1>5, <1>6

\* The merge keeps what the ring still holds.
LEMMA MergeKeepsNewest ==
    ASSUME NEW S \in SUBSET Event, NEW n \in 0 .. MaxEvents, Upward(S, n),
           latest \in 0 .. MaxEvents, n <= latest,
           NEW e \in S, e > OldestAfter
    PROVE  Cardinality({d \in S : d > e}) < Capacity
<1>1. e \in Nat /\ e <= n /\ latest - Capacity < e
  BY FeedAssumption DEF Event, Upward, OldestAfter, Larger
<1>2. {d \in S : d > e} \subseteq (e + 1) .. n
  <2>1. ASSUME NEW d \in S, d > e
        PROVE  d \in (e + 1) .. n
    BY <1>1, <2>1, FeedAssumption DEF Event, Upward
  <2> QED
    BY <2>1
<1>3. IsFiniteSet((e + 1) .. n) /\ Cardinality((e + 1) .. n) = n - e
  <2>1. e + 1 \in Int /\ n \in Int
    BY <1>1, FeedAssumption
  <2>2. /\ IsFiniteSet((e + 1) .. n)
        /\ Cardinality((e + 1) .. n) = IF e + 1 > n THEN 0 ELSE n - (e + 1) + 1
    BY <2>1, FS_Interval, Zenon
  <2>3. (IF e + 1 > n THEN 0 ELSE n - (e + 1) + 1) = n - e
    BY <1>1, <2>1
  <2> QED
    BY <2>2, <2>3
<1>4. /\ Cardinality({d \in S : d > e}) <= n - e
      /\ IsFiniteSet({d \in S : d > e})
  BY <1>2, <1>3, FS_Subset
<1>5. Cardinality({d \in S : d > e}) \in Nat
  BY <1>4, FS_CardinalityType
<1> DEFINE c == Cardinality({d \in S : d > e})
<1> HIDE DEF c
<1>6. c \in Nat /\ c <= n - e
  BY <1>4, <1>5 DEF c
<1>7. c < Capacity
  BY <1>1, <1>6, FeedAssumption
<1> QED
  BY <1>7 DEF c

\* The batch that a last page completes is merged without holes.
LEMMA FinishRight ==
    ASSUME FeedInv, FinishLoad
    PROVE  /\ FeedTypeOK'
           /\ NoHoles'
           /\ cursor' <= latest'
           /\ (Complete /\ ~load.crossed) => Complete'
<1> DEFINE reset == load.reset \/ load.page.hasGap
           S     == (IF reset THEN {} ELSE shown) \union Collected(load)
           n     == load.page.nextAfter
           kept  == {e \in S : Cardinality({d \in S : d > e}) < Capacity}
<1>1. load # NoLoad /\ load.page # NoPage
  BY DEF FinishLoad
<1>2. load \in Load /\ load.page \in Page /\ Collected(load) \in SUBSET Event
  BY <1>1, CollectedRight
<1>3. /\ n \in 0 .. MaxEvents /\ shown \in SUBSET Event
      /\ latest \in 0 .. MaxEvents /\ cursor \in 0 .. MaxEvents
      /\ reset \in BOOLEAN /\ S \in SUBSET Event /\ n <= latest
  BY <1>1, <1>2 DEF Load, Page, FeedInv, FeedTypeOK, PageRight
<1>4. Upward(S, n)
  <2>1. Upward(Collected(load), n)
    BY <1>1, CollectedRight
  <2>2. CASE reset
    BY <2>1, <2>2
  <2>3. CASE ~reset
    <3>1. \A e \in shown : e <= n /\ \A d \in e .. n : d \in shown \/ d \in Collected(load)
      BY <1>1, <2>3, CollectedRight
    <3> QED
      BY <2>1, <2>3, <3>1 DEF Upward
  <2> QED
    BY <2>2, <2>3
<1>5. shown' = kept /\ cursor' = n /\ load' = NoLoad /\ latest' = latest
  BY DEF FinishLoad, mergeMonitoringEvents
<1>6. kept \in SUBSET Event /\ Upward(kept, n)
  BY <1>3, <1>4, MergeUpward
<1>7. ASSUME Complete, ~load.crossed, NEW e \in (OldestAfter + 1) .. n
      PROVE  e \in kept
  <2>1. OldestAfter \in Nat
    BY <1>3, FeedAssumption DEF OldestAfter, Larger
  <2>2. e \in Nat /\ e > OldestAfter /\ e \in 1 .. n
    BY <1>3, <2>1
  <2>3. e \in S
    <3>1. CASE reset
      <4>1. e <= OldestAfter \/ e \in Collected(load)
        BY <1>1, <2>2, <3>1, CollectedRight
      <4> QED
        BY <2>1, <2>2, <4>1
    <3>2. CASE ~reset /\ e <= cursor
      BY <1>3, <1>7, <2>1, <2>2, <3>2 DEF Complete
    <3>3. CASE e > cursor
      <4>1. e \in (cursor + 1) .. n
        BY <1>3, <2>2, <3>3
      <4>2. e <= OldestAfter \/ e \in Collected(load)
        BY <1>1, <1>7, <4>1, CollectedRight
      <4> QED
        BY <2>1, <2>2, <4>2
    <3> QED
      BY <1>3, <2>2, <3>1, <3>2, <3>3
  <2>4. Cardinality({d \in S : d > e}) < Capacity
    <3> HIDE DEF S, n
    <3> QED
      BY <1>3, <1>4, <2>2, <2>3, MergeKeepsNewest
  <2> QED
    BY <2>3, <2>4
<1> HIDE DEF kept, n, S, reset
<1>8. FeedTypeOK'
  BY <1>3, <1>5, <1>6 DEF FeedTypeOK
<1>9. NoHoles'
  BY <1>5, <1>6 DEF NoHoles, Upward
<1>10. (Complete /\ ~load.crossed) => Complete'
  BY <1>5, <1>7 DEF Complete, OldestAfter
<1> QED
  BY <1>3, <1>5, <1>8, <1>9, <1>10

\* Every step of the feed keeps the invariant.
LEMMA FeedStep ==
    ASSUME FeedInv, [FeedNext]_feedVars
    PROVE  FeedInv'
<1> USE FeedAssumption
<1>1. /\ latest \in 0 .. MaxEvents /\ cursor \in 0 .. MaxEvents /\ shown \in SUBSET Event
      /\ load \in Load \union {NoLoad} /\ cursor <= latest /\ NoHoles
  BY DEF FeedInv, FeedTypeOK
<1>2. OldestAfter \in Int
  BY <1>1 DEF OldestAfter, Larger
<1>3. CASE RecordEvent
  <2>1. latest' = latest + 1 /\ cursor' = cursor /\ shown' = shown /\ load' = load
    BY <1>3 DEF RecordEvent
  <2>2. OldestAfter' \in Int /\ OldestAfter <= OldestAfter'
    BY <1>1, <2>1 DEF OldestAfter, Larger
  <2>3. FeedTypeOK' /\ NoHoles' /\ cursor' <= latest'
    BY <1>1, <1>3, <2>1 DEF FeedTypeOK, NoHoles, RecordEvent
  <2>4. ASSUME load # NoLoad
        PROVE  BatchRight(load)'
    <3>1. BatchRight(load) /\ load.at \in 0 .. MaxEvents /\ load \in Load
      BY <1>1, <2>4 DEF FeedInv, Load
    <3>2. /\ load.at <= latest'
          /\ load.reset => \A d \in 1 .. load.at : d <= OldestAfter' \/ d \in load.events
          /\ ~load.crossed => \A d \in (cursor + 1) .. load.at : d <= OldestAfter' \/ d \in load.events
      BY <1>1, <1>2, <2>1, <2>2, <3>1 DEF BatchRight
    <3> QED
      BY <2>1, <3>1, <3>2 DEF BatchRight
  <2>5. ASSUME load # NoLoad, load.page # NoPage
        PROVE  PageRight(load)'
    <3>1. PageRight(load) /\ load.page.nextAfter \in 0 .. MaxEvents
      BY <1>1, <2>5 DEF FeedInv, Load, Page
    <3>2. /\ load.page.nextAfter <= latest'
          /\ load.page.hasGap =>
                \A d \in 1 .. load.page.nextAfter : d <= OldestAfter' \/ d \in load.page.events
      BY <1>1, <1>2, <2>1, <2>2, <3>1 DEF PageRight
    <3> QED
      BY <2>1, <3>1, <3>2 DEF PageRight
  <2> QED
    BY <2>1, <2>3, <2>4, <2>5 DEF FeedInv
<1>4. CASE refreshEvents
  <2> DEFINE l == [busy |-> TRUE, at |-> cursor, events |-> {}, reset |-> FALSE,
                   crossed |-> FALSE, page |-> NoPage]
  <2>1. load' = l /\ latest' = latest /\ cursor' = cursor /\ shown' = shown
    BY <1>4 DEF refreshEvents
  <2>2. /\ l \in Load /\ l.at = cursor /\ l.events = {} /\ l.reset = FALSE
        /\ l.crossed = FALSE /\ l.page = NoPage
    BY <1>1 DEF Load
  <2> HIDE DEF l
  <2>3. BatchRight(l)
    BY <1>1, <2>2 DEF BatchRight, Upward, NoHoles
  <2>4. BatchRight(load)'
    BY <2>1, <2>3 DEF BatchRight, OldestAfter
  <2>5. FeedTypeOK' /\ NoHoles' /\ cursor' <= latest'
    BY <1>1, <2>1, <2>2 DEF FeedTypeOK, NoHoles
  <2> QED
    BY <2>1, <2>2, <2>4, <2>5 DEF FeedInv
<1>5. CASE ServePage
  <2> DEFINE p == EventsPage(load.at)
             l == [load EXCEPT !.page = p]
  <2>1. load' = l /\ latest' = latest /\ cursor' = cursor /\ shown' = shown /\ load # NoLoad
    BY <1>5 DEF ServePage
  <2>2. load \in Load /\ load.at \in 0 .. MaxEvents /\ BatchRight(load) /\ load.at <= latest
    BY <1>1, <2>1 DEF FeedInv, Load, BatchRight
  <2>3. /\ p \in Page
        /\ load.at <= p.nextAfter /\ p.nextAfter <= latest
        /\ p.hasMore => load.at < p.nextAfter
        /\ Upward(p.events, p.nextAfter)
        /\ ~p.hasGap => \A d \in (load.at + 1) .. p.nextAfter : d \in p.events
        /\ p.hasGap => \A d \in 1 .. p.nextAfter : d <= OldestAfter \/ d \in p.events
    BY <1>1, <2>2, ServedRight
  <2> HIDE DEF p
  <2>4. /\ l \in Load /\ l.at = load.at /\ l.events = load.events /\ l.reset = load.reset
        /\ l.crossed = load.crossed /\ l.page = p
    BY <2>2, <2>3 DEF Load
  <2> HIDE DEF l
  <2>5. BatchRight(l) /\ PageRight(l)
    BY <2>2, <2>3, <2>4 DEF BatchRight, PageRight
  <2>6. BatchRight(load)' /\ PageRight(load)'
    BY <2>1, <2>5 DEF BatchRight, PageRight, OldestAfter
  <2>7. FeedTypeOK' /\ NoHoles' /\ cursor' <= latest'
    BY <1>1, <2>1, <2>4 DEF FeedTypeOK, NoHoles
  <2> QED
    BY <2>6, <2>7 DEF FeedInv
<1>6. CASE TakePage
  <2> DEFINE l == [load EXCEPT !.at = load.page.nextAfter, !.events = Collected(load),
                               !.reset = load.reset \/ load.page.hasGap, !.page = NoPage]
  <2>1. /\ load # NoLoad /\ load.page # NoPage /\ latest' = latest /\ cursor' = cursor
        /\ shown' = shown /\ (load' = NoLoad \/ load' = l)
    BY <1>6 DEF TakePage
  <2>2. /\ load \in Load /\ load.page \in Page /\ Collected(load) \in SUBSET Event
        /\ BatchRight(load) /\ PageRight(load)
    BY <2>1, CollectedRight DEF FeedInv
  <2>3. /\ l \in Load /\ l.at = load.page.nextAfter /\ l.events = Collected(load)
        /\ l.reset = (load.reset \/ load.page.hasGap)
        /\ l.crossed = load.crossed /\ l.page = NoPage
    BY <2>2 DEF Load, Page
  <2> HIDE DEF l
  <2>4. BatchRight(l)
    <3>1. l.at <= latest /\ Upward(l.events, l.at)
      BY <2>1, <2>2, <2>3, CollectedRight DEF PageRight
    <3>2. ~l.reset => \A e \in shown : /\ e <= l.at
                                      /\ \A d \in e .. l.at : d \in shown \/ d \in l.events
      BY <2>1, <2>3, CollectedRight
    <3>3. l.reset => \A d \in 1 .. l.at : d <= OldestAfter \/ d \in l.events
      BY <2>1, <2>3, CollectedRight
    <3>4. l.crossed => shown = {}
      BY <2>2, <2>3 DEF BatchRight
    <3>5. ~l.crossed => cursor <= l.at
      BY <1>1, <2>2, <2>3 DEF BatchRight, PageRight, Load, Page
    <3>6. ~l.crossed => \A d \in (cursor + 1) .. l.at : d <= OldestAfter \/ d \in l.events
      BY <2>1, <2>3, CollectedRight
    <3> QED
      BY <3>1, <3>2, <3>3, <3>4, <3>5, <3>6 DEF BatchRight
  <2>5. FeedTypeOK' /\ NoHoles' /\ cursor' <= latest'
    BY <1>1, <2>1, <2>3 DEF FeedTypeOK, NoHoles
  <2>6. load' = l => BatchRight(load)'
    BY <2>1, <2>4 DEF BatchRight, OldestAfter
  <2> QED
    BY <2>1, <2>3, <2>5, <2>6 DEF FeedInv
<1>7. CASE FinishLoad
  <2>1. load' = NoLoad
    BY <1>7 DEF FinishLoad
  <2> QED
    BY <1>7, <2>1, FinishRight DEF FeedInv
<1>8. CASE FailLoad
  BY <1>1, <1>8 DEF FailLoad, FeedInv, FeedTypeOK, NoHoles
<1>9. CASE DenyLoad
  BY <1>1, <1>9 DEF DenyLoad, FeedInv, FeedTypeOK, NoHoles
<1>10. CASE ResetFeed
  <2> DEFINE l == [load EXCEPT !.crossed = TRUE]
  <2>1. /\ latest' = latest /\ cursor' = 0 /\ shown' = {}
        /\ load = NoLoad => load' = NoLoad
        /\ load # NoLoad => load' = l
    BY <1>10 DEF ResetFeed
  <2>2. FeedTypeOK' /\ NoHoles' /\ cursor' <= latest'
    <3>1. load' \in Load \union {NoLoad}
      BY <1>1, <2>1 DEF Load
    <3> QED
      BY <1>1, <2>1, <3>1 DEF FeedTypeOK, NoHoles
  <2>3. ASSUME load # NoLoad
        PROVE  /\ BatchRight(load)'
               /\ load'.page # NoPage => PageRight(load)'
    <3>1. load \in Load /\ BatchRight(load) /\ (load.page # NoPage => PageRight(load))
      BY <1>1, <2>3 DEF FeedInv
    <3>2. /\ l.at = load.at /\ l.events = load.events /\ l.reset = load.reset
          /\ l.crossed = TRUE /\ l.page = load.page
      BY <3>1 DEF Load
    <3> HIDE DEF l
    <3> QED
      BY <2>1, <2>3, <3>1, <3>2 DEF BatchRight, PageRight, OldestAfter
  <2> QED
    BY <2>1, <2>2, <2>3 DEF FeedInv
<1>11. CASE UNCHANGED feedVars
  BY <1>11 DEF feedVars, FeedInv, FeedTypeOK, NoHoles, BatchRight, PageRight, OldestAfter
<1> QED
  BY <1>3, <1>4, <1>5, <1>6, <1>7, <1>8, <1>9, <1>10, <1>11 DEF FeedNext

\* The invariant holds of every behaviour of the feed.
THEOREM FeedInvariant == FeedSpec => []FeedInv
<1>1. FeedInit => FeedInv
  BY FeedAssumption DEF FeedInit, FeedInv, FeedTypeOK, NoHoles
<1> QED
  BY <1>1, FeedStep, PTL DEF FeedSpec

\* The feed of the console (refreshEvents and mergeMonitoringEvents) never
\* shows a hole, for every capacity, page limit and history of the server.
THEOREM NoHolesShown == FeedSpec => []NoHoles
BY FeedInvariant, PTL DEF FeedInv

\* What is complete stays complete, through page limits, gaps, failed loads
\* and events that are recorded between two pages.
THEOREM CompletenessKept == FeedSpec => StaysComplete
<1>1. ASSUME FeedInv, [FeedNext]_feedVars, Complete, load = NoLoad \/ ~load.crossed
      PROVE  Complete'
  <2>1. /\ latest \in 0 .. MaxEvents /\ cursor \in 0 .. MaxEvents
        /\ OldestAfter \in Int
    BY <1>1, FeedAssumption DEF FeedInv, FeedTypeOK, OldestAfter, Larger
  <2>2. CASE FinishLoad
    BY <1>1, <2>2, FinishRight DEF FinishLoad
  <2>3. CASE RecordEvent
    <3> DEFINE old == Larger(latest - Capacity, 0)
               new == Larger(latest' - Capacity, 0)
    <3>1. new \in Int /\ old \in Int /\ old <= new /\ cursor' = cursor /\ shown' = shown
      BY <2>1, <2>3, FeedAssumption DEF RecordEvent, Larger
    <3>2. (old + 1) .. cursor \subseteq shown
      BY <1>1 DEF Complete, OldestAfter
    <3> HIDE DEF old, new
    <3>3. (new + 1) .. cursor' \subseteq shown'
      BY <2>1, <3>1, <3>2
    <3> QED
      BY <3>3 DEF Complete, OldestAfter, new
  <2>4. CASE ResetFeed \/ DenyLoad
    <3> DEFINE new == Larger(latest' - Capacity, 0)
    <3>1. cursor' = 0 /\ new \in Nat
      BY <2>1, <2>4, FeedAssumption DEF ResetFeed, DenyLoad, Larger
    <3> HIDE DEF new
    <3>2. (new + 1) .. cursor' \subseteq shown'
      BY <3>1
    <3> QED
      BY <3>2 DEF Complete, OldestAfter, new
  <2>5. CASE UNCHANGED <<latest, cursor, shown>>
    BY <1>1, <2>5 DEF Complete, OldestAfter
  <2> QED
    BY <1>1, <2>2, <2>3, <2>4, <2>5
       DEF FeedNext, refreshEvents, ServePage, TakePage, FailLoad, feedVars
<1>2. FeedInv /\ [FeedNext]_feedVars
        => [Complete /\ (load = NoLoad \/ ~load.crossed) => Complete']_feedVars
  BY <1>1
<1> QED
  BY <1>2, FeedInvariant, PTL DEF FeedSpec, StaysComplete

------------------------------------------------------------------------------
\* The feed in the console.

\* The steps that have to do with calls and the operator.
LEMMA CallsSpareFeed ==
    ASSUME NEW c, Serve(c) \/ Arrives(c)
    PROVE  UNCHANGED feedVars \/ ResetFeed
<1>1. CASE Serve(c)
  BY <1>1 DEF Serve, feedVars
<1>2. CASE Leave(c)
  BY <1>2 DEF Leave, resetAuthentication
<1>3. CASE SessionArrives(c)
  BY <1>3 DEF SessionArrives
<1>4. CASE LoadArrives(c)
  BY <1>4 DEF LoadArrives
<1>5. CASE LoginArrives(c)
  BY <1>5 DEF LoginArrives
<1>6. CASE ActionArrives(c)
  BY <1>6 DEF ActionArrives
<1> QED
  BY <1>1, <1>2, <1>3, <1>4, <1>5, <1>6 DEF Arrives

\* A step of the console is a step of the feed, or leaves it alone.
LEMMA ConsoleStep ==
    ASSUME [Next]_vars
    PROVE  [FeedNext]_feedVars
<1>1. CASE \E c \in calls : Serve(c) \/ Arrives(c)
  BY <1>1, CallsSpareFeed DEF FeedNext
<1>2. CASE Expire \/ SignIn \/ logout \/ ChangeLanguage \/ refresh
  BY <1>2 DEF Expire, SignIn, logout, ChangeLanguage, refresh, feedVars
<1>3. CASE setControlMode \/ \E result \in BOOLEAN : finishConfirmation(result)
  BY <1>3 DEF setControlMode, finishConfirmation, feedVars
<1>4. CASE Recorded \/ PollEvents \/ FeedServed \/ FeedLands \/ FeedFails
  BY <1>4 DEF Recorded, PollEvents, FeedServed, FeedLands, FeedFails, FeedNext
<1>5. CASE FeedDenied
  <2>1. DenyLoad \/ FailLoad
    BY <1>5, Zenon DEF FeedDenied
  <2> QED
    BY <2>1 DEF FeedNext
<1>6. CASE UNCHANGED vars
  BY <1>6 DEF vars
<1> QED
  BY <1>1, <1>2, <1>3, <1>4, <1>5, <1>6 DEF Next

\* The console implements the feed: sign-ins and sign-outs, changes of
\* language, denied and failed loads included.
THEOREM ConsoleFeed == Spec => FeedSpec
<1>1. Init => FeedInit
  BY DEF Init
<1> QED
  BY <1>1, ConsoleStep, PTL DEF Spec, FeedSpec

\* In the console the feed never shows a hole.
THEOREM ConsoleNoHoles == Spec => []NoHoles
BY ConsoleFeed, NoHolesShown, PTL

\* In the console a complete feed stays complete.
THEOREM ConsoleCompletenessKept == Spec => StaysComplete
BY ConsoleFeed, CompletenessKept, PTL DEF StaysComplete

------------------------------------------------------------------------------
\* What is known of the session apart from the feed: the types, and that every
\* call and the open confirmation belong to a client that was made.
ClientRecord == [csrf : 0 .. MaxSessions, notified : BOOLEAN]

SessionTypes ==
    /\ issued \in 0 .. MaxSessions /\ valid \in BOOLEAN
    /\ clients \in Seq(ClientRecord) /\ api \in 1 .. MaxClients
    /\ authenticated \in BOOLEAN /\ session \in 0 .. MaxSessions
    /\ screen \in [Loads -> 0 .. MaxSessions]
    /\ bootstrapError \in BOOLEAN
    /\ confirmation \in 0 .. api
    /\ calls \in SUBSET CallRecord
    /\ \A c \in calls : c.client \in 1 .. api
    /\ turns \in 0 .. MaxTurns

\* The calls the console makes by name are calls of the client.
LEMMA NamedCalls ==
    {"session", "login", "logout", "status", "drain"} \union Loads \subseteq DOMAIN Calls
<1> DEFINE tables == {SessionCalls, StatusCalls, FeedCalls, CaptureCalls, DownloadCalls, ConfigCalls,
                      PolicyCalls, ControlCalls, UncertainCalls, RequestCalls}
<1>1. DOMAIN Calls = UNION {DOMAIN table : table \in tables}
  BY Zenon DEF Calls
<1>2. {"session", "login", "logout"} \subseteq DOMAIN SessionCalls
  BY DEF SessionCalls
<1>3. "status" \in DOMAIN StatusCalls
  BY DEF StatusCalls
<1>4. "drain" \in DOMAIN ControlCalls
  BY DEF ControlCalls
<1>5. {SessionCalls, StatusCalls, ControlCalls} \subseteq tables
  OBVIOUS
<1> HIDE DEF tables
<1> QED
  BY <1>1, <1>2, <1>3, <1>4, <1>5, ConsoleAssumption

\* A call that is sent is a call record of a client that was made.
LEMMA SentRecord ==
    ASSUME SessionTypes, NEW k \in 1 .. api, NEW name \in DOMAIN Calls, NEW live \in BOOLEAN
    PROVE  /\ Sent(name, k, live) \in CallRecord
           /\ Sent(name, k, live).client = k
           /\ Sent(name, k, live).name = name
           /\ Sent(name, k, live).live = live
           /\ Sent(name, k, live).cookie = issued
           /\ Sent(name, k, live).answer = "none"
<1>1. clients[k] \in ClientRecord
  BY DEF SessionTypes, api
<1>2. TokenSent(clients[k], name) \in 0 .. MaxSessions
  BY <1>1, ConsoleAssumption DEF TokenSent, ClientRecord
<1>3. k \in 1 .. MaxClients
  BY ConsoleAssumption DEF SessionTypes, api
<1> QED
  BY <1>2, <1>3 DEF SessionTypes, Sent, CallRecord

\* What an answer makes of its client.
LEMMA AnsweredClient ==
    ASSUME NEW client \in ClientRecord, NEW name, NEW answer, NEW token \in 0 .. MaxSessions
    PROVE  LET next == AfterAnswer(client, name, answer, token) IN
             /\ next \in ClientRecord
             /\ next.csrf = IF name \in {"session", "login"} /\ answer = "ok"
                            THEN token ELSE client.csrf
BY DEF AfterAnswer, ClientRecord

\* An answer changes its client, and nothing of the others.
LEMMA ReplacedClient ==
    ASSUME SessionTypes, NEW k \in 1 .. api, NEW client \in ClientRecord,
           clients' = [clients EXCEPT ![k] = client]
    PROVE  /\ clients' \in Seq(ClientRecord) /\ api' = api
           /\ \A j \in 1 .. api : clients'[j] = IF j = k THEN client ELSE clients[j]
<1>1. clients \in Seq(ClientRecord)
  BY DEF SessionTypes
<1> QED
  BY <1>1, ExceptSeq DEF api

\* A call that has been disposed of is the same call but for its liveness.
LEMMA DisposedCalls ==
    ASSUME NEW some \in SUBSET CallRecord
    PROVE  /\ Disposed(some) \in SUBSET CallRecord
           /\ \A d \in Disposed(some) : ~d.live /\ \E c \in some :
                 /\ d.name = c.name /\ d.client = c.client /\ d.cookie = c.cookie
                 /\ d.token = c.token /\ d.answer = c.answer
                 /\ ~c.live => d = c
<1>1. ASSUME NEW c \in some
      PROVE  /\ [c EXCEPT !.live = FALSE] \in CallRecord
             /\ ~[c EXCEPT !.live = FALSE].live
             /\ [c EXCEPT !.live = FALSE].name = c.name
             /\ [c EXCEPT !.live = FALSE].client = c.client
             /\ [c EXCEPT !.live = FALSE].cookie = c.cookie
             /\ [c EXCEPT !.live = FALSE].token = c.token
             /\ [c EXCEPT !.live = FALSE].answer = c.answer
             /\ ~c.live => [c EXCEPT !.live = FALSE] = c
  <2>1. c \in CallRecord
    OBVIOUS
  <2> QED
    BY <2>1 DEF CallRecord
<1>2. \A d \in Disposed(some) : \E c \in some : d = [c EXCEPT !.live = FALSE]
  BY Zenon DEF Disposed
<1>3. Disposed(some) \in SUBSET CallRecord
  BY <1>1 DEF Disposed
<1> SUFFICES ASSUME NEW d \in Disposed(some)
             PROVE  ~d.live /\ \E c \in some :
                       /\ d.name = c.name /\ d.client = c.client /\ d.cookie = c.cookie
                       /\ d.token = c.token /\ d.answer = c.answer
                       /\ ~c.live => d = c
  BY <1>3, Zenon
<1>4. PICK c \in some : d = [c EXCEPT !.live = FALSE]
  BY <1>2, Zenon
<1> QED
  BY <1>1, <1>4, Zenon

\* The arrival of an answer, as far as the clients and the calls go.
LEMMA ArrivedTypes ==
    ASSUME SessionTypes, NEW c \in calls, Arrived(c)
    PROVE  /\ issued' = issued /\ valid' = valid /\ turns' = turns
           /\ clients' \in Seq(ClientRecord) /\ api' = api
           /\ c \in CallRecord /\ c.client \in 1 .. api
           /\ \A j \in 1 .. api : clients'[j].csrf =
                 IF j = c.client /\ c.name \in {"session", "login"} /\ c.answer = "ok"
                 THEN c.cookie ELSE clients[j].csrf
<1>1. c \in CallRecord /\ c.client \in 1 .. api
  BY DEF SessionTypes
<1>2. c.cookie \in 0 .. MaxSessions
  BY <1>1 DEF CallRecord
<1>3. clients[c.client] \in ClientRecord
  BY <1>1 DEF SessionTypes, api
<1> DEFINE next == AfterAnswer(clients[c.client], c.name, c.answer, c.cookie)
<1>4. /\ next \in ClientRecord
      /\ next.csrf = IF c.name \in {"session", "login"} /\ c.answer = "ok"
                     THEN c.cookie ELSE clients[c.client].csrf
  BY <1>2, <1>3, AnsweredClient
<1>5. clients' = [clients EXCEPT ![c.client] = next]
  BY DEF Arrived
<1> HIDE DEF next
<1>6. /\ clients' \in Seq(ClientRecord) /\ api' = api
      /\ \A j \in 1 .. api : clients'[j] = IF j = c.client THEN next ELSE clients[j]
  BY <1>1, <1>4, <1>5, ReplacedClient
<1> QED
  BY <1>1, <1>4, <1>6 DEF Arrived

\* Serving a call keeps the types.
LEMMA ServeTypes ==
    ASSUME SessionTypes, NEW c \in calls, Serve(c)
    PROVE  SessionTypes'
<1>1. PICK answer \in Replies(c) :
         /\ issued' = (IF c.name = "login" /\ answer = "ok" THEN issued + 1 ELSE issued)
         /\ valid' = (IF c.name = "login" /\ answer = "ok" THEN TRUE
                      ELSE IF c.name = "logout" /\ answer \in {"ok", "malformed"} THEN FALSE ELSE valid)
         /\ calls' = (calls \ {c}) \union {[c EXCEPT !.answer = answer, !.cookie = issued', !.token = 0]}
         /\ UNCHANGED <<clients, authenticated, session, screen, bootstrapError, confirmation, turns>>
  BY DEF Serve
<1>2. answer \in Answers /\ (c.name = "login" /\ answer = "ok" => issued < MaxSessions)
  BY DEF Replies, Answers
<1>3. issued' \in 0 .. MaxSessions /\ valid' \in BOOLEAN /\ 0 \in 0 .. MaxSessions
  <2>1. issued \in 0 .. MaxSessions /\ valid \in BOOLEAN /\ MaxSessions \in Nat
    BY ConsoleAssumption DEF SessionTypes
  <2>2. valid' \in BOOLEAN
    BY <1>1, <2>1, Zenon
  <2>3. issued' = issued \/ (issued' = issued + 1 /\ issued < MaxSessions)
    BY <1>1, <1>2, Zenon
  <2>4. issued' \in 0 .. MaxSessions /\ 0 \in 0 .. MaxSessions
    BY <2>1, <2>3
  <2> QED
    BY <2>2, <2>4
<1>4. c \in CallRecord /\ c.client \in 1 .. api
  BY DEF SessionTypes
<1> DEFINE served == [c EXCEPT !.answer = answer, !.cookie = issued', !.token = 0]
<1>5. served \in CallRecord /\ served.client = c.client
  BY <1>2, <1>3, <1>4 DEF CallRecord
<1>6. calls' = (calls \ {c}) \union {served} /\ api' = api
  BY <1>1 DEF api
<1> HIDE DEF served
<1>7. calls' \in SUBSET CallRecord /\ \A d \in calls' : d.client \in 1 .. api'
  BY <1>4, <1>5, <1>6 DEF SessionTypes
<1> QED
  BY <1>1, <1>3, <1>6, <1>7 DEF SessionTypes

\* Dropping the session keeps the types.
LEMMA ResetTypes ==
    ASSUME SessionTypes, NEW others \in SUBSET calls,
           issued' = issued, valid' = valid, turns' = turns,
           clients' \in Seq(ClientRecord), api' = api,
           authenticated' = FALSE, session' = 0, screen' = [l \in Loads |-> 0],
           bootstrapError' = FALSE, confirmation' = 0, calls' = Disposed(others)
    PROVE  SessionTypes'
<1>1. others \in SUBSET CallRecord /\ \A c \in others : c.client \in 1 .. api
  BY DEF SessionTypes
<1>2. calls' \in SUBSET CallRecord /\ \A d \in calls' : d.client \in 1 .. api'
  BY <1>1, DisposedCalls
<1>3. 0 \in 0 .. MaxSessions /\ 0 \in 0 .. api
  BY ConsoleAssumption DEF SessionTypes
<1>4. screen' \in [Loads -> 0 .. MaxSessions]
  BY <1>3
<1> QED
  BY <1>2, <1>3, <1>4 DEF SessionTypes

\* The bootstrap makes its first call with the client in use.
LEMMA BootstrapTypes ==
    ASSUME SessionTypes, NEW others \in SUBSET calls, Bootstrap(others),
           issued' = issued, clients' \in Seq(ClientRecord), api' \in api .. MaxClients
    PROVE  /\ bootstrapError' = FALSE
           /\ calls' \in SUBSET CallRecord
           /\ \A d \in calls' : d.client \in 1 .. api'
<1> DEFINE first == [name |-> "session", client |-> api', live |-> TRUE, cookie |-> issued,
                     token |-> 0, answer |-> "none"]
<1>1. bootstrapError' = FALSE /\ calls' = Disposed(others) \union {first}
  BY DEF Bootstrap, api
<1>2. api \in 1 .. MaxClients /\ issued \in 0 .. MaxSessions
  BY DEF SessionTypes
<1>3. api' \in 1 .. MaxClients
  BY <1>2, ConsoleAssumption
<1>4. first \in CallRecord /\ first.client = api'
  BY <1>2, <1>3, NamedCalls, ConsoleAssumption DEF CallRecord
<1> HIDE DEF first
<1>5. others \in SUBSET CallRecord /\ \A c \in others : c.client \in 1 .. api'
  BY <1>2, <1>3, ConsoleAssumption DEF SessionTypes
<1>6. Disposed(others) \in SUBSET CallRecord /\ \A d \in Disposed(others) : d.client \in 1 .. api'
  BY <1>5, DisposedCalls
<1> QED
  BY <1>1, <1>3, <1>4, <1>6

\* Every step of the console keeps the types.
LEMMA SessionTypesStep ==
    ASSUME SessionTypes, [Next]_vars
    PROVE  SessionTypes'
<1>0. /\ MaxSessions \in Nat /\ MaxClients \in Nat /\ MaxTurns \in Nat
      /\ api \in Nat /\ api >= 1 /\ api <= MaxClients
  BY ConsoleAssumption DEF SessionTypes
<1>1. ASSUME NEW c \in calls, Serve(c) PROVE SessionTypes'
  BY <1>1, ServeTypes
<1>2. ASSUME NEW c \in calls, Leave(c) PROVE SessionTypes'
  <2>1. /\ issued' = issued /\ valid' = valid /\ turns' = turns
        /\ clients' \in Seq(ClientRecord) /\ api' = api
    BY <1>2, ArrivedTypes DEF Leave
  <2> QED
    BY <1>2, <2>1, ResetTypes DEF Leave, resetAuthentication
<1>3. ASSUME NEW c \in calls, SessionArrives(c) PROVE SessionTypes'
  <2>1. /\ issued' = issued /\ valid' = valid /\ turns' = turns
        /\ clients' \in Seq(ClientRecord) /\ api' = api
        /\ c \in CallRecord /\ c.client \in 1 .. api
    BY <1>3, ArrivedTypes DEF SessionArrives
  <2>2. c.cookie \in 0 .. MaxSessions /\ c.live \in BOOLEAN
    BY <2>1 DEF CallRecord
  <2>3. UNCHANGED <<authenticated, screen, confirmation>>
    BY <1>3 DEF SessionArrives
  <2>4. \A l \in Loads : Sent(l, c.client, TRUE) \in CallRecord /\ Sent(l, c.client, TRUE).client = c.client
    <3>1. \A l \in Loads : l \in DOMAIN Calls
      BY NamedCalls
    <3> QED
      BY <2>1, <3>1, SentRecord
  <2>5. CASE c.live /\ Accepts(c.name, c.answer)
    <3>1. /\ session' = c.cookie /\ bootstrapError' = bootstrapError
          /\ calls' = (calls \ {c}) \union {Sent(l, c.client, TRUE) : l \in Loads}
      BY <1>3, <2>5 DEF SessionArrives
    <3>2. calls' \in SUBSET CallRecord /\ \A d \in calls' : d.client \in 1 .. api'
      BY <2>1, <2>4, <3>1 DEF SessionTypes
    <3> QED
      BY <2>1, <2>2, <2>3, <3>1, <3>2 DEF SessionTypes
  <2>6. CASE ~(c.live /\ Accepts(c.name, c.answer))
    <3>1. /\ session' = session /\ bootstrapError' = (bootstrapError \/ c.live)
          /\ calls' = calls \ {c}
      BY <1>3, <2>6 DEF SessionArrives
    <3>2. bootstrapError' \in BOOLEAN
      BY <3>1, Zenon
    <3> QED
      BY <2>1, <2>3, <3>1, <3>2 DEF SessionTypes
  <2> QED
    BY <2>5, <2>6
<1>4. ASSUME NEW c \in calls, LoadArrives(c) PROVE SessionTypes'
  <2>1. /\ issued' = issued /\ valid' = valid /\ turns' = turns
        /\ clients' \in Seq(ClientRecord) /\ api' = api
        /\ c \in CallRecord
    BY <1>4, ArrivedTypes DEF LoadArrives
  <2>2. c.cookie \in 0 .. MaxSessions
    BY <2>1 DEF CallRecord
  <2>3. /\ UNCHANGED <<authenticated, session, confirmation>>
        /\ calls' = calls \ {c}
        /\ screen' = [screen EXCEPT ![c.name] = c.cookie] \/ screen' = screen
    BY <1>4 DEF LoadArrives
  <2>4. bootstrapError' \in BOOLEAN
    BY <1>4, Zenon DEF LoadArrives
  <2>5. screen' \in [Loads -> 0 .. MaxSessions]
    BY <2>2, <2>3 DEF SessionTypes
  <2> QED
    BY <2>1, <2>3, <2>4, <2>5 DEF SessionTypes
<1>5. ASSUME NEW c \in calls, LoginArrives(c) PROVE SessionTypes'
  <2>1. /\ issued' = issued /\ valid' = valid /\ turns' = turns
        /\ clients' \in Seq(ClientRecord) /\ api' = api
        /\ c \in CallRecord
    BY <1>5, ArrivedTypes DEF LoginArrives
  <2>2. c.cookie \in 0 .. MaxSessions
    BY <2>1 DEF CallRecord
  <2>3. UNCHANGED <<screen, confirmation>>
    BY <1>5 DEF LoginArrives
  <2>4. CASE c.answer = "ok"
    <3>1. authenticated' = TRUE /\ session' = c.cookie /\ Bootstrap(calls \ {c})
      BY <1>5, <2>4 DEF LoginArrives
    <3>2. /\ bootstrapError' = FALSE
          /\ calls' \in SUBSET CallRecord
          /\ \A d \in calls' : d.client \in 1 .. api'
      <4>1. api' \in api .. MaxClients /\ calls \ {c} \in SUBSET calls
        BY <1>0, <2>1
      <4> QED
        BY <2>1, <3>1, <4>1, BootstrapTypes
    <3> QED
      BY <2>1, <2>2, <2>3, <3>1, <3>2 DEF SessionTypes
  <2>5. CASE c.answer # "ok"
    <3>1. calls' = calls \ {c} /\ UNCHANGED <<authenticated, session, bootstrapError>>
      BY <1>5, <2>5 DEF LoginArrives
    <3> QED
      BY <2>1, <2>3, <3>1 DEF SessionTypes
  <2> QED
    BY <2>4, <2>5
<1>6. ASSUME NEW c \in calls, ActionArrives(c) PROVE SessionTypes'
  <2>1. /\ issued' = issued /\ valid' = valid /\ turns' = turns
        /\ clients' \in Seq(ClientRecord) /\ api' = api
        /\ c.client \in 1 .. api
    BY <1>6, ArrivedTypes DEF ActionArrives
  <2>2. UNCHANGED <<authenticated, session, screen, bootstrapError, confirmation>>
    BY <1>6 DEF ActionArrives
  <2>3. /\ Sent("status", c.client, FALSE) \in CallRecord
        /\ Sent("status", c.client, FALSE).client = c.client
    <3>1. "status" \in DOMAIN Calls
      BY NamedCalls
    <3> QED
      BY <2>1, <3>1, SentRecord, Zenon
  <2>4. calls' \subseteq calls \union {Sent("status", c.client, FALSE)}
    BY <1>6 DEF ActionArrives
  <2>5. calls' \in SUBSET CallRecord /\ \A d \in calls' : d.client \in 1 .. api'
    BY <2>1, <2>3, <2>4 DEF SessionTypes
  <2> QED
    BY <2>1, <2>2, <2>5 DEF SessionTypes
<1>7. CASE Expire
  <2>1. valid' = FALSE /\ turns' \in 0 .. MaxTurns
    BY <1>0, <1>7 DEF Expire, Turn, SessionTypes
  <2> QED
    BY <1>7, <2>1 DEF Expire, SessionTypes, api
<1>8. ASSUME NEW name \in {"login", "logout", "status", "drain"}, NEW k \in 1 .. api,
             calls' \subseteq calls \union {Sent(name, k, FALSE)},
             confirmation' \in 0 .. api, turns' \in 0 .. MaxTurns,
             UNCHANGED <<issued, valid, clients, authenticated, session, screen, bootstrapError>>
      PROVE  SessionTypes'
  <2>1. Sent(name, k, FALSE) \in CallRecord /\ Sent(name, k, FALSE).client = k
    <3>1. name \in DOMAIN Calls
      BY NamedCalls
    <3> QED
      BY <3>1, SentRecord
  <2>2. api' = api
    BY <1>8 DEF api
  <2>3. calls' \in SUBSET CallRecord /\ \A d \in calls' : d.client \in 1 .. api'
    BY <1>8, <2>1, <2>2 DEF SessionTypes
  <2> QED
    BY <1>8, <2>2, <2>3 DEF SessionTypes
<1>9. confirmation \in 0 .. api /\ turns \in 0 .. MaxTurns /\ api \in 1 .. api
  BY <1>0 DEF SessionTypes
<1>10. Turn => turns' \in 0 .. MaxTurns
  BY <1>0, <1>9 DEF Turn
<1>11. CASE SignIn
  <2>1. /\ calls' \subseteq calls \union {Sent("login", api, FALSE)}
        /\ UNCHANGED <<turns, confirmation>>
        /\ UNCHANGED <<issued, valid, clients, authenticated, session, screen, bootstrapError>>
    BY <1>11 DEF SignIn
  <2> QED
    BY <1>8, <1>9, <2>1
<1>12. CASE logout
  <2>1. /\ calls' \subseteq calls \union {Sent("logout", api, FALSE)}
        /\ Turn /\ UNCHANGED confirmation
        /\ UNCHANGED <<issued, valid, clients, authenticated, session, screen, bootstrapError>>
    BY <1>12 DEF logout
  <2> QED
    BY <1>8, <1>9, <1>10, <2>1
<1>13. CASE ChangeLanguage
  <2>1. clients \in Seq(ClientRecord) /\ NewClient \in ClientRecord
    BY <1>0 DEF SessionTypes, ClientRecord, NewClient
  <2>2. clients' = Append(clients, NewClient) /\ api < MaxClients
    BY <1>13 DEF ChangeLanguage
  <2>3. clients' \in Seq(ClientRecord) /\ api' = api + 1
    BY <2>1, <2>2 DEF api
  <2>4. /\ UNCHANGED <<issued, valid, authenticated, session, screen, confirmation>>
        /\ Turn
    BY <1>13 DEF ChangeLanguage
  <2>5. api' \in api .. MaxClients /\ api' \in 1 .. MaxClients /\ confirmation' \in 0 .. api'
    BY <1>0, <1>9, <2>2, <2>3, <2>4
  <2>6. CASE authenticated
    <3>1. Bootstrap(calls)
      BY <1>13, <2>6 DEF ChangeLanguage
    <3>2. /\ bootstrapError' = FALSE
          /\ calls' \in SUBSET CallRecord
          /\ \A d \in calls' : d.client \in 1 .. api'
      <4>1. calls \in SUBSET calls
        OBVIOUS
      <4> QED
        BY <2>3, <2>4, <2>5, <3>1, <4>1, BootstrapTypes
    <3> QED
      BY <1>10, <2>3, <2>4, <2>5, <3>2 DEF SessionTypes
  <2>7. CASE ~authenticated
    <3>1. UNCHANGED <<bootstrapError, calls>>
      BY <1>13, <2>7 DEF ChangeLanguage
    <3> QED
      <4>1. \A d \in calls' : d.client \in 1 .. api'
        BY <1>0, <2>3, <3>1 DEF SessionTypes
      <4> QED
        BY <1>10, <2>3, <2>4, <2>5, <3>1, <4>1 DEF SessionTypes
  <2> QED
    BY <2>6, <2>7
<1>14. CASE refresh
  <2>1. /\ calls' \subseteq calls \union {Sent("status", api, FALSE)}
        /\ Turn /\ UNCHANGED confirmation
        /\ UNCHANGED <<issued, valid, clients, authenticated, session, screen, bootstrapError>>
    BY <1>14 DEF refresh
  <2> QED
    BY <1>8, <1>9, <1>10, <2>1
<1>15. CASE setControlMode
  <2>1. /\ calls' = calls /\ Turn /\ confirmation' = api
        /\ UNCHANGED <<issued, valid, clients, authenticated, session, screen, bootstrapError>>
    BY <1>15 DEF setControlMode
  <2> QED
    BY <1>0, <1>10, <2>1 DEF SessionTypes, api
<1>16. ASSUME NEW result \in BOOLEAN, finishConfirmation(result) PROVE SessionTypes'
  <2>1. /\ confirmation # 0 /\ confirmation' = 0 /\ turns' = turns
        /\ calls' \subseteq calls \union {Sent("drain", confirmation, FALSE)}
        /\ UNCHANGED <<issued, valid, clients, authenticated, session, screen, bootstrapError>>
    BY <1>16 DEF finishConfirmation
  <2>2. confirmation \in 1 .. api /\ confirmation' \in 0 .. api
    BY <1>0, <1>9, <2>1
  <2> QED
    BY <1>8, <1>9, <2>1, <2>2
<1>17. ASSUME UNCHANGED sessionOnly, turns' = turns \/ Turn PROVE SessionTypes'
  BY <1>9, <1>10, <1>17 DEF sessionOnly, SessionTypes, api
<1>18. CASE Recorded \/ PollEvents \/ FeedServed \/ FeedLands \/ FeedFails
  <2>1. UNCHANGED sessionOnly /\ (turns' = turns \/ Turn)
    BY <1>18 DEF Recorded, PollEvents, FeedServed, FeedLands, FeedFails, sessionVars, sessionOnly
  <2> QED
    BY <1>17, <2>1
<1>19. CASE FeedDenied
  <2>1. PICK k \in 1 .. api :
          /\ clients' = [clients EXCEPT ![k] = AfterAnswer(@, "events", "401", 0)]
          /\ IF Notifies(clients[k], "401")
             THEN /\ authenticated' = FALSE /\ session' = 0 /\ screen' = [l \in Loads |-> 0]
                  /\ bootstrapError' = FALSE /\ confirmation' = 0
                  /\ calls' = Disposed(calls)
             ELSE UNCHANGED <<authenticated, session, screen, bootstrapError, confirmation, calls>>
    BY <1>19, Zenon DEF FeedDenied
  <2>2. issued' = issued /\ valid' = valid /\ turns' = turns
    BY <1>19 DEF FeedDenied
  <2>3. 0 \in 0 .. MaxSessions
    BY <1>0
  <2>4. clients' \in Seq(ClientRecord) /\ api' = api
    <3>1. clients[k] \in ClientRecord
      BY DEF SessionTypes, api
    <3> DEFINE next == AfterAnswer(clients[k], "events", "401", 0)
    <3>2. next \in ClientRecord
      BY <2>3, <3>1, AnsweredClient
    <3>3. clients' = [clients EXCEPT ![k] = next]
      BY <2>1
    <3> HIDE DEF next
    <3> QED
      BY <3>2, <3>3, ReplacedClient
  <2>5. CASE Notifies(clients[k], "401")
    BY <2>1, <2>2, <2>4, <2>5, ResetTypes
  <2>6. CASE ~Notifies(clients[k], "401")
    BY <2>1, <2>2, <2>4, <2>6 DEF SessionTypes
  <2> QED
    BY <2>5, <2>6
<1>20. CASE UNCHANGED vars
  BY <1>20 DEF vars, sessionVars, SessionTypes, api
<1> QED
  BY <1>1, <1>2, <1>3, <1>4, <1>5, <1>6, <1>7, <1>11, <1>12, <1>13, <1>14, <1>15, <1>16,
     <1>18, <1>19, <1>20, Zenon DEF Next, Arrives

\* The types of the session hold in every state.
LEMMA SessionTyped == Spec => []SessionTypes
<1>1. Init => SessionTypes
  <2> SUFFICES ASSUME Init PROVE SessionTypes
    OBVIOUS
  <2>1. MaxSessions \in Nat \ {0} /\ MaxClients \in Nat \ {0} /\ MaxTurns \in Nat
    BY ConsoleAssumption
  <2>2. issued \in 0 .. MaxSessions /\ valid \in BOOLEAN
    BY <2>1 DEF Init
  <2>3. clients = <<NewClient>> /\ NewClient \in ClientRecord
    BY <2>1 DEF Init, NewClient, ClientRecord
  <2>4. clients \in Seq(ClientRecord) /\ api = 1 /\ clients[1] = NewClient
    BY <2>3 DEF api
  <2> DEFINE first == Sent("session", 1, TRUE)
  <2>5. TokenSent(clients[1], "session") \in 0 .. MaxSessions
    BY <2>1, <2>4 DEF TokenSent, NewClient
  <2>6. first \in CallRecord /\ first.client = 1
    BY <2>1, <2>2, <2>5, NamedCalls DEF Sent, CallRecord
  <2>7. calls = {first}
    BY DEF Init
  <2> HIDE DEF first
  <2>8. calls \in SUBSET CallRecord /\ \A c \in calls : c.client \in 1 .. api
    BY <2>4, <2>6, <2>7
  <2>9. /\ authenticated \in BOOLEAN /\ session \in 0 .. MaxSessions
        /\ screen \in [Loads -> 0 .. MaxSessions]
        /\ bootstrapError \in BOOLEAN
        /\ confirmation \in 0 .. 1
        /\ turns \in 0 .. MaxTurns
        /\ 1 \in 1 .. MaxClients
    <3>1. 0 \in 0 .. MaxSessions /\ 0 \in 0 .. 1 /\ 0 \in 0 .. MaxTurns /\ 1 \in 1 .. MaxClients
      BY <2>1
    <3>2. [l \in Loads |-> 0] \in [Loads -> 0 .. MaxSessions]
      BY <3>1
    <3> QED
      BY <3>1, <3>2, Zenon DEF Init
  <2> QED
    BY <2>2, <2>4, <2>8, <2>9 DEF SessionTypes
<1> QED
  BY <1>1, SessionTypesStep, PTL DEF Spec

\* The console's variables have their types, the feed's included.
THEOREM ConsoleTypes == Spec => []ConsoleTypeOK
<1>1. SessionTypes /\ FeedInv => ConsoleTypeOK
  BY ConsoleAssumption DEF SessionTypes, FeedInv, ConsoleTypeOK, ClientRecord, api
<1> QED
  BY <1>1, SessionTyped, ConsoleFeed, FeedInvariant, PTL

------------------------------------------------------------------------------
\* Unless any call may outlive a session: all calls under way but the loads that
\* have been answered are of the last session issued, a 401 was answered because
\* it is over, and a sign-in is under way with no other such call and with
\* clients made since that have no token.
CallInTime(c) ==
    \/ Answered(c)
    \/ /\ c.cookie = issued
       /\ c.name \in {"login", "logout"} => ~c.live
       /\ c.name # "login" /\ c.answer = "401" => ~valid
       /\ c.name = "login" =>
             /\ ~authenticated
             /\ \A d \in calls \ {c} : Answered(d)
             /\ \A k \in 1 .. api : k > c.client => clients[k].csrf = 0

InTime ==
    /\ \A c \in calls : CallInTime(c)
    /\ authenticated => clients[api].csrf \in {0, issued}

\* A load that has been answered is no call that changes the client.
LEMMA AnsweredLoad ==
    ASSUME NEW c, Answered(c)
    PROVE  c.name \notin {"session", "login", "logout", "drain"} /\ c.answer \notin {"none", "401"}
BY ConsoleAssumption DEF Answered, SessionCalls, ControlCalls

\* Beside a call that is no answered load, or in a session, there is no sign-in.
LEMMA SignInAlone ==
    ASSUME InTime, authenticated \/ \E c \in calls : c.name # "login" /\ ~Answered(c)
    PROVE  \A d \in calls : d.name # "login"
BY AnsweredLoad DEF InTime, CallInTime

\* A step that leaves the sessions of the server alone or ends the last one,
\* after which there is no sign-in under way.
LEMMA KeepsTime ==
    ASSUME SessionTypes, InTime, issued' = issued, valid' => valid,
           \A d \in calls' :
              /\ d.name # "login"
              /\ \/ \E c \in calls : /\ d.name = c.name /\ d.cookie = c.cookie
                                     /\ d.answer = c.answer /\ (d.live => c.live)
                 \/ d.cookie = issued /\ d.answer = "none" /\ (d.name = "logout" => ~d.live),
           authenticated' => clients'[api'].csrf \in {0, issued}
    PROVE  InTime'
<1>1. ASSUME NEW d \in calls' PROVE CallInTime(d)'
  <2>1. CASE d.cookie = issued /\ d.answer = "none" /\ (d.name = "logout" => ~d.live)
    BY <2>1 DEF CallInTime
  <2>2. ASSUME NEW c \in calls, d.name = c.name, d.cookie = c.cookie, d.answer = c.answer,
               d.live => c.live
        PROVE  CallInTime(d)'
    BY <2>2 DEF CallInTime, InTime, Answered
  <2> QED
    BY <2>1, <2>2
<1> QED
  BY <1>1 DEF InTime

\* The token of the client in use after an answer that arrives in time.
LEMMA TokenAfterAnswer ==
    ASSUME SessionTypes, InTime, authenticated, NEW c \in calls, Arrived(c)
    PROVE  issued' = issued /\ valid' = valid /\ clients'[api'].csrf \in {0, issued}
<1>1. c \in CallRecord /\ c.client \in 1 .. api /\ api \in 1 .. api
  BY ConsoleAssumption DEF SessionTypes
<1>2. c.cookie \in 0 .. MaxSessions
  BY <1>1 DEF CallRecord
<1>3. (Answered(c) \/ c.cookie = issued) /\ clients[api].csrf \in {0, issued}
  BY DEF InTime, CallInTime
<1>4. /\ api' = api
      /\ clients'[api].csrf = IF api = c.client /\ c.name \in {"session", "login"} /\ c.answer = "ok"
                              THEN c.cookie ELSE clients[api].csrf
  BY <1>1, ArrivedTypes
<1>5. clients'[api].csrf \in {0, issued}
  BY <1>3, <1>4, AnsweredLoad
<1> QED
  BY <1>4, <1>5 DEF Arrived

\* Serving keeps the calls in time: a sign-in starts the next session when no
\* other call is under way.
LEMMA ServeInTime ==
    ASSUME SessionTypes, InTime, NEW c \in calls, Serve(c)
    PROVE  InTime'
<1>1. PICK answer \in Replies(c) :
         /\ issued' = (IF c.name = "login" /\ answer = "ok" THEN issued + 1 ELSE issued)
         /\ valid' = (IF c.name = "login" /\ answer = "ok" THEN TRUE
                      ELSE IF c.name = "logout" /\ answer \in {"ok", "malformed"} THEN FALSE ELSE valid)
         /\ calls' = (calls \ {c}) \union {[c EXCEPT !.answer = answer, !.cookie = issued', !.token = 0]}
         /\ UNCHANGED <<clients, authenticated>>
  BY DEF Serve
<1>2. c \in CallRecord
  BY DEF SessionTypes
<1>3. PICK served : served = [c EXCEPT !.answer = answer, !.cookie = issued', !.token = 0]
  BY Zenon
<1>4. /\ served.name = c.name /\ served.live = c.live /\ served.client = c.client
      /\ served.cookie = issued' /\ served.answer = answer
      /\ calls' = (calls \ {c}) \union {served}
  BY <1>1, <1>2, <1>3 DEF CallRecord
<1>5. CallInTime(c) /\ ~Answered(c)
  BY AnsweredLoad DEF InTime, Serve
<1>6. CASE c.name = "login"
  <2>1. ~authenticated' /\ api' = api /\ \A d \in calls' \ {served} : Answered(d)
    BY <1>1, <1>4, <1>5, <1>6 DEF CallInTime, api
  <2>2. CallInTime(served)'
    BY <1>1, <1>4, <1>5, <1>6, <2>1 DEF CallInTime, Answered
  <2>3. \A d \in calls' \ {served} : CallInTime(d)'
    BY <2>1 DEF CallInTime, Answered
  <2> QED
    BY <2>1, <2>2, <2>3 DEF InTime
<1>7. CASE c.name # "login"
  <2>1. issued' = issued /\ (valid' => valid) /\ api' = api
    BY <1>1, <1>7 DEF api
  <2>2. answer = "401" => ~valid
    BY <1>5, <1>7 DEF Replies, Honoured, CallInTime
  <2>3. \A d \in calls : d.name # "login"
    BY <1>5, <1>7, SignInAlone
  <2>4. CallInTime(served)'
    BY <1>4, <1>5, <1>7, <2>1, <2>2 DEF CallInTime
  <2>5. ASSUME NEW d \in calls PROVE CallInTime(d)'
    BY <2>1, <2>3 DEF InTime, CallInTime, Answered
  <2> QED
    BY <1>1, <1>4, <2>1, <2>4, <2>5 DEF InTime
<1> QED
  BY <1>6, <1>7

\* The calls of a disposed bootstrap stay in time.
LEMMA DisposedInTime ==
    ASSUME SessionTypes, NEW others \in SUBSET calls, NEW d \in Disposed(others)
    PROVE  \E c \in others : /\ d.name = c.name /\ d.cookie = c.cookie
                             /\ d.answer = c.answer /\ (d.live => c.live)
<1>1. others \in SUBSET CallRecord
  BY DEF SessionTypes
<1> QED
  BY <1>1, DisposedCalls

\* Answers that arrive keep the other calls in time.
LEMMA ArrivesInTime ==
    ASSUME SessionTypes, InTime, NEW c \in calls, Arrives(c)
    PROVE  InTime'
<1>1. Arrived(c)
  BY DEF Arrives, Leave, SessionArrives, LoadArrives, LoginArrives, ActionArrives
<1>2. /\ issued' = issued /\ valid' = valid /\ api' = api
      /\ c \in CallRecord /\ c.client \in 1 .. api
      /\ api \in Nat /\ api >= 1
  BY <1>1, ArrivedTypes, ConsoleAssumption DEF SessionTypes
<1>3. authenticated => clients'[api'].csrf \in {0, issued}
  BY <1>1, TokenAfterAnswer
<1>4. ~Answered(c) => \A d \in calls \ {c} : d.name # "login"
  BY AnsweredLoad DEF InTime, CallInTime
<1>5. CASE Leave(c)
  <2>0. ~Answered(c)
    BY <1>5, AnsweredLoad DEF Leave, Reported, Notifies
  <2>1. ~authenticated' /\ calls' = Disposed(calls \ {c})
    BY <1>5 DEF Leave, resetAuthentication
  <2>2. \A d \in calls' :
           /\ d.name # "login"
           /\ \E b \in calls : /\ d.name = b.name /\ d.cookie = b.cookie
                               /\ d.answer = b.answer /\ (d.live => b.live)
    BY <1>4, <2>0, <2>1, DisposedInTime
  <2> QED
    BY <1>2, <2>1, <2>2, KeepsTime
<1>6. CASE SessionArrives(c)
  <2>1. c.name # "login" /\ ~Answered(c) /\ authenticated' = authenticated
    BY <1>6, AnsweredLoad DEF SessionArrives
  <2>2. \A d \in calls : d.name # "login"
    BY <2>1, SignInAlone
  <2>3. \A l \in Loads : l \in DOMAIN Calls /\ l \notin {"login", "logout"}
    BY ConsoleAssumption DEF SessionCalls
  <2>4. \A l \in Loads : LET d == Sent(l, c.client, TRUE) IN
           d.name = l /\ d.cookie = issued /\ d.answer = "none"
    BY DEF Sent
  <2>5. \A d \in calls' : d \in calls \/ \E l \in Loads : d = Sent(l, c.client, TRUE)
    BY <1>6 DEF SessionArrives
  <2>6. \A d \in calls' :
           /\ d.name # "login"
           /\ d \in calls \/ (d.cookie = issued /\ d.answer = "none" /\ d.name # "logout")
    BY <2>2, <2>3, <2>4, <2>5, ZenonT(60)
  <2> QED
    BY <1>2, <1>3, <2>1, <2>6, KeepsTime
<1>7. CASE LoadArrives(c)
  <2>1. /\ c.name \notin {"session", "login"}
        /\ authenticated' = authenticated /\ calls' = calls \ {c}
    BY <1>7, ConsoleAssumption DEF LoadArrives, SessionCalls
  <2>2. \A k \in 1 .. api : clients'[k].csrf = clients[k].csrf
    BY <1>1, <2>1, ArrivedTypes
  <2>3. ASSUME NEW d \in calls' PROVE CallInTime(d)'
    BY <1>2, <2>1, <2>2 DEF InTime, CallInTime, Answered
  <2> QED
    BY <1>2, <1>3, <2>1, <2>3 DEF InTime
<1>8. CASE LoginArrives(c)
  <2>1. CallInTime(c) /\ c.name = "login" /\ ~Answered(c)
    BY <1>8, AnsweredLoad DEF InTime, LoginArrives
  <2>2. ~authenticated
    BY <2>1 DEF CallInTime
  <2>3. CASE c.answer # "ok"
    <3>1. calls' = calls \ {c} /\ authenticated' = authenticated
      BY <1>8, <2>3 DEF LoginArrives
    <3> QED
      BY <1>2, <1>4, <2>1, <2>2, <3>1, KeepsTime
  <2>4. CASE c.answer = "ok"
    <3> DEFINE first == [name |-> "session", client |-> Len(clients'), live |-> TRUE, cookie |-> issued,
                         token |-> 0, answer |-> "none"]
    <3>1. calls' = Disposed(calls \ {c}) \union {first}
      BY <1>8, <2>2, <2>4 DEF LoginArrives, Bootstrap
    <3>2. first.name = "session" /\ first.cookie = issued /\ first.answer = "none"
      OBVIOUS
    <3> HIDE DEF first
    <3>3. \A d \in Disposed(calls \ {c}) :
             /\ d.name # "login"
             /\ \E b \in calls : /\ d.name = b.name /\ d.cookie = b.cookie
                                 /\ d.answer = b.answer /\ (d.live => b.live)
      BY <1>4, <2>1, DisposedInTime
    <3>4. clients'[api].csrf = IF api = c.client THEN issued ELSE clients[api].csrf
      BY <1>1, <1>2, <2>1, <2>4, ArrivedTypes DEF CallInTime
    <3>5. api # c.client => clients[api].csrf = 0
      BY <1>2, <2>1 DEF CallInTime
    <3>6. clients'[api'].csrf \in {0, issued}
      BY <1>2, <3>4, <3>5
    <3> QED
      BY <1>2, <3>1, <3>2, <3>3, <3>6, KeepsTime
  <2> QED
    BY <2>3, <2>4
<1>9. CASE ActionArrives(c)
  <2>1. c.name # "login" /\ ~Answered(c) /\ authenticated' = authenticated
    BY <1>9, AnsweredLoad DEF ActionArrives
  <2>2. \A d \in calls : d.name # "login"
    BY <2>1, SignInAlone
  <2> DEFINE again == Sent("status", c.client, FALSE)
  <2>3. calls' \subseteq calls \union {again}
    BY <1>9 DEF ActionArrives
  <2>4. again.name = "status" /\ again.cookie = issued /\ again.answer = "none"
    BY DEF Sent
  <2> HIDE DEF again
  <2>5. \A d \in calls' :
           /\ d.name # "login"
           /\ d \in calls \/ (d.cookie = issued /\ d.answer = "none" /\ d.name # "logout")
    BY <2>2, <2>3, <2>4
  <2> QED
    BY <1>2, <1>3, <2>1, <2>5, KeepsTime
<1> QED
  BY <1>5, <1>6, <1>7, <1>8, <1>9 DEF Arrives

\* Every step keeps the calls in time when the next sign-in waits for them.
LEMMA InTimeStep ==
    ASSUME ~LateAnswers, SessionTypes, InTime, [Next]_vars
    PROVE  InTime'
<1>0. api \in Nat /\ api >= 1 /\ clients \in Seq(ClientRecord)
  BY ConsoleAssumption DEF SessionTypes
<1>1. ASSUME NEW c \in calls, Serve(c) \/ Arrives(c) PROVE InTime'
  BY <1>1, ServeInTime, ArrivesInTime
<1>2. ASSUME issued' = issued, valid' => valid, UNCHANGED <<clients, authenticated, calls>>
      PROVE  InTime'
  BY <1>2 DEF InTime, CallInTime, Answered, api
<1>3. CASE Expire \/ setControlMode \/ Recorded \/ PollEvents \/ FeedServed \/ FeedLands \/ FeedFails
           \/ UNCHANGED vars
  <2>1. issued' = issued /\ (valid' => valid) /\ UNCHANGED <<clients, authenticated, calls>>
    BY <1>3 DEF Expire, setControlMode, Recorded, PollEvents, FeedServed, FeedLands, FeedFails,
                sessionVars, sessionOnly, vars
  <2> QED
    BY <1>2, <2>1
<1>4. CASE SignIn
  <2>1. PICK sent : sent = Sent("login", api, FALSE)
    BY Zenon
  <2>2. /\ sent.name = "login" /\ sent.cookie = issued /\ sent.answer = "none" /\ ~sent.live
        /\ sent.client = api
    BY <2>1 DEF Sent
  <2>3. /\ calls' = calls \union {sent} /\ ~authenticated'
        /\ \A d \in calls : Answered(d)
        /\ UNCHANGED <<issued, clients, authenticated>>
    BY <1>4, <2>1 DEF SignIn
  <2>4. \A k \in 1 .. api : ~(k > api)
    BY <1>0
  <2>5. CallInTime(sent)'
    BY <2>2, <2>3, <2>4 DEF CallInTime, Answered, api
  <2>6. \A d \in calls : CallInTime(d)'
    BY <2>3 DEF CallInTime, Answered
  <2> QED
    BY <2>3, <2>5, <2>6 DEF InTime
<1>5. ASSUME NEW name \in {"logout", "status", "drain"}, NEW k, Rendered,
             calls' \subseteq calls \union {Sent(name, k, FALSE)},
             UNCHANGED <<issued, valid, clients, authenticated>>
      PROVE  InTime'
  <2>1. authenticated /\ \A d \in calls : d.name # "login"
    BY <1>5, SignInAlone DEF Rendered
  <2> DEFINE sent == Sent(name, k, FALSE)
  <2>2. sent.name = name /\ sent.cookie = issued /\ sent.answer = "none" /\ ~sent.live
    BY DEF Sent
  <2>3. calls' \subseteq calls \union {sent}
    BY <1>5
  <2> HIDE DEF sent
  <2>4. \A d \in calls' :
           /\ d.name # "login"
           /\ d \in calls \/ (d.cookie = issued /\ d.answer = "none" /\ ~d.live)
    BY <2>1, <2>2, <2>3
  <2>5. clients'[api'].csrf \in {0, issued}
    BY <1>5, <2>1 DEF InTime, api
  <2> QED
    BY <1>5, <2>4, <2>5, KeepsTime
<1>6. CASE logout \/ refresh
  <2>1. /\ Rendered /\ UNCHANGED <<issued, valid, clients, authenticated>>
        /\ \/ calls' \subseteq calls \union {Sent("logout", api, FALSE)}
           \/ calls' \subseteq calls \union {Sent("status", api, FALSE)}
    BY <1>6 DEF logout, refresh
  <2> QED
    BY <1>5, <2>1
<1>7. ASSUME NEW result \in BOOLEAN, finishConfirmation(result) PROVE InTime'
  <2>1. /\ Rendered /\ UNCHANGED <<issued, valid, clients, authenticated>>
        /\ calls' \subseteq calls \union {Sent("drain", confirmation, FALSE)}
    BY <1>7 DEF finishConfirmation
  <2> QED
    BY <1>5, <2>1
<1>8. CASE ChangeLanguage
  <2>1. /\ clients' = Append(clients, NewClient)
        /\ UNCHANGED <<issued, valid, authenticated>>
    BY <1>8 DEF ChangeLanguage
  <2>2. /\ api' = api + 1 /\ clients'[api + 1] = NewClient
        /\ \A k \in 1 .. api : clients'[k] = clients[k]
    BY <1>0, <2>1 DEF api
  <2>3. clients'[api'].csrf = 0
    BY <2>2 DEF NewClient
  <2>4. CASE authenticated
    <3> DEFINE first == [name |-> "session", client |-> Len(clients'), live |-> TRUE, cookie |-> issued,
                         token |-> 0, answer |-> "none"]
    <3>1. calls' = Disposed(calls) \union {first}
      BY <1>8, <2>4 DEF ChangeLanguage, Bootstrap
    <3>2. first.name = "session" /\ first.cookie = issued /\ first.answer = "none"
      OBVIOUS
    <3> HIDE DEF first
    <3>3. \A d \in calls : d.name # "login"
      BY <2>4, SignInAlone
    <3>4. \A d \in Disposed(calls) : \E c \in calls :
             /\ d.name = c.name /\ d.cookie = c.cookie
             /\ d.answer = c.answer /\ (d.live => c.live)
      BY DisposedInTime
    <3>5. \A d \in calls' :
             /\ d.name # "login"
             /\ \/ \E c \in calls : /\ d.name = c.name /\ d.cookie = c.cookie
                                    /\ d.answer = c.answer /\ (d.live => c.live)
                \/ d.cookie = issued /\ d.answer = "none" /\ (d.name = "logout" => ~d.live)
      BY <3>1, <3>2, <3>3, <3>4
    <3> QED
      BY <2>1, <2>3, <3>5, KeepsTime
  <2>5. CASE ~authenticated
    <3>1. calls' = calls
      BY <1>8, <2>5 DEF ChangeLanguage
    <3>2. ASSUME NEW c \in calls PROVE CallInTime(c)'
      <4>1. ASSUME NEW k \in 1 .. api', k > c.client, c.name = "login"
            PROVE  clients'[k].csrf = 0
        <5>1. k = api' \/ k \in 1 .. api
          BY <1>0, <2>2
        <5> QED
          BY <2>2, <2>3, <4>1, <5>1, AnsweredLoad DEF InTime, CallInTime
      <4> QED
        BY <2>1, <3>1, <4>1 DEF InTime, CallInTime, Answered
    <3> QED
      BY <2>1, <2>5, <3>1, <3>2 DEF InTime
  <2> QED
    BY <2>4, <2>5
<1>9. CASE FeedDenied
  <2>1. PICK k \in 1 .. api :
          /\ clients' = [clients EXCEPT ![k] = AfterAnswer(@, "events", "401", 0)]
          /\ \/ authenticated' = FALSE /\ calls' = Disposed(calls)
             \/ UNCHANGED <<authenticated, calls>>
    BY <1>9, Zenon DEF FeedDenied
  <2>2. issued' = issued /\ valid' = valid
    BY <1>9 DEF FeedDenied
  <2>3. api' = api /\ \A j \in 1 .. api : clients'[j].csrf = clients[j].csrf
    <3>1. clients[k] \in ClientRecord /\ 0 \in 0 .. MaxSessions
      BY ConsoleAssumption DEF SessionTypes, api
    <3> DEFINE next == AfterAnswer(clients[k], "events", "401", 0)
    <3>2. next \in ClientRecord /\ next.csrf = clients[k].csrf
      BY <3>1, AnsweredClient
    <3>3. clients' = [clients EXCEPT ![k] = next]
      BY <2>1
    <3> HIDE DEF next
    <3>4. api' = api /\ \A j \in 1 .. api : clients'[j] = IF j = k THEN next ELSE clients[j]
      BY <3>2, <3>3, ReplacedClient
    <3> QED
      BY <3>2, <3>4
  <2>4. CASE UNCHANGED <<authenticated, calls>>
    <3>1. api \in 1 .. api
      BY <1>0
    <3> QED
      BY <2>2, <2>3, <2>4, <3>1 DEF InTime, CallInTime, Answered
  <2>5. CASE authenticated' = FALSE /\ calls' = Disposed(calls)
    <3>1. CASE \A d \in calls : d.name # "login"
      <4>1. \A d \in calls' :
               /\ d.name # "login"
               /\ \E c \in calls : /\ d.name = c.name /\ d.cookie = c.cookie
                                   /\ d.answer = c.answer /\ (d.live => c.live)
        BY <2>5, <3>1, DisposedInTime
      <4> QED
        BY <2>2, <2>5, <4>1, KeepsTime
    <3>2. CASE \E d \in calls : d.name = "login"
      <4>1. PICK d \in calls : d.name = "login"
        BY <3>2
      <4>2. /\ ~d.live /\ ~Answered(d) /\ CallInTime(d) /\ d \in CallRecord
            /\ \A b \in calls \ {d} : Answered(b)
        BY <4>1, AnsweredLoad DEF InTime, CallInTime, SessionTypes
      <4>3. \A b \in calls' : b # d => Answered(b)
        <5>1. calls \in SUBSET CallRecord
          BY <1>0 DEF SessionTypes
        <5>2. \A b \in calls' : \E c \in calls :
                 b.name = c.name /\ b.answer = c.answer /\ (~c.live => b = c)
          BY <2>5, <5>1, DisposedCalls
        <5>3. ASSUME NEW b \in calls', b # d PROVE Answered(b)
          <6>1. PICK c \in calls : b.name = c.name /\ b.answer = c.answer /\ (~c.live => b = c)
            BY <5>2, <5>3
          <6>2. c # d
            BY <4>2, <5>3, <6>1
          <6> QED
            BY <4>2, <6>1, <6>2 DEF Answered
        <5> QED
          BY <5>3
      <4>4. CallInTime(d)'
        BY <2>2, <2>3, <2>5, <4>2, <4>3 DEF CallInTime, Answered
      <4>5. \A b \in calls' : b # d => CallInTime(b)'
        BY <4>3 DEF CallInTime, Answered
      <4> QED
        BY <2>5, <4>4, <4>5 DEF InTime
    <3> QED
      BY <3>1, <3>2
  <2> QED
    BY <2>1, <2>4, <2>5
<1> QED
  BY <1>1, <1>3, <1>4, <1>6, <1>7, <1>8, <1>9, Zenon DEF Next

\* Initially the only call is the one that asks for the session.
LEMMA InTimeInit ==
    ASSUME Init
    PROVE  InTime
<1>1. /\ Sent("session", 1, TRUE).name = "session" /\ Sent("session", 1, TRUE).cookie = issued
      /\ Sent("session", 1, TRUE).answer = "none"
  BY DEF Sent
<1>2. calls = {Sent("session", 1, TRUE)}
  BY DEF Init
<1>3. clients[api].csrf = 0
  BY DEF Init, NewClient, api
<1> QED
  BY <1>1, <1>2, <1>3 DEF InTime, CallInTime

\* When nothing else outlives its session, the calls are in time in every state.
LEMMA CallsInTime ==
    ASSUME ~LateAnswers
    PROVE  Spec => []InTime
BY InTimeInit, InTimeStep, SessionTyped, PTL DEF Spec

\* The token the client in use sends is the one of the session the console
\* works in, through sign-ins, expiries and changes of language, if nothing but
\* answers to loads of a session arrives after the next sign-in.
THEOREM TokensAreBound ==
    ASSUME ~LateAnswers
    PROVE  Spec => []TokenBound
<1>1. ConsoleTypeOK /\ InTime => TokenBound
  BY DEF TokenBound, InTime
<1> QED
  BY <1>1, ConsoleTypes, CallsInTime, PTL

\* Under the same condition the console leaves a session only when the server
\* has ended it or the operator signed out.
THEOREM SignInsAreKept ==
    ASSUME ~LateAnswers
    PROVE  Spec => SignInKept
<1>1. ASSUME SessionTypes, InTime, [Next]_vars, authenticated, ~authenticated'
      PROVE  ~valid \/ \E c \in calls : c.name = "logout" /\ c \notin calls'
  <2>1. ASSUME NEW c \in calls, Leave(c)
        PROVE  ~valid \/ \E b \in calls : b.name = "logout" /\ b \notin calls'
    <3>1. CallInTime(c)
      BY <1>1 DEF InTime
    <3>2. CASE c.name = "logout"
      <4>1. calls' = Disposed(calls \ {c}) /\ calls \ {c} \in SUBSET CallRecord
        BY <1>1, <2>1 DEF Leave, resetAuthentication, SessionTypes
      <4>2. \A d \in calls' : \E b \in calls \ {c} : d.name = b.name /\ (~b.live => d = b)
        BY <4>1, DisposedCalls
      <4>3. \A b \in calls : b.name = "logout" => ~b.live
        BY <1>1, AnsweredLoad DEF InTime, CallInTime
      <4>4. c \notin calls'
        BY <3>2, <4>2, <4>3
      <4> QED
        BY <3>2, <4>4
    <3>3. CASE c.name # "logout"
      <4>1. c.answer = "401"
        BY <2>1, <3>3 DEF Leave, Reported, Notifies
      <4>2. c.name # "login"
        BY <1>1, SignInAlone
      <4> QED
        BY <3>1, <4>1, <4>2, AnsweredLoad DEF CallInTime
    <3> QED
      BY <3>2, <3>3
  <2>2. ASSUME NEW c \in calls,
               Serve(c) \/ SessionArrives(c) \/ LoadArrives(c) \/ LoginArrives(c) \/ ActionArrives(c)
        PROVE  authenticated'
    <3>1. authenticated' = authenticated \/ authenticated' = TRUE
      BY <2>2, Zenon DEF Serve, SessionArrives, LoadArrives, LoginArrives, ActionArrives
    <3> QED
      BY <1>1, <3>1
  <2>3. CASE Expire \/ SignIn \/ logout \/ ChangeLanguage \/ refresh \/ setControlMode
             \/ \E result \in BOOLEAN : finishConfirmation(result)
    BY <1>1, <2>3 DEF Expire, SignIn, logout, ChangeLanguage, refresh, setControlMode, finishConfirmation
  <2>4. CASE Recorded \/ PollEvents \/ FeedServed \/ FeedLands \/ FeedFails \/ UNCHANGED vars
    BY <1>1, <2>4 DEF Recorded, PollEvents, FeedServed, FeedLands, FeedFails, sessionVars,
                      sessionOnly, vars
  <2>5. CASE FeedDenied
    BY <2>5 DEF FeedDenied
  <2> QED
    BY <1>1, <2>1, <2>2, <2>3, <2>4, <2>5, Zenon DEF Next, Arrives
<1> QED
  BY <1>1, SessionTyped, CallsInTime, PTL DEF Spec, SignInKept
=============================================================================
