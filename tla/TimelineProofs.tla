---------------------------- MODULE TimelineProofs ----------------------------
(***************************************************************************)
(* The timeline and its journal for any set of requests, with and without  *)
(* synced writes and an HMAC key, for every way a write can fall short and *)
(* any number of lines, restarts and retention periods: whatever is on the *)
(* disk replays to the records in memory, and a restart loses nothing that *)
(* was acknowledged.                                                       *)
(*                                                                         *)
(* The invariant is TimelineInv.  It says how far the file may be ahead of *)
(* the journal's memory at each step of a call (MemoryInv), which requests *)
(* a call may write about (CallInv), that a compaction under way protects  *)
(* or will find recent whatever is active (SnapInv), who works on what is  *)
(* active (WorkInv), and what the synced part of the file already holds of *)
(* what callers were told (ToldInv).                                       *)
(***************************************************************************)
EXTENDS Timeline, OrderingProofs

\* The process has opened its journal.
Up == phase \in {"orphaning", "starting", "running", "exiting"}

\* The journal's memory against its file: equal, or the file has the line of
\* the call under way, or that of a failed call with which the store degraded.
MemoryInv ==
    /\ active = Live(entries)
    /\ at = "idle" => \/ file = entries
                      \/ health = "degraded" /\ \E l \in Lines : file = Append(entries, l)
    /\ at \in {"written", "synced"} =>
          /\ health = "healthy" /\ pending # <<>>
          /\ file = Append(entries, pending[1]) /\ pending[1].seq = Len(entries) + 1
    /\ at = "renamed" => file = entries
    /\ health = "healthy" => /\ sequence = Len(entries)
                             /\ keyed /\ at # "renamed" => anchor = {Len(entries)}

\* The call under way: its line is of a request it may be about.
CallInv ==
    at \in {"written", "synced"} =>
        LET l == pending[1]
        IN  /\ phase \in {"orphaning", "running"}
            /\ phase = "running" => l.id \in mine
            /\ IF l.kind = "start" THEN phase = "running" /\ told[l.id] = "none" ELSE l.id \in active
            /\ l.kind = "orphaned" <=> phase = "orphaning"
            /\ at = "synced" /\ SyncWrites => durable = Len(file)

\* A compaction under way protects what is active, or will find a recent line.
SnapInv ==
    snap # <<>> =>
        /\ phase \in {"starting", "running"} /\ snap[1].cutoff <= clock
        /\ \A r \in active : r \in snap[1].ids \cup Recent(snap[1].cutoff)
        /\ at \in {"written", "synced"} => pending[1].time >= snap[1].cutoff

\* Who works on what is active.
WorkInv ==
    /\ phase = "starting" => active = {} /\ snap # <<>>
    /\ phase = "running" => \A r \in active : r \in mine /\ told[r] = "start"
    /\ Up => \A r \in Entities : told[r] \in {"none", "start"} =>
                \A i \in DOMAIN entries : entries[i].id = r => entries[i].kind \notin Final

\* The first d lines of ls, and all that begin with them, say what callers
\* were told: a start is there, and an ended request is neither open nor
\* orphaned.
Survives(ls, d) ==
    \A r \in Entities :
        /\ told[r] = "start" => \E i \in 1 .. d : ls[i].id = r /\ ls[i].kind = "start"
        /\ told[r] = "ended" => /\ \A i \in DOMAIN ls : ls[i].id = r => ls[i].kind # "orphaned"
                                /\ \A n \in d .. Len(ls) : ~OpenAfter(ls, n, r)

\* With synced writes, what a power failure leaves has what callers were told,
\* and so have the records.
ToldInv ==
    SyncWrites =>
        /\ Survives(file, durable)
        /\ Up => \A r \in Entities : /\ told[r] = "start" => r \in active
                                     /\ told[r] = "ended" => r \notin active

\* The file is a journal that can be opened but for a torn line, and steps are
\* only under way in a process that is up.
FileInv ==
    /\ Len(file) <= MaxLines /\ Chained(file) /\ Replayable(file)
    /\ ~Up => at = "idle" /\ snap = <<>>
    /\ at = "renamed" => snap # <<>>

TimelineInv ==
    /\ TypeOK /\ FileInv
    /\ Up => MemoryInv
    /\ CallInv /\ SnapInv /\ WorkInv /\ ToldInv

------------------------------------------------------------------------------
\* Lines.

\* Whether a request is open after some lines depends on these lines alone.
LEMMA OpenSame ==
    ASSUME NEW ls, NEW ms, NEW n \in Nat, NEW r,
           \A i \in 1 .. n : ls[i].id = ms[i].id /\ ls[i].kind = ms[i].kind
    PROVE  OpenAfter(ls, n, r) <=> OpenAfter(ms, n, r)
<1>1. \A j \in 1 .. n : \A k \in (j + 1) .. n : k \in 1 .. n
  OBVIOUS
<1> QED
  BY <1>1 DEF OpenAfter

\* One more line: a start opens its request, an ending closes it, and what is
\* about another request changes nothing.
LEMMA OpenNext ==
    ASSUME NEW ls, NEW n \in Nat, NEW r
    PROVE  OpenAfter(ls, n + 1, r) <=>
               IF ls[n + 1].id = r
               THEN ls[n + 1].kind = "start" \/ (ls[n + 1].kind \notin Final /\ OpenAfter(ls, n, r))
               ELSE OpenAfter(ls, n, r)
<1> DEFINE Opens(j, m) == /\ ls[j].id = r /\ ls[j].kind = "start"
                          /\ \A k \in (j + 1) .. m : ls[k].id = r => ls[k].kind \notin Final
<1>1. \A m \in Nat : OpenAfter(ls, m, r) <=> \E j \in 1 .. m : Opens(j, m)
  BY DEF OpenAfter
<1>2. Opens(n + 1, n + 1) <=> ls[n + 1].id = r /\ ls[n + 1].kind = "start"
  <2>1. (n + 1 + 1) .. (n + 1) = {}
    OBVIOUS
  <2> QED
    BY <2>1
<1>3. \A j \in 1 .. n : Opens(j, n + 1) <=>
          Opens(j, n) /\ (ls[n + 1].id = r => ls[n + 1].kind \notin Final)
  <2> TAKE j \in 1 .. n
  <2>1. (j + 1) .. (n + 1) = ((j + 1) .. n) \cup {n + 1}
    OBVIOUS
  <2> QED
    BY <2>1
<1>4. 1 .. (n + 1) = (1 .. n) \cup {n + 1}
  OBVIOUS
<1> HIDE DEF Opens
<1>5. OpenAfter(ls, n + 1, r) <=> (\E j \in 1 .. n : Opens(j, n + 1)) \/ Opens(n + 1, n + 1)
  BY <1>1, <1>4
<1> QED
  BY <1>1, <1>2, <1>3, <1>5

\* A line more, as append writes it.
LEMMA AppendedLines ==
    ASSUME NEW ls \in Seq(Lines), NEW l \in Lines
    PROVE  LET ms == Append(ls, l)
           IN  /\ ms \in Seq(Lines) /\ Len(ms) = Len(ls) + 1 /\ Len(ls) \in Nat
               /\ DOMAIN ms = 1 .. (Len(ls) + 1) /\ DOMAIN ls = 1 .. Len(ls)
               /\ ms[Len(ls) + 1] = l /\ \A i \in 1 .. Len(ls) : ms[i] = ls[i]
               /\ \A r : \A n \in 0 .. Len(ls) : OpenAfter(ms, n, r) <=> OpenAfter(ls, n, r)
               /\ \A r : OpenAfter(ms, Len(ls) + 1, r) <=>
                             IF l.id = r
                             THEN l.kind = "start" \/ (l.kind \notin Final /\ OpenAfter(ls, Len(ls), r))
                             ELSE OpenAfter(ls, Len(ls), r)
<1> DEFINE ms == Append(ls, l)
<1>1. /\ ms \in Seq(Lines) /\ Len(ms) = Len(ls) + 1 /\ Len(ls) \in Nat
      /\ DOMAIN ms = 1 .. (Len(ls) + 1) /\ DOMAIN ls = 1 .. Len(ls)
      /\ ms[Len(ls) + 1] = l /\ \A i \in 1 .. Len(ls) : ms[i] = ls[i]
  OBVIOUS
<1> HIDE DEF ms
<1>2. \A r : \A n \in 0 .. Len(ls) : OpenAfter(ms, n, r) <=> OpenAfter(ls, n, r)
  <2> TAKE r
  <2> TAKE n \in 0 .. Len(ls)
  <2>1. n \in Nat /\ \A i \in 1 .. n : i \in 1 .. Len(ls)
    BY <1>1
  <2>2. \A i \in 1 .. n : ms[i].id = ls[i].id /\ ms[i].kind = ls[i].kind
    BY <1>1, <2>1
  <2> QED
    BY <2>1, <2>2, OpenSame
<1>3. \A r : OpenAfter(ms, Len(ls) + 1, r) <=>
                 IF l.id = r
                 THEN l.kind = "start" \/ (l.kind \notin Final /\ OpenAfter(ls, Len(ls), r))
                 ELSE OpenAfter(ls, Len(ls), r)
  <2> TAKE r
  <2>1. OpenAfter(ms, Len(ls), r) <=> OpenAfter(ls, Len(ls), r)
    BY <1>1, <1>2
  <2> QED
    BY <1>1, <2>1, OpenNext
<1> QED
  BY <1>1, <1>2, <1>3 DEF ms

\* A line that may follow: replay accepts it, and the records it gives are
\* those of Succeed.
LEMMA AppendReplays ==
    ASSUME NEW ls \in Seq(Lines), NEW l \in Lines, Replayable(ls),
           l.kind = "start" \/ l.id \in Live(ls)
    PROVE  /\ Replayable(Append(ls, l))
           /\ l.kind = "start" => Live(Append(ls, l)) = Live(ls) \cup {l.id}
           /\ l.kind \in Final => Live(Append(ls, l)) = Live(ls) \ {l.id}
           /\ l.kind \notin Final \cup {"start"} => Live(Append(ls, l)) = Live(ls)
<1> DEFINE ms == Append(ls, l)
<1>1. /\ ms \in Seq(Lines) /\ Len(ms) = Len(ls) + 1 /\ Len(ls) \in Nat
      /\ DOMAIN ms = 1 .. (Len(ls) + 1) /\ DOMAIN ls = 1 .. Len(ls)
      /\ ms[Len(ls) + 1] = l /\ \A i \in 1 .. Len(ls) : ms[i] = ls[i]
      /\ \A r : \A n \in 0 .. Len(ls) : OpenAfter(ms, n, r) <=> OpenAfter(ls, n, r)
      /\ \A r : OpenAfter(ms, Len(ls) + 1, r) <=>
                    IF l.id = r
                    THEN l.kind = "start" \/ (l.kind \notin Final /\ OpenAfter(ls, Len(ls), r))
                    ELSE OpenAfter(ls, Len(ls), r)
  BY AppendedLines
<1> HIDE DEF ms
<1>2. l.id \in Entities
  BY DEF Lines
<1>3. Replayable(ms)
  <2> SUFFICES ASSUME NEW i \in 1 .. (Len(ls) + 1), ms[i].kind # "start"
               PROVE  OpenAfter(ms, i - 1, ms[i].id)
    BY <1>1 DEF Replayable
  <2>1. CASE i \in 1 .. Len(ls)
    <3>1. OpenAfter(ls, i - 1, ls[i].id) /\ ms[i] = ls[i]
      BY <1>1, <2>1 DEF Replayable
    <3>2. i - 1 \in 0 .. Len(ls)
      BY <1>1, <2>1
    <3> QED
      BY <1>1, <3>1, <3>2
  <2>2. CASE i = Len(ls) + 1
    <3>1. ms[i] = l /\ i - 1 = Len(ls) /\ i - 1 \in 0 .. Len(ls)
      BY <1>1, <2>2
    <3>2. OpenAfter(ls, Len(ls), l.id)
      BY <3>1 DEF Live
    <3> QED
      BY <1>1, <3>1, <3>2
  <2> QED
    BY <1>1, <2>1, <2>2
<1>4. \A r : r \in Live(ms) <=> r \in Entities /\ OpenAfter(ms, Len(ls) + 1, r)
  BY <1>1 DEF Live
<1>5. \A r : r \in Live(ls) <=> r \in Entities /\ OpenAfter(ls, Len(ls), r)
  BY DEF Live
<1>6. l.kind = "start" => Live(ms) = Live(ls) \cup {l.id}
  <2>1. ASSUME l.kind = "start", NEW r
        PROVE  r \in Live(ms) <=> r \in Live(ls) \/ r = l.id
    BY <1>1, <1>2, <1>4, <1>5, <2>1, Zenon
  <2> QED
    BY <2>1
<1>7. l.kind \in Final => Live(ms) = Live(ls) \ {l.id}
  <2>1. ASSUME l.kind \in Final, NEW r
        PROVE  r \in Live(ms) <=> r \in Live(ls) /\ r # l.id
    <3>1. l.kind # "start"
      BY <2>1 DEF Final
    <3> QED
      BY <1>1, <1>2, <1>4, <1>5, <2>1, <3>1, Zenon
  <2> QED
    BY <2>1
<1>8. l.kind \notin Final \cup {"start"} => Live(ms) = Live(ls)
  <2>1. ASSUME l.kind \notin Final \cup {"start"}, NEW r
        PROVE  r \in Live(ms) <=> r \in Live(ls)
    <3>1. l.kind \notin Final /\ l.kind # "start"
      BY <2>1
    <3> QED
      BY <1>1, <1>2, <1>4, <1>5, <3>1, Zenon
  <2> QED
    BY <2>1
<1> QED
  BY <1>3, <1>6, <1>7, <1>8 DEF ms

\* The first lines of a journal, as a crash leaves them.
LEMMA PrefixLines ==
    ASSUME NEW ls \in Seq(Lines), NEW n \in 0 .. Len(ls)
    PROVE  LET ms == SubSeq(ls, 1, n)
           IN  /\ ms \in Seq(Lines) /\ Len(ms) = n /\ DOMAIN ms = 1 .. n
               /\ \A i \in 1 .. n : ms[i] = ls[i]
               /\ \A r : \A m \in 0 .. n : OpenAfter(ms, m, r) <=> OpenAfter(ls, m, r)
               /\ Chained(ls) => Chained(ms)
               /\ Replayable(ls) => Replayable(ms)
<1> DEFINE ms == SubSeq(ls, 1, n)
<1>1. n \in Nat /\ Len(ls) \in Nat /\ DOMAIN ls = 1 .. Len(ls) /\ \A i \in 1 .. n : i \in 1 .. Len(ls)
  OBVIOUS
<1>2. ms \in Seq(Lines) /\ Len(ms) = n /\ \A i \in 1 .. n : ms[i] = ls[i]
  <2>1. ms = [i \in 1 .. n |-> ls[i]]
    BY <1>1 DEF SubSeq
  <2>2. \A i \in 1 .. n : ls[i] \in Lines
    BY <1>1
  <2> HIDE DEF ms
  <2> QED
    BY <1>1, <2>1, <2>2
<1>3. DOMAIN ms = 1 .. n
  BY <1>2
<1> HIDE DEF ms
<1>4. \A r : \A m \in 0 .. n : OpenAfter(ms, m, r) <=> OpenAfter(ls, m, r)
  <2> TAKE r
  <2> TAKE m \in 0 .. n
  <2>1. m \in Nat /\ \A i \in 1 .. m : i \in 1 .. n
    BY <1>1
  <2>2. \A i \in 1 .. m : ms[i].id = ls[i].id /\ ms[i].kind = ls[i].kind
    BY <1>2, <2>1
  <2> QED
    BY <2>1, <2>2, OpenSame
<1>5. Chained(ls) => Chained(ms)
  BY <1>1, <1>2, <1>3 DEF Chained
<1>6. Replayable(ls) => Replayable(ms)
  <2> SUFFICES ASSUME Replayable(ls), NEW i \in 1 .. n, ms[i].kind # "start"
               PROVE  OpenAfter(ms, i - 1, ms[i].id)
    BY <1>3 DEF Replayable
  <2>1. ms[i] = ls[i] /\ i \in DOMAIN ls /\ i - 1 \in 0 .. n
    BY <1>1, <1>2
  <2>2. OpenAfter(ls, i - 1, ls[i].id)
    BY <2>1 DEF Replayable
  <2> QED
    BY <1>4, <2>1, <2>2
<1> QED
  BY <1>2, <1>3, <1>4, <1>5, <1>6 DEF ms

\* What a compaction keeps: all lines of some requests, the open ones among
\* them, with new numbers.
Kept(ls, R) == RebuildChain(Subsequence(ls, {i \in DOMAIN ls : ls[i].id \in R}))

LEMMA KeptLines ==
    ASSUME NEW ls \in Seq(Lines), Len(ls) <= MaxLines, NEW R
    PROVE  \E place \in [1 .. Len(Kept(ls, R)) -> DOMAIN ls] :
              /\ Kept(ls, R) \in Seq(Lines) /\ Len(Kept(ls, R)) \in 0 .. Len(ls)
              /\ DOMAIN Kept(ls, R) = 1 .. Len(Kept(ls, R))
              /\ \A i \in 1 .. Len(Kept(ls, R)) :
                    /\ Kept(ls, R)[i] = [ls[place[i]] EXCEPT !.seq = i]
                    /\ ls[place[i]].id \in R
              /\ \A p \in DOMAIN ls : ls[p].id \in R => \E i \in 1 .. Len(Kept(ls, R)) : place[i] = p
              /\ \A i, j \in 1 .. Len(Kept(ls, R)) : i < j <=> place[i] < place[j]
<1> DEFINE P == {i \in DOMAIN ls : ls[i].id \in R}
           c == Cardinality(P)
           ms == Subsequence(ls, P)
           ks == Kept(ls, R)
<1>1. P \in SUBSET DOMAIN ls
  OBVIOUS
<1>2. PICK place \in [1 .. c -> P] :
          /\ c \in 0 .. Len(ls)
          /\ ms \in Seq(Lines) /\ Len(ms) = c
          /\ \A i \in 1 .. c : ms[i] = ls[place[i]]
          /\ \A p \in P : \E i \in 1 .. c : place[i] = p
          /\ \A i, j \in 1 .. c : i < j <=> place[i] < place[j]
  <2> HIDE DEF P
  <2>1. \E place \in [1 .. Cardinality(P) -> P] :
           /\ Cardinality(P) \in 0 .. Len(ls)
           /\ Subsequence(ls, P) \in Seq(Lines) /\ Len(Subsequence(ls, P)) = Cardinality(P)
           /\ \A i \in 1 .. Cardinality(P) : Subsequence(ls, P)[i] = ls[place[i]]
           /\ \A p \in P : \E i \in 1 .. Cardinality(P) : place[i] = p
           /\ \A i, j \in 1 .. Cardinality(P) : i < j <=> place[i] < place[j]
           /\ Cardinality(P) = Len(ls) => P = DOMAIN ls
    BY <1>1, SubsequenceOf
  <2> QED
    BY <2>1, Zenon
<1>3. ks = [i \in DOMAIN ms |-> [ms[i] EXCEPT !.seq = i]]
  BY DEF Kept, RebuildChain
<1>4. c \in Nat /\ DOMAIN ms = 1 .. c /\ c <= MaxLines /\ MaxLines \in Nat /\ Len(ls) \in Nat
  <2> HIDE DEF ms, c
  <2> QED
    BY <1>2, JournalAssumption
<1>5. \A i \in 1 .. c : place[i] \in DOMAIN ls /\ ls[place[i]].id \in R
  <2> HIDE DEF c
  <2> QED
    BY <1>2
<1> HIDE DEF P, c, ms, ks
<1>6. \A i \in 1 .. c : ks[i] = [ls[place[i]] EXCEPT !.seq = i]
  BY <1>2, <1>3, <1>4
<1>7. \A i \in 1 .. c : ks[i] \in Lines
  <2> TAKE i \in 1 .. c
  <2>1. ls[place[i]] \in Lines
    BY <1>5
  <2>2. i \in 1 .. (MaxLines + 1)
    BY <1>4
  <2> QED
    BY <1>6, <2>1, <2>2 DEF Lines
<1>8. ks \in Seq(Lines) /\ Len(ks) = c /\ DOMAIN ks = 1 .. c
  <2>1. ks = [i \in 1 .. c |-> ks[i]]
    BY <1>3, <1>4
  <2> QED
    BY <1>4, <1>7, <2>1, SMTT(60)
<1>9. \A p \in DOMAIN ls : ls[p].id \in R => \E i \in 1 .. c : place[i] = p
  BY <1>2 DEF P
<1>10. place \in [1 .. c -> DOMAIN ls]
  BY <1>2, <1>5
<1> QED
  BY <1>2, <1>5, <1>6, <1>8, <1>9, <1>10 DEF ks

\* A compaction that keeps the open requests whole keeps the journal one that
\* replays to the same records.
LEMMA KeptReplays ==
    ASSUME NEW ls \in Seq(Lines), Len(ls) <= MaxLines, NEW R, Live(ls) \subseteq R, Replayable(ls)
    PROVE  /\ Chained(Kept(ls, R)) /\ Replayable(Kept(ls, R)) /\ Live(Kept(ls, R)) = Live(ls)
           /\ \A i \in DOMAIN Kept(ls, R) :
                 \E p \in DOMAIN ls : Kept(ls, R)[i].id = ls[p].id /\ Kept(ls, R)[i].kind = ls[p].kind
           /\ \A p \in DOMAIN ls : ls[p].id \in R =>
                 \E i \in DOMAIN Kept(ls, R) : /\ Kept(ls, R)[i].id = ls[p].id
                                               /\ Kept(ls, R)[i].kind = ls[p].kind
                                               /\ Kept(ls, R)[i].time = ls[p].time
<1> DEFINE ks == Kept(ls, R)
           c  == Len(ks)
<1>1. PICK place \in [1 .. c -> DOMAIN ls] :
         /\ ks \in Seq(Lines) /\ c \in 0 .. Len(ls) /\ DOMAIN ks = 1 .. c
         /\ \A i \in 1 .. c : ks[i] = [ls[place[i]] EXCEPT !.seq = i] /\ ls[place[i]].id \in R
         /\ \A p \in DOMAIN ls : ls[p].id \in R => \E i \in 1 .. c : place[i] = p
         /\ \A i, j \in 1 .. c : i < j <=> place[i] < place[j]
  BY KeptLines
<1> HIDE DEF ks
<1>2. c \in Nat /\ Len(ls) \in Nat /\ DOMAIN ls = 1 .. Len(ls) /\ \A i \in 1 .. c : place[i] \in 1 .. Len(ls)
  BY <1>1
<1>3. \A i \in 1 .. c : /\ ks[i].id = ls[place[i]].id /\ ks[i].kind = ls[place[i]].kind
                        /\ ks[i].time = ls[place[i]].time /\ ks[i].seq = i
  <2> TAKE i \in 1 .. c
  <2>1. ls[place[i]] \in Lines /\ ks[i] = [ls[place[i]] EXCEPT !.seq = i]
    BY <1>1, <1>2
  <2> QED
    BY <2>1 DEF Lines
\* A request that is open up to a line of the journal is open up to the
\* corresponding line of what is kept.
<1>4. ASSUME NEW r \in R, NEW n \in 0 .. Len(ls), NEW m \in 0 .. c, OpenAfter(ls, n, r),
             \A i \in 1 .. c : i <= m <=> place[i] <= n
      PROVE  OpenAfter(ks, m, r)
  <2>1. PICK j \in 1 .. n : /\ ls[j].id = r /\ ls[j].kind = "start"
                            /\ \A k \in (j + 1) .. n : ls[k].id = r => ls[k].kind \notin Final
    BY <1>4 DEF OpenAfter
  <2>2. j \in DOMAIN ls
    BY <1>2
  <2>3. PICK i \in 1 .. c : place[i] = j
    BY <1>1, <2>1, <2>2
  <2>4. i \in 1 .. m /\ ks[i].id = r /\ ks[i].kind = "start"
    BY <1>2, <1>3, <1>4, <2>1, <2>3
  <2>5. ASSUME NEW k \in (i + 1) .. m, ks[k].id = r
        PROVE  ks[k].kind \notin Final
    <3>1. k \in 1 .. c /\ i < k /\ k <= m
      BY <1>2
    <3>2. place[i] < place[k] /\ place[k] <= n
      BY <1>1, <1>4, <3>1
    <3>3. place[k] \in (j + 1) .. n
      BY <1>2, <2>3, <3>1, <3>2
    <3> QED
      BY <1>3, <2>1, <2>5, <3>1, <3>3, SMTT(60)
  <2> QED
    BY <2>4, <2>5 DEF OpenAfter
\* And the other way round.
<1>5. ASSUME NEW r \in R, OpenAfter(ks, c, r)
      PROVE  OpenAfter(ls, Len(ls), r)
  <2>1. PICK i \in 1 .. c : /\ ks[i].id = r /\ ks[i].kind = "start"
                            /\ \A k \in (i + 1) .. c : ks[k].id = r => ks[k].kind \notin Final
    BY <1>5 DEF OpenAfter
  <2>2. place[i] \in 1 .. Len(ls) /\ ls[place[i]].id = r /\ ls[place[i]].kind = "start"
    BY <1>2, <1>3, <2>1
  <2>3. ASSUME NEW k \in (place[i] + 1) .. Len(ls), ls[k].id = r
        PROVE  ls[k].kind \notin Final
    <3>1. k \in DOMAIN ls /\ place[i] < k
      BY <1>2, <2>2
    <3>2. PICK h \in 1 .. c : place[h] = k
      BY <1>1, <2>3, <3>1
    <3>3. i < h
      BY <1>1, <3>1, <3>2
    <3>4. h \in (i + 1) .. c
      BY <1>2, <3>3
    <3> QED
      BY <1>3, <2>1, <2>3, <3>2, <3>4
  <2> QED
    BY <2>2, <2>3 DEF OpenAfter
<1>6. Chained(ks)
  BY <1>1, <1>3 DEF Chained
<1>7. Replayable(ks)
  <2> SUFFICES ASSUME NEW i \in 1 .. c, ks[i].kind # "start"
               PROVE  OpenAfter(ks, i - 1, ks[i].id)
    BY <1>1 DEF Replayable
  <2> DEFINE r == ls[place[i]].id
             n == place[i] - 1
  <2>1. place[i] \in DOMAIN ls /\ place[i] \in 1 .. Len(ls) /\ ls[place[i]].kind # "start" /\ ks[i].id = r /\ r \in R
    BY <1>1, <1>2, <1>3
  <2>2. OpenAfter(ls, n, r)
    BY <2>1 DEF Replayable
  <2>3. n \in 0 .. Len(ls) /\ i - 1 \in 0 .. c
    BY <1>2, <2>1
  <2>4. \A h \in 1 .. c : h <= i - 1 <=> place[h] <= n
    <3> TAKE h \in 1 .. c
    <3>1. h < i <=> place[h] < place[i]
      BY <1>1
    <3>2. h \in Int /\ i \in Int /\ place[h] \in Int /\ place[i] \in Int
      BY <1>2
    <3> QED
      BY <3>1, <3>2
  <2> HIDE DEF r, n
  <2>5. OpenAfter(ks, i - 1, r)
    BY <1>4, <2>1, <2>2, <2>3, <2>4
  <2> QED
    BY <2>1, <2>5
<1>8. Live(ks) = Live(ls)
  <2>1. ASSUME NEW r \in Live(ls)
        PROVE  r \in Live(ks)
    <3>1. r \in R /\ r \in Entities /\ OpenAfter(ls, Len(ls), r)
      BY <2>1 DEF Live
    <3>2. \A i \in 1 .. c : i <= c <=> place[i] <= Len(ls)
      BY <1>2
    <3>3. OpenAfter(ks, c, r)
      BY <1>2, <1>4, <3>1, <3>2
    <3> QED
      BY <3>1, <3>3 DEF Live
  <2>2. ASSUME NEW r \in Live(ks)
        PROVE  r \in Live(ls)
    <3>1. r \in Entities /\ OpenAfter(ks, c, r)
      BY <2>2 DEF Live
    <3>2. PICK i \in 1 .. c : ks[i].id = r
      BY <3>1 DEF OpenAfter
    <3>3. r \in R
      BY <1>1, <1>3, <3>2
    <3> QED
      BY <1>5, <3>1, <3>3 DEF Live
  <2> QED
    BY <2>1, <2>2
<1>9. \A i \in DOMAIN ks : \E p \in DOMAIN ls : ks[i].id = ls[p].id /\ ks[i].kind = ls[p].kind
  BY <1>1, <1>2, <1>3
<1>10. \A p \in DOMAIN ls : ls[p].id \in R =>
           \E i \in DOMAIN ks : ks[i].id = ls[p].id /\ ks[i].kind = ls[p].kind /\ ks[i].time = ls[p].time
  BY <1>1, <1>3, SMTT(60)
<1> QED
  BY <1>6, <1>7, <1>8, <1>9, <1>10 DEF ks

------------------------------------------------------------------------------
\* The journal's memory holds lines of the file, all or all but the last.
LEMMA BeforeAppend ==
    ASSUME NEW ls \in Seq(Lines), NEW l \in Lines
    PROVE  /\ Replayable(Append(ls, l)) => Replayable(ls)
           /\ Chained(Append(ls, l)) => Chained(ls)
<1> DEFINE ms == Append(ls, l)
<1>1. /\ Len(ls) \in Nat
      /\ DOMAIN ms = 1 .. (Len(ls) + 1) /\ DOMAIN ls = 1 .. Len(ls)
      /\ \A i \in 1 .. Len(ls) : ms[i] = ls[i]
      /\ \A r : \A n \in 0 .. Len(ls) : OpenAfter(ms, n, r) <=> OpenAfter(ls, n, r)
  BY AppendedLines
<1> HIDE DEF ms
<1>2. ASSUME Replayable(ms)
      PROVE  Replayable(ls)
  <2> SUFFICES ASSUME NEW i \in 1 .. Len(ls), ls[i].kind # "start"
               PROVE  OpenAfter(ls, i - 1, ls[i].id)
    BY <1>1 DEF Replayable
  <2>1. i \in DOMAIN ms /\ ms[i] = ls[i] /\ i - 1 \in 0 .. Len(ls)
    BY <1>1
  <2> QED
    BY <1>1, <1>2, <2>1 DEF Replayable
<1>3. Chained(ms) => Chained(ls)
  BY <1>1 DEF Chained
<1> QED
  BY <1>2, <1>3 DEF ms

LEMMA MemoryLines ==
    ASSUME TimelineInv, Up
    PROVE  /\ entries \in Seq(Lines) /\ file \in Seq(Lines)
           /\ Len(file) \in Nat /\ Len(entries) \in Nat /\ Len(entries) <= Len(file) /\ Len(file) <= MaxLines
           /\ DOMAIN entries = 1 .. Len(entries) /\ DOMAIN file = 1 .. Len(file)
           /\ Chained(entries) /\ Replayable(entries)
           /\ \A i \in 1 .. Len(entries) : file[i] = entries[i]
           /\ \/ file = entries
              \/ \E l \in Lines : file = Append(entries, l)
<1>1. /\ entries \in Seq(Lines) /\ file \in Seq(Lines)
      /\ DOMAIN entries = 1 .. Len(entries) /\ DOMAIN file = 1 .. Len(file)
      /\ Len(file) \in Nat /\ Len(entries) \in Nat
      /\ Len(file) <= MaxLines /\ Chained(file) /\ Replayable(file)
  BY DEF TimelineInv, FileInv, TypeOK, JournalTypeOK
<1>2. \/ file = entries
      \/ \E l \in Lines : file = Append(entries, l)
  <2>1. at \in {"idle", "written", "synced", "renamed"} /\ (pending # <<>> => pending[1] \in Lines)
    BY DEF TimelineInv, TypeOK, JournalTypeOK
  <2> QED
    BY <2>1 DEF TimelineInv, MemoryInv
<1>3. CASE file = entries
  BY <1>1, <1>3
<1>4. CASE \E l \in Lines : file = Append(entries, l)
  <2>1. PICK l \in Lines : file = Append(entries, l)
    BY <1>4
  <2>2. Chained(entries) /\ Replayable(entries)
    BY <1>1, <2>1, BeforeAppend
  <2>3. Len(entries) <= Len(file) /\ \A i \in 1 .. Len(entries) : file[i] = entries[i]
    BY <1>1, <2>1
  <2> QED
    BY <1>1, <2>1, <2>2, <2>3
<1> QED
  BY <1>2, <1>3, <1>4

\* The anchor holds one number, or there is none.
LEMMA AnchorTyped ==
    ASSUME TypeOK, NEW n \in 0 .. (MaxLines + 1)
    PROVE  \A a \in {anchor, {n}, Anchored(n)} : a \subseteq 0 .. (MaxLines + 1) /\ Cardinality(a) <= 1
<1>1. Cardinality({n}) = 1
  BY FS_Singleton
<1>2. anchor \subseteq 0 .. (MaxLines + 1) /\ Cardinality(anchor) <= 1
  BY DEF TypeOK, JournalTypeOK
<1> QED
  BY <1>1, <1>2 DEF Anchored

\* The next line, written when the journal's memory is the file.
LEMMA LineTyped ==
    ASSUME TimelineInv, at = "idle", health = "healthy", Up, Len(file) < MaxLines,
           NEW r \in Entities, NEW k \in Kinds
    PROVE  /\ Line(r, k) \in Lines /\ Line(r, k).seq = Len(entries) + 1
           /\ Line(r, k).id = r /\ Line(r, k).kind = k /\ Line(r, k).time = clock
           /\ file = entries /\ sequence = Len(entries)
<1>1. file = entries /\ sequence = Len(entries)
  BY DEF TimelineInv, MemoryInv
<1>2. clock \in 0 .. MaxClock /\ Len(file) \in Nat /\ MaxLines \in Nat
  BY JournalAssumption DEF TimelineInv, TypeOK, JournalTypeOK
<1>3. sequence + 1 \in 1 .. (MaxLines + 1)
  BY <1>1, <1>2
<1> QED
  BY <1>1, <1>2, <1>3 DEF Line, Lines

\* A call is of a request and a kind, in a process that is up.
LEMMA CallUp ==
    ASSUME NEW r, NEW k, Call(r, k)
    PROVE  Up /\ phase \in {"orphaning", "running"}
BY DEF Call, Interrupted, Up

------------------------------------------------------------------------------
\* The steps, one by one.

\* The process starts: what it finds is in memory, and an ending that nobody
\* was told of is taken note of.
LEMMA StartupKeeps ==
    ASSUME TimelineInv, Startup
    PROVE  TimelineInv'
<1>1. /\ ~Up /\ at = "idle" /\ snap = <<>> /\ pending \in {<<>>} \cup {<<l>> : l \in Lines}
      /\ file \in Seq(Lines) /\ Len(file) \in Nat /\ Len(file) <= MaxLines /\ MaxLines \in Nat
      /\ DOMAIN file = 1 .. Len(file) /\ durable \in 0 .. Len(file)
      /\ Chained(file) /\ Replayable(file) /\ UNCHANGED <<mine, snap, file, torn, durable, clock, keyed>>
  BY JournalAssumption DEF TimelineInv, FileInv, TypeOK, JournalTypeOK, Startup, Up, Open, jvars, disk, store
<1>2. CASE ~Accepts
  <2>1. /\ phase' = "refused" /\ lives' = lives + 1 /\ lives < MaxLives
        /\ UNCHANGED <<entries, sequence, health, anchor, at, pending, active, told>>
    BY <1>2 DEF Startup, jvars, disk, store
  <2>2. ~Up'
    BY <2>1 DEF Up
  <2>3. TypeOK'
    BY <1>1, <2>1, TimelineAssumption DEF TimelineInv, TypeOK, JournalTypeOK, Phases, Lines
  <2>4. FileInv'
    BY <1>1, <2>1, <2>2 DEF TimelineInv, FileInv, Chained, Replayable, OpenAfter
  <2>5. CallInv' /\ SnapInv' /\ WorkInv'
    BY <1>1, <2>1, <2>2 DEF CallInv, SnapInv, WorkInv
  <2>6. ToldInv'
    BY <1>1, <2>1, <2>2 DEF TimelineInv, ToldInv, Survives, OpenAfter
  <2> QED
    BY <2>2, <2>3, <2>4, <2>5, <2>6 DEF TimelineInv
<1>3. CASE Accepts
  <2>1. /\ entries' = file /\ sequence' = Len(file) /\ anchor' = Anchored(Len(file))
        /\ health' = "healthy" /\ at' = "idle" /\ pending' = <<>>
        /\ phase' = "orphaning" /\ lives' = lives + 1 /\ lives < MaxLives
        /\ active' = Live(file)
        /\ told' = [r \in Entities |-> IF told[r] \notin Final /\ Ended(file, r) THEN "found" ELSE told[r]]
    BY <1>1, <1>3 DEF Startup, Open
  <2>2. Up'
    BY <2>1 DEF Up
  <2>3. TypeOK'
    <3>1. Len(file) \in 0 .. (MaxLines + 1)
      BY <1>1
    <3>2. anchor' \subseteq 0 .. (MaxLines + 1) /\ Cardinality(anchor') <= 1
      BY <2>1, <3>1, AnchorTyped DEF TimelineInv
    <3>3. active' \subseteq Entities
      BY <2>1 DEF Live
    <3>4. told' \in [Entities -> EventKinds \cup {"none", "found"}]
      BY <2>1 DEF TimelineInv, TypeOK
    <3>5. lives' \in 0 .. MaxLives
      BY <2>1, TimelineAssumption DEF TimelineInv, TypeOK
    <3>6. JournalTypeOK'
      BY <1>1, <2>1, <3>1, <3>2 DEF TimelineInv, TypeOK, JournalTypeOK, Lines
    <3> QED
      BY <1>1, <2>1, <3>3, <3>4, <3>5, <3>6 DEF TimelineInv, TypeOK, Phases
  <2>4. FileInv'
    BY <1>1, <2>1, <2>2 DEF TimelineInv, FileInv, Chained, Replayable, OpenAfter
  <2>5. MemoryInv'
    BY <1>1, <2>1 DEF MemoryInv, Anchored, Live, OpenAfter
  <2>6. CallInv' /\ SnapInv'
    BY <1>1, <2>1 DEF CallInv, SnapInv
  <2>7. WorkInv'
    <3>1. ASSUME NEW r \in Entities, told'[r] \in {"none", "start"}
          PROVE  ~Ended(file, r)
      BY <2>1, <3>1 DEF Final
    <3>2. \A r \in Entities : told'[r] \in {"none", "start"} =>
              \A i \in DOMAIN entries' : entries'[i].id = r => entries'[i].kind \notin Final
      BY <2>1, <3>1 DEF Ended
    <3> QED
      BY <2>1, <3>2 DEF WorkInv
  <2>8. ToldInv'
    <3> SUFFICES ASSUME SyncWrites, NEW r \in Entities
                 PROVE  /\ told'[r] = "start" =>
                              /\ \E i \in 1 .. durable : file[i].id = r /\ file[i].kind = "start"
                              /\ r \in active'
                        /\ told'[r] = "ended" =>
                              /\ \A i \in DOMAIN file : file[i].id = r => file[i].kind # "orphaned"
                              /\ \A n \in durable .. Len(file) : ~OpenAfter(file, n, r)
                              /\ r \notin active'
      BY <1>1, <2>1, <2>2 DEF ToldInv, Survives, OpenAfter
    <3>1. ASSUME told'[r] = "start"
          PROVE  /\ \E i \in 1 .. durable : file[i].id = r /\ file[i].kind = "start"
                 /\ r \in active'
      <4>1. told[r] = "start" /\ ~Ended(file, r)
        BY <2>1, <3>1 DEF Final
      <4>2. PICK i \in 1 .. durable : file[i].id = r /\ file[i].kind = "start"
        BY <4>1 DEF TimelineInv, ToldInv, Survives
      <4>3. i \in 1 .. Len(file) /\ \A k \in (i + 1) .. Len(file) : k \in DOMAIN file
        BY <1>1
      <4>4. OpenAfter(file, Len(file), r)
        BY <4>1, <4>2, <4>3 DEF OpenAfter, Ended
      <4> QED
        BY <2>1, <4>2, <4>4 DEF Live
    <3>2. ASSUME told'[r] = "ended"
          PROVE  /\ \A i \in DOMAIN file : file[i].id = r => file[i].kind # "orphaned"
                 /\ \A n \in durable .. Len(file) : ~OpenAfter(file, n, r)
                 /\ r \notin active'
      <4>1. told[r] = "ended"
        BY <2>1, <3>2
      <4>2. Len(file) \in durable .. Len(file)
        BY <1>1
      <4> QED
        BY <2>1, <4>1, <4>2 DEF TimelineInv, ToldInv, Survives, Live
    <3> QED
      BY <3>1, <3>2
  <2> QED
    BY <2>2, <2>3, <2>4, <2>5, <2>6, <2>7, <2>8 DEF TimelineInv
<1> QED
  BY <1>2, <1>3

\* A start that is replayed is over, and the compaction of the start begins.
LEMMA RestoredKeeps ==
    ASSUME TimelineInv, Restored
    PROVE  TimelineInv'
<1>1. /\ phase = "orphaning" /\ active = {} /\ at = "idle" /\ phase' = "starting"
      /\ snap' = <<[ids |-> active, cutoff |-> clock]>>
      /\ UNCHANGED <<file, torn, durable, anchor, entries, sequence, health, at, pending, clock, keyed>>
      /\ UNCHANGED <<active, mine, told, lives>>
  BY DEF Restored, jvars, disk, store
<1>2. Up /\ Up'
  BY <1>1 DEF Up
<1>3. TypeOK'
  <2>1. [ids |-> active, cutoff |-> clock] \in [ids : SUBSET Entities, cutoff : 0 .. MaxClock]
    BY DEF TimelineInv, TypeOK, JournalTypeOK
  <2> QED
    BY <1>1, <2>1 DEF TimelineInv, TypeOK, JournalTypeOK, Phases, Lines
<1>4. FileInv'
  BY <1>1, <1>2 DEF TimelineInv, FileInv, Chained, Replayable, OpenAfter
<1>5. MemoryInv'
  BY <1>1, <1>2 DEF TimelineInv, MemoryInv, Live, OpenAfter, Lines
<1>6. CallInv' /\ WorkInv'
  BY <1>1, <1>2 DEF TimelineInv, CallInv, WorkInv
<1>7. SnapInv'
  <2>1. clock \in Nat /\ snap'[1].cutoff = clock
    BY <1>1, JournalAssumption DEF TimelineInv, TypeOK, JournalTypeOK
  <2> QED
    BY <1>1, <2>1 DEF SnapInv
<1>8. ToldInv'
  BY <1>1, <1>2 DEF TimelineInv, ToldInv, Survives, OpenAfter
<1> QED
  BY <1>2, <1>3, <1>4, <1>5, <1>6, <1>7, <1>8 DEF TimelineInv

\* The line of a call, written or not told of: replay accepts it, and nothing
\* that callers were told changes.
LEMMA WrittenLines ==
    ASSUME TimelineInv, at = "idle", health = "healthy", Len(file) < MaxLines,
           NEW r \in Entities, NEW k \in Kinds, Call(r, k)
    PROVE  /\ Append(file, Line(r, k)) \in Seq(Lines)
           /\ Len(Append(file, Line(r, k))) = Len(file) + 1
           /\ Chained(Append(file, Line(r, k))) /\ Replayable(Append(file, Line(r, k)))
           /\ SyncWrites => Survives(Append(file, Line(r, k)), durable)
<1> DEFINE l  == Line(r, k)
           ms == Append(file, l)
<1>1. /\ file \in Seq(Lines) /\ Len(file) \in Nat /\ durable \in 0 .. Len(file)
      /\ Chained(file) /\ Replayable(file)
  BY DEF TimelineInv, FileInv, TypeOK, JournalTypeOK
<1>2. Up /\ phase \in {"orphaning", "running"}
  BY CallUp
<1>3. l \in Lines /\ l.seq = Len(entries) + 1 /\ l.id = r /\ l.kind = k /\ file = entries
  BY <1>2, LineTyped
<1> HIDE DEF l
<1>4. active = Live(file)
  BY <1>2, <1>3 DEF TimelineInv, MemoryInv
<1>5. k = "start" \/ r \in active
  BY DEF Call, Interrupted
<1>6. Replayable(ms)
  BY <1>1, <1>3, <1>4, <1>5, AppendReplays
<1>7. /\ ms \in Seq(Lines) /\ Len(ms) = Len(file) + 1
      /\ DOMAIN ms = 1 .. (Len(file) + 1) /\ DOMAIN file = 1 .. Len(file)
      /\ ms[Len(file) + 1] = l /\ \A i \in 1 .. Len(file) : ms[i] = file[i]
      /\ \A q : \A n \in 0 .. Len(file) : OpenAfter(ms, n, q) <=> OpenAfter(file, n, q)
      /\ \A q : OpenAfter(ms, Len(file) + 1, q) <=>
                    IF l.id = q
                    THEN l.kind = "start" \/ (l.kind \notin Final /\ OpenAfter(file, Len(file), q))
                    ELSE OpenAfter(file, Len(file), q)
  BY <1>1, <1>3, AppendedLines
<1> HIDE DEF ms
<1>8. Chained(ms)
  <2> SUFFICES ASSUME NEW i \in 1 .. (Len(file) + 1)
               PROVE  ms[i].seq = i
    BY <1>7 DEF Chained
  <2>1. CASE i \in 1 .. Len(file)
    BY <1>1, <1>7, <2>1 DEF Chained
  <2>2. CASE i = Len(file) + 1
    BY <1>3, <1>7, <2>2
  <2> QED
    BY <1>1, <2>1, <2>2
<1>9. ASSUME SyncWrites
      PROVE  Survives(ms, durable)
  <2> SUFFICES ASSUME NEW q \in Entities
               PROVE  /\ told[q] = "start" => \E i \in 1 .. durable : ms[i].id = q /\ ms[i].kind = "start"
                      /\ told[q] = "ended" =>
                            /\ \A i \in DOMAIN ms : ms[i].id = q => ms[i].kind # "orphaned"
                            /\ \A n \in durable .. Len(ms) : ~OpenAfter(ms, n, q)
    BY DEF Survives
  <2>1. Survives(file, durable) /\ (told[q] = "ended" => q \notin active)
    BY <1>2, <1>9 DEF TimelineInv, ToldInv
  <2>2. ASSUME told[q] = "start"
        PROVE  \E i \in 1 .. durable : ms[i].id = q /\ ms[i].kind = "start"
    <3>1. PICK i \in 1 .. durable : file[i].id = q /\ file[i].kind = "start"
      BY <2>1, <2>2 DEF Survives
    <3>2. i \in 1 .. Len(file)
      BY <1>1
    <3> QED
      BY <1>7, <3>1, <3>2
  <2>3. ASSUME told[q] = "ended"
        PROVE  /\ \A i \in DOMAIN ms : ms[i].id = q => ms[i].kind # "orphaned"
               /\ \A n \in durable .. Len(ms) : ~OpenAfter(ms, n, q)
    <3>1. q # r
      <4>1. r \in active => q # r
        BY <2>1, <2>3
      <4>2. k = "start" => told[r] = "none"
        BY DEF Call
      <4> QED
        BY <1>5, <2>3, <4>1, <4>2
    <3>2. /\ \A i \in DOMAIN file : file[i].id = q => file[i].kind # "orphaned"
          /\ \A n \in durable .. Len(file) : ~OpenAfter(file, n, q)
      BY <2>1, <2>3 DEF Survives
    <3>3. \A i \in DOMAIN ms : ms[i].id = q => ms[i].kind # "orphaned"
      <4> TAKE i \in DOMAIN ms
      <4>1. i \in DOMAIN file \/ i = Len(file) + 1
        BY <1>1, <1>7
      <4> QED
        BY <1>3, <1>7, <3>1, <3>2, <4>1
    <3>4. ~OpenAfter(ms, Len(file) + 1, q)
      <4>1. Len(file) \in durable .. Len(file)
        BY <1>1
      <4>2. l.id # q
        BY <1>3, <3>1
      <4> QED
        BY <1>7, <3>2, <4>1, <4>2
    <3>5. \A n \in durable .. Len(ms) : ~OpenAfter(ms, n, q)
      <4> TAKE n \in durable .. Len(ms)
      <4>1. CASE n = Len(file) + 1
        BY <3>4, <4>1
      <4>2. CASE n # Len(file) + 1
        <5>1. n \in durable .. Len(file) /\ n \in 0 .. Len(file)
          BY <1>1, <1>7, <4>2
        <5> QED
          BY <1>7, <3>2, <5>1
      <4> QED
        BY <4>1, <4>2
    <3> QED
      BY <3>3, <3>5
  <2> QED
    BY <2>2, <2>3
<1> QED
  BY <1>6, <1>7, <1>8, <1>9 DEF l, ms

\* A call writes its line.
LEMMA BeginKeeps ==
    ASSUME TimelineInv, NEW r \in Entities, NEW k \in Kinds, Begin(r, k)
    PROVE  TimelineInv'
<1> DEFINE l == Line(r, k)
<1>1. /\ Call(r, k) /\ at = "idle" /\ health = "healthy" /\ Len(file) < MaxLines
      /\ file' = Append(file, l) /\ torn' \in {torn, "partial"} /\ pending' = <<l>> /\ at' = "written"
      /\ mine' = IF k = "start" THEN mine \cup {r} ELSE mine
      /\ UNCHANGED <<durable, anchor, entries, sequence, health, clock, keyed>>
      /\ UNCHANGED <<phase, active, told, snap, lives>>
  BY DEF Begin, Write
<1>2. Up /\ Up' /\ phase \in {"orphaning", "running"}
  BY <1>1, CallUp DEF Up
<1>3. /\ l \in Lines /\ l.seq = Len(entries) + 1 /\ l.id = r /\ l.kind = k /\ l.time = clock
      /\ file = entries /\ sequence = Len(entries)
  BY <1>1, <1>2, LineTyped
<1>4. /\ file' \in Seq(Lines) /\ Len(file') = Len(file) + 1
      /\ Chained(file') /\ Replayable(file') /\ (SyncWrites => Survives(file', durable))
  BY <1>1, WrittenLines
<1>5. Len(file) \in Nat /\ MaxLines \in Nat /\ Len(file') <= MaxLines /\ durable \in 0 .. Len(file')
  BY <1>1, <1>4, JournalAssumption DEF TimelineInv, TypeOK, JournalTypeOK
<1> HIDE DEF l
<1>6. TypeOK'
  <2>1. torn' \in Torn \cup {"no"}
    BY <1>1 DEF TimelineInv, TypeOK, JournalTypeOK, Torn
  <2>2. JournalTypeOK'
    BY <1>1, <1>3, <1>4, <1>5, <2>1 DEF TimelineInv, TypeOK, JournalTypeOK, Lines
  <2> QED
    BY <1>1, <2>2 DEF TimelineInv, TypeOK
<1>7. FileInv'
  BY <1>1, <1>2, <1>4, <1>5 DEF FileInv, Chained, Replayable, OpenAfter
<1>8. MemoryInv'
  <2>1. /\ health' = "healthy" /\ pending' # <<>> /\ pending'[1] = l
        /\ file' = Append(entries', pending'[1]) /\ pending'[1].seq = Len(entries') + 1
    BY <1>1, <1>3
  <2>2. active' = Live(entries')
    BY <1>1, <1>2 DEF TimelineInv, MemoryInv, Live, OpenAfter
  <2>3. sequence' = Len(entries') /\ (keyed' => anchor' = {Len(entries')})
    BY <1>1, <1>2, <1>3 DEF TimelineInv, MemoryInv
  <2> QED
    BY <1>1, <2>1, <2>2, <2>3 DEF MemoryInv, Live, OpenAfter
<1>9. CallInv'
  <2>1. pending'[1] = l
    BY <1>1
  <2> QED
    BY <1>1, <1>2, <1>3, <2>1 DEF CallInv, Call, Interrupted
<1>10. SnapInv'
  <2>1. pending'[1] = l
    BY <1>1
  <2> QED
    BY <1>1, <1>2, <1>3, <2>1 DEF TimelineInv, SnapInv, Recent
<1>11. WorkInv'
  BY <1>1, <1>2 DEF TimelineInv, WorkInv
<1>12. ToldInv'
  BY <1>1, <1>2, <1>4 DEF TimelineInv, ToldInv, Survives, OpenAfter
<1> QED
  BY <1>2, <1>6, <1>7, <1>8, <1>9, <1>10, <1>11, <1>12 DEF TimelineInv

\* The line is synced, or need not be.
LEMMA SyncKeeps ==
    ASSUME TimelineInv, Sync, UNCHANGED tvars
    PROVE  TimelineInv'
<1>1. /\ at = "written" /\ at' = "synced" /\ durable' = IF SyncWrites THEN Len(file) ELSE durable
      /\ UNCHANGED <<file, torn, anchor, entries, sequence, health, pending, clock, keyed>>
      /\ UNCHANGED <<phase, active, mine, told, snap, lives>>
  BY DEF Sync, tvars
<1>2. /\ file \in Seq(Lines) /\ Len(file) \in Nat /\ durable \in 0 .. Len(file) /\ durable' \in durable .. Len(file)
      /\ SyncWrites => durable' = Len(file)
  BY <1>1 DEF TimelineInv, TypeOK, JournalTypeOK
<1>3. Up /\ Up'
  BY <1>1 DEF TimelineInv, FileInv, Up
<1>4. TypeOK'
  BY <1>1, <1>2 DEF TimelineInv, TypeOK, JournalTypeOK, Lines
<1>5. FileInv'
  BY <1>1, <1>3 DEF TimelineInv, FileInv, Chained, Replayable, OpenAfter
<1>6. MemoryInv'
  BY <1>1, <1>3 DEF TimelineInv, MemoryInv, Live, OpenAfter, Lines
<1>7. CallInv' /\ SnapInv' /\ WorkInv'
  BY <1>1, <1>2, <1>3 DEF TimelineInv, CallInv, SnapInv, WorkInv, Recent
<1>8. ToldInv'
  <2> SUFFICES ASSUME SyncWrites
               PROVE  Survives(file, durable')
    BY <1>1, <1>3 DEF TimelineInv, ToldInv, Survives, OpenAfter
  <2>1. Survives(file, durable)
    BY DEF TimelineInv, ToldInv
  <2>2. 1 .. durable \subseteq 1 .. durable' /\ durable' .. Len(file) \subseteq durable .. Len(file)
    BY <1>2
  <2> QED
    BY <2>1, <2>2 DEF Survives
<1> QED
  BY <1>3, <1>4, <1>5, <1>6, <1>7, <1>8 DEF TimelineInv

\* The call succeeds: the record changes as replay will change it.
LEMMA SucceedKeeps ==
    ASSUME TimelineInv, Succeed
    PROVE  TimelineInv'
<1> DEFINE l == pending[1]
<1>1. /\ at = "synced" /\ sequence' = l.seq /\ anchor' = Anchored(l.seq)
      /\ entries' = Append(entries, l) /\ at' = "idle" /\ pending' = <<>>
      /\ active' = CASE l.kind = "start" -> active \cup {l.id}
                     [] l.kind \in Final -> active \ {l.id}
                     [] OTHER            -> active
      /\ told' = IF l.kind = "event" THEN told ELSE [told EXCEPT ![l.id] = l.kind]
      /\ UNCHANGED <<file, torn, durable, health, clock, keyed>>
      /\ UNCHANGED <<phase, mine, snap, lives>>
  BY DEF Succeed, Commit
<1>2. Up /\ Up'
  BY <1>1 DEF TimelineInv, FileInv, Up
<1>3. /\ pending # <<>> /\ l \in Lines /\ file = Append(entries, l) /\ l.seq = Len(entries) + 1
      /\ health = "healthy" /\ active = Live(entries)
  BY <1>1, <1>2 DEF TimelineInv, MemoryInv, TypeOK, JournalTypeOK
<1>4. /\ phase \in {"orphaning", "running"}
      /\ phase = "running" => l.id \in mine
      /\ IF l.kind = "start" THEN phase = "running" /\ told[l.id] = "none" ELSE l.id \in active
      /\ l.kind = "orphaned" <=> phase = "orphaning"
      /\ SyncWrites => durable = Len(file)
  BY <1>1 DEF TimelineInv, CallInv
<1> HIDE DEF l
<1>5. l.id \in Entities /\ l.kind \in {"start", "event", "ended", "orphaned"} /\ l.time \in 0 .. MaxClock
  BY <1>3, TimelineAssumption DEF Lines, EventKinds
<1>6. /\ entries \in Seq(Lines) /\ Len(entries) \in Nat /\ DOMAIN entries = 1 .. Len(entries)
      /\ Replayable(entries) /\ Len(file) <= MaxLines /\ MaxLines \in Nat
  BY <1>2, MemoryLines, JournalAssumption
<1>7. /\ file \in Seq(Lines) /\ Len(file) = Len(entries) + 1
      /\ DOMAIN file = 1 .. (Len(entries) + 1)
      /\ file[Len(entries) + 1] = l /\ \A i \in 1 .. Len(entries) : file[i] = entries[i]
      /\ \A q : OpenAfter(file, Len(entries) + 1, q) <=>
                    IF l.id = q
                    THEN l.kind = "start" \/ (l.kind \notin Final /\ OpenAfter(entries, Len(entries), q))
                    ELSE OpenAfter(entries, Len(entries), q)
  BY <1>3, <1>6, AppendedLines
<1>8. /\ l.kind = "start" => Live(file) = active \cup {l.id}
      /\ l.kind \in Final => Live(file) = active \ {l.id}
      /\ l.kind \notin Final \cup {"start"} => Live(file) = active
  BY <1>3, <1>4, <1>6, AppendReplays
<1>9. entries' = file /\ active' = Live(file)
  <2>1. l.kind = "start" => l.kind \notin Final
    BY DEF Final
  <2>2. CASE l.kind = "start"
    BY <1>1, <1>3, <1>8, <2>2
  <2>3. CASE l.kind \in Final
    BY <1>1, <1>3, <1>8, <2>1, <2>3
  <2>4. CASE l.kind \notin Final \cup {"start"}
    BY <1>1, <1>3, <1>8, <2>4
  <2> QED
    BY <2>2, <2>3, <2>4
<1>10. l.seq \in 0 .. (MaxLines + 1)
  BY <1>3, <1>6, <1>7
<1>11. TypeOK'
  <2>1. anchor' \subseteq 0 .. (MaxLines + 1) /\ Cardinality(anchor') <= 1
    BY <1>1, <1>10, AnchorTyped DEF TimelineInv
  <2>2. JournalTypeOK'
    BY <1>1, <1>7, <1>9, <1>10, <2>1 DEF TimelineInv, TypeOK, JournalTypeOK, Lines
  <2>3. active' \subseteq Entities
    BY <1>9 DEF Live
  <2>4. told' \in [Entities -> EventKinds \cup {"none", "found"}]
    BY <1>1, <1>5 DEF TimelineInv, TypeOK, EventKinds
  <2> QED
    BY <1>1, <2>2, <2>3, <2>4 DEF TimelineInv, TypeOK
<1>12. FileInv'
  BY <1>1, <1>2 DEF TimelineInv, FileInv, Chained, Replayable, OpenAfter
<1>13. MemoryInv'
  BY <1>1, <1>3, <1>7, <1>9, SMTT(60) DEF MemoryInv, Anchored, Live, OpenAfter
<1>14. CallInv'
  BY <1>1 DEF CallInv
<1>15. SnapInv'
  <2> SUFFICES ASSUME snap # <<>>
               PROVE  /\ phase \in {"starting", "running"} /\ snap[1].cutoff <= clock
                      /\ \A r \in active' : r \in snap[1].ids \/ r \in Recent(snap[1].cutoff)'
    BY <1>1 DEF SnapInv, Recent
  <2>1. /\ phase \in {"starting", "running"} /\ snap[1].cutoff <= clock
        /\ \A r \in active : r \in snap[1].ids \cup Recent(snap[1].cutoff)
        /\ l.time >= snap[1].cutoff
    BY <1>1 DEF TimelineInv, SnapInv, l
  <2>2. Recent(snap[1].cutoff) \subseteq Recent(snap[1].cutoff)'
    <3> SUFFICES ASSUME NEW i \in DOMAIN entries, entries[i].time >= snap[1].cutoff
                 PROVE  entries[i].id \in Recent(snap[1].cutoff)'
      BY DEF Recent
    <3>1. i \in DOMAIN entries' /\ entries'[i] = entries[i]
      BY <1>6, <1>7, <1>9
    <3> QED
      BY <1>1, <3>1 DEF Recent
  <2>3. l.id \in Recent(snap[1].cutoff)'
    <3>1. Len(entries) + 1 \in DOMAIN entries' /\ entries'[Len(entries) + 1] = l
      BY <1>6, <1>7, <1>9
    <3> QED
      BY <1>1, <2>1, <3>1 DEF Recent
  <2>4. active' \subseteq active \cup {l.id}
    BY <1>1, <1>5 DEF Final
  <2> QED
    BY <2>1, <2>2, <2>3, <2>4
<1>16. \A r \in Entities : told'[r] = IF r = l.id /\ l.kind # "event" THEN l.kind ELSE told[r]
  BY <1>1, <1>5 DEF TimelineInv, TypeOK
<1>17. WorkInv'
  <2>1. ASSUME phase = "running", NEW r \in active'
        PROVE  r \in mine /\ told'[r] = "start"
    <3>1. \A q \in active : q \in mine /\ told[q] = "start"
      BY <2>1 DEF TimelineInv, WorkInv
    <3>2. r \in Entities
      BY <1>9, <2>1 DEF Live
    <3>3. CASE l.kind = "start"
      BY <1>1, <1>4, <1>5, <1>16, <2>1, <3>1, <3>2, <3>3
    <3>4. CASE l.kind \in Final
      BY <1>1, <1>5, <1>16, <2>1, <3>1, <3>2, <3>4 DEF Final
    <3>5. CASE l.kind = "event"
      BY <1>1, <1>16, <2>1, <3>1, <3>2, <3>5 DEF Final
    <3> QED
      BY <1>5, <3>3, <3>4, <3>5 DEF Final
  <2>2. ASSUME NEW r \in Entities, told'[r] \in {"none", "start"}, NEW i \in DOMAIN entries', entries'[i].id = r
        PROVE  entries'[i].kind \notin Final
    <3>1. r = l.id => l.kind \in {"start", "event"}
      BY <1>5, <1>16, <2>2
    <3>2. told[r] \in {"none", "start"}
      BY <1>4, <1>5, <1>16, <2>2
    <3>3. i \in DOMAIN entries \/ i = Len(entries) + 1
      BY <1>6, <1>7, <1>9
    <3>4. CASE i \in DOMAIN entries
      <4>1. entries[i].id = r /\ entries'[i] = entries[i]
        BY <1>6, <1>7, <1>9, <2>2, <3>4
      <4> QED
        BY <1>2, <3>2, <3>4, <4>1 DEF TimelineInv, WorkInv
    <3>5. CASE i = Len(entries) + 1
      BY <1>7, <1>9, <2>2, <3>1, <3>5 DEF Final
    <3> QED
      BY <3>3, <3>4, <3>5
  <2> QED
    BY <1>1, <1>4, <2>1, <2>2 DEF WorkInv
<1>18. ToldInv'
  <2> SUFFICES ASSUME SyncWrites, NEW r \in Entities
               PROVE  /\ told'[r] = "start" => /\ \E i \in 1 .. durable : file[i].id = r /\ file[i].kind = "start"
                                               /\ r \in active'
                      /\ told'[r] = "ended" =>
                            /\ \A i \in DOMAIN file : file[i].id = r => file[i].kind # "orphaned"
                            /\ \A n \in durable .. Len(file) : ~OpenAfter(file, n, r)
                            /\ r \notin active'
    BY <1>1, <1>2 DEF ToldInv, Survives, OpenAfter
  <2>1. durable = Len(file) /\ Survives(file, durable)
    BY <1>4 DEF TimelineInv, ToldInv
  <2>2. (told[r] = "start" => r \in active) /\ (told[r] = "ended" => r \notin active)
    BY <1>2 DEF TimelineInv, ToldInv
  <2>3. ASSUME told'[r] = "start"
        PROVE  /\ \E i \in 1 .. durable : file[i].id = r /\ file[i].kind = "start"
               /\ r \in active'
    <3>1. CASE r = l.id /\ l.kind = "start"
      <4>1. Len(entries) + 1 \in 1 .. durable
        BY <1>6, <1>7, <2>1
      <4>2. file[Len(entries) + 1].id = r /\ file[Len(entries) + 1].kind = "start"
        BY <1>7, <3>1
      <4>3. r \in active'
        BY <1>8, <1>9, <3>1
      <4> QED
        BY <4>1, <4>2, <4>3
    <3>2. CASE ~(r = l.id /\ l.kind = "start")
      <4>1. told[r] = "start" /\ (r = l.id => l.kind = "event")
        BY <1>5, <1>16, <2>3, <3>2
      <4>2. r \in active'
        BY <1>1, <1>5, <2>2, <4>1 DEF Final
      <4> QED
        BY <2>1, <4>1, <4>2 DEF Survives
    <3> QED
      BY <3>1, <3>2
  <2>4. ASSUME told'[r] = "ended"
        PROVE  /\ \A i \in DOMAIN file : file[i].id = r => file[i].kind # "orphaned"
               /\ \A n \in durable .. Len(file) : ~OpenAfter(file, n, r)
               /\ r \notin active'
    <3>1. CASE r = l.id /\ l.kind = "ended"
      <4>1. phase = "running" /\ l.id \in active
        BY <1>4, <3>1
      <4>2. told[r] = "start"
        BY <3>1, <4>1 DEF TimelineInv, WorkInv
      <4>3. \A i \in DOMAIN entries : entries[i].id = r => entries[i].kind \notin Final
        BY <1>2, <4>2 DEF TimelineInv, WorkInv
      <4>4. \A i \in DOMAIN file : file[i].id = r => file[i].kind # "orphaned"
        <5> TAKE i \in DOMAIN file
        <5>1. i \in 1 .. Len(entries) \/ i = Len(entries) + 1
          BY <1>6, <1>7
        <5> QED
          BY <1>6, <1>7, <3>1, <4>3, <5>1 DEF Final
      <4>5. ~OpenAfter(file, Len(file), r)
        BY <1>7, <3>1 DEF Final
      <4>6. \A n \in durable .. Len(file) : n = Len(file)
        BY <1>6, <1>7, <2>1
      <4>7. r \notin active'
        BY <1>1, <3>1 DEF Final
      <4> QED
        BY <4>4, <4>5, <4>6, <4>7
    <3>2. CASE ~(r = l.id /\ l.kind = "ended")
      <4>1. told[r] = "ended" /\ (r = l.id => l.kind = "event")
        BY <1>5, <1>16, <2>4, <3>2
      <4>2. r \notin active'
        BY <1>1, <1>5, <2>2, <4>1 DEF Final
      <4> QED
        BY <2>1, <4>1, <4>2 DEF Survives
    <3> QED
      BY <3>1, <3>2
  <2> QED
    BY <2>3, <2>4
<1> QED
  BY <1>2, <1>11, <1>12, <1>13, <1>14, <1>15, <1>17, <1>18 DEF TimelineInv

\* A call fails: whatever it left in the file, the store degrades, and nobody
\* was told of the line.
LEMMA FailKeeps ==
    ASSUME TimelineInv, Fail
    PROVE  TimelineInv'
<1>1. /\ SyncFails \/ CommitFails \/ \E r \in Entities, k \in Kinds : Call(r, k) /\ WriteFails(r, k)
      /\ phase' = IF phase = "running" THEN phase ELSE "exiting"
      /\ UNCHANGED <<active, mine, told, snap, lives>>
  BY DEF Fail
<1> DEFINE Failed ==
      /\ file' \in Seq(Lines) /\ Len(file') <= MaxLines /\ Chained(file') /\ Replayable(file')
      /\ torn' \in Torn \cup {"no"} /\ durable \in 0 .. Len(file')
      /\ file' = entries \/ \E l \in Lines : file' = Append(entries, l)
      /\ anchor' \subseteq 0 .. (MaxLines + 1) /\ Cardinality(anchor') <= 1
      /\ sequence' \in 0 .. (MaxLines + 1) /\ pending' \in {<<>>, pending}
      /\ health' = "degraded" /\ at' = "idle" /\ Up /\ phase \in {"orphaning", "running"}
      /\ SyncWrites => Survives(file', durable)
      /\ UNCHANGED <<durable, entries, clock, keyed>>
<1>2. Failed
  <2>0. /\ file \in Seq(Lines) /\ Len(file) <= MaxLines /\ Chained(file) /\ Replayable(file)
        /\ torn \in Torn \cup {"no"} /\ durable \in 0 .. Len(file) /\ Len(file) \in Nat /\ MaxLines \in Nat
        /\ anchor \subseteq 0 .. (MaxLines + 1) /\ Cardinality(anchor) <= 1
        /\ sequence \in 0 .. (MaxLines + 1)
        /\ SyncWrites => Survives(file, durable)
    BY JournalAssumption DEF TimelineInv, FileInv, ToldInv, TypeOK, JournalTypeOK
  <2>1. CASE SyncFails
    <3>1. at = "written" /\ UNCHANGED <<file, torn, durable, anchor, entries, sequence, clock, keyed>>
          /\ health' = "degraded" /\ at' = "idle" /\ pending' = <<>>
      BY <2>1 DEF SyncFails, Degrade, disk
    <3>2. Up /\ phase \in {"orphaning", "running"} /\ pending # <<>>
      BY <3>1 DEF TimelineInv, FileInv, CallInv, MemoryInv, Up
    <3>3. \E l \in Lines : file = Append(entries, l)
      BY <3>1, <3>2 DEF TimelineInv, MemoryInv, TypeOK, JournalTypeOK
    <3> QED
      BY <2>0, <3>1, <3>2, <3>3
  <2>2. CASE CommitFails
    <3>1. /\ at = "synced" /\ sequence' = pending[1].seq /\ anchor' \in {anchor, {pending[1].seq}}
          /\ health' = "degraded" /\ at' = "idle" /\ pending' = <<>>
          /\ UNCHANGED <<file, torn, durable, entries, clock, keyed>>
      BY <2>2 DEF CommitFails, Degrade
    <3>2. Up /\ phase \in {"orphaning", "running"} /\ pending # <<>>
      BY <3>1 DEF TimelineInv, FileInv, CallInv, MemoryInv, Up
    <3>3. pending[1] \in Lines /\ file = Append(entries, pending[1])
      BY <3>1, <3>2 DEF TimelineInv, MemoryInv, TypeOK, JournalTypeOK
    <3>4. pending[1].seq \in 0 .. (MaxLines + 1)
      BY <2>0, <3>3 DEF Lines
    <3>5. anchor' \subseteq 0 .. (MaxLines + 1) /\ Cardinality(anchor') <= 1
      BY <3>1, <3>4, AnchorTyped DEF TimelineInv
    <3> QED
      BY <2>0, <3>1, <3>2, <3>3, <3>4, <3>5
  <2>3. ASSUME NEW r \in Entities, NEW k \in Kinds, Call(r, k), WriteFails(r, k)
        PROVE  Failed
    <3> DEFINE l == Line(r, k)
    <3>1. /\ at = "idle" /\ health = "healthy" /\ Len(file) < MaxLines
          /\ \/ file' = file /\ torn' = torn
             \/ file' = file /\ torn' = "partial"
             \/ file' = Append(file, l) /\ torn' \in {"partial", "bare"}
          /\ health' = "degraded"
          /\ UNCHANGED <<durable, anchor, entries, sequence, at, pending, clock, keyed>>
      BY <2>3 DEF WriteFails, Degrade
    <3>2. Up /\ phase \in {"orphaning", "running"}
      BY <2>3, CallUp
    <3>3. l \in Lines /\ file = entries
      BY <3>1, <3>2, LineTyped
    <3>4. /\ Append(file, l) \in Seq(Lines) /\ Len(Append(file, l)) = Len(file) + 1
          /\ Chained(Append(file, l)) /\ Replayable(Append(file, l))
          /\ SyncWrites => Survives(Append(file, l), durable)
      BY <2>3, <3>1, WrittenLines
    <3> HIDE DEF l
    <3>5. /\ file' \in Seq(Lines) /\ Len(file') <= MaxLines /\ Chained(file') /\ Replayable(file')
          /\ durable \in 0 .. Len(file') /\ (SyncWrites => Survives(file', durable))
      <4>1. CASE file' = file
        BY <2>0, <4>1
      <4>2. CASE file' = Append(file, l)
        <5>1. Len(file) + 1 <= MaxLines /\ durable \in 0 .. (Len(file) + 1)
          BY <2>0, <3>1
        <5> QED
          BY <3>4, <4>2, <5>1
      <4> QED
        BY <3>1, <4>1, <4>2
    <3>6. file' = entries \/ \E m \in Lines : file' = Append(entries, m)
      BY <3>1, <3>3
    <3>7. torn' \in Torn \cup {"no"}
      BY <2>0, <3>1 DEF Torn
    <3> QED
      BY <2>0, <3>1, <3>2, <3>5, <3>6, <3>7
  <2> QED
    BY <1>1, <2>1, <2>2, <2>3
<1>3. Up' /\ (phase' = phase \/ phase' = "exiting")
  BY <1>1, <1>2 DEF Up
<1>4. TypeOK'
  <2>1. pending' \in {<<>>} \cup {<<l>> : l \in Lines}
    BY <1>2 DEF TimelineInv, TypeOK, JournalTypeOK
  <2>2. JournalTypeOK'
    BY <1>2, <2>1 DEF TimelineInv, TypeOK, JournalTypeOK, Lines
  <2> QED
    BY <1>1, <2>2 DEF TimelineInv, TypeOK, Phases
<1>5. FileInv'
  BY <1>1, <1>2, <1>3 DEF TimelineInv, FileInv, Chained, Replayable, OpenAfter
<1>6. MemoryInv'
  <2>1. active' = Live(entries')
    BY <1>1, <1>2 DEF TimelineInv, MemoryInv
  <2> QED
    BY <1>2, <2>1 DEF MemoryInv, Live, OpenAfter, Lines
<1>7. CallInv'
  BY <1>2 DEF CallInv
<1>8. SnapInv'
  <2>1. snap # <<>> => phase = "running"
    BY <1>2 DEF TimelineInv, SnapInv
  <2> QED
    BY <1>1, <1>2, <2>1 DEF TimelineInv, SnapInv, Recent
<1>9. WorkInv'
  BY <1>1, <1>2, <1>3 DEF TimelineInv, WorkInv
<1>10. ToldInv'
  BY <1>1, <1>2, <1>3 DEF TimelineInv, ToldInv, Survives, OpenAfter
<1> QED
  BY <1>3, <1>4, <1>5, <1>6, <1>7, <1>8, <1>9, <1>10 DEF TimelineInv

\* The maintenance asks which requests are active.
LEMMA ActiveIDsKeeps ==
    ASSUME TimelineInv, ActiveIDs
    PROVE  TimelineInv'
<1>1. /\ phase = "running" /\ at = "idle" /\ snap = <<>>
      /\ snap' = <<[ids |-> active, cutoff |-> clock]>>
      /\ UNCHANGED <<file, torn, durable, anchor, entries, sequence, health, at, pending, clock, keyed>>
      /\ UNCHANGED <<phase, active, mine, told, lives>>
  BY DEF ActiveIDs, jvars, disk, store
<1>2. Up /\ Up'
  BY <1>1 DEF Up
<1>3. TypeOK'
  <2>1. [ids |-> active, cutoff |-> clock] \in [ids : SUBSET Entities, cutoff : 0 .. MaxClock]
    BY DEF TimelineInv, TypeOK, JournalTypeOK
  <2> QED
    BY <1>1, <2>1 DEF TimelineInv, TypeOK, JournalTypeOK, Lines
<1>4. FileInv'
  BY <1>1, <1>2 DEF TimelineInv, FileInv, Chained, Replayable, OpenAfter
<1>5. MemoryInv'
  BY <1>1, <1>2 DEF TimelineInv, MemoryInv, Live, OpenAfter, Lines
<1>6. CallInv' /\ WorkInv'
  BY <1>1, <1>2 DEF TimelineInv, CallInv, WorkInv
<1>7. SnapInv'
  <2>1. clock \in Nat /\ snap'[1].cutoff = clock /\ snap'[1].ids = active
    BY <1>1, JournalAssumption DEF TimelineInv, TypeOK, JournalTypeOK
  <2> QED
    BY <1>1, <2>1 DEF SnapInv
<1>8. ToldInv'
  BY <1>1, <1>2 DEF TimelineInv, ToldInv, Survives, OpenAfter
<1> QED
  BY <1>2, <1>3, <1>4, <1>5, <1>6, <1>7, <1>8 DEF TimelineInv

\* The journal is compacted: what is active keeps its lines.
LEMMA CompactionKeeps ==
    ASSUME TimelineInv, Compaction
    PROVE  TimelineInv'
<1> DEFINE s  == snap[1]
           R  == s.ids \cup Recent(s.cutoff)
           ks == Kept(entries, R)
<1>1. /\ snap # <<>> /\ at = "idle"
      /\ file' = ks /\ torn' = "no" /\ durable' = Len(ks) /\ entries' = ks /\ sequence' = Len(ks)
      /\ at' = "renamed"
      /\ UNCHANGED <<anchor, health, pending, clock, keyed>>
      /\ UNCHANGED <<phase, active, mine, told, snap, lives>>
  BY DEF Compaction, Compact, Retained, Kept, tvars
<1> HIDE DEF ks
<1>2. /\ phase \in {"starting", "running"} /\ s.cutoff <= clock
      /\ \A r \in active : r \in R
  BY <1>1 DEF TimelineInv, SnapInv
<1>3. Up /\ Up'
  BY <1>1, <1>2 DEF Up
<1>4. /\ entries \in Seq(Lines) /\ Len(entries) \in Nat /\ Len(entries) <= MaxLines /\ MaxLines \in Nat
      /\ Replayable(entries) /\ DOMAIN entries = 1 .. Len(entries) /\ DOMAIN file = 1 .. Len(file)
      /\ Len(entries) <= Len(file) /\ Len(file) \in Nat
      /\ \A i \in 1 .. Len(entries) : file[i] = entries[i]
  <2>1. /\ entries \in Seq(Lines) /\ Len(entries) \in Nat /\ Len(file) \in Nat
        /\ Replayable(entries) /\ DOMAIN entries = 1 .. Len(entries) /\ DOMAIN file = 1 .. Len(file)
        /\ Len(entries) <= Len(file) /\ Len(file) <= MaxLines
        /\ \A i \in 1 .. Len(entries) : file[i] = entries[i]
    BY <1>3, MemoryLines
  <2> QED
    BY <2>1, JournalAssumption
<1>5. active = Live(entries)
  BY <1>3 DEF TimelineInv, MemoryInv
<1> HIDE DEF s, R
<1>6. /\ Chained(ks) /\ Replayable(ks) /\ Live(ks) = active
      /\ \A i \in DOMAIN ks : \E p \in DOMAIN entries : ks[i].id = entries[p].id /\ ks[i].kind = entries[p].kind
      /\ \A p \in DOMAIN entries : entries[p].id \in R =>
            \E i \in DOMAIN ks : /\ ks[i].id = entries[p].id /\ ks[i].kind = entries[p].kind
                                 /\ ks[i].time = entries[p].time
  <2>1. Live(entries) \subseteq R
    BY <1>2, <1>5
  <2> QED
    BY <1>4, <1>5, <2>1, KeptReplays DEF ks
<1>7. ks \in Seq(Lines) /\ Len(ks) \in 0 .. Len(entries) /\ DOMAIN ks = 1 .. Len(ks)
  BY <1>4, KeptLines DEF ks
<1>8. Len(ks) \in Nat /\ Len(ks) <= MaxLines /\ Len(ks) \in 0 .. (MaxLines + 1)
  BY <1>4, <1>7
<1>9. TypeOK'
  BY <1>1, <1>7, <1>8 DEF TimelineInv, TypeOK, JournalTypeOK, Lines
<1>10. FileInv'
  BY <1>1, <1>3, <1>6, <1>8 DEF TimelineInv, FileInv, Chained, Replayable, OpenAfter
<1>11. MemoryInv'
  BY <1>1, <1>6 DEF MemoryInv, Live, OpenAfter
<1>12. CallInv'
  BY <1>1 DEF CallInv
<1>13. SnapInv'
  <2>1. ASSUME NEW r \in active, r \notin s.ids
        PROVE  r \in Recent(s.cutoff)'
    <3>1. r \in R /\ r \in Recent(s.cutoff)
      BY <1>2, <2>1 DEF R
    <3>2. PICK p \in DOMAIN entries : entries[p].time >= s.cutoff /\ entries[p].id = r
      BY <3>1 DEF Recent
    <3>3. PICK i \in DOMAIN ks : ks[i].id = r /\ ks[i].time = entries[p].time
      BY <1>6, <3>1, <3>2
    <3>4. s' = s /\ entries' = ks
      BY <1>1 DEF s
    <3> QED
      BY <3>2, <3>3, <3>4 DEF Recent
  <2> QED
    BY <1>1, <1>2, <2>1 DEF SnapInv, s
<1>14. WorkInv'
  <2>1. ASSUME NEW r \in Entities, told[r] \in {"none", "start"}, NEW i \in DOMAIN ks, ks[i].id = r
        PROVE  ks[i].kind \notin Final
    <3>1. PICK p \in DOMAIN entries : ks[i].id = entries[p].id /\ ks[i].kind = entries[p].kind
      BY <1>6
    <3> QED
      BY <1>3, <2>1, <3>1 DEF TimelineInv, WorkInv
  <2> QED
    BY <1>1, <2>1 DEF TimelineInv, WorkInv
<1>15. ToldInv'
  <2> SUFFICES ASSUME SyncWrites
               PROVE  Survives(ks, Len(ks))
    BY <1>1, <1>3 DEF TimelineInv, ToldInv, Survives, OpenAfter
  <2> SUFFICES ASSUME NEW r \in Entities
               PROVE  /\ told[r] = "start" => \E i \in 1 .. Len(ks) : ks[i].id = r /\ ks[i].kind = "start"
                      /\ told[r] = "ended" =>
                            /\ \A i \in DOMAIN ks : ks[i].id = r => ks[i].kind # "orphaned"
                            /\ \A n \in Len(ks) .. Len(ks) : ~OpenAfter(ks, n, r)
    BY DEF Survives
  <2>1. /\ Survives(file, durable)
        /\ told[r] = "start" => r \in Live(ks)
        /\ told[r] = "ended" => r \notin Live(ks)
    BY <1>3, <1>6 DEF TimelineInv, ToldInv
  <2>2. told[r] = "start" => \E i \in 1 .. Len(ks) : ks[i].id = r /\ ks[i].kind = "start"
    BY <2>1 DEF Live, OpenAfter
  <2>3. ASSUME told[r] = "ended"
        PROVE  /\ \A i \in DOMAIN ks : ks[i].id = r => ks[i].kind # "orphaned"
               /\ \A n \in Len(ks) .. Len(ks) : ~OpenAfter(ks, n, r)
    <3>1. \A i \in DOMAIN file : file[i].id = r => file[i].kind # "orphaned"
      BY <2>1, <2>3 DEF Survives
    <3>2. \A i \in DOMAIN entries : entries[i].id = r => entries[i].kind # "orphaned"
      BY <1>4, <3>1
    <3>3. \A i \in DOMAIN ks : ks[i].id = r => ks[i].kind # "orphaned"
      BY <1>6, <3>2
    <3>4. \A n \in Len(ks) .. Len(ks) : n = Len(ks)
      BY <1>8
    <3>5. ~OpenAfter(ks, Len(ks), r)
      BY <2>1, <2>3 DEF Live
    <3> QED
      BY <3>3, <3>4, <3>5
  <2> QED
    BY <2>2, <2>3
<1> QED
  BY <1>3, <1>9, <1>10, <1>11, <1>12, <1>13, <1>14, <1>15 DEF TimelineInv

\* The compaction is over, or has failed.
LEMMA CompactionOverKeeps ==
    ASSUME TimelineInv, CompactionEnds \/ CompactionFails
    PROVE  TimelineInv'
<1>1. /\ snap # <<>> /\ snap' = <<>> /\ at' = "idle" /\ at \in {"idle", "renamed"}
      /\ \/ phase' = "running" /\ CompactionEnds
         \/ phase' = (IF phase = "running" THEN phase ELSE "exiting")
      /\ UNCHANGED <<file, torn, durable, entries, sequence, pending, clock, keyed>>
      /\ UNCHANGED <<active, mine, told, lives>>
  BY DEF CompactionEnds, CompactionFails, CompactCommit, CompactCommitFails, Degrade, jvars, disk, store
<1>2. \/ at = "idle" /\ UNCHANGED <<anchor, health>>
      \/ at = "renamed" /\ health' = health /\ anchor' = Anchored(sequence)
      \/ at = "renamed" /\ health' = "degraded" /\ anchor' \in {anchor, {sequence}}
  BY DEF CompactionEnds, CompactionFails, CompactCommit, CompactCommitFails, Degrade, jvars, disk, store
<1>3. phase \in {"starting", "running"} /\ Up /\ phase' \in {"running", "exiting"} /\ Up'
  BY <1>1 DEF TimelineInv, SnapInv, Up
<1>4. TypeOK'
  <2>1. sequence \in 0 .. (MaxLines + 1)
    BY DEF TimelineInv, TypeOK, JournalTypeOK
  <2>2. anchor' \subseteq 0 .. (MaxLines + 1) /\ Cardinality(anchor') <= 1
    BY <1>2, <2>1, AnchorTyped DEF TimelineInv
  <2>3. health' \in {"healthy", "degraded"}
    BY <1>2 DEF TimelineInv, TypeOK, JournalTypeOK
  <2> QED
    BY <1>1, <1>3, <2>2, <2>3 DEF TimelineInv, TypeOK, JournalTypeOK, Phases, Lines
<1>5. FileInv'
  BY <1>1, <1>3 DEF TimelineInv, FileInv, Chained, Replayable, OpenAfter
<1>6. MemoryInv'
  <2>1. active' = Live(entries')
    BY <1>1, <1>3 DEF TimelineInv, MemoryInv
  <2>2. \/ file' = entries'
        \/ health' = "degraded" /\ \E l \in Lines : file' = Append(entries', l)
    BY <1>1, <1>2, <1>3 DEF TimelineInv, MemoryInv
  <2>3. health' = "healthy" => sequence' = Len(entries') /\ (keyed' => anchor' = {Len(entries')})
    BY <1>1, <1>2, <1>3 DEF TimelineInv, MemoryInv, Anchored
  <2> QED
    BY <1>1, <2>1, <2>2, <2>3 DEF MemoryInv, Live, OpenAfter, Lines
<1>7. CallInv' /\ SnapInv'
  BY <1>1 DEF CallInv, SnapInv
<1>8. WorkInv'
  BY <1>1, <1>3 DEF TimelineInv, WorkInv
<1>9. ToldInv'
  BY <1>1, <1>3 DEF TimelineInv, ToldInv, Survives, OpenAfter
<1> QED
  BY <1>3, <1>4, <1>5, <1>6, <1>7, <1>8, <1>9 DEF TimelineInv

\* The process ends: what was synced is still there.
LEMMA DieKeeps ==
    ASSUME TimelineInv, Die
    PROVE  TimelineInv'
<1>1. /\ file \in Seq(Lines) /\ Len(file) \in Nat /\ durable \in 0 .. Len(file) /\ torn \in Torn \cup {"no"}
      /\ Len(file) <= MaxLines /\ MaxLines \in Nat /\ Chained(file) /\ Replayable(file) /\ Tears \subseteq Torn
  BY JournalAssumption DEF TimelineInv, FileInv, TypeOK, JournalTypeOK
<1>2. PICK keep \in durable .. Len(file) :
         /\ file' = SubSeq(file, 1, keep)
         /\ torn' \in IF torn = "partial" THEN {torn}
                      ELSE {IF keep = Len(file) THEN torn ELSE "no"} \cup
                           {t \in Tears : IF t = "bare" THEN keep > durable
                                                       ELSE keep < Len(file)}
  BY DEF Die, Crash
<1>3. /\ entries' = <<>> /\ sequence' = 0 /\ health' = "healthy" /\ at' = "idle" /\ pending' = <<>>
      /\ phase' = "down" /\ active' = {} /\ mine' = {} /\ snap' = <<>>
      /\ UNCHANGED <<durable, anchor, clock, keyed>>
      /\ UNCHANGED <<told, lives>>
  BY DEF Die, Crash
<1>4. ~Up'
  BY <1>3 DEF Up
<1>5. keep \in 0 .. Len(file) /\ keep \in Nat /\ durable \in 0 .. keep
  BY <1>1
<1>6. /\ file' \in Seq(Lines) /\ Len(file') = keep /\ DOMAIN file' = 1 .. keep
      /\ \A i \in 1 .. keep : file'[i] = file[i]
      /\ \A r : \A m \in 0 .. keep : OpenAfter(file', m, r) <=> OpenAfter(file, m, r)
      /\ Chained(file') /\ Replayable(file')
  BY <1>1, <1>2, <1>5, PrefixLines
<1>7. TypeOK'
  <2>1. torn' \in Torn \cup {"no"}
    BY <1>1, <1>2
  <2>2. <<>> \in Seq(Lines) /\ 0 \in 0 .. (MaxLines + 1)
    BY <1>1
  <2>3. JournalTypeOK'
    BY <1>3, <1>5, <1>6, <2>1, <2>2 DEF TimelineInv, TypeOK, JournalTypeOK, Lines
  <2> QED
    BY <1>3, <2>3 DEF TimelineInv, TypeOK, Phases
<1>8. FileInv'
  BY <1>1, <1>3, <1>4, <1>5, <1>6 DEF FileInv, Chained, Replayable, OpenAfter
<1>9. CallInv' /\ SnapInv' /\ WorkInv'
  BY <1>3, <1>4 DEF CallInv, SnapInv, WorkInv
<1>10. ToldInv'
  <2> SUFFICES ASSUME SyncWrites, NEW r \in Entities
               PROVE  /\ told[r] = "start" => \E i \in 1 .. durable : file'[i].id = r /\ file'[i].kind = "start"
                      /\ told[r] = "ended" =>
                            /\ \A i \in DOMAIN file' : file'[i].id = r => file'[i].kind # "orphaned"
                            /\ \A n \in durable .. Len(file') : ~OpenAfter(file', n, r)
    BY <1>3, <1>4 DEF ToldInv, Survives, OpenAfter
  <2>1. Survives(file, durable)
    BY DEF TimelineInv, ToldInv
  <2>2. /\ 1 .. durable \subseteq 1 .. keep /\ 1 .. keep \subseteq DOMAIN file
        /\ durable .. keep \subseteq durable .. Len(file) /\ durable .. keep \subseteq 0 .. keep
    BY <1>1, <1>5
  <2>3. told[r] = "start" => \E i \in 1 .. durable : file'[i].id = r /\ file'[i].kind = "start"
    BY <1>6, <2>1, <2>2 DEF Survives
  <2>4. ASSUME told[r] = "ended"
        PROVE  /\ \A i \in DOMAIN file' : file'[i].id = r => file'[i].kind # "orphaned"
               /\ \A n \in durable .. Len(file') : ~OpenAfter(file', n, r)
    <3>1. /\ \A i \in DOMAIN file : file[i].id = r => file[i].kind # "orphaned"
          /\ \A n \in durable .. Len(file) : ~OpenAfter(file, n, r)
      BY <2>1, <2>4 DEF Survives
    <3> QED
      BY <1>6, <2>2, <3>1
  <2> QED
    BY <2>3, <2>4
<1> QED
  BY <1>4, <1>7, <1>8, <1>9, <1>10 DEF TimelineInv

\* A retention period passes, or nothing happens.
LEMMA TimeKeeps ==
    ASSUME TimelineInv, TimePasses \/ UNCHANGED vars
    PROVE  TimelineInv'
<1>1. /\ clock' \in 0 .. MaxClock /\ clock <= clock' /\ clock \in Nat
      /\ UNCHANGED <<file, torn, durable, anchor, entries, sequence, health, at, pending, keyed>>
      /\ UNCHANGED <<phase, active, mine, told, snap, lives>>
  BY JournalAssumption DEF TimelineInv, TypeOK, JournalTypeOK, TimePasses, Tick, vars, jvars, tvars, disk, store
<1>2. Up' <=> Up
  BY <1>1 DEF Up
<1>3. TypeOK'
  BY <1>1 DEF TimelineInv, TypeOK, JournalTypeOK, Lines
<1>4. FileInv'
  BY <1>1, <1>2 DEF TimelineInv, FileInv, Chained, Replayable, OpenAfter
<1>5. Up' => MemoryInv'
  BY <1>1, <1>2 DEF TimelineInv, MemoryInv, Live, OpenAfter, Lines
<1>6. CallInv' /\ WorkInv'
  BY <1>1, <1>2 DEF TimelineInv, CallInv, WorkInv
<1>7. SnapInv'
  <2>1. snap # <<>> => snap[1].cutoff \in Nat
    BY JournalAssumption DEF TimelineInv, TypeOK
  <2> QED
    BY <1>1, <2>1 DEF TimelineInv, SnapInv, Recent
<1>8. ToldInv'
  BY <1>1, <1>2 DEF TimelineInv, ToldInv, Survives, OpenAfter
<1> QED
  BY <1>3, <1>4, <1>5, <1>6, <1>7, <1>8 DEF TimelineInv

------------------------------------------------------------------------------
\* Before the process is started.
LEMMA TimelineStart == Init => TimelineInv
<1> SUFFICES ASSUME Init
             PROVE  TimelineInv
  OBVIOUS
<1>1. /\ file = <<>> /\ torn = "no" /\ durable = 0 /\ anchor = {}
      /\ entries = <<>> /\ sequence = 0 /\ health = "healthy" /\ at = "idle" /\ pending = <<>>
      /\ clock = 0 /\ keyed \in KeyChoices
      /\ phase = "down" /\ lives = 0 /\ active = {} /\ mine = {} /\ snap = <<>>
      /\ told = [r \in Entities |-> "none"]
  BY DEF Init, JournalInit
<1>2. ~Up
  BY <1>1 DEF Up
<1>3. TypeOK
  <2>1. Cardinality({}) = 0
    BY FS_EmptySet
  <2>2. <<>> \in Seq(Lines) /\ Len(<<>>) = 0
    OBVIOUS
  <2>3. MaxLines \in Nat /\ MaxClock \in Nat /\ MaxLives \in Nat
    BY JournalAssumption, TimelineAssumption
  <2> QED
    BY <1>1, <2>1, <2>2, <2>3 DEF TypeOK, JournalTypeOK, Phases, Torn
<1>4. FileInv
  <2>1. MaxLines \in Nat
    BY JournalAssumption
  <2> QED
    BY <1>1, <2>1 DEF FileInv, Chained, Replayable
<1>5. CallInv /\ SnapInv /\ WorkInv
  BY <1>1, <1>2 DEF CallInv, SnapInv, WorkInv
<1>6. ToldInv
  BY <1>1 DEF ToldInv, Survives, Up
<1> QED
  BY <1>2, <1>3, <1>4, <1>5, <1>6 DEF TimelineInv

\* Every step keeps the invariant.
LEMMA TimelineStep == TimelineInv /\ [Next]_vars => TimelineInv'
<1> SUFFICES ASSUME TimelineInv, [Next]_vars
             PROVE  TimelineInv'
  OBVIOUS
<1>1. CASE Startup
  BY <1>1, StartupKeeps
<1>2. CASE Restored
  BY <1>2, RestoredKeeps
<1>3. ASSUME NEW r \in Entities, NEW k \in Kinds, Begin(r, k)
      PROVE  TimelineInv'
  BY <1>3, BeginKeeps
<1>4. CASE Sync /\ UNCHANGED tvars
  BY <1>4, SyncKeeps
<1>5. CASE Succeed
  BY <1>5, SucceedKeeps
<1>6. CASE Fail
  BY <1>6, FailKeeps
<1>7. CASE ActiveIDs
  BY <1>7, ActiveIDsKeeps
<1>8. CASE Compaction
  BY <1>8, CompactionKeeps
<1>9. CASE CompactionEnds \/ CompactionFails
  BY <1>9, CompactionOverKeeps
<1>10. CASE Die
  BY <1>10, DieKeeps
<1>11. CASE TimePasses \/ UNCHANGED vars
  BY <1>11, TimeKeeps
<1> QED
  BY <1>1, <1>2, <1>3, <1>4, <1>5, <1>6, <1>7, <1>8, <1>9, <1>10, <1>11 DEF Next

LEMMA TimelineInvariant == Spec => []TimelineInv
BY TimelineStart, TimelineStep, PTL DEF Spec

\* Whatever fails, is torn, is lost or is compacted away, and however often the
\* process is started: the whole lines on the disk are an unbroken chain that
\* replay accepts, and outside a call the records are what replaying the
\* journal gives (journal append and CompactWithProtection, timeline replay).
THEOREM TimelineReplays == Spec => []ReplaySound
<1>1. TimelineInv => ReplaySound
  <2> SUFFICES ASSUME TimelineInv
               PROVE  ReplaySound
    OBVIOUS
  <2>1. TypeOK /\ FileReplays
    BY DEF TimelineInv, FileInv, FileReplays
  <2>2. MemoryIsReplay
    BY DEF TimelineInv, MemoryInv, MemoryIsReplay, Up
  <2> QED
    BY <2>1, <2>2 DEF ReplaySound
<1> QED
  BY <1>1, TimelineInvariant, PTL

\* With synced writes nothing that a caller was told is lost by a crash or a
\* compaction, a running process has a worker for everything active, and a
\* process that stops between two calls can be started again (NewPersistent,
\* orphanInterrupted, verifyOrCreateAnchor).
THEOREM RestartsAreSound == Spec => []RestartSound
<1>1. TimelineInv => RestartSound
  <2> SUFFICES ASSUME TimelineInv
               PROVE  RestartSound
    OBVIOUS
  <2>1. AcknowledgedSurvives
    <3> SUFFICES ASSUME SyncWrites, NEW r \in Entities
                 PROVE  /\ told[r] = "start" => \E i \in DOMAIN file : file[i].id = r /\ file[i].kind = "start"
                        /\ told[r] = "ended" => /\ r \notin Live(file)
                                                /\ \A i \in DOMAIN file :
                                                      file[i].id = r => file[i].kind # "orphaned"
      BY DEF AcknowledgedSurvives
    <3>1. /\ file \in Seq(Lines) /\ DOMAIN file = 1 .. Len(file)
          /\ 1 .. durable \subseteq 1 .. Len(file) /\ Len(file) \in durable .. Len(file)
      BY DEF TimelineInv, TypeOK, JournalTypeOK
    <3>2. Survives(file, durable)
      BY DEF TimelineInv, ToldInv
    <3> QED
      BY <3>1, <3>2 DEF Survives, Live
  <2>2. NoGhosts
    BY DEF TimelineInv, WorkInv, NoGhosts
  <2>3. CleanStopReopens
    <3> SUFFICES ASSUME phase = "running", at = "idle", health = "healthy", torn # "partial"
                 PROVE  Accepts
      BY DEF CleanStopReopens
    <3>1. MemoryInv /\ Chained(file)
      BY DEF TimelineInv, FileInv, Up
    <3> QED
      BY <3>1 DEF MemoryInv, Accepts
  <2> QED
    BY <2>1, <2>2, <2>3 DEF RestartSound
<1> QED
  BY <1>1, TimelineInvariant, PTL
==============================================================================
