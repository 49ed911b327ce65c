------------------------- MODULE ProjectionsProofs -------------------------
(***************************************************************************)
(* Proofs about the read models.  A running call holds what justified it:  *)
(* a cursor position that was reached, the snapshot that belongs to it and *)
(* material from a prefix of the stream; streams only grow, so nothing a   *)
(* concurrent run, rebuild or crash does can take that away.               *)
(***************************************************************************)
EXTENDS Projections, TLAPS

\* A call past its first reads holds the snapshot of its checkpoint.
Loaded == {"read", "apply", "contribute", "store"}
Running == {"checkpoint", "snapshot"} \union Loaded

CallOK(q, len) ==
  /\ q.checkpoint <= len /\ q.seen <= len /\ q.material <= len
  /\ q.pc \in Loaded =>
       q.snapshot = [sequence |-> q.checkpoint, eventIds |-> UpTo(q.checkpoint)]
  /\ q.pc = "apply" => q.checkpoint < q.seen
  /\ q.service = "review" => /\ q.pc \notin {"discard", "contribute"}
                             /\ q.pc # "idle" => q.material = Length
  /\ q.service = "stats" /\ q.pc = "store" => q.material > 0

CallsOK ==
  \A p \in Procs : proc[p].pc \in Running =>
    /\ proc[p].hand \in Hands
    /\ CallOK(proc[p], log[proc[p].hand])

Inv == TypeOK /\ CursorIsPrefix /\ CountedOnce /\ ReviewsAreFinal /\ CallsOK

-----------------------------------------------------------------------------
\* The prefixes are sequences of positions, and consuming the next event
\* extends one by it.
LEMMA UpToType == \A n \in Positions : UpTo(n) \in Seq(1..Length) /\ Len(UpTo(n)) = n
  BY ProjectionsAssumption DEF UpTo, Positions

\* Sequences of numbers that agree everywhere are the same.
LEMMA SameSequence ==
  ASSUME NEW s \in Seq(Nat), NEW t \in Seq(Nat), Len(s) = Len(t),
         \A i \in 1..Len(s) : s[i] = t[i]
  PROVE  s = t
  OBVIOUS

LEMMA UpToGrows == \A n \in Positions : n < Length => Append(UpTo(n), n + 1) = UpTo(n + 1)
<1>1. SUFFICES ASSUME NEW n \in Positions, n < Length
               PROVE  Append(UpTo(n), n + 1) = UpTo(n + 1)
  OBVIOUS
<1>2. UpTo(n) \in Seq(Nat) /\ Len(UpTo(n)) = n /\ UpTo(n + 1) \in Seq(Nat) /\ Len(UpTo(n + 1)) = n + 1
  BY ProjectionsAssumption DEF UpTo, Positions
<1>3. Append(UpTo(n), n + 1) \in Seq(Nat) /\ Len(Append(UpTo(n), n + 1)) = n + 1
  BY <1>2 DEF Positions
<1>4. \A i \in 1..(n + 1) : Append(UpTo(n), n + 1)[i] = UpTo(n + 1)[i]
  BY <1>2 DEF UpTo, Positions
<1> HIDE DEF UpTo
<1> QED BY <1>2, <1>3, <1>4, SameSequence

\* An absent row is the empty prefix.
LEMMA DiscardedOK ==
  /\ Discarded \in [checkpoint : Positions, snapshot : Snapshots]
  /\ NoSnapshot \in Snapshots
  /\ NoSnapshot = [sequence |-> 0, eventIds |-> UpTo(0)]
  BY ProjectionsAssumption DEF Discarded, NoSnapshot, Positions, Snapshots, UpTo

LEMMA IdleOK == Idle \in Calls
  BY DiscardedOK, ProjectionsAssumption DEF Idle, Calls, Positions, Services

\* A fresh call of either service.
LEMMA CallType ==
  ASSUME NEW k \in Services, NEW h \in Hands, NEW todo \in SUBSET Hands, NEW n \in Positions
  PROVE  /\ Call(k, h, todo, n) \in Calls
         /\ Call(k, h, todo, n).pc = "checkpoint" /\ Call(k, h, todo, n).service = k
         /\ Call(k, h, todo, n).hand = h /\ Call(k, h, todo, n).checkpoint = 0
         /\ Call(k, h, todo, n).seen = 0 /\ Call(k, h, todo, n).material = n
<1>1. Call(k, h, todo, n) =
        [service |-> k, hand |-> h, pc |-> "checkpoint", todo |-> todo,
         checkpoint |-> 0, snapshot |-> NoSnapshot, seen |-> 0, material |-> n]
  BY DEF Call
<1>2. NoSnapshot \in Snapshots /\ 0 \in Positions
  BY DiscardedOK, ProjectionsAssumption DEF Positions
<1>3. Call(k, h, todo, n) \in Calls
  BY <1>1, <1>2 DEF Calls
<1> QED BY <1>1, <1>3

-----------------------------------------------------------------------------
LEMMA Initially == Init => Inv
<1> SUFFICES ASSUME Init PROVE Inv
  OBVIOUS
<1>1. TypeOK
  BY DiscardedOK, IdleOK, ProjectionsAssumption DEF Init, TypeOK, Positions
<1>2. CursorIsPrefix
  <2>1. PrefixAt(Discarded, 0)
    BY DiscardedOK DEF PrefixAt, Discarded
  <2> QED BY <2>1 DEF Init, CursorIsPrefix
<1>3. CountedOnce /\ ReviewsAreFinal
  BY DEF Init, CountedOnce, ReviewsAreFinal
<1>4. CallsOK
  BY DEF Init, CallsOK, Idle, Running, Loaded
<1> QED BY <1>1, <1>2, <1>3, <1>4 DEF Inv

-----------------------------------------------------------------------------
(* Steps.  Most of them only move one call. *)

CallFits(q) == q.pc \in Running => q.hand \in Hands /\ CallOK(q, log[q.hand])

\* A call that may go on as q keeps everything, if q fits the streams.
LEMMA CallMoves ==
  ASSUME Inv, NEW p \in Procs, NEW q \in Calls, CallFits(q),
         proc' = [proc EXCEPT ![p] = q],
         UNCHANGED <<log, cursor, counted, applied, reviewed>>,
         rebuilds' \in Nat, crashes' \in Nat
  PROVE  Inv'
<1>1. TypeOK'
  BY DEF Inv, TypeOK
<1>2. CursorIsPrefix' /\ CountedOnce' /\ ReviewsAreFinal'
  BY DEF Inv, CursorIsPrefix, CountedOnce, ReviewsAreFinal
<1>3. CallsOK'
  BY DEF Inv, CallsOK, CallFits, TypeOK
<1> QED BY <1>1, <1>2, <1>3 DEF Inv

\* What a call was allowed by a stream it stays allowed as the stream grows.
LEMMA CallOKGrows ==
  ASSUME NEW q \in Calls, NEW m \in Positions, NEW n \in Positions, m <= n, CallOK(q, m)
  PROVE  CallOK(q, n)
  BY ProjectionsAssumption DEF CallOK, Calls, Positions

\* Idle calls fit, and so does a call that is about to discard.
LEMMA NotRunning == ASSUME NEW q, q.pc \in {"idle", "discard"} PROVE CallFits(q)
  BY DEF CallFits, Running, Loaded

\* A stream grows under calls, cursors and counts.
LEMMA AppendEventStep ==
  ASSUME Inv, NEW h \in Hands, AppendEvent(h) PROVE Inv'
<1>1. log[h] \in Positions /\ log[h] + 1 \in Positions
  BY ProjectionsAssumption DEF Inv, TypeOK, AppendEvent, Positions
<1>2. TypeOK'
  BY <1>1 DEF Inv, TypeOK, AppendEvent
<1>3. \A g \in Hands : log[g] \in Positions /\ log'[g] \in Positions /\ log[g] <= log'[g]
  BY <1>1, ProjectionsAssumption DEF Inv, TypeOK, AppendEvent, Positions
<1>4. CursorIsPrefix'
  <2> SUFFICES ASSUME NEW k \in Services, NEW g \in Hands
               PROVE  PrefixAt(cursor[k][g], log'[g])
    BY DEF CursorIsPrefix, AppendEvent
  <2>1. PrefixAt(cursor[k][g], log[g]) /\ cursor[k][g].checkpoint \in Positions
    BY DEF Inv, CursorIsPrefix, TypeOK
  <2> QED BY <2>1, <1>3, ProjectionsAssumption DEF PrefixAt, Positions
<1>5. CountedOnce'
  <2> SUFFICES ASSUME NEW g \in Hands
               PROVE  counted[g] <= log'[g] /\ (counted[g] > 0 <=> g \in applied)
    BY DEF CountedOnce, AppendEvent
  <2>1. counted[g] \in Nat /\ counted[g] <= log[g] /\ (counted[g] > 0 <=> g \in applied)
    BY DEF Inv, CountedOnce, TypeOK
  <2>2. log[g] \in Nat /\ log'[g] \in Nat /\ log[g] <= log'[g]
    BY <1>3, ProjectionsAssumption DEF Positions
  <2>3. counted[g] <= log'[g]
    BY <2>1, <2>2
  <2> QED BY <2>1, <2>3
<1>6. ReviewsAreFinal'
  BY DEF Inv, ReviewsAreFinal, AppendEvent
<1>7. CallsOK'
  <2> SUFFICES ASSUME NEW p \in Procs, proc[p].pc \in Running
               PROVE  proc[p].hand \in Hands /\ CallOK(proc[p], log'[proc[p].hand])
    BY DEF CallsOK, AppendEvent
  <2>1. proc[p] \in Calls /\ proc[p].hand \in Hands /\ CallOK(proc[p], log[proc[p].hand])
    BY DEF Inv, CallsOK, TypeOK
  <2> QED BY <2>1, <1>3, CallOKGrows
<1> QED BY <1>2, <1>4, <1>5, <1>6, <1>7 DEF Inv

\* Starting a call.
LEMMA StartStatsStep ==
  ASSUME Inv, NEW p \in Procs, NEW h \in Hands, StartStats(p, h) PROVE Inv'
<1> DEFINE q == Call("stats", h, {}, 0)
<1>1. q \in Calls /\ q.pc = "checkpoint" /\ q.service = "stats" /\ q.hand = h
      /\ q.checkpoint = 0 /\ q.seen = 0 /\ q.material = 0
  BY CallType, ProjectionsAssumption DEF Services, Positions
<1>2. log[h] \in Positions
  BY DEF Inv, TypeOK
<1> HIDE DEF q
<1>3. CallFits(q)
  BY <1>1, <1>2, ProjectionsAssumption DEF CallFits, CallOK, Loaded, Positions
<1>4. /\ proc' = [proc EXCEPT ![p] = q] /\ UNCHANGED <<log, cursor, counted, applied, reviewed>>
      /\ rebuilds' \in Nat /\ crashes' \in Nat
  BY DEF StartStats, q, Inv, TypeOK
<1> QED BY <1>1, <1>3, <1>4, CallMoves

LEMMA StartReviewStep ==
  ASSUME Inv, NEW p \in Procs, NEW h \in Hands, StartReview(p, h) PROVE Inv'
<1> DEFINE q == Call("review", h, {}, log[h])
<1>2. log[h] \in Positions /\ log[h] = Length
  BY DEF Inv, TypeOK, StartReview, Complete
<1>1. q \in Calls /\ q.pc = "checkpoint" /\ q.service = "review" /\ q.hand = h
      /\ q.checkpoint = 0 /\ q.seen = 0 /\ q.material = log[h]
  BY CallType, <1>2 DEF Services
<1> HIDE DEF q
<1>3. CallFits(q)
  BY <1>1, <1>2, ProjectionsAssumption DEF CallFits, CallOK, Loaded, Positions
<1>4. /\ proc' = [proc EXCEPT ![p] = q] /\ UNCHANGED <<log, cursor, counted, applied, reviewed>>
      /\ rebuilds' \in Nat /\ crashes' \in Nat
  BY DEF StartReview, q, Inv, TypeOK
<1> QED BY <1>1, <1>3, <1>4, CallMoves

\* A rebuild empties the aggregate; what it empties counted nothing more.
LEMMA StartRebuildStep ==
  ASSUME Inv, NEW p \in Procs, NEW hands \in SUBSET Hands, StartRebuild(p, hands) PROVE Inv'
<1> DEFINE q == [Idle EXCEPT !.pc = "discard", !.todo = hands]
<1>1. q \in Calls /\ q.pc = "discard"
  BY IdleOK DEF Calls
<1> HIDE DEF q
<1>2. proc' = [proc EXCEPT ![p] = q] /\ UNCHANGED <<log, cursor, reviewed>>
      /\ rebuilds' \in Nat /\ crashes' \in Nat /\ counted' = [h \in Hands |-> 0] /\ applied' = {}
  BY ProjectionsAssumption DEF StartRebuild, q, Inv, TypeOK
<1>3. TypeOK'
  BY <1>1, <1>2 DEF Inv, TypeOK
<1>4. CursorIsPrefix' /\ ReviewsAreFinal'
  BY <1>2 DEF Inv, CursorIsPrefix, ReviewsAreFinal
<1>5. CountedOnce'
  BY <1>2, ProjectionsAssumption DEF Inv, CountedOnce, TypeOK, Positions
<1>6. CallsOK'
  BY <1>1, <1>2 DEF Inv, CallsOK, TypeOK, Running, Loaded
<1> QED BY <1>3, <1>4, <1>5, <1>6 DEF Inv

\* The empty prefix is a prefix of every stream.
LEMMA DiscardCursorStep ==
  ASSUME Inv, NEW p \in Procs, DiscardCursor(p) PROVE Inv'
<1>1. PICK h \in proc[p].todo :
        /\ cursor' = [cursor EXCEPT !["stats"][h] = Discarded]
        /\ proc' = [proc EXCEPT ![p] = Call("stats", h, proc[p].todo \ {h}, 0)]
  BY DEF DiscardCursor
<1>2. UNCHANGED <<log, counted, applied, reviewed, rebuilds, crashes>> /\ h \in Hands
  BY DEF DiscardCursor, Inv, TypeOK, Calls
<1> DEFINE q == Call("stats", h, proc[p].todo \ {h}, 0)
<1>3. q \in Calls /\ q.pc = "checkpoint" /\ q.service = "stats" /\ q.hand = h
      /\ q.checkpoint = 0 /\ q.seen = 0 /\ q.material = 0
  <2>1. proc[p].todo \ {h} \in SUBSET Hands
    BY DEF Inv, TypeOK, Calls
  <2> QED BY <1>2, <2>1, CallType, ProjectionsAssumption DEF Services, Positions
<1>4. proc' = [proc EXCEPT ![p] = q]
  BY <1>1
<1> HIDE DEF q
<1>5. CallFits(q)
  BY <1>2, <1>3, ProjectionsAssumption DEF CallFits, CallOK, Loaded, Positions, Inv, TypeOK
<1>6. /\ cursor' \in [Services -> [Hands -> [checkpoint : Positions, snapshot : Snapshots]]]
      /\ \A k \in Services, g \in Hands :
           cursor'[k][g] = IF k = "stats" /\ g = h THEN Discarded ELSE cursor[k][g]
  <2>1. cursor \in [Services -> [Hands -> [checkpoint : Positions, snapshot : Snapshots]]]
    BY DEF Inv, TypeOK
  <2> QED BY <1>1, <1>2, <2>1, DiscardedOK DEF Services
<1>7. TypeOK'
  BY <1>2, <1>3, <1>4, <1>6 DEF Inv, TypeOK
<1>8. CursorIsPrefix'
  <2>1. \A g \in Hands : PrefixAt(Discarded, log[g])
    BY DiscardedOK, ProjectionsAssumption DEF PrefixAt, Discarded, Inv, TypeOK, Positions
  <2> QED BY <1>2, <1>6, <2>1 DEF Inv, CursorIsPrefix
<1>9. CountedOnce' /\ ReviewsAreFinal'
  BY <1>2 DEF Inv, CountedOnce, ReviewsAreFinal
<1>10. CallsOK'
  BY <1>2, <1>3, <1>4, <1>5 DEF Inv, CallsOK, CallFits, TypeOK
<1> QED BY <1>7, <1>8, <1>9, <1>10 DEF Inv

-----------------------------------------------------------------------------
(* ProjectionRunner.run *)

\* What a running call knows, and the cursor it reads.
LEMMA AtRun ==
  ASSUME Inv, NEW p \in Procs, proc[p].pc \in Running
  PROVE  /\ proc[p] \in Calls /\ proc[p].hand \in Hands /\ proc[p].service \in Services
         /\ log[proc[p].hand] \in Positions
         /\ CallOK(proc[p], log[proc[p].hand])
         /\ Cursor(p).checkpoint \in Positions /\ Cursor(p).snapshot \in Snapshots
         /\ PrefixAt(Cursor(p), log[proc[p].hand])
  BY DEF Inv, TypeOK, CallsOK, CursorIsPrefix, Cursor, Calls

LEMMA LoadCheckpointStep ==
  ASSUME Inv, NEW p \in Procs, LoadCheckpoint(p) PROVE Inv'
<1>1. proc[p].pc = "checkpoint" /\ proc[p].pc \in Running
  BY DEF LoadCheckpoint, Running
<1> DEFINE q == [proc[p] EXCEPT !.checkpoint = Cursor(p).checkpoint, !.pc = "snapshot"]
<1>2. /\ q \in Calls /\ q.pc = "snapshot" /\ q.hand = proc[p].hand /\ q.service = proc[p].service
      /\ q.checkpoint = Cursor(p).checkpoint /\ q.seen = proc[p].seen
      /\ q.material = proc[p].material
  BY <1>1, AtRun DEF Calls
<1>3. proc' = [proc EXCEPT ![p] = q]
  BY DEF LoadCheckpoint, Inv, TypeOK
<1> HIDE DEF q
<1>4. CallFits(q)
  BY <1>1, <1>2, AtRun DEF CallFits, CallOK, Loaded, PrefixAt
<1>5. UNCHANGED <<log, cursor, counted, applied, reviewed>> /\ rebuilds' \in Nat /\ crashes' \in Nat
  BY DEF LoadCheckpoint, Inv, TypeOK
<1> QED BY <1>2, <1>3, <1>4, <1>5, CallMoves

LEMMA LoadSnapshotStep ==
  ASSUME Inv, NEW p \in Procs, LoadSnapshot(p) PROVE Inv'
<1>1. proc[p].pc = "snapshot" /\ proc[p].pc \in Running
  BY DEF LoadSnapshot, Running
<1>2. UNCHANGED <<log, cursor, counted, applied, reviewed>> /\ rebuilds' \in Nat /\ crashes' \in Nat
  BY DEF LoadSnapshot, Inv, TypeOK
<1>3. CASE Cursor(p).snapshot.sequence = proc[p].checkpoint
  <2> DEFINE q == [proc[p] EXCEPT !.snapshot = Cursor(p).snapshot, !.pc = "read"]
  <2>1. /\ q \in Calls /\ q.pc = "read" /\ q.hand = proc[p].hand /\ q.service = proc[p].service
        /\ q.checkpoint = proc[p].checkpoint /\ q.seen = proc[p].seen
        /\ q.material = proc[p].material /\ q.snapshot = Cursor(p).snapshot
    BY <1>1, AtRun DEF Calls
  <2>2. proc' = [proc EXCEPT ![p] = q]
    BY <1>3 DEF LoadSnapshot, Inv, TypeOK
  <2> HIDE DEF q
  <2>3. q.snapshot = [sequence |-> q.checkpoint, eventIds |-> UpTo(q.checkpoint)]
    <3>1. Cursor(p).snapshot =
            [sequence |-> Cursor(p).checkpoint, eventIds |-> UpTo(Cursor(p).checkpoint)]
      BY <1>1, AtRun DEF PrefixAt
    <3> QED BY <1>3, <2>1, <3>1
  <2>4. CallFits(q)
    BY <1>1, <2>1, <2>3, AtRun DEF CallFits, CallOK
  <2> QED BY <1>2, <2>1, <2>2, <2>4, CallMoves
<1>4. CASE Cursor(p).snapshot.sequence # proc[p].checkpoint
  <2>1. proc' = [proc EXCEPT ![p] = Idle]
    BY <1>4 DEF LoadSnapshot
  <2>2. Idle \in Calls /\ CallFits(Idle)
    BY IdleOK, NotRunning DEF Idle
  <2> QED BY <1>2, <2>1, <2>2, CallMoves
<1> QED BY <1>3, <1>4

\* Wherever a loaded call goes next, it fits the stream it has read.
LEMMA CaughtFits ==
  ASSUME NEW q \in Calls, NEW seen \in Positions, NEW n \in Positions,
         seen <= n, q.checkpoint <= n, q.material <= n,
         q.snapshot = [sequence |-> q.checkpoint, eventIds |-> UpTo(q.checkpoint)],
         q.service = "review" => q.material = Length
  PROVE  /\ [q EXCEPT !.seen = seen, !.pc = Caught(q, seen)] \in Calls
         /\ CallOK([q EXCEPT !.seen = seen, !.pc = Caught(q, seen)], n)
<1>1. q.checkpoint \in Positions /\ q.service \in Services
  BY DEF Calls
<1>2. /\ Caught(q, seen) \in {"apply", "contribute", "store"}
      /\ Caught(q, seen) = "apply" => q.checkpoint < seen
      /\ Caught(q, seen) = "contribute" => q.service = "stats"
      /\ Caught(q, seen) = "store" => q.service = "review"
  BY <1>1 DEF Caught, Services
<1> DEFINE r == [q EXCEPT !.seen = seen, !.pc = Caught(q, seen)]
<1>3. /\ r \in Calls /\ r.pc = Caught(q, seen) /\ r.seen = seen /\ r.checkpoint = q.checkpoint
      /\ r.material = q.material /\ r.snapshot = q.snapshot /\ r.service = q.service
  BY <1>2 DEF Calls
<1> HIDE DEF r
<1>4. CallOK(r, n)
  BY <1>2, <1>3 DEF CallOK
<1> QED BY <1>3, <1>4 DEF r

LEMMA ReadEventsStep ==
  ASSUME Inv, NEW p \in Procs, ReadEvents(p) PROVE Inv'
<1>1. proc[p].pc = "read" /\ proc[p].pc \in Running /\ proc[p].pc \in Loaded
  BY DEF ReadEvents, Running, Loaded
<1> DEFINE n == log[proc[p].hand]
           q == [proc[p] EXCEPT !.seen = n, !.pc = Caught(proc[p], n)]
<1>2. proc[p] \in Calls /\ proc[p].hand \in Hands /\ n \in Positions /\ CallOK(proc[p], n)
  BY <1>1, AtRun
<1>3. q \in Calls /\ CallOK(q, n)
  <2>1. n <= n
    BY <1>2, ProjectionsAssumption DEF Positions
  <2>2. /\ proc[p].checkpoint <= n /\ proc[p].material <= n
        /\ proc[p].snapshot = [sequence |-> proc[p].checkpoint, eventIds |-> UpTo(proc[p].checkpoint)]
        /\ proc[p].service = "review" => proc[p].material = Length
    BY <1>1, <1>2 DEF CallOK
  <2> QED BY <1>2, <2>1, <2>2, CaughtFits
<1>4. q.hand = proc[p].hand
  BY <1>2 DEF Calls
<1>5. proc' = [proc EXCEPT ![p] = q]
  BY DEF ReadEvents, Inv, TypeOK
<1> HIDE DEF q
<1>6. CallFits(q)
  BY <1>2, <1>3, <1>4 DEF CallFits
<1>7. UNCHANGED <<log, cursor, counted, applied, reviewed>> /\ rebuilds' \in Nat /\ crashes' \in Nat
  BY DEF ReadEvents, Inv, TypeOK
<1> QED BY <1>3, <1>5, <1>6, <1>7, CallMoves

\* The next snapshot is the prefix one event longer.
LEMMA ProjectedOK ==
  ASSUME NEW q \in Calls, NEW n \in Positions, CallOK(q, n), q.pc = "apply"
  PROVE  /\ q.checkpoint + 1 \in Positions /\ q.checkpoint + 1 <= n
         /\ Projected(q) \in Snapshots
         /\ Projected(q) = [sequence |-> q.checkpoint + 1, eventIds |-> UpTo(q.checkpoint + 1)]
<1>1. q.checkpoint \in Positions /\ q.seen \in Positions
  BY DEF Calls
<1>2. q.checkpoint < q.seen /\ q.seen <= n
      /\ q.snapshot = [sequence |-> q.checkpoint, eventIds |-> UpTo(q.checkpoint)]
  BY DEF CallOK, Loaded
<1>3. q.checkpoint + 1 \in Positions /\ q.checkpoint + 1 <= n /\ q.checkpoint < Length
  BY <1>1, <1>2, ProjectionsAssumption DEF Positions
<1>4. q.snapshot.eventIds = UpTo(q.checkpoint)
  BY <1>2
<1>5. Append(q.snapshot.eventIds, q.checkpoint + 1) = UpTo(q.checkpoint + 1)
  BY <1>1, <1>3, <1>4, UpToGrows
<1>6. Projected(q) = [sequence |-> q.checkpoint + 1, eventIds |-> UpTo(q.checkpoint + 1)]
  BY <1>5 DEF Projected
<1>7. UpTo(q.checkpoint + 1) \in Seq(1..Length)
  BY <1>3, UpToType
<1> QED BY <1>3, <1>6, <1>7 DEF Snapshots

LEMMA ApplyStep ==
  ASSUME Inv, NEW p \in Procs, Apply(p) PROVE Inv'
<1> DEFINE c == proc[p]
           h == proc[p].hand
           moved == [c EXCEPT !.checkpoint = @ + 1, !.snapshot = Projected(c)]
           row == [checkpoint |-> c.checkpoint + 1, snapshot |-> Projected(c)]
<1>1. c.pc = "apply" /\ c.pc \in Running /\ c.pc \in Loaded
  BY DEF Apply, Running, Loaded
<1>2. /\ c \in Calls /\ h \in Hands /\ c.service \in Services /\ log[h] \in Positions
      /\ CallOK(c, log[h])
  BY <1>1, AtRun
<1>3. /\ c.checkpoint + 1 \in Positions /\ c.checkpoint + 1 <= log[h] /\ Projected(c) \in Snapshots
      /\ Projected(c) = [sequence |-> c.checkpoint + 1, eventIds |-> UpTo(c.checkpoint + 1)]
  BY <1>1, <1>2, ProjectedOK
<1>4. /\ moved \in Calls /\ moved.checkpoint = c.checkpoint + 1 /\ moved.snapshot = Projected(c)
      /\ moved.seen = c.seen /\ moved.material = c.material /\ moved.service = c.service
      /\ moved.hand = h
  BY <1>2, <1>3 DEF Calls
<1>5. /\ c.seen \in Positions /\ c.seen <= log[h] /\ c.material <= log[h]
      /\ c.service = "review" => c.material = Length
  BY <1>1, <1>2 DEF CallOK, Calls
<1> HIDE DEF moved
<1>6. /\ [moved EXCEPT !.seen = c.seen, !.pc = Caught(moved, c.seen)] \in Calls
      /\ CallOK([moved EXCEPT !.seen = c.seen, !.pc = Caught(moved, c.seen)], log[h])
  BY <1>2, <1>3, <1>4, <1>5, CaughtFits
<1>7. [moved EXCEPT !.seen = c.seen, !.pc = Caught(moved, c.seen)] = Advance(c)
  BY <1>4 DEF Advance, moved, Calls
<1> DEFINE q == Advance(c)
<1>8. q \in Calls /\ CallOK(q, log[h])
  BY <1>6, <1>7
<1>9. q.hand = h
  BY <1>4, <1>7 DEF Calls
<1>10. /\ proc' = [proc EXCEPT ![p] = q]
       /\ cursor' = [cursor EXCEPT ![c.service][h] = row]
       /\ UNCHANGED <<log, counted, applied, reviewed, rebuilds, crashes>>
  BY DEF Apply
<1>11. row \in [checkpoint : Positions, snapshot : Snapshots] /\ PrefixAt(row, log[h])
  BY <1>3 DEF PrefixAt
<1> HIDE DEF q, row, c, h
<1>12. /\ cursor' \in [Services -> [Hands -> [checkpoint : Positions, snapshot : Snapshots]]]
       /\ \A k \in Services, g \in Hands :
            cursor'[k][g] = IF k = c.service /\ g = h THEN row ELSE cursor[k][g]
  <2>1. cursor \in [Services -> [Hands -> [checkpoint : Positions, snapshot : Snapshots]]]
    BY DEF Inv, TypeOK
  <2> QED BY <1>2, <1>10, <1>11, <2>1
<1>13. TypeOK'
  BY <1>8, <1>10, <1>12 DEF Inv, TypeOK
<1>14. CursorIsPrefix'
  BY <1>2, <1>10, <1>11, <1>12 DEF Inv, CursorIsPrefix
<1>15. CountedOnce' /\ ReviewsAreFinal'
  BY <1>10 DEF Inv, CountedOnce, ReviewsAreFinal
<1>16. CallsOK'
  BY <1>2, <1>8, <1>9, <1>10 DEF Inv, CallsOK, TypeOK
<1> QED BY <1>13, <1>14, <1>15, <1>16 DEF Inv

-----------------------------------------------------------------------------
(* Ends of a call, and what the services store. *)

\* A call that ends, by a conflict, a crash or its last store.
LEMMA EndStep ==
  ASSUME Inv, NEW p \in Procs, Conflict(p) \/ Crash(p) PROVE Inv'
<1>1. Idle \in Calls /\ CallFits(Idle)
  BY IdleOK, NotRunning DEF Idle
<1>2. /\ proc' = [proc EXCEPT ![p] = Idle] /\ UNCHANGED <<log, cursor, counted, applied, reviewed>>
      /\ rebuilds' \in Nat /\ crashes' \in Nat
  BY DEF Conflict, Crash, Inv, TypeOK
<1> QED BY <1>1, <1>2, CallMoves

LEMMA ReadContributionStep ==
  ASSUME Inv, NEW p \in Procs, ReadContribution(p) PROVE Inv'
<1>1. proc[p].pc = "contribute" /\ proc[p].pc \in Running /\ proc[p].pc \in Loaded
  BY DEF ReadContribution, Running, Loaded
<1>2. UNCHANGED <<log, cursor, counted, applied, reviewed>> /\ rebuilds' \in Nat /\ crashes' \in Nat
  BY DEF ReadContribution, Inv, TypeOK
<1> DEFINE n == log[proc[p].hand]
<1>3. CASE n = 0
  <2>1. proc' = [proc EXCEPT ![p] = Idle]
    BY <1>3 DEF ReadContribution
  <2>2. Idle \in Calls /\ CallFits(Idle)
    BY IdleOK, NotRunning DEF Idle
  <2> QED BY <1>2, <2>1, <2>2, CallMoves
<1>4. CASE n # 0
  <2> DEFINE q == [proc[p] EXCEPT !.material = n, !.pc = "store"]
  <2>1. proc[p] \in Calls /\ proc[p].hand \in Hands /\ n \in Positions /\ CallOK(proc[p], n)
    BY <1>1, AtRun
  <2>2. /\ q \in Calls /\ q.pc = "store" /\ q.hand = proc[p].hand /\ q.service = proc[p].service
        /\ q.checkpoint = proc[p].checkpoint /\ q.seen = proc[p].seen /\ q.material = n
        /\ q.snapshot = proc[p].snapshot
    BY <2>1 DEF Calls
  <2>3. proc' = [proc EXCEPT ![p] = q]
    BY <1>4 DEF ReadContribution, Inv, TypeOK
  <2>4. n > 0 /\ n <= n
    BY <1>4, <2>1, ProjectionsAssumption DEF Positions
  <2>5. proc[p].service # "review"
    BY <1>1, <2>1 DEF CallOK
  <2> HIDE DEF q
  <2>6. CallFits(q)
    BY <1>1, <2>1, <2>2, <2>4, <2>5 DEF CallFits, CallOK
  <2> QED BY <1>2, <2>2, <2>3, <2>6, CallMoves
<1> QED BY <1>3, <1>4

\* The hand is added to a count of zero, or was applied before.
LEMMA StoreStatsStep ==
  ASSUME Inv, NEW p \in Procs, StoreStats(p) PROVE Inv'
<1> DEFINE h == proc[p].hand
           k == proc[p].material
<1>1. proc[p].pc = "store" /\ proc[p].pc \in Running /\ proc[p].service = "stats"
  BY DEF StoreStats, Running, Loaded
<1>2. h \in Hands /\ log[h] \in Positions /\ k \in Positions /\ k > 0 /\ k <= log[h]
  BY <1>1, AtRun DEF CallOK, Calls
<1>3. /\ counted' = [counted EXCEPT ![h] = IF h \in applied THEN @ ELSE @ + k]
      /\ applied' = applied \union {h}
      /\ proc' = [proc EXCEPT ![p] = Remaining(proc[p])]
      /\ UNCHANGED <<log, cursor, reviewed, rebuilds, crashes>>
  BY DEF StoreStats, Inv, TypeOK
<1>4. Remaining(proc[p]) \in Calls /\ Remaining(proc[p]).pc \in {"idle", "discard"}
  BY IdleOK DEF Remaining, Inv, TypeOK, Calls, Idle
<1>5. \A g \in Hands : counted[g] \in Nat /\ (counted[g] > 0 <=> g \in applied) /\ counted[g] <= log[g]
  BY DEF Inv, TypeOK, CountedOnce
<1> HIDE DEF h, k
<1>6. counted' \in [Hands -> Nat] /\ applied' \subseteq Hands
  <2>1. counted \in [Hands -> Nat] /\ applied \subseteq Hands
    BY DEF Inv, TypeOK
  <2> QED BY <1>2, <1>3, <2>1, ProjectionsAssumption DEF Positions
<1>7. TypeOK'
  BY <1>3, <1>4, <1>6 DEF Inv, TypeOK
<1>8. CountedOnce'
  <2> SUFFICES ASSUME NEW g \in Hands
               PROVE  counted'[g] <= log[g] /\ (counted'[g] > 0 <=> g \in applied')
    BY <1>3 DEF CountedOnce
  <2>1. counted \in [Hands -> Nat]
    BY DEF Inv, TypeOK
  <2>2. CASE g = h
    <3>1. counted'[g] = IF h \in applied THEN counted[h] ELSE counted[h] + k
      BY <1>3, <2>1, <2>2
    <3>2. g \in applied'
      BY <1>3, <2>2
    <3> QED BY <1>2, <1>5, <2>2, <3>1, <3>2, ProjectionsAssumption DEF Positions
  <2>3. CASE g # h
    BY <1>3, <1>5, <2>1, <2>3
  <2> QED BY <2>2, <2>3
<1>9. CursorIsPrefix' /\ ReviewsAreFinal'
  BY <1>3 DEF Inv, CursorIsPrefix, ReviewsAreFinal
<1>10. CallsOK'
  BY <1>3, <1>4 DEF Inv, CallsOK, TypeOK, Running, Loaded
<1> QED BY <1>7, <1>8, <1>9, <1>10 DEF Inv

\* What is stored is a whole hand.
LEMMA StoreReviewStep ==
  ASSUME Inv, NEW p \in Procs, StoreReview(p) PROVE Inv'
<1> DEFINE h == proc[p].hand
<1>1. proc[p].pc = "store" /\ proc[p].pc \in Running /\ proc[p].service = "review"
  BY DEF StoreReview, Running, Loaded
<1>2. h \in Hands /\ proc[p].material = Length
  BY <1>1, AtRun DEF CallOK
<1>3. /\ reviewed' = [reviewed EXCEPT ![h] = IF @ = 0 THEN proc[p].material ELSE @]
      /\ proc' = [proc EXCEPT ![p] = Idle]
      /\ UNCHANGED <<log, cursor, counted, applied, rebuilds, crashes>>
  BY DEF StoreReview
<1> HIDE DEF h
<1>4. TypeOK'
  BY <1>2, <1>3, IdleOK, ProjectionsAssumption DEF Inv, TypeOK, Positions
<1>5. CursorIsPrefix' /\ CountedOnce'
  BY <1>3 DEF Inv, CursorIsPrefix, CountedOnce
<1>6. ReviewsAreFinal'
  BY <1>2, <1>3 DEF Inv, ReviewsAreFinal, TypeOK
<1>7. Idle.pc \notin Running
  BY DEF Idle, Running, Loaded
<1>8. CallsOK'
  BY <1>3, <1>7 DEF Inv, CallsOK, TypeOK
<1> QED BY <1>4, <1>5, <1>6, <1>8 DEF Inv

-----------------------------------------------------------------------------
LEMMA Inductive == Inv /\ [Next]_vars => Inv'
<1> SUFFICES ASSUME Inv, [Next]_vars PROVE Inv'
  OBVIOUS
<1>1. CASE UNCHANGED vars
  BY <1>1 DEF Inv, vars, TypeOK, CursorIsPrefix, CountedOnce, ReviewsAreFinal, CallsOK
<1>2. ASSUME NEW h \in Hands, AppendEvent(h) PROVE Inv'
  BY <1>2, AppendEventStep
<1>3. ASSUME NEW p \in Procs, NEW h \in Hands, StartStats(p, h) \/ StartReview(p, h) PROVE Inv'
  BY <1>3, StartStatsStep, StartReviewStep
<1>4. ASSUME NEW p \in Procs, NEW hands \in SUBSET Hands, StartRebuild(p, hands) PROVE Inv'
  BY <1>4, StartRebuildStep
<1>5. ASSUME NEW p \in Procs, Step(p) PROVE Inv'
  BY <1>5, DiscardCursorStep, LoadCheckpointStep, LoadSnapshotStep, ReadEventsStep, ApplyStep,
     EndStep, ReadContributionStep, StoreStatsStep, StoreReviewStep DEF Step
<1>6. ASSUME NEW p \in Procs, Crash(p) PROVE Inv'
  BY <1>6, EndStep
<1> QED BY <1>1, <1>2, <1>3, <1>4, <1>5, <1>6 DEF Next

\* Tables and calls stay well formed for any hands, processes and crashes.
THEOREM TypesHold == Spec => []TypeOK
<1>1. Inv => TypeOK
  BY DEF Inv
<1> QED BY <1>1, Initially, Inductive, PTL DEF Spec

\* Every cursor is the fold of a prefix of its stream, however many runs,
\* rebuilds, conflicts and crashes there are.
THEOREM CursorsArePrefixes == Spec => []CursorIsPrefix
<1>1. Inv => CursorIsPrefix
  BY DEF Inv
<1> QED BY <1>1, Initially, Inductive, PTL DEF Spec

\* No hand is ever counted twice or beyond its stream.
THEOREM HandsCountedOnce == Spec => []CountedOnce
<1>1. Inv => CountedOnce
  BY DEF Inv
<1> QED BY <1>1, Initially, Inductive, PTL DEF Spec

\* A stored review is made from the whole hand.
THEOREM ReviewsOfWholeHands == Spec => []ReviewsAreFinal
<1>1. Inv => ReviewsAreFinal
  BY DEF Inv
<1> QED BY <1>1, Initially, Inductive, PTL DEF Spec

\* The read models as a whole: in every reachable state the cursors are folds
\* of prefixes, no hand counts twice and every stored review is of a whole hand.
THEOREM ReadModelsHold == Spec => []ReadModelsSafe
<1>1. Inv => ReadModelsSafe
  BY DEF Inv, ReadModelsSafe
<1> QED BY <1>1, Initially, Inductive, PTL DEF Spec
-----------------------------------------------------------------------------
(* What is counted of a hand that is applied only when it is over. *)

WholeHand(h) == h \notin EarlyHands => log[h] = Length
CallWhole(q) ==
  /\ \A h \in q.todo : WholeHand(h)
  /\ q.pc \in Running /\ q.service = "stats" =>
       /\ WholeHand(q.hand)
       /\ q.pc = "store" /\ q.hand \notin EarlyHands => q.material = Length
WInv == RebuildEqualsIncremental /\ \A p \in Procs : CallWhole(proc[p])

\* A step that moves one call and counts nothing.
LEMMA WholeMoves ==
  ASSUME Inv, WInv, NEW p \in Procs, NEW q, CallWhole(q),
         proc' = [proc EXCEPT ![p] = q], UNCHANGED <<log, counted, applied>>
  PROVE  WInv'
<1>1. \A r \in Procs : proc'[r] = IF r = p THEN q ELSE proc[r]
  BY DEF Inv, TypeOK
<1>2. \A r \in Procs : CallWhole(proc'[r])
  BY <1>1 DEF WInv
<1>3. (\A r \in Procs : CallWhole(proc[r]))'
  BY <1>2 DEF CallWhole, WholeHand
<1>4. RebuildEqualsIncremental'
  BY DEF WInv, RebuildEqualsIncremental
<1> QED BY <1>3, <1>4 DEF WInv

LEMMA IdleWhole == CallWhole(Idle)
  BY DEF CallWhole, Idle, Running, Loaded

\* The call of an applied hand that is over, or of a review.
LEMMA CallIsWhole ==
  ASSUME NEW k \in Services, NEW h \in Hands, NEW todo \in SUBSET Hands, NEW n \in Positions,
         WholeHand(h) \/ k = "review", \A g \in todo : WholeHand(g)
  PROVE  CallWhole(Call(k, h, todo, n))
<1>1. Call(k, h, todo, n).todo = todo
  BY DEF Call
<1> QED BY <1>1, CallType DEF CallWhole

LEMMA WholeStart ==
  ASSUME Inv, WInv, NEW p \in Procs, NEW h \in Hands, StartStats(p, h) \/ StartReview(p, h)
  PROVE  WInv'
<1>1. log[h] \in Positions /\ 0 \in Positions
  BY ProjectionsAssumption DEF Inv, TypeOK, Positions
<1>2. CASE StartStats(p, h)
  <2>1. WholeHand(h)
    BY <1>2 DEF StartStats, WholeHand, Complete
  <2>2. CallWhole(Call("stats", h, {}, 0))
    BY <1>1, <2>1, CallIsWhole DEF Services
  <2> QED BY <1>2, <2>2, WholeMoves DEF StartStats
<1>3. CASE StartReview(p, h)
  <2>1. CallWhole(Call("review", h, {}, log[h]))
    BY <1>1, CallIsWhole DEF Services
  <2> QED BY <1>3, <2>1, WholeMoves DEF StartReview
<1> QED BY <1>2, <1>3

LEMMA WholeRebuild ==
  ASSUME Inv, WInv, NEW p \in Procs, NEW hands \in SUBSET Hands, StartRebuild(p, hands)
  PROVE  WInv'
<1> DEFINE q == [Idle EXCEPT !.pc = "discard", !.todo = hands]
<1>1. q.pc = "discard" /\ q.todo = hands
  BY DEF Idle
<1>2. \A h \in hands : WholeHand(h)
  BY DEF StartRebuild, WholeHand, Complete
<1>3. proc' = [proc EXCEPT ![p] = q] /\ log' = log /\ applied' = {}
  BY DEF StartRebuild
<1> HIDE DEF q
<1>4. CallWhole(q)
  BY <1>1, <1>2 DEF CallWhole, Running, Loaded
<1>5. \A r \in Procs : proc'[r] = IF r = p THEN q ELSE proc[r]
  BY <1>3 DEF Inv, TypeOK
<1>6. \A r \in Procs : CallWhole(proc'[r])
  BY <1>4, <1>5 DEF WInv
<1>7. (\A r \in Procs : CallWhole(proc[r]))'
  BY <1>3, <1>6 DEF CallWhole, WholeHand
<1>8. RebuildEqualsIncremental'
  BY <1>3 DEF RebuildEqualsIncremental
<1> QED BY <1>7, <1>8 DEF WInv

LEMMA WholeDiscard ==
  ASSUME Inv, WInv, NEW p \in Procs, DiscardCursor(p)
  PROVE  WInv'
<1>1. PICK h \in proc[p].todo : proc' = [proc EXCEPT ![p] = Call("stats", h, proc[p].todo \ {h}, 0)]
  BY DEF DiscardCursor
<1>2. /\ proc[p].todo \in SUBSET Hands /\ proc[p].todo \ {h} \in SUBSET Hands /\ h \in Hands
      /\ 0 \in Positions
  BY ProjectionsAssumption DEF Inv, TypeOK, Calls, Positions
<1>3. \A g \in proc[p].todo : WholeHand(g)
  BY DEF WInv, CallWhole
<1>4. CallWhole(Call("stats", h, proc[p].todo \ {h}, 0))
  BY <1>2, <1>3, CallIsWhole DEF Services
<1> QED BY <1>1, <1>4, WholeMoves DEF DiscardCursor

\* A step of a running call, which keeps its hand, what is left to do and, short of
\* the contribution it reads, its material.
LEMMA WholeRuns ==
  ASSUME Inv, WInv, NEW p \in Procs,
         \/ LoadCheckpoint(p) \/ LoadSnapshot(p) \/ ReadEvents(p) \/ Apply(p) \/ Conflict(p)
         \/ ReadContribution(p) \/ Crash(p)
  PROVE  WInv'
<1> DEFINE c == proc[p]
<1>0. c \in Calls /\ CallWhole(c) /\ UNCHANGED <<log, counted, applied>>
  BY DEF Inv, TypeOK, WInv, LoadCheckpoint, LoadSnapshot, ReadEvents, Apply, Conflict, ReadContribution,
         Crash
<1>1. CASE proc' = [proc EXCEPT ![p] = Idle]
  BY <1>0, <1>1, IdleWhole, WholeMoves
<1>2. ASSUME NEW q, proc' = [proc EXCEPT ![p] = q], c.pc \in Running,
             q.todo = c.todo, q.service = c.service, q.hand = c.hand,
             q.pc = "store" /\ q.service = "stats" => q.material = log[c.hand]
      PROVE  WInv'
  <2>1. CallWhole(q)
    BY <1>0, <1>2 DEF CallWhole, WholeHand
  <2> QED BY <1>0, <1>2, <2>1, WholeMoves
<1>3. CASE LoadCheckpoint(p)
  <2> DEFINE q == [c EXCEPT !.checkpoint = Cursor(p).checkpoint, !.pc = "snapshot"]
  <2>1. q.todo = c.todo /\ q.service = c.service /\ q.hand = c.hand /\ q.pc = "snapshot"
    BY <1>0 DEF Calls
  <2>2. proc' = [proc EXCEPT ![p] = q] /\ c.pc \in Running
    BY <1>3 DEF LoadCheckpoint, Running
  <2> HIDE DEF q
  <2> QED BY <1>2, <2>1, <2>2
<1>4. CASE LoadSnapshot(p)
  <2> DEFINE q == [c EXCEPT !.snapshot = Cursor(p).snapshot, !.pc = "read"]
  <2>1. q.todo = c.todo /\ q.service = c.service /\ q.hand = c.hand /\ q.pc = "read"
    BY <1>0 DEF Calls
  <2>2. (proc' = [proc EXCEPT ![p] = q] \/ proc' = [proc EXCEPT ![p] = Idle]) /\ c.pc \in Running
    BY <1>4 DEF LoadSnapshot, Running
  <2> HIDE DEF q
  <2> QED BY <1>1, <1>2, <2>1, <2>2
<1>5. CASE ReadEvents(p)
  <2> DEFINE n == log[c.hand]
             q == [c EXCEPT !.seen = n, !.pc = Caught(c, n)]
  <2>1. /\ q.todo = c.todo /\ q.service = c.service /\ q.hand = c.hand
        /\ q.pc = Caught(c, n)
    BY <1>0 DEF Calls
  <2>2. proc' = [proc EXCEPT ![p] = q] /\ c.pc \in Running
    BY <1>5 DEF ReadEvents, Running, Loaded
  <2>3. c.service = "stats" => Caught(c, n) # "store"
    BY DEF Caught
  <2> HIDE DEF q
  <2> QED BY <1>2, <2>1, <2>2, <2>3
<1>6. CASE Apply(p)
  <2> DEFINE q == Advance(c)
  <2>1. q.todo = c.todo /\ q.service = c.service /\ q.hand = c.hand
    BY <1>0 DEF Calls, Advance
  <2>2. c.service = "stats" => q.pc # "store"
    BY <1>0 DEF Calls, Advance, Caught
  <2>3. proc' = [proc EXCEPT ![p] = q] /\ c.pc \in Running
    BY <1>6 DEF Apply, Running, Loaded, Inv, TypeOK
  <2> HIDE DEF q
  <2> QED BY <1>2, <2>1, <2>2, <2>3
<1>7. CASE Conflict(p) \/ Crash(p)
  BY <1>1, <1>7 DEF Conflict, Crash
<1>8. CASE ReadContribution(p)
  <2> DEFINE q == [c EXCEPT !.material = log[c.hand], !.pc = "store"]
  <2>1. q.todo = c.todo /\ q.service = c.service /\ q.hand = c.hand /\ q.material = log[c.hand]
    BY <1>0 DEF Calls
  <2>2. (proc' = [proc EXCEPT ![p] = q] \/ proc' = [proc EXCEPT ![p] = Idle]) /\ c.pc \in Running
    BY <1>8 DEF ReadContribution, Running, Loaded
  <2> HIDE DEF q
  <2> QED BY <1>1, <1>2, <2>1, <2>2
<1> QED BY <1>3, <1>4, <1>5, <1>6, <1>7, <1>8

\* A hand that was not applied has no count, and then counts as a whole.
LEMMA WholeStores ==
  ASSUME Inv, WInv, NEW p \in Procs, StoreStats(p) \/ StoreReview(p)
  PROVE  WInv'
<1>1. CASE StoreReview(p)
  BY <1>1, IdleWhole, WholeMoves DEF StoreReview
<1>2. CASE StoreStats(p)
  <2> DEFINE c == proc[p]
             h == c.hand
             q == Remaining(c)
  <2>1. c.pc = "store" /\ c.pc \in Running /\ c.service = "stats"
    BY <1>2 DEF StoreStats, Running, Loaded
  <2>2. c \in Calls /\ h \in Hands /\ c.material \in Positions
    BY <2>1, AtRun DEF Calls
  <2>3. h \notin EarlyHands => c.material = Length
    BY <2>1 DEF WInv, CallWhole
  <2>4. /\ counted' = [counted EXCEPT ![h] = IF h \in applied THEN counted[h] ELSE counted[h] + c.material]
        /\ applied' = applied \union {h} /\ proc' = [proc EXCEPT ![p] = q] /\ log' = log
    BY <1>2, <2>2 DEF StoreStats, Inv, TypeOK
  <2>5. CallWhole(q)
    <3>1. \A g \in c.todo : WholeHand(g)
      BY DEF WInv, CallWhole
    <3>2. CASE c.todo = {}
      BY <3>2, IdleWhole DEF Remaining
    <3>3. CASE c.todo # {}
      <4> DEFINE r == [Idle EXCEPT !.pc = "discard", !.todo = c.todo]
      <4>1. q = r /\ r.pc = "discard" /\ r.todo = c.todo
        BY <3>3 DEF Remaining, Idle
      <4> HIDE DEF r, q
      <4>2. QED
        BY <3>1, <4>1 DEF CallWhole, Running, Loaded
    <3> QED BY <3>2, <3>3
  <2> HIDE DEF q
  <2>6. (\A r \in Procs : CallWhole(proc[r]))'
    <3>1. \A r \in Procs : proc'[r] = IF r = p THEN q ELSE proc[r]
      BY <2>4 DEF Inv, TypeOK
    <3>2. \A r \in Procs : CallWhole(proc'[r])
      BY <2>5, <3>1 DEF WInv
    <3> QED BY <2>4, <3>2 DEF CallWhole, WholeHand
  <2>7. ASSUME NEW g \in applied', g \notin EarlyHands PROVE counted'[g] = Length
    <3>1. counted \in [Hands -> Nat] /\ applied \subseteq Hands
      BY DEF Inv, TypeOK
    <3>2. CASE g \in applied
      <4>1. counted[g] = Length
        BY <2>7, <3>2 DEF WInv, RebuildEqualsIncremental
      <4> QED BY <2>4, <3>1, <3>2, <4>1
    <3>3. CASE g \notin applied
      <4>1. g = h /\ counted[h] = 0
        <5>1. g = h
          BY <2>4, <2>7, <3>3
        <5>2. counted[h] \in Nat /\ ~(counted[h] > 0)
          BY <2>2, <3>1, <3>3, <5>1 DEF Inv, CountedOnce
        <5> QED BY <5>1, <5>2
      <4>2. c.material = Length
        BY <2>3, <2>7, <4>1
      <4>3. counted'[g] = 0 + Length
        BY <2>2, <2>4, <3>1, <3>3, <4>1, <4>2
      <4> QED BY <4>3, ProjectionsAssumption
    <3> QED BY <3>2, <3>3
  <2> QED BY <2>6, <2>7 DEF WInv, RebuildEqualsIncremental
<1> QED BY <1>1, <1>2

\* A hand that is over does not grow.
LEMMA WholeAppend == ASSUME Inv, WInv, NEW h \in Hands, AppendEvent(h) PROVE WInv'
<1>1. /\ log' = [log EXCEPT ![h] = log[h] + 1] /\ log[h] < Length /\ log[h] \in Nat
      /\ UNCHANGED <<counted, applied, proc>>
  BY ProjectionsAssumption DEF AppendEvent, Inv, TypeOK, Positions
<1>2. ASSUME NEW g, WholeHand(g) PROVE g \notin EarlyHands => log'[g] = Length
  <2>1. CASE g = h
    BY <1>1, <1>2, <2>1, ProjectionsAssumption DEF WholeHand
  <2>2. CASE g # h
    BY <1>1, <1>2, <2>2 DEF WholeHand, Inv, TypeOK
  <2> QED BY <2>1, <2>2
<1>3. ASSUME NEW p \in Procs PROVE CallWhole(proc[p])'
  <2>1. CallWhole(proc[p]) /\ proc'[p] = proc[p]
    BY <1>1 DEF WInv
  <2> QED BY <1>2, <2>1 DEF CallWhole, WholeHand
<1>4. RebuildEqualsIncremental'
  BY <1>1 DEF WInv, RebuildEqualsIncremental
<1> QED BY <1>3, <1>4 DEF WInv

LEMMA WholeInductive == Inv /\ WInv /\ [Next]_vars => WInv'
<1> SUFFICES ASSUME Inv, WInv, [Next]_vars PROVE WInv'
  OBVIOUS
<1>1. CASE UNCHANGED vars
  BY <1>1 DEF vars, WInv, RebuildEqualsIncremental, CallWhole, WholeHand
<1>2. ASSUME NEW h \in Hands, AppendEvent(h) PROVE WInv'
  BY <1>2, WholeAppend
<1>3. ASSUME NEW p \in Procs, NEW h \in Hands, StartStats(p, h) \/ StartReview(p, h) PROVE WInv'
  BY <1>3, WholeStart
<1>4. ASSUME NEW p \in Procs, NEW hands \in SUBSET Hands, StartRebuild(p, hands) PROVE WInv'
  BY <1>4, WholeRebuild
<1>5. ASSUME NEW p \in Procs, Step(p) PROVE WInv'
  BY <1>5, WholeDiscard, WholeRuns, WholeStores DEF Step
<1>6. ASSUME NEW p \in Procs, Crash(p) PROVE WInv'
  BY <1>6, WholeRuns
<1> QED BY <1>1, <1>2, <1>3, <1>4, <1>5, <1>6 DEF Next

\* Of a hand that callers apply only when it is over, the statistics count what a
\* rebuild counts, all of it and once, in the middle of other calls, rebuilds and
\* crashes too.
THEOREM RebuildsAgree == Spec => []RebuildEqualsIncremental
<1>1. Init => WInv
  <2> SUFFICES ASSUME Init PROVE WInv
    OBVIOUS
  <2>1. RebuildEqualsIncremental
    BY DEF Init, RebuildEqualsIncremental
  <2>2. \A p \in Procs : CallWhole(proc[p])
    BY IdleWhole DEF Init
  <2> QED BY <2>1, <2>2 DEF WInv
<1>2. WInv => RebuildEqualsIncremental
  BY DEF WInv
<1> QED BY <1>1, <1>2, Initially, Inductive, WholeInductive, PTL DEF Spec
=============================================================================
