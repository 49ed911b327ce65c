---------------------------- MODULE Projections ----------------------------
(***************************************************************************)
(* The read models derived from hand events: ProjectionRunner              *)
(* (simulator/recovery.py) over the projection store, and its two users,   *)
(* the session statistics and the automatic reviews.                       *)
(*                                                                         *)
(* A process runs apply_hand of either service, or rebuild of the          *)
(* statistics, one store transaction per step; other processes append,     *)
(* apply, rebuild and die in between.  Event ids and payloads are the      *)
(* positions 1, 2, ... of the events: the cursor's payload is the list of  *)
(* events it has consumed, a contribution the number of events it counts.  *)
(***************************************************************************)
EXTENDS Integers, Sequences
LOCAL INSTANCE TLC

CONSTANTS
  Hands,          \* hands of one session, as numbers
  Length,         \* events of a completed hand
  Procs,          \* processes running the services
  EarlyHands,     \* hands that callers apply while they are still being played
  MaxRebuilds,    \* bound: rebuilds started
  MaxCrashes      \* bound: processes that die in mid call

ASSUME ProjectionsAssumption ==
  /\ Hands \subseteq Nat \ {0}
  /\ Length \in Nat \ {0}
  /\ EarlyHands \subseteq Hands
  /\ MaxRebuilds \in Nat /\ MaxCrashes \in Nat

ProcsAreAlike == Permutations(Procs)  \* the symmetry of a run

VARIABLES
  log,          \* hand_events: number of durable events per hand
  cursor,       \* projection_checkpoints and _snapshots, per identity and hand
  counted,      \* session_stats_snapshots: events counted per hand
  applied,      \* session_stats_applied_hands
  reviewed,     \* automatic_reviews: events the stored review was made from
  proc,         \* the call each process is in
  rebuilds, crashes

vars == <<log, cursor, counted, applied, reviewed, proc, rebuilds, crashes>>

Services == {"stats", "review"}     \* also the identities of their cursors

UpTo(n) == [i \in 1..n |-> i]

\* A snapshot and the checkpoint it belongs to; position 0 is the absent row.
NoSnapshot == [sequence |-> 0, eventIds |-> <<>>]
Discarded == [checkpoint |-> 0, snapshot |-> NoSnapshot]

Idle == [service |-> "stats", hand |-> 0, pc |-> "idle", todo |-> {},
         checkpoint |-> 0, snapshot |-> NoSnapshot, seen |-> 0, material |-> 0]

Init ==
  /\ log = [h \in Hands |-> 0]
  /\ cursor = [k \in Services |-> [h \in Hands |-> Discarded]]
  /\ counted = [h \in Hands |-> 0]
  /\ applied = {}
  /\ reviewed = [h \in Hands |-> 0]
  /\ proc = [p \in Procs |-> Idle]
  /\ rebuilds = 0 /\ crashes = 0

Complete(h) == log[h] = Length

\* The game goes on: an event of hand h becomes durable.
AppendEvent(h) ==
  /\ log[h] < Length
  /\ log' = [log EXCEPT ![h] = @ + 1]
  /\ UNCHANGED <<cursor, counted, applied, reviewed, proc, rebuilds, crashes>>

-----------------------------------------------------------------------------
(* Starting a call *)

\* seen: events the runner reads; material: events the contribution or review
\* is made from.
Call(service, h, todo, material) ==
  [service |-> service, hand |-> h, pc |-> "checkpoint", todo |-> todo,
   checkpoint |-> 0, snapshot |-> NoSnapshot, seen |-> 0, material |-> material]

StartStats(p, h) ==
  /\ proc[p].pc = "idle"
  /\ h \in EarlyHands \/ Complete(h)
  /\ proc' = [proc EXCEPT ![p] = Call("stats", h, {}, 0)]
  /\ UNCHANGED <<log, cursor, counted, applied, reviewed, rebuilds, crashes>>

\* Only a completed stream has a review; otherwise the call returns None.
StartReview(p, h) ==
  /\ proc[p].pc = "idle"
  /\ Complete(h)
  /\ proc' = [proc EXCEPT ![p] = Call("review", h, {}, log[h])]
  /\ UNCHANGED <<log, cursor, counted, applied, reviewed, rebuilds, crashes>>

\* rebuild discards the aggregate, then goes through the hands it was given.
StartRebuild(p, hands) ==
  /\ proc[p].pc = "idle"
  /\ rebuilds < MaxRebuilds /\ rebuilds' = rebuilds + 1
  /\ hands # {} /\ \A h \in hands : h \in EarlyHands \/ Complete(h)
  /\ counted' = [h \in Hands |-> 0]
  /\ applied' = {}
  /\ proc' = [proc EXCEPT ![p] = [Idle EXCEPT !.pc = "discard", !.todo = hands]]
  /\ UNCHANGED <<log, cursor, reviewed, crashes>>

DiscardCursor_KeepsCheckpoint(p) ==   \* mutant: only the snapshot is deleted
  /\ proc[p].pc = "discard"
  /\ \E h \in proc[p].todo :
       /\ cursor' = [cursor EXCEPT !["stats"][h].snapshot = NoSnapshot]
       /\ proc' = [proc EXCEPT ![p] = Call("stats", h, proc[p].todo \ {h}, 0)]
  /\ UNCHANGED <<log, counted, applied, reviewed, rebuilds, crashes>>

\* The hands come in the order the caller lists them in, which is any.
DiscardCursor(p) ==
  /\ proc[p].pc = "discard"
  /\ \E h \in proc[p].todo :
       /\ cursor' = [cursor EXCEPT !["stats"][h] = Discarded]
       /\ proc' = [proc EXCEPT ![p] = Call("stats", h, proc[p].todo \ {h}, 0)]
  /\ UNCHANGED <<log, counted, applied, reviewed, rebuilds, crashes>>

-----------------------------------------------------------------------------
(* ProjectionRunner.run *)

Cursor(p) == cursor[proc[p].service][proc[p].hand]

LoadCheckpoint(p) ==
  /\ proc[p].pc = "checkpoint"
  /\ proc' = [proc EXCEPT ![p].checkpoint = Cursor(p).checkpoint, ![p].pc = "snapshot"]
  /\ UNCHANGED <<log, cursor, counted, applied, reviewed, rebuilds, crashes>>

LoadSnapshot_Unchecked(p) ==   \* mutant: takes whatever snapshot there is
  /\ proc[p].pc = "snapshot"
  /\ proc' = [proc EXCEPT ![p].snapshot = Cursor(p).snapshot, ![p].pc = "read"]
  /\ UNCHANGED <<log, cursor, counted, applied, reviewed, rebuilds, crashes>>

\* ProjectionNeedsRebuild leaves the call, also when the two reads disagree
\* only because another process wrote between them.
LoadSnapshot(p) ==
  /\ proc[p].pc = "snapshot"
  /\ proc' = [proc EXCEPT ![p] =
                IF Cursor(p).snapshot.sequence = proc[p].checkpoint
                THEN [@ EXCEPT !.snapshot = Cursor(p).snapshot, !.pc = "read"]
                ELSE Idle]
  /\ UNCHANGED <<log, cursor, counted, applied, reviewed, rebuilds, crashes>>

\* Where the call goes once its cursor is up to the events it read.
Caught(q, seen) ==
  IF q.checkpoint < seen THEN "apply"
  ELSE IF q.service = "stats" THEN "contribute" ELSE "store"

ReadEvents(p) ==
  /\ proc[p].pc = "read"
  /\ proc' = [proc EXCEPT ![p].seen = log[proc[p].hand],
                          ![p].pc = Caught(proc[p], log[proc[p].hand])]
  /\ UNCHANGED <<log, cursor, counted, applied, reviewed, rebuilds, crashes>>

\* The payload of the next snapshot comes from the caller's copy of the last.
Projected(q) ==
  [sequence |-> q.checkpoint + 1, eventIds |-> Append(q.snapshot.eventIds, q.checkpoint + 1)]

Advance(q) ==
  LET moved == [q EXCEPT !.checkpoint = @ + 1, !.snapshot = Projected(q)]
  IN  [moved EXCEPT !.pc = Caught(moved, q.seen)]

\* apply writes snapshot and checkpoint together if the checkpoint is still
\* where the caller saw it; otherwise checkpoint_conflict leaves the call.
Apply(p) ==
  /\ proc[p].pc = "apply"
  /\ Cursor(p).checkpoint = proc[p].checkpoint
  /\ cursor' = [cursor EXCEPT ![proc[p].service][proc[p].hand] =
                  [checkpoint |-> proc[p].checkpoint + 1, snapshot |-> Projected(proc[p])]]
  /\ proc' = [proc EXCEPT ![p] = Advance(@)]
  /\ UNCHANGED <<log, counted, applied, reviewed, rebuilds, crashes>>

Conflict(p) ==
  /\ proc[p].pc = "apply"
  /\ Cursor(p).checkpoint # proc[p].checkpoint
  /\ proc' = [proc EXCEPT ![p] = Idle]
  /\ UNCHANGED <<log, cursor, counted, applied, reviewed, rebuilds, crashes>>

-----------------------------------------------------------------------------
(* What the services store *)

\* The statistics read the stream again; an empty one is refused.
ReadContribution(p) ==
  /\ proc[p].pc = "contribute"
  /\ proc' = [proc EXCEPT ![p] =
                IF log[proc[p].hand] = 0 THEN Idle
                ELSE [@ EXCEPT !.material = log[proc[p].hand], !.pc = "store"]]
  /\ UNCHANGED <<log, cursor, counted, applied, reviewed, rebuilds, crashes>>

\* On to the next hand of a rebuild, or back to the caller.
Remaining(q) == IF q.todo = {} THEN Idle ELSE [Idle EXCEPT !.pc = "discard", !.todo = q.todo]

StoreStats_Again(p) ==   \* mutant: the applied hand is looked up but not skipped
  /\ proc[p].pc = "store" /\ proc[p].service = "stats"
  /\ counted' = [counted EXCEPT ![proc[p].hand] = @ + proc[p].material]
  /\ applied' = applied \union {proc[p].hand}
  /\ proc' = [proc EXCEPT ![p] = Remaining(@)]
  /\ UNCHANGED <<log, cursor, reviewed, rebuilds, crashes>>

StoreStats(p) ==
  /\ proc[p].pc = "store" /\ proc[p].service = "stats"
  /\ LET h == proc[p].hand IN
     /\ counted' = [counted EXCEPT ![h] = IF h \in applied THEN @ ELSE @ + proc[p].material]
     /\ applied' = applied \union {h}
  /\ proc' = [proc EXCEPT ![p] = Remaining(@)]
  /\ UNCHANGED <<log, cursor, reviewed, rebuilds, crashes>>

StoreReview(p) ==
  /\ proc[p].pc = "store" /\ proc[p].service = "review"
  /\ reviewed' = [reviewed EXCEPT ![proc[p].hand] = IF @ = 0 THEN proc[p].material ELSE @]
  /\ proc' = [proc EXCEPT ![p] = Idle]
  /\ UNCHANGED <<log, cursor, counted, applied, rebuilds, crashes>>

Crash(p) ==
  /\ proc[p].pc # "idle" /\ crashes < MaxCrashes
  /\ crashes' = crashes + 1
  /\ proc' = [proc EXCEPT ![p] = Idle]
  /\ UNCHANGED <<log, cursor, counted, applied, reviewed, rebuilds>>

Step(p) ==
  \/ DiscardCursor(p) \/ LoadCheckpoint(p) \/ LoadSnapshot(p) \/ ReadEvents(p)
  \/ Apply(p) \/ Conflict(p) \/ ReadContribution(p) \/ StoreStats(p) \/ StoreReview(p)

Next ==
  \/ \E h \in Hands : AppendEvent(h)
  \/ \E p \in Procs : \/ \E h \in Hands : StartStats(p, h) \/ StartReview(p, h)
                      \/ \E hands \in SUBSET Hands : StartRebuild(p, hands)
                      \/ Step(p)
                      \/ Crash(p)

Spec == Init /\ [][Next]_vars

(***************************************************************************)
(* Hands are played to their end, calls go on, and the services are called *)
(* for every hand again and again (deliveries are repeated until handled). *)
(***************************************************************************)
FairSpec ==
  /\ Spec
  /\ \A h \in Hands : WF_vars(AppendEvent(h))
  /\ \A p \in Procs : WF_vars(Step(p))
  /\ \A p \in Procs, h \in Hands : SF_vars(StartStats(p, h)) /\ SF_vars(StartReview(p, h))

-----------------------------------------------------------------------------
(* Properties *)

Positions == 0..Length
Snapshots == [sequence : Positions, eventIds : Seq(1..Length)]
Calls == [service : Services, hand : Hands \union {0}, todo : SUBSET Hands,
          pc : {"idle", "discard", "checkpoint", "snapshot", "read", "apply",
                "contribute", "store"},
          checkpoint : Positions, snapshot : Snapshots, seen : Positions, material : Positions]

\* Every table and every running call holds positions of existing hands.
TypeOK ==
  /\ log \in [Hands -> Positions]
  /\ cursor \in [Services -> [Hands -> [checkpoint : Positions, snapshot : Snapshots]]]
  /\ counted \in [Hands -> Nat]
  /\ applied \subseteq Hands
  /\ reviewed \in [Hands -> Positions]
  /\ proc \in [Procs -> Calls]
  /\ rebuilds \in Nat /\ crashes \in Nat

PrefixAt(c, n) ==
  c.snapshot = [sequence |-> c.checkpoint, eventIds |-> UpTo(c.checkpoint)] /\ c.checkpoint <= n

\* A snapshot is exactly the fold of the stream up to its checkpoint, whoever
\* wrote, discarded and rewrote it, and is never ahead of the stream.
CursorIsPrefix == \A k \in Services, h \in Hands : PrefixAt(cursor[k][h], log[h])

\* Repeated, concurrent and interrupted deliveries count a hand once: what is
\* counted is one prefix of its stream, and nothing that was not applied.
CountedOnce ==
  \A h \in Hands :
    /\ counted[h] <= log[h]
    /\ counted[h] > 0 <=> h \in applied

\* A review is made from a whole hand, and is never made again from less.
ReviewsAreFinal == \A h \in Hands : reviewed[h] \in {0, Length}

\* However calls, rebuilds, crashes and the game itself interleave, the read
\* models are those of what is durable.
ReadModelsSafe == TypeOK /\ CursorIsPrefix /\ CountedOnce /\ ReviewsAreFinal

\* docs/simulator-refactor-master-plan.md:123 "Full rebuild equals incremental
\* projection": what is counted of a hand that nobody applies before its end is
\* what a rebuild counts, whatever runs, rebuilds and crashes do meanwhile.
RebuildEqualsIncremental == \A h \in applied \ EarlyHands : counted[h] = Length

\* The same without the exception does not hold: apply_hand marks a running hand
\* applied, so its later events are never counted (session_stats.py:209).
EveryRebuildAgrees == \A h \in applied : Complete(h) => counted[h] = Length

\* In the end every hand is counted, reviewed and consumed to its last event,
\* although runs are refused, conflict, are discarded by rebuilds or die.
ReadModelsCatchUp ==
  <>[]\A h \in Hands :
       /\ counted[h] = Length /\ reviewed[h] = Length
       /\ \A k \in Services : cursor[k][h].checkpoint = Length
=============================================================================
