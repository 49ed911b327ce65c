------------------------------- MODULE Outbox -------------------------------
(***************************************************************************)
(* The outbox of the hand event store and the dispatchers that empty it:   *)
(* simulator/recovery.py (OutboxDispatcher) over the claim, mark and retry *)
(* transactions of persistence/hand_event_store.py.                        *)
(*                                                                         *)
(* Every store call is one transaction, hence one step; the dispatch       *)
(* callable runs between two of them, while clocks tick, other dispatchers *)
(* claim and this one may die.  Times are kept relative to the store's     *)
(* clock: leaseLeft is lease_expires_at minus it, so a tick lowers both    *)
(* leaseLeft and availableIn, down to -Skew, below which nobody tells the  *)
(* difference.                                                             *)
(***************************************************************************)
EXTENDS Integers, FiniteSets

CONSTANTS
  Messages,       \* message ids, numbers so that ORDER BY message_id means <
  LastEvent,      \* the events appended are 1..LastEvent
  SourceEvent,    \* [Messages -> 1..LastEvent]
  Dispatchers,    \* running calls of dispatch_once
  WorkerOf,       \* the worker_id each was given: two may share one
  Tokens,         \* claim tokens: uuid4 is a token no running call holds
  None,
  Lease,          \* lease_seconds
  RetryDelay,     \* retry_delay_seconds
  Limit,          \* limit
  Skew,           \* how far a caller's `now` may be from the store's clock
  CallTime,       \* ticks one dispatch may take
  Poison,         \* messages whose dispatch always raises
  MaxFailures,    \* bound: dispatches of other messages that raise
  MaxCrashes      \* bound: dispatchers that die in mid batch

ASSUME OutboxAssumption ==
  /\ Messages \subseteq Nat
  /\ LastEvent \in Nat
  /\ SourceEvent \in [Messages -> 1..LastEvent]
  /\ None \notin Tokens
  /\ {Lease, RetryDelay, Limit, Skew, CallTime, MaxFailures, MaxCrashes} \subseteq Nat
  /\ Lease > 0
  /\ Poison \subseteq Messages

\* A token that none of the running calls holds always exists (uuid4).
ASSUME TokensNeverRunOut ==
  \A held \in [Dispatchers -> Tokens \union {None}] :
    \E t \in Tokens : \A d \in Dispatchers : held[d] # t

VARIABLES
  log,        \* number of events in hand_events
  row,        \* outbox_messages: one row per message
  claims,     \* what is left of each call's batch: the token per message
  stage,      \* where each call is
  spent,      \* ticks its current dispatch has taken
  effects,    \* messages whose side effect has happened at least once
  doubted,    \* history: a claim on it ran out, or a dispatch of it raised
  failures, crashes

vars == <<log, row, claims, stage, spent, effects, doubted, failures, crashes>>

Unclaimed == [claimedBy |-> None, leaseLeft |-> 0, token |-> None]

\* A row is written by INSERT, claim, mark and retry only.
Row(status, availableIn, claim) ==
  [status |-> status, availableIn |-> availableIn, claim |-> claim]

Absent == Row("absent", 0, Unclaimed)
\* available_at is 1970: as early as it can be.
Inserted(m) == Row("pending", -Skew, Unclaimed)

Idle == [m \in Messages |-> None]
Holds(d, m) == claims[d][m] # None

\* The batch is walked in the order it was claimed in.
IsCurrent(d, m) == Holds(d, m) /\ \A n \in Messages : Holds(d, n) => m <= n

Fresh_Stable(m) == CHOOSE t \in Tokens : TRUE   \* mutant: derived from the message
Fresh(m) == CHOOSE t \in Tokens : \A d \in Dispatchers : claims[d][m] # t

Init ==
  /\ log = 0
  /\ row = [m \in Messages |-> Absent]
  /\ claims = [d \in Dispatchers |-> Idle]
  /\ stage = [d \in Dispatchers |-> "idle"]
  /\ spent = [d \in Dispatchers |-> 0]
  /\ effects = {}
  /\ doubted = {}
  /\ failures = 0 /\ crashes = 0

-----------------------------------------------------------------------------
(* The store *)

\* append: the event and its intents are inserted in one transaction.
Append ==
  /\ log < LastEvent
  /\ log' = log + 1
  /\ row' = [m \in Messages |-> IF SourceEvent[m] = log + 1 THEN Inserted(m) ELSE row[m]]
  /\ UNCHANGED <<claims, stage, spent, effects, doubted, failures, crashes>>

\* Claims the caller's `now` finds expired go back to pending first.
Expired(m, now) == row[m].status = "processing" /\ row[m].claim.leaseLeft <= now

Due_Processing(m, now) ==   \* mutant: also what is claimed and not expired
  row[m].status \in {"pending", "processing"} /\ row[m].availableIn <= now

Due(m, now) ==
  /\ row[m].status = "pending" \/ Expired(m, now)
  /\ row[m].availableIn <= now

Lowest(k, S) == {m \in S : Cardinality({n \in S : n < m}) < k}

Batch(now) == Lowest(Limit, {m \in Messages : Due(m, now)})

ClaimedRow(d, m, now) ==
  Row("processing", row[m].availableIn,
      [claimedBy |-> WorkerOf[d], leaseLeft |-> now + Lease, token |-> Fresh(m)])

Claim(d, now) ==
  /\ stage[d] = "idle"
  /\ row' = [m \in Messages |->
               CASE m \in Batch(now) -> ClaimedRow(d, m, now)
                 [] m \notin Batch(now) /\ Expired(m, now) ->
                      Row("pending", row[m].availableIn, Unclaimed)
                 [] OTHER -> row[m]]
  /\ claims' = [claims EXCEPT ![d] =
                  [m \in Messages |-> IF m \in Batch(now) THEN Fresh(m) ELSE None]]
  /\ stage' = [stage EXCEPT ![d] = IF Batch(now) = {} THEN "idle" ELSE "dispatch"]
  /\ spent' = [spent EXCEPT ![d] = 0]
  /\ doubted' = doubted \union {m \in Messages : Expired(m, now)}
  /\ UNCHANGED <<log, effects, failures, crashes>>

\* The WHERE clause of mark_outbox_dispatched and retry_outbox.
Owns(d, m) ==
  /\ row[m].status = "processing"
  /\ row[m].claim.claimedBy = WorkerOf[d]
  /\ row[m].claim.token = claims[d][m]
  /\ row[m].claim.leaseLeft > 0

-----------------------------------------------------------------------------
(* dispatch_once *)

Dispatch(d, m) ==
  /\ stage[d] = "dispatch" /\ IsCurrent(d, m)
  /\ m \notin Poison
  /\ effects' = effects \union {m}
  /\ stage' = [stage EXCEPT ![d] = "mark"]
  /\ UNCHANGED <<log, row, claims, spent, doubted, failures, crashes>>

DispatchRaises_AsDone(d, m) ==   \* mutant: marks in a finally block
  /\ stage[d] = "dispatch" /\ IsCurrent(d, m)
  /\ m \notin Poison => failures < MaxFailures
  /\ failures' = IF m \in Poison THEN failures ELSE failures + 1
  /\ stage' = [stage EXCEPT ![d] = "mark"]
  /\ UNCHANGED <<log, row, claims, spent, effects, doubted, crashes>>

\* dispatch raises, before or after its side effect.
DispatchRaises(d, m) ==
  /\ stage[d] = "dispatch" /\ IsCurrent(d, m)
  /\ \/ m \in Poison /\ UNCHANGED failures
     \/ m \notin Poison /\ failures < MaxFailures /\ failures' = failures + 1
  /\ effects' \in {effects, effects \union {m}}
  /\ doubted' = doubted \union {m}
  /\ stage' = [stage EXCEPT ![d] = "retry"]
  /\ UNCHANGED <<log, row, claims, spent, crashes>>

\* On to the next message of the batch, or back to the caller.
Proceed(d, m) ==
  /\ claims' = [claims EXCEPT ![d][m] = None]
  /\ stage' = [stage EXCEPT ![d] =
                 IF \E n \in Messages \ {m} : Holds(d, n) THEN "dispatch" ELSE "idle"]
  /\ spent' = [spent EXCEPT ![d] = 0]

MarkDispatched(d, m) ==
  /\ stage[d] = "mark" /\ IsCurrent(d, m) /\ Owns(d, m)
  /\ row' = [row EXCEPT ![m] = Row("dispatched", @.availableIn, Unclaimed)]
  /\ Proceed(d, m)
  /\ UNCHANGED <<log, effects, doubted, failures, crashes>>

Retry(d, m) ==
  /\ stage[d] = "retry" /\ IsCurrent(d, m) /\ Owns(d, m)
  /\ row' = [row EXCEPT ![m] = Row("pending", RetryDelay, Unclaimed)]
  /\ Proceed(d, m)
  /\ UNCHANGED <<log, effects, doubted, failures, crashes>>

\* The call is over; what it still holds stays claimed until the leases end.
Abandon(d) ==
  /\ claims' = [claims EXCEPT ![d] = Idle]
  /\ stage' = [stage EXCEPT ![d] = "idle"]
  /\ spent' = [spent EXCEPT ![d] = 0]
  /\ UNCHANGED <<log, row, effects, doubted, failures>>

ClaimLost_Repeats(d, m) ==   \* mutant: tries the same call again
  /\ stage[d] \in {"mark", "retry"} /\ IsCurrent(d, m) /\ ~Owns(d, m)
  /\ UNCHANGED vars

\* OutboxClaimError leaves dispatch_once: the rest of the batch is not walked.
ClaimLost(d, m) ==
  /\ stage[d] \in {"mark", "retry"} /\ IsCurrent(d, m) /\ ~Owns(d, m)
  /\ Abandon(d)
  /\ UNCHANGED crashes

Crash(d) ==
  /\ stage[d] # "idle" /\ crashes < MaxCrashes
  /\ crashes' = crashes + 1
  /\ Abandon(d)

Later(t) == IF t > -Skew THEN t - 1 ELSE t

Aged(r) ==
  CASE r.status = "absent" -> r
    [] r.status = "processing" ->
         Row(r.status, Later(r.availableIn), [r.claim EXCEPT !.leaseLeft = Later(@)])
    [] OTHER -> Row(r.status, Later(r.availableIn), Unclaimed)

\* Time passes, but no call lasts longer than CallTime.
Tick ==
  /\ \A d \in Dispatchers : stage[d] # "idle" => spent[d] < CallTime
  /\ spent' = [d \in Dispatchers |-> IF stage[d] = "idle" THEN 0 ELSE spent[d] + 1]
  /\ row' = [m \in Messages |-> Aged(row[m])]
  /\ UNCHANGED <<log, claims, stage, effects, doubted, failures, crashes>>

Walk(d) == \E m \in Messages : \/ Dispatch(d, m) \/ DispatchRaises(d, m)
                               \/ MarkDispatched(d, m) \/ Retry(d, m) \/ ClaimLost(d, m)

Next ==
  \/ Append
  \/ Tick
  \/ \E d \in Dispatchers : \/ \E now \in -Skew..Skew : Claim(d, now)
                            \/ Walk(d)
                            \/ Crash(d)

Spec == Init /\ [][Next]_vars

(***************************************************************************)
(* A running call goes on, time goes on, and whoever schedules the         *)
(* dispatchers keeps calling dispatch_once.                                *)
(***************************************************************************)
FairSpec == /\ Spec
            /\ WF_vars(Tick)
            /\ \A d \in Dispatchers : WF_vars(Walk(d)) /\ WF_vars(Claim(d, 0))

-----------------------------------------------------------------------------
(* Properties *)

Claims == [claimedBy : {WorkerOf[d] : d \in Dispatchers} \union {None},
           leaseLeft : Int, token : Tokens \union {None}]

Rows == [status : {"absent", "pending", "processing", "dispatched"},
         availableIn : Int, claim : Claims]

\* OutboxMessageV1's rule: exactly the processing messages carry a claim.
RowOK(r) ==
  /\ r \in Rows
  /\ IF r.status = "processing" THEN r.claim.token # None ELSE r.claim = Unclaimed

\* The tables and calls hold what their columns and fields may hold.
TypeOK ==
  /\ log \in 0..LastEvent
  /\ row \in [Messages -> Rows] /\ \A m \in Messages : RowOK(row[m])
  /\ claims \in [Dispatchers -> [Messages -> Tokens \union {None}]]
  /\ stage \in [Dispatchers -> {"idle", "dispatch", "mark", "retry"}]
  /\ spent \in [Dispatchers -> Nat]
  /\ effects \subseteq Messages /\ doubted \subseteq Messages
  /\ failures \in Nat /\ crashes \in Nat

\* At most one running call can mark or retry a message, even when several
\* calls share a worker_id and one of them outlived its lease.
Fenced ==
  \A d, e \in Dispatchers, m \in Messages :
    Holds(d, m) /\ Holds(e, m) /\ Owns(d, m) /\ Owns(e, m) => d = e

\* The outbox holds a message exactly when its source event is durable, and
\* calls a message dispatched only if its side effect has happened.
TransactionalOutbox ==
  \A m \in Messages :
    /\ row[m].status # "absent" <=> SourceEvent[m] <= log
    /\ row[m].status = "dispatched" => m \in effects
    /\ m \in effects => SourceEvent[m] <= log

\* The rows, the fence and the transaction of the append hold together.
OutboxSafe == TypeOK /\ Fenced /\ TransactionalOutbox

\* A late mark, retry or claim never brings back what was dispatched.
DispatchedIsFinal ==
  [][\A m \in Messages : row[m].status = "dispatched" => row'[m].status = "dispatched"]_vars

\* A message is dispatched again only if a claim on it ran out or an earlier
\* dispatch raised: without faults every side effect happens once.
RepeatsHaveACause ==
  [][\A d \in Dispatchers, m \in Messages :
       Dispatch(d, m) /\ m \in effects => m \in doubted]_vars

Delivery == INSTANCE AtLeastOnce WITH
  Healthy <- Messages \ Poison,
  recorded <- {m \in Messages : row[m].status # "absent"},
  handed <- effects,
  settled <- {m \in Messages : row[m].status = "dispatched"}

\* The dispatchers implement at-least-once delivery.
ImplementsDelivery == Delivery!Safe

\* Every message of a durable event is dispatched in the end, through crashes,
\* failures, batches that outlive their lease and poison messages.
EventuallyDispatched == Delivery!Arrives
=============================================================================
