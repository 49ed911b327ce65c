---------------------------- MODULE OutboxProofs ----------------------------
(***************************************************************************)
(* Proofs about Outbox for any number of messages, events and dispatchers, *)
(* any lease, delay, limit and skew, and any number of faults.             *)
(***************************************************************************)
EXTENDS Outbox, TLAPS

\* Two calls never hold the same token for a message: uuid4 did not repeat.
TokensApart ==
  \A d, e \in Dispatchers, m \in Messages :
    d # e /\ Holds(d, m) => claims[d][m] # claims[e][m]

\* A call works on durable messages, and marks only after the side effect.
WorkIsDurable ==
  \A d \in Dispatchers, m \in Messages :
    /\ Holds(d, m) => row[m].status # "absent"
    /\ stage[d] = "mark" /\ IsCurrent(d, m) => m \in effects

IInv == TypeOK /\ TokensApart /\ WorkIsDurable /\ TransactionalOutbox

LEMMA FreshIsNew ==
  ASSUME TypeOK, NEW m \in Messages
  PROVE  Fresh(m) \in Tokens /\ \A d \in Dispatchers : claims[d][m] # Fresh(m)
<1> DEFINE held == [d \in Dispatchers |-> claims[d][m]]
<1>1. held \in [Dispatchers -> Tokens \union {None}]
  BY DEF TypeOK
<1>2. PICK t \in Tokens : \A d \in Dispatchers : held[d] # t
  BY <1>1, TokensNeverRunOut
<1>3. \A d \in Dispatchers : claims[d][m] # t
  BY <1>2
<1> QED
  BY <1>3 DEF Fresh

LEMMA UnclaimedOK == Unclaimed \in Claims
BY DEF Unclaimed, Claims

\* Every row the store writes is a row OutboxMessageV1 accepts.
LEMMA UnclaimedRowOK ==
  ASSUME NEW s \in {"absent", "pending", "dispatched"}, NEW a \in Int
  PROVE  RowOK(Row(s, a, Unclaimed))
BY UnclaimedOK DEF RowOK, Rows, Row

LEMMA ClaimedRowOK ==
  ASSUME TypeOK, NEW d \in Dispatchers, NEW m \in Messages, NEW now \in Int
  PROVE  RowOK(ClaimedRow(d, m, now)) /\ ClaimedRow(d, m, now).status = "processing"
<1>1. Fresh(m) \in Tokens
  BY FreshIsNew
<1>2. Fresh(m) # None
  BY <1>1, OutboxAssumption DEF OutboxAssumption
<1>3. now + Lease \in Int
  BY OutboxAssumption DEF OutboxAssumption
<1>4. [claimedBy |-> WorkerOf[d], leaseLeft |-> now + Lease, token |-> Fresh(m)] \in Claims
  BY <1>1, <1>3 DEF Claims
<1>5. row[m].availableIn \in Int
  BY DEF TypeOK, RowOK, Rows
<1> QED
  BY <1>1, <1>2, <1>4, <1>5 DEF ClaimedRow, Row, RowOK, Rows

LEMMA AgedOK ==
  ASSUME NEW r, RowOK(r)
  PROVE  RowOK(Aged(r)) /\ Aged(r).status = r.status
<1>1. Later(r.availableIn) \in Int /\ r.claim \in Claims
  BY OutboxAssumption DEF OutboxAssumption, RowOK, Rows, Later
<1>2. CASE r.status = "absent"
  BY <1>2 DEF Aged
<1>3. CASE r.status = "processing"
  <2> DEFINE c == [r.claim EXCEPT !.leaseLeft = Later(@)]
  <2>1. Later(r.claim.leaseLeft) \in Int
    BY <1>1, OutboxAssumption DEF OutboxAssumption, Later, Claims
  <2>2. c \in Claims /\ c.token = r.claim.token
    BY <1>1, <2>1 DEF Claims
  <2>3. Aged(r) = Row(r.status, Later(r.availableIn), c)
    BY <1>3 DEF Aged
  <2> HIDE DEF c
  <2> QED
    BY <1>1, <1>3, <2>2, <2>3 DEF Row, RowOK, Rows
<1>4. CASE r.status \notin {"absent", "processing"}
  <2>1. r.status \in {"pending", "dispatched"}
    BY <1>4 DEF RowOK, Rows
  <2> QED
    BY <1>1, <2>1, UnclaimedRowOK DEF Aged, Row
<1> QED
  BY <1>2, <1>3, <1>4

LEMMA TypeInit == Init => TypeOK
<1> SUFFICES ASSUME Init PROVE TypeOK
  OBVIOUS
<1>1. RowOK(Absent)
  BY UnclaimedRowOK DEF Absent
<1>2. row \in [Messages -> Rows] /\ \A m \in Messages : RowOK(row[m])
  BY <1>1 DEF Init, RowOK
<1>3. 0 \in 0..LastEvent
  BY OutboxAssumption DEF OutboxAssumption
<1> QED
  BY <1>2, <1>3 DEF Init, TypeOK, Idle

LEMMA TypeNext == TypeOK /\ [Next]_vars => TypeOK'
<1> SUFFICES ASSUME TypeOK, [Next]_vars PROVE TypeOK'
  OBVIOUS
<1> USE OutboxAssumption DEF OutboxAssumption
<1>1. /\ row \in [Messages -> Rows] /\ \A m \in Messages : RowOK(row[m])
      /\ \A m \in Messages : row[m].availableIn \in Int /\ row[m].claim \in Claims
  BY DEF TypeOK, RowOK, Rows
<1>3. CASE Append
  <2>1. \A m \in Messages : RowOK(Inserted(m))
    BY UnclaimedRowOK DEF Inserted
  <2>2. row' \in [Messages -> Rows] /\ \A m \in Messages : RowOK(row'[m])
    BY <1>1, <1>3, <2>1 DEF Append, RowOK
  <2>3. log' \in 0..LastEvent
    BY <1>3 DEF Append, TypeOK
  <2> QED
    BY <1>3, <2>2, <2>3 DEF Append, TypeOK
<1>4. CASE Tick
  <2>1. \A m \in Messages : RowOK(row'[m])
    BY <1>1, <1>4, AgedOK DEF Tick, TypeOK
  <2>2. row' = [m \in Messages |-> row'[m]]
    BY <1>4 DEF Tick
  <2>3. row' \in [Messages -> Rows]
    BY <2>1, <2>2 DEF RowOK
  <2>4. spent' \in [Dispatchers -> Nat]
    BY <1>4 DEF Tick, TypeOK
  <2> QED
    BY <1>4, <2>1, <2>3, <2>4 DEF Tick, TypeOK
<1>5. ASSUME NEW d \in Dispatchers, NEW now \in -Skew..Skew, Claim(d, now)
      PROVE  TypeOK'
  <2>1. \A m \in Messages : RowOK(ClaimedRow(d, m, now)) /\ Fresh(m) \in Tokens
    BY ClaimedRowOK, FreshIsNew
  <2>2. \A m \in Messages : RowOK(Row("pending", row[m].availableIn, Unclaimed))
    BY <1>1, UnclaimedRowOK
  <2>3. row' \in [Messages -> Rows] /\ \A m \in Messages : RowOK(row'[m])
    BY <1>1, <1>5, <2>1, <2>2 DEF Claim, RowOK
  <2>4. claims' \in [Dispatchers -> [Messages -> Tokens \union {None}]]
    BY <1>5, <2>1 DEF Claim, TypeOK
  <2>5. doubted' \subseteq Messages
    BY <1>5 DEF Claim, TypeOK
  <2> QED
    BY <1>5, <2>3, <2>4, <2>5 DEF Claim, TypeOK
<1>6. ASSUME NEW d \in Dispatchers, NEW m \in Messages, Dispatch(d, m)
      PROVE  TypeOK'
  BY <1>6 DEF Dispatch, TypeOK, Claims
<1>7. ASSUME NEW d \in Dispatchers, NEW m \in Messages, DispatchRaises(d, m)
      PROVE  TypeOK'
  BY <1>7 DEF DispatchRaises, TypeOK, Claims
<1>8. ASSUME NEW d \in Dispatchers, NEW m \in Messages, MarkDispatched(d, m)
      PROVE  TypeOK'
  <2>1. RowOK(Row("dispatched", row[m].availableIn, Unclaimed))
    BY <1>1, UnclaimedRowOK
  <2>2. row' \in [Messages -> Rows] /\ \A n \in Messages : RowOK(row'[n])
    BY <1>1, <1>8, <2>1 DEF MarkDispatched, RowOK
  <2> QED
    BY <1>8, <2>2 DEF MarkDispatched, Proceed, TypeOK
<1>9. ASSUME NEW d \in Dispatchers, NEW m \in Messages, Retry(d, m)
      PROVE  TypeOK'
  <2>1. RowOK(Row("pending", RetryDelay, Unclaimed))
    BY UnclaimedRowOK
  <2>2. row' \in [Messages -> Rows] /\ \A n \in Messages : RowOK(row'[n])
    BY <1>1, <1>9, <2>1 DEF Retry, RowOK
  <2> QED
    BY <1>9, <2>2 DEF Retry, Proceed, TypeOK
<1>10. ASSUME NEW d \in Dispatchers, Abandon(d), crashes' \in Nat
       PROVE  TypeOK'
  BY <1>10 DEF Abandon, Idle, TypeOK, Claims
<1>11. CASE UNCHANGED vars
  BY <1>11 DEF vars, TypeOK, Claims
<1>12. ASSUME NEW d \in Dispatchers, Crash(d)
       PROVE  TypeOK'
  BY <1>10, <1>12 DEF Crash, TypeOK
<1>13. ASSUME NEW d \in Dispatchers, NEW m \in Messages, ClaimLost(d, m)
       PROVE  TypeOK'
  BY <1>10, <1>13 DEF ClaimLost, TypeOK
<1> QED
  BY <1>3, <1>4, <1>5, <1>6, <1>7, <1>8, <1>9, <1>11, <1>12, <1>13 DEF Next, Walk

-----------------------------------------------------------------------------
(***************************************************************************)
(* A step gives a call tokens only in Claim, and then tokens nobody holds; *)
(* every other step keeps a call's tokens or takes them away.              *)
(***************************************************************************)
LEMMA TokensApartNext == TypeOK /\ TokensApart /\ [Next]_vars => TokensApart'
<1> SUFFICES ASSUME TypeOK, TokensApart, [Next]_vars PROVE TokensApart'
  OBVIOUS
<1> DEFINE Shrinks == \A d \in Dispatchers, m \in Messages :
                        claims'[d][m] \in {claims[d][m], None}
<1>1. Shrinks => TokensApart'
  BY DEF TokensApart, Holds
<1>2. UNCHANGED claims => Shrinks
  OBVIOUS
<1>3. ASSUME NEW d \in Dispatchers, NEW now \in -Skew..Skew, Claim(d, now)
      PROVE  TokensApart'
  <2>1. \A m \in Messages :
          /\ claims'[d][m] \in {Fresh(m), None}
          /\ \A e \in Dispatchers : e # d => claims'[e][m] = claims[e][m]
    BY <1>3 DEF Claim, TypeOK
  <2>2. \A m \in Messages : \A e \in Dispatchers : claims[e][m] # Fresh(m)
    BY FreshIsNew
  <2> QED
    BY <2>1, <2>2 DEF TokensApart, Holds
<1>4. ASSUME NEW d \in Dispatchers, Abandon(d)
      PROVE  Shrinks
  BY <1>4 DEF Abandon, Idle, TypeOK
<1>5. ASSUME NEW d \in Dispatchers, NEW m \in Messages, Proceed(d, m)
      PROVE  Shrinks
  BY <1>5 DEF Proceed, TypeOK
<1>6. ASSUME NEW d \in Dispatchers, Crash(d) \/ \E m \in Messages : ClaimLost(d, m)
      PROVE  Shrinks
  BY <1>4, <1>6 DEF Crash, ClaimLost
<1>7. ASSUME NEW d \in Dispatchers, NEW m \in Messages,
             MarkDispatched(d, m) \/ Retry(d, m)
      PROVE  Shrinks
  BY <1>5, <1>7 DEF MarkDispatched, Retry
<1>8. ASSUME NEW d \in Dispatchers, NEW m \in Messages,
             Dispatch(d, m) \/ DispatchRaises(d, m)
      PROVE  UNCHANGED claims
  BY <1>8 DEF Dispatch, DispatchRaises
<1>9. Append \/ Tick \/ UNCHANGED vars => UNCHANGED claims
  BY DEF Append, Tick, vars
<1> HIDE DEF Shrinks
<1> QED
  BY <1>1, <1>2, <1>3, <1>6, <1>7, <1>8, <1>9 DEF Next, Walk

\* The rows a step may make durable, and the rows it may call dispatched.
Durable(m) == row[m].status # "absent"

LEMMA StatusNext ==
  ASSUME TypeOK, [Next]_vars, NEW m \in Messages
  PROVE  /\ Durable(m) => Durable(m)'
         /\ ~Durable(m) /\ Durable(m)' => Append /\ SourceEvent[m] = log + 1
         /\ row[m].status = "dispatched" => row'[m].status = "dispatched" \/ Append
         /\ row[m].status # "dispatched" /\ row'[m].status = "dispatched"
              => \E d \in Dispatchers : MarkDispatched(d, m)
<1>1. CASE Append
  BY <1>1 DEF Append, Durable, Inserted, Row, TypeOK
<1>2. CASE Tick
  BY <1>2, AgedOK DEF Tick, Durable, TypeOK
<1>3. ASSUME NEW d \in Dispatchers, NEW now \in -Skew..Skew, Claim(d, now)
      PROVE  /\ row'[m].status = row[m].status
                \/ /\ row[m].status \in {"pending", "processing"}
                   /\ row'[m].status \in {"pending", "processing"}
  <2>1. m \in Batch(now) => Due(m, now)
    BY DEF Batch, Lowest
  <2>2. Due(m, now) => row[m].status \in {"pending", "processing"}
    BY DEF Due, Expired
  <2>3. ClaimedRow(d, m, now).status = "processing"
    BY ClaimedRowOK
  <2>4. CASE m \in Batch(now)
    BY <1>3, <2>1, <2>2, <2>3, <2>4 DEF Claim
  <2>5. CASE m \notin Batch(now) /\ Expired(m, now)
    BY <1>3, <2>5 DEF Claim, Expired, Row
  <2>6. CASE m \notin Batch(now) /\ ~Expired(m, now)
    BY <1>3, <2>6 DEF Claim
  <2> QED
    BY <2>4, <2>5, <2>6
<1>4. ASSUME NEW d \in Dispatchers, NEW n \in Messages, MarkDispatched(d, n)
      PROVE  /\ row[n].status = "processing" /\ row'[n].status = "dispatched"
             /\ n # m => row'[m] = row[m]
  BY <1>4 DEF MarkDispatched, Owns, Row, TypeOK
<1>5. ASSUME NEW d \in Dispatchers, NEW n \in Messages, Retry(d, n)
      PROVE  /\ row[n].status = "processing" /\ row'[n].status = "pending"
             /\ n # m => row'[m] = row[m]
  BY <1>5 DEF Retry, Owns, Row, TypeOK
<1>6. ASSUME NEW d \in Dispatchers, NEW n \in Messages,
             Dispatch(d, n) \/ DispatchRaises(d, n) \/ ClaimLost(d, n) \/ Crash(d)
      PROVE  row' = row
  BY <1>6 DEF Dispatch, DispatchRaises, ClaimLost, Crash, Abandon
<1>7. CASE UNCHANGED vars
  BY <1>7 DEF vars, Durable
<1>8. ASSUME NEW d \in Dispatchers, Crash(d)
      PROVE  row' = row
  BY <1>8 DEF Crash, Abandon
<1> QED
  BY <1>1, <1>2, <1>3, <1>4, <1>5, <1>6, <1>7, <1>8 DEF Next, Walk, Durable

\* A claim only takes rows that are durable.
LEMMA ClaimsAreDurable ==
  ASSUME NEW d \in Dispatchers, NEW now \in -Skew..Skew, Claim(d, now), TypeOK,
         NEW m \in Messages, claims'[d][m] # None
  PROVE  Durable(m)
<1>1. m \in Batch(now)
  BY DEF Claim, TypeOK
<1>2. Due(m, now)
  BY <1>1 DEF Batch, Lowest
<1> QED
  BY <1>2 DEF Due, Expired, Durable

LEMMA WorkIsDurableNext ==
  TypeOK /\ WorkIsDurable /\ [Next]_vars => WorkIsDurable'
<1> SUFFICES ASSUME TypeOK, WorkIsDurable, [Next]_vars,
                    NEW e \in Dispatchers, NEW k \in Messages
             PROVE  /\ Holds(e, k)' => Durable(k)'
                    /\ (stage[e] = "mark" /\ IsCurrent(e, k))' => k \in effects'
  BY DEF WorkIsDurable, Durable
<1>1. Durable(k) => Durable(k)'
  BY StatusNext
<1> DEFINE Kept == claims'[e] = claims[e] /\ (stage'[e] = "mark" => stage[e] = "mark")
                   /\ effects \subseteq effects'
<1>2. ASSUME Kept
      PROVE  /\ Holds(e, k)' => Durable(k)'
             /\ (stage[e] = "mark" /\ IsCurrent(e, k))' => k \in effects'
  BY <1>1, <1>2 DEF WorkIsDurable, Durable, Holds, IsCurrent
<1>3. CASE Append \/ Tick \/ UNCHANGED vars
  BY <1>2, <1>3 DEF Append, Tick, vars
<1>4. ASSUME NEW d \in Dispatchers, NEW now \in -Skew..Skew, Claim(d, now)
      PROVE  /\ Holds(e, k)' => Durable(k)'
             /\ (stage[e] = "mark" /\ IsCurrent(e, k))' => k \in effects'
  <2>1. CASE e = d
    <3>1. stage'[e] \in {"idle", "dispatch"}
      BY <1>4, <2>1 DEF Claim, TypeOK
    <3>2. Holds(e, k)' => Durable(k)
      BY <1>4, <2>1, ClaimsAreDurable DEF Holds
    <3> QED
      BY <1>1, <3>1, <3>2
  <2>2. CASE e # d
    BY <1>2, <1>4, <2>2 DEF Claim, TypeOK
  <2> QED
    BY <2>1, <2>2
<1>5. ASSUME NEW d \in Dispatchers, NEW m \in Messages, Dispatch(d, m)
      PROVE  /\ Holds(e, k)' => Durable(k)'
             /\ (stage[e] = "mark" /\ IsCurrent(e, k))' => k \in effects'
  <2>1. CASE e = d
    <3>1. IsCurrent(e, k)' => k = m
      BY <1>5, <2>1, OutboxAssumption DEF OutboxAssumption, Dispatch, IsCurrent, Holds
    <3>2. Holds(e, k)' => Durable(k)
      BY <1>5 DEF Dispatch, Holds, WorkIsDurable, Durable
    <3> QED
      BY <1>1, <1>5, <3>1, <3>2 DEF Dispatch
  <2>2. CASE e # d
    BY <1>2, <1>5, <2>2 DEF Dispatch, TypeOK
  <2> QED
    BY <2>1, <2>2
<1>6. ASSUME NEW d \in Dispatchers, NEW m \in Messages, DispatchRaises(d, m)
      PROVE  Kept
  BY <1>6 DEF DispatchRaises, TypeOK
<1> DEFINE Less == /\ claims'[e][k] \in {claims[e][k], None}
                   /\ stage'[e] # "mark" \/ Kept
<1>7. ASSUME Less
      PROVE  /\ Holds(e, k)' => Durable(k)'
             /\ (stage[e] = "mark" /\ IsCurrent(e, k))' => k \in effects'
  BY <1>1, <1>2, <1>7 DEF WorkIsDurable, Durable, Holds
<1>8. ASSUME NEW d \in Dispatchers, NEW m \in Messages,
             MarkDispatched(d, m) \/ Retry(d, m)
      PROVE  Less
  BY <1>8 DEF MarkDispatched, Retry, Proceed, TypeOK
<1>9. ASSUME NEW d \in Dispatchers, Crash(d) \/ \E m \in Messages : ClaimLost(d, m)
      PROVE  Less
  BY <1>9 DEF Crash, ClaimLost, Abandon, Idle, TypeOK
<1> HIDE DEF Kept, Less
<1> QED
  BY <1>2, <1>3, <1>4, <1>5, <1>6, <1>7, <1>8, <1>9 DEF Next, Walk

LEMMA TransactionalNext ==
  TypeOK /\ WorkIsDurable /\ TransactionalOutbox /\ [Next]_vars => TransactionalOutbox'
<1> SUFFICES ASSUME TypeOK, WorkIsDurable, TransactionalOutbox, [Next]_vars,
                    NEW m \in Messages
             PROVE  /\ Durable(m)' <=> SourceEvent[m] <= log'
                    /\ row'[m].status = "dispatched" => m \in effects'
                    /\ m \in effects' => SourceEvent[m] <= log'
  BY DEF TransactionalOutbox, Durable
<1> USE OutboxAssumption DEF OutboxAssumption
<1>1. /\ Durable(m) <=> SourceEvent[m] <= log
      /\ row[m].status = "dispatched" => m \in effects
      /\ m \in effects => SourceEvent[m] <= log
  BY DEF TransactionalOutbox, Durable
<1>2. log \in Nat /\ SourceEvent[m] \in Nat
  BY DEF TypeOK
<1>3. CASE Append
  BY <1>1, <1>2, <1>3 DEF Append, Inserted, Row, Durable, TypeOK
<1>4. ASSUME ~Append
      PROVE  log' = log
  BY <1>4 DEF Next, Walk, Tick, Claim, Dispatch, DispatchRaises, MarkDispatched, Retry,
              ClaimLost, Crash, Abandon, vars
<1>5. ASSUME ~Append, m \in effects' \ effects
      PROVE  Durable(m)
  <2>1. PICK d \in Dispatchers : Dispatch(d, m) \/ DispatchRaises(d, m)
    BY <1>5 DEF Next, Walk, Tick, Claim, Dispatch, DispatchRaises, MarkDispatched, Retry,
                ClaimLost, Crash, Abandon, vars
  <2> QED
    BY <2>1 DEF Dispatch, DispatchRaises, IsCurrent, WorkIsDurable, Durable
<1>6. effects \subseteq effects'
  BY DEF Next, Walk, Append, Tick, Claim, Dispatch, DispatchRaises, MarkDispatched, Retry,
         ClaimLost, Crash, Abandon, vars
<1>7. ASSUME ~Append, row[m].status # "dispatched", row'[m].status = "dispatched"
      PROVE  m \in effects
  BY <1>7, StatusNext DEF MarkDispatched, WorkIsDurable
<1>8. CASE ~Append
  BY <1>1, <1>4, <1>5, <1>6, <1>7, <1>8, StatusNext DEF Durable
<1> QED
  BY <1>3, <1>8

\* A message without a fault in its past was claimed at most once: whoever
\* holds it is that one claim, and has not run its side effect before.
ClaimedOnce(m) ==
  /\ row[m].status \in {"absent", "pending"} =>
       m \notin effects /\ \A d \in Dispatchers : ~Holds(d, m)
  /\ row[m].status = "dispatched" => \A d \in Dispatchers : ~Holds(d, m)
  /\ \A d, e \in Dispatchers : Holds(d, m) /\ Holds(e, m) => d = e
  /\ m \in effects =>
       \A d \in Dispatchers : Holds(d, m) => stage[d] = "mark" /\ IsCurrent(d, m)

\* What a call hands back is a message whose dispatch raised.
RaisedNoted(m) ==
  \A d \in Dispatchers : stage[d] = "retry" /\ IsCurrent(d, m) => m \in doubted

FaultsAreNoted ==
  \A m \in Messages : (m \in doubted \/ ClaimedOnce(m)) /\ RaisedNoted(m)

LEMMA FaultsAreNotedNext ==
  TypeOK /\ TransactionalOutbox /\ FaultsAreNoted /\ [Next]_vars => FaultsAreNoted'
<1> SUFFICES ASSUME TypeOK, TransactionalOutbox, FaultsAreNoted, [Next]_vars
             PROVE  FaultsAreNoted'
  OBVIOUS
<1> USE OutboxAssumption DEF OutboxAssumption
<1>0. doubted \subseteq doubted'
  BY DEF Next, Walk, Append, Tick, Claim, Dispatch, DispatchRaises, MarkDispatched, Retry,
         ClaimLost, Crash, Abandon, vars
<1> SUFFICES ASSUME NEW m \in Messages
             PROVE  /\ m \in doubted' \/ ClaimedOnce(m)'
                    /\ RaisedNoted(m)'
  BY DEF FaultsAreNoted
<1>1. /\ m \in doubted \/ ClaimedOnce(m)
      /\ RaisedNoted(m)
  BY DEF FaultsAreNoted
<1> DEFINE Goal == /\ m \in doubted' \/ ClaimedOnce(m)'
                   /\ RaisedNoted(m)'
<1>2. CASE UNCHANGED <<claims, stage, effects>> /\ row'[m].status = row[m].status
  BY <1>0, <1>1, <1>2 DEF ClaimedOnce, RaisedNoted, Holds, IsCurrent
<1>3. CASE Append
  <2>1. row'[m].status \in {row[m].status, "pending"}
    BY <1>3 DEF Append, Inserted, Row, TypeOK
  <2>2. CASE row'[m].status = row[m].status
    BY <1>2, <1>3, <2>2 DEF Append
  <2>3. CASE SourceEvent[m] = log + 1
    <3>1. row[m].status = "absent"
      BY <1>3, <2>3 DEF Append, TransactionalOutbox, TypeOK
    <3> QED
      BY <1>0, <1>1, <1>3, <2>1, <3>1 DEF Append, ClaimedOnce, RaisedNoted, Holds, IsCurrent
  <2> QED
    BY <1>3, <2>2, <2>3 DEF Append, TypeOK
<1>4. CASE Tick
  <2>1. row'[m].status = row[m].status
    BY <1>4, AgedOK DEF Tick, TypeOK
  <2> QED
    BY <1>2, <1>4, <2>1 DEF Tick
<1>5. CASE UNCHANGED vars
  BY <1>2, <1>5 DEF vars
<1>6. ASSUME NEW d \in Dispatchers, NEW now \in -Skew..Skew, Claim(d, now)
      PROVE  Goal
  <2>1. stage'[d] \in {"idle", "dispatch"} /\ \A e \in Dispatchers \ {d} :
          stage'[e] = stage[e] /\ claims'[e] = claims[e]
    BY <1>6 DEF Claim, TypeOK
  <2>2. RaisedNoted(m)'
    BY <1>0, <1>1, <2>1 DEF RaisedNoted, IsCurrent, Holds
  <2>3. CASE Expired(m, now)
    BY <1>6, <2>2, <2>3 DEF Claim
  <2>4. CASE m \in Batch(now) /\ ~Expired(m, now)
    <3>1. row[m].status = "pending"
      BY <2>4 DEF Batch, Lowest, Due
    <3>2. row'[m].status = "processing"
      BY <1>6, <2>4, ClaimedRowOK DEF Claim
    <3>3. effects' = effects
      BY <1>6 DEF Claim
    <3> QED
      BY <1>0, <1>1, <2>1, <2>2, <3>1, <3>2, <3>3 DEF ClaimedOnce, RaisedNoted, Holds
  <2>5. CASE m \notin Batch(now) /\ ~Expired(m, now)
    <3>1. row'[m] = row[m] /\ claims'[d][m] = None /\ effects' = effects
      BY <1>6, <2>5 DEF Claim, TypeOK
    <3> QED
      BY <1>0, <1>1, <2>1, <2>2, <3>1 DEF ClaimedOnce, RaisedNoted, Holds, IsCurrent
  <2> QED
    BY <2>3, <2>4, <2>5
<1>7. ASSUME NEW d \in Dispatchers, NEW n \in Messages, Dispatch(d, n)
      PROVE  Goal
  <2>1. /\ stage'[d] = "mark" /\ claims' = claims /\ row' = row
        /\ \A e \in Dispatchers \ {d} : stage'[e] = stage[e]
        /\ stage[d] = "dispatch" /\ IsCurrent(d, n) /\ effects' = effects \union {n}
        /\ doubted' = doubted
    BY <1>7 DEF Dispatch, TypeOK
  <2>2. RaisedNoted(m)'
    BY <1>1, <2>1 DEF RaisedNoted, IsCurrent, Holds
  <2>3. CASE m = n
    <3> SUFFICES ASSUME m \notin doubted PROVE ClaimedOnce(m)'
      BY <2>1, <2>2
    <3>1. ClaimedOnce(m) /\ Holds(d, m) /\ row[m].status = "processing"
      BY <1>1, <2>1, <2>3 DEF ClaimedOnce, IsCurrent, TypeOK, RowOK, Rows
    <3> QED
      BY <2>1, <2>3, <3>1 DEF ClaimedOnce, RaisedNoted, Holds, IsCurrent
  <2>4. CASE m # n
    BY <1>1, <2>1, <2>2, <2>4 DEF ClaimedOnce, RaisedNoted, Holds, IsCurrent
  <2> QED
    BY <2>3, <2>4
<1>8. ASSUME NEW d \in Dispatchers, NEW n \in Messages, DispatchRaises(d, n)
      PROVE  Goal
  <2>1. /\ stage'[d] = "retry" /\ claims' = claims /\ row' = row
        /\ \A e \in Dispatchers \ {d} : stage'[e] = stage[e]
        /\ stage[d] = "dispatch" /\ IsCurrent(d, n) /\ effects' \subseteq effects \union {n}
        /\ doubted' = doubted \union {n}
    BY <1>8 DEF DispatchRaises, TypeOK
  <2>2. CASE m = n
    BY <2>1, <2>2 DEF RaisedNoted
  <2>3. CASE m # n
    <3>1. ~IsCurrent(d, m) /\ \A e \in Dispatchers : IsCurrent(e, m)' <=> IsCurrent(e, m)
      BY <2>1, <2>3 DEF RaisedNoted, IsCurrent, Holds
    <3>2. RaisedNoted(m)'
      BY <1>1, <2>1, <2>3, <3>1 DEF RaisedNoted
    <3>3. ASSUME m \notin doubted
          PROVE  ClaimedOnce(m)'
      BY <1>1, <2>1, <2>3, <3>1, <3>3 DEF ClaimedOnce, RaisedNoted, Holds
    <3> QED
      BY <2>1, <3>2, <3>3
  <2> QED
    BY <2>2, <2>3
<1>9. ASSUME NEW d \in Dispatchers, Abandon(d)
      PROVE  Goal
  <2>1. /\ stage'[d] = "idle" /\ \A k \in Messages : claims'[d][k] = None
        /\ \A e \in Dispatchers \ {d} : stage'[e] = stage[e] /\ claims'[e] = claims[e]
        /\ row' = row /\ effects' = effects
    BY <1>9 DEF Abandon, Idle, TypeOK
  <2>2. RaisedNoted(m)'
    BY <1>0, <1>1, <2>1 DEF RaisedNoted, IsCurrent, Holds
  <2>3. \A e \in Dispatchers : Holds(e, m)' => e # d /\ Holds(e, m)
    BY <2>1 DEF Holds
  <2>4. \A e \in Dispatchers \ {d} : IsCurrent(e, m) => IsCurrent(e, m)'
    BY <2>1 DEF RaisedNoted, IsCurrent, Holds
  <2>5. ClaimedOnce(m) => ClaimedOnce(m)'
    BY <2>1, <2>3, <2>4 DEF ClaimedOnce
  <2> QED
    BY <1>0, <1>1, <2>2, <2>5
<1>10. ASSUME NEW d \in Dispatchers, NEW n \in Messages, Proceed(d, n), IsCurrent(d, n),
              stage[d] \in {"mark", "retry"}, effects' = effects,
              \A k \in Messages \ {n} : row'[k] = row[k],
              row'[n].status = "dispatched" \/ n \in doubted
       PROVE  Goal
  <2>1. /\ stage'[d] \in {"idle", "dispatch"} /\ claims'[d][n] = None
        /\ \A e \in Dispatchers \ {d} : stage'[e] = stage[e] /\ claims'[e] = claims[e]
        /\ \A k \in Messages \ {n} : claims'[d][k] = claims[d][k]
    BY <1>10 DEF Proceed, TypeOK
  <2>2. RaisedNoted(m)'
    BY <1>0, <1>1, <2>1 DEF RaisedNoted, IsCurrent, Holds
  <2>3. CASE m = n /\ m \notin doubted
    <3>1. ClaimedOnce(m) /\ Holds(d, m)
      BY <1>1, <1>10, <2>3 DEF IsCurrent
    <3>2. \A e \in Dispatchers : ~Holds(e, m)'
      BY <2>1, <2>3, <3>1 DEF ClaimedOnce, RaisedNoted, Holds
    <3> QED
      BY <1>10, <2>2, <2>3, <3>2 DEF ClaimedOnce
  <2>4. CASE m # n /\ m \notin doubted
    <3>1. ClaimedOnce(m)
      BY <1>1, <2>4
    <3>2. Holds(d, m) => m \notin effects
      BY <1>10, <2>4, <3>1 DEF ClaimedOnce, IsCurrent, Holds
    <3>3. row'[m] = row[m]
      BY <1>10, <2>4
    <3>4. \A e \in Dispatchers : Holds(e, m)' <=> Holds(e, m)
      BY <2>1, <2>4 DEF Holds
    <3>5. \A e \in Dispatchers \ {d} :
            stage[e] = "mark" /\ IsCurrent(e, m) => (stage[e] = "mark" /\ IsCurrent(e, m))'
      BY <2>1 DEF RaisedNoted, IsCurrent, Holds
    <3>6. ClaimedOnce(m)'
      BY <1>10, <3>1, <3>2, <3>3, <3>4, <3>5 DEF ClaimedOnce
    <3> QED
      BY <2>2, <3>6
  <2> QED
    BY <1>0, <2>2, <2>3, <2>4
<1>11. ASSUME NEW d \in Dispatchers, NEW n \in Messages, MarkDispatched(d, n)
       PROVE  Goal
  BY <1>10, <1>11 DEF MarkDispatched, Row, TypeOK
<1>12. ASSUME NEW d \in Dispatchers, NEW n \in Messages, Retry(d, n)
       PROVE  Goal
  BY <1>10, <1>12 DEF Retry, FaultsAreNoted, RaisedNoted, TypeOK
<1>13. ASSUME NEW d \in Dispatchers, Crash(d) \/ \E n \in Messages : ClaimLost(d, n)
       PROVE  Goal
  BY <1>9, <1>13 DEF Crash, ClaimLost
<1> QED
  BY <1>3, <1>4, <1>5, <1>6, <1>7, <1>8, <1>11, <1>12, <1>13 DEF Next, Walk

-----------------------------------------------------------------------------
LEMMA OutboxInductive == Spec => [](IInv /\ FaultsAreNoted)
<1>1. Init => IInv /\ FaultsAreNoted
  <2> SUFFICES ASSUME Init PROVE IInv /\ FaultsAreNoted
    OBVIOUS
  <2>1. TokensApart /\ WorkIsDurable /\ FaultsAreNoted
    BY DEF Init, TokensApart, WorkIsDurable, FaultsAreNoted, ClaimedOnce, RaisedNoted,
           Holds, Idle, Absent, Row
  <2>2. TransactionalOutbox
    BY OutboxAssumption DEF OutboxAssumption, Init, TransactionalOutbox, Absent, Row
  <2> QED
    BY <2>1, <2>2, TypeInit DEF IInv
<1>2. IInv /\ FaultsAreNoted /\ [Next]_vars => (IInv /\ FaultsAreNoted)'
  BY TypeNext, TokensApartNext, WorkIsDurableNext, TransactionalNext, FaultsAreNotedNext
     DEF IInv
<1> QED
  BY <1>1, <1>2, PTL DEF Spec

\* Rows are always rows OutboxMessageV1 accepts, whatever claims, late answers,
\* crashes and skewed clocks do to them.
THEOREM RowsValid == Spec => []TypeOK
BY OutboxInductive, PTL DEF IInv

LEMMA FencedByTokens == IInv => Fenced
<1> SUFFICES ASSUME TokensApart, NEW d \in Dispatchers, NEW e \in Dispatchers,
                    NEW m \in Messages, Holds(d, m), Owns(d, m), Owns(e, m)
             PROVE  d = e
  BY DEF IInv, Fenced
<1>1. claims[d][m] = claims[e][m]
  BY DEF Owns
<1> QED
  BY <1>1 DEF TokensApart

\* Any number of calls, worker ids and clocks: two calls never both pass the
\* WHERE clause of mark_outbox_dispatched or retry_outbox for one message.
THEOREM TokensFence == Spec => []Fenced
BY FencedByTokens, OutboxInductive, PTL

\* A message exists exactly when its event is durable, and is called
\* dispatched only after its side effect.
THEOREM OutboxIsTransactional == Spec => []TransactionalOutbox
BY OutboxInductive, PTL DEF IInv

\* The three together, for every state the store can be in: valid rows, at most
\* one call behind each fencing token, and messages that follow the event log.
THEOREM OutboxHolds == Spec => []OutboxSafe
<1>1. IInv => OutboxSafe
  BY FencedByTokens DEF IInv, OutboxSafe
<1> QED
  BY <1>1, OutboxInductive, PTL

LEMMA FinalStep == IInv /\ [Next]_vars =>
  \A m \in Messages : row[m].status = "dispatched" => row'[m].status = "dispatched"
<1> SUFFICES ASSUME IInv, [Next]_vars, NEW m \in Messages, row[m].status = "dispatched"
             PROVE  row'[m].status = "dispatched"
  OBVIOUS
<1>1. CASE Append
  <2>1. SourceEvent[m] <= log /\ log \in Nat /\ SourceEvent[m] \in Nat
    BY OutboxAssumption DEF OutboxAssumption, IInv, TransactionalOutbox, TypeOK
  <2> QED
    BY <1>1, <2>1 DEF Append
<1>2. CASE ~Append
  BY <1>2, StatusNext DEF IInv
<1> QED
  BY <1>1, <1>2

\* No claim, mark or retry of any call takes a message back from dispatched.
THEOREM DispatchedStays == Spec => DispatchedIsFinal
<1>1. IInv /\ [Next]_vars =>
        [\A m \in Messages :
           row[m].status = "dispatched" => row'[m].status = "dispatched"]_vars
  BY FinalStep
<1> QED
  BY <1>1, OutboxInductive, PTL DEF Spec, DispatchedIsFinal

\* A side effect happens a second time only after a claim on the message ran
\* out or a dispatch of it raised: the at-least-once of the dispatcher is
\* exactly-once in a run without such a fault.
THEOREM NoRepeatWithoutCause == Spec => RepeatsHaveACause
<1>1. FaultsAreNoted => \A d \in Dispatchers, m \in Messages :
                          Dispatch(d, m) /\ m \in effects => m \in doubted
  BY DEF FaultsAreNoted, ClaimedOnce, Dispatch, IsCurrent
<1>2. FaultsAreNoted /\ [Next]_vars =>
        [\A d \in Dispatchers, m \in Messages :
           Dispatch(d, m) /\ m \in effects => m \in doubted]_vars
  BY <1>1
<1> QED
  BY <1>2, OutboxInductive, PTL DEF Spec, RepeatsHaveACause

-----------------------------------------------------------------------------
(* Refinement *)

LEMMA DeliveryInit == Init => Delivery!Init
BY DEF Init, Delivery!Init, Absent, Row

LEMMA DeliveryStep == IInv /\ IInv' /\ [Next]_vars => [Delivery!Next]_Delivery!vars
<1> SUFFICES ASSUME IInv, IInv', [Next]_vars PROVE [Delivery!Next]_Delivery!vars
  OBVIOUS
<1> DEFINE Rec == {m \in Messages : row[m].status # "absent"}
           Done == {m \in Messages : row[m].status = "dispatched"}
<1>1. \A m \in Messages :
        /\ m \in Rec => m \in Rec'
        /\ m \in Rec' \ Rec => Append
        /\ m \in Done => m \in Done'
        /\ m \in Done' \ Done => \E d \in Dispatchers : MarkDispatched(d, m)
  BY StatusNext, FinalStep DEF IInv, Durable
<1>2. CASE Append
  <2>1. \A m \in Messages : m \in Done' => m \in Done
    BY <1>2 DEF Append, Inserted, Row, IInv, TypeOK
  <2>2. Done' = Done /\ effects' = effects
    BY <1>1, <1>2, <2>1 DEF Append
  <2>3. Rec \subseteq Rec' /\ Rec' \subseteq Messages
    BY <1>1
  <2>4. PICK S \in SUBSET Messages : S = Rec' \ Rec
    BY <2>3
  <2>5. Delivery!Record(S)
    BY <2>2, <2>3, <2>4 DEF Delivery!Record
  <2> QED
    BY <2>5 DEF Delivery!Next
<1>3. ASSUME ~Append, \A d \in Dispatchers, m \in Messages : ~MarkDispatched(d, m)
      PROVE  Rec' = Rec /\ Done' = Done
  BY <1>1, <1>3
<1>4. ASSUME NEW d \in Dispatchers, NEW m \in Messages,
             Dispatch(d, m) \/ DispatchRaises(d, m)
      PROVE  [Delivery!Next]_Delivery!vars
  <2>1. row' = row /\ effects' \in {effects, effects \union {m}}
    BY <1>4 DEF Dispatch, DispatchRaises
  <2>2. m \in Rec
    BY <1>4 DEF Dispatch, DispatchRaises, IsCurrent, IInv, WorkIsDurable
  <2>3. CASE effects' = effects
    BY <2>1, <2>3 DEF Delivery!vars
  <2>4. CASE effects' = effects \union {m}
    BY <2>1, <2>2, <2>4 DEF Delivery!Hand, Delivery!Next
  <2> QED
    BY <2>1, <2>3, <2>4
<1>5. ASSUME NEW d \in Dispatchers, NEW m \in Messages, MarkDispatched(d, m)
      PROVE  [Delivery!Next]_Delivery!vars
  <2>1. m \in effects /\ effects' = effects
    BY <1>5 DEF MarkDispatched, IInv, WorkIsDurable
  <2>2. Rec' = Rec /\ Done' = Done \union {m}
    BY <1>5 DEF MarkDispatched, Owns, Row, IInv, TypeOK
  <2>3. Delivery!Settle(m)
    BY <2>1, <2>2 DEF Delivery!Settle
  <2> QED
    BY <2>3 DEF Delivery!Next
<1>6. ASSUME UNCHANGED effects, ~Append,
             \A d \in Dispatchers, m \in Messages : ~MarkDispatched(d, m)
      PROVE  UNCHANGED Delivery!vars
  BY <1>3, <1>6 DEF Delivery!vars
<1>7. ASSUME \A d \in Dispatchers, m \in Messages : ~Dispatch(d, m) /\ ~DispatchRaises(d, m)
      PROVE  UNCHANGED effects
  BY <1>7 DEF Next, Walk, Append, Tick, Claim, MarkDispatched, Retry, ClaimLost, Crash,
              Abandon, vars
<1> QED
  BY <1>2, <1>4, <1>5, <1>6, <1>7

\* Whatever the dispatchers, clocks and faults do, the outbox is a safe
\* at-least-once delivery: nothing recorded is lost, nothing is settled unsent.
THEOREM OutboxImplementsDelivery == Spec => ImplementsDelivery
<1>1. IInv /\ IInv' /\ [Next]_vars => [Delivery!Next]_Delivery!vars
  BY DeliveryStep
<1> QED
  BY <1>1, DeliveryInit, OutboxInductive, PTL DEF Spec, ImplementsDelivery, Delivery!Safe
=============================================================================
