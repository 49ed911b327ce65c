-------------------------- MODULE GameOrchestrator --------------------------
(***************************************************************************)
(* GameOrchestrator over the durable hand-event store and the durable      *)
(* session store, called by any number of processes (API workers, bots,    *)
(* retries of a client) that share nothing but the two stores.             *)
(*                                                                         *)
(* A process holds a session it loaded at some earlier time and works      *)
(* through a request: recover the session, read the hand's durable events, *)
(* decide, append a batch, save the successor session.  Every store        *)
(* transaction is one step, so two processes interleave exactly between    *)
(* transactions; Crash drops everything a process has not committed.       *)
(***************************************************************************)
EXTENDS SessionRules

CONSTANTS Procs,    \* callers, each with a GameOrchestrator of its own
          Patient,  \* the callers that keep coming back (fairness only)
          Ids,      \* command ids (the causation_id of the events they cause)
          Requests, \* bound: the commands callers may send
          MaxHands  \* bound: hands a session may start

Hands == 1 .. MaxHands
Intent == [seat : Seats, action : Actions, amount : Nat]

OpenCommand == [kind : {"open"}, id : Ids, hand : Hands, expected : Nat, seed : Seeds]
ActCommand == [kind : {"act"}, id : Ids, hand : Hands, expected : Nat, intent : Intent]

ASSUME OrchestratorAssumption ==
    /\ MaxHands \in Nat \ {0} /\ Patient \subseteq Procs
    /\ Requests \subseteq OpenCommand \cup ActCommand

NoCommand == [kind |-> "none"]
StoredSession == [revision : Nat, session : Session]
NoStored == [revision |-> 0, session |-> Created(0)]   \* an idle process holds none

OpeningFact == [button : Seats, stacks : [Seats -> Nat], active : SUBSET Seats]
Payload == [kind : {"hand_started"}, facts : OpeningFact, seed : Seeds]
      \cup [kind : {"hole_cards_recorded"}, seat : Seats, seed : Seeds]
      \cup [kind : {"action_taken"}, intent : Intent]
      \cup [kind : {"board_dealt"}, street : Nat, seed : Seeds]
      \cup [kind : {"hand_completed"}, winners : SUBSET Seats]
Event == [sequence : Nat, cause : Ids, offset : Nat, payload : Payload]

VARIABLES
    log,      \* log[h]: durable hand_events of hand h, in sequence order
    stored,   \* the game_sessions row: [revision, session]
    pc,       \* where each process is in its request
    held,     \* the StoredGameSession each process works with
    cmd,      \* the command it is executing
    durable,  \* the events it read before deciding (the local `durable`)
    batch,    \* the events it is about to append
    next      \* the successor session it is about to save

procVars == <<pc, held, cmd, durable, batch, next>>
vars == <<log, stored, procVars>>

(***************************************************************************)
(* The events a command causes.                                            *)
(***************************************************************************)
EventsFor(c, payloads) ==
    [i \in 1 .. Len(payloads) |->
        [sequence |-> c.expected + i, cause |-> c.id, offset |-> i, payload |-> payloads[i]]]

\* HandStarted, then one HoleCardsRecorded per seat; order lists the seats sorted
OpeningPayloads(se, seed, order) ==
    <<[kind |-> "hand_started", facts |-> OpeningFacts(se), seed |-> seed]>>
      \o [i \in 1 .. Len(order) |->
            [kind |-> "hole_cards_recorded", seat |-> order[i], seed |-> seed]]

\* The streets dealt after the action: the loop deals while the hand goes on
\* with nobody to act and fewer than five board cards.
AfterDeals(st) ==
    LET after[k \in 0 .. River] == IF k = 0 THEN st ELSE Dealt(after[k - 1]) IN after
DealDue(st) == InProgress(st) /\ Actor(st) = NoSeat /\ st.street < River
DealsDue(st) == Cardinality({k \in 0 .. River - 1 : \A j \in 0 .. k : DealDue(AfterDeals(st)[j])})

ActionPayloads(es, intent) ==
    <<[kind |-> "action_taken", intent |-> intent]>>
      \o [k \in 1 .. DealsDue(Acted(StateOf(es), intent)) |->
            [kind |-> "board_dealt", street |-> BoardsDealt(es) + k, seed |-> SeedOf(es)]]

\* the action, the deals it triggers, and the completion if the hand is over
ActionBatch(es, c) ==
    LET played == EventsFor(c, ActionPayloads(es, c.intent))
    IN  IF InProgress(StateOf(es \o played))
        THEN played
        ELSE EventsFor(c, Append(ActionPayloads(es, c.intent),
                            [kind |-> "hand_completed", winners |-> Winners(es \o played)]))

(***************************************************************************)
(* Checks on a durable stream.                                             *)
(***************************************************************************)
\* _validate_seed_provenance: every card was dealt by the seed of HandStarted
SeedProvenance(es) ==
    /\ IsKind(es[1], "hand_started")
    /\ \A i \in 1 .. Len(es) :
          es[i].payload.kind \in {"hole_cards_recorded", "board_dealt"}
             => es[i].payload.seed = SeedOf(es)

\* _validate_opening_facts against the session's ACTIVE hand
OpeningFactsMatch(se, es) == /\ IsKind(es[1], "hand_started")
                             /\ Facts(es) = OpeningFacts(se)

\* the command's HandStarted / ActionTaken is durable, where and as it intended
StartedBy(es, c) ==
    \E i \in CausedBy(es, c.id) : /\ IsKind(es[i], "hand_started")
                                  /\ es[i].sequence = c.expected + 1
                                  /\ es[i].payload.seed = c.seed
ActedBy(es, c) ==
    \E i \in CausedBy(es, c.id) : /\ IsKind(es[i], "action_taken")
                                  /\ es[i].sequence = c.expected + 1
                                  /\ es[i].payload.intent = c.intent

TookEffect(es, c) == IF c.kind = "open" THEN StartedBy(es, c) ELSE ActedBy(es, c)

OwnsActive(se, h) == se.active # NoHand /\ se.active.hand = h
OwnsHand(se, h) == OwnsActive(se, h) \/ h \in Range(se.completed)

\* what open_hand asks of a durable hand before it answers a retry from it
OpeningRepeated(se, es, c) ==
    /\ es # <<>>
    /\ SeedProvenance(es) /\ OpeningFactsMatch(se, es)
    /\ StartedBy(es, c) /\ Replayable(es)

\* what execute asks of any hand before it looks at the command
CanRead(se, h, es) == /\ OwnsHand(se, h) /\ es # <<>>
                      /\ SeedProvenance(es)
                      /\ se.active # NoHand => OpeningFactsMatch(se, es)

ActionRepeated(es, c) == CausedBy(es, c.id) # {} /\ ActedBy(es, c) /\ Replayable(es)

\* mutant: forgets to look the command id up
ActionAccepted_AnyId(se, es, c) == /\ ~HasCompleted(es) /\ se.active # NoHand
                                   /\ Len(es) = c.expected
                                   /\ Actor(StateOf(es)) = c.intent.seat
                                   /\ Legal(StateOf(es), c.intent)

ActionAccepted(se, es, c) == /\ CausedBy(es, c.id) = {}
                             /\ ~HasCompleted(es) /\ se.active # NoHand
                             /\ Len(es) = c.expected
                             /\ Actor(StateOf(es)) = c.intent.seat
                             /\ Legal(StateOf(es), c.intent)

\* mutant: takes any event of the command id for this command's success
AlreadyCommitted_AnyIntent(se, es, c) == CausedBy(es, c.id) # {} /\ Replayable(es)

\* after an ExpectedSequenceConflict: the same command got there first
AlreadyCommitted(se, es, c) == /\ TookEffect(es, c) /\ SeedProvenance(es)
                               /\ c.kind = "open" => OpeningFactsMatch(se, es)
                               /\ Replayable(es)

\* mutant: settles again a hand the session has completed
SuccessorForReplay_Again(se, h, es) ==
    IF InProgress(StateOf(es)) THEN {se} ELSE CompletedBy(se, h, EndingStacks(es))

\* _successor_for_replay
SuccessorForReplay(se, h, es) ==
    IF InProgress(StateOf(es)) \/ se.active = NoHand
    THEN {se}
    ELSE CompletedBy(se, h, EndingStacks(es))

(***************************************************************************)
(* Steps of a process.                                                     *)
(***************************************************************************)
\* Forget every local of the request and go to a place in the next one.
Reset(p, place, st) ==
    /\ pc' = [pc EXCEPT ![p] = place]
    /\ held' = [held EXCEPT ![p] = st]
    /\ cmd' = [cmd EXCEPT ![p] = NoCommand]
    /\ durable' = [durable EXCEPT ![p] = <<>>]
    /\ batch' = [batch EXCEPT ![p] = <<>>]
    /\ next' = [next EXCEPT ![p] = NoStored.session]

Idle(p) == Reset(p, "idle", NoStored)

\* continue to the save of successor t, answering command c
ToSave(p, c, t) ==
    /\ pc' = [pc EXCEPT ![p] = "save"]
    /\ cmd' = [cmd EXCEPT ![p] = c]
    /\ next' = [next EXCEPT ![p] = t]
    /\ durable' = [durable EXCEPT ![p] = <<>>]
    /\ batch' = [batch EXCEPT ![p] = <<>>]
    /\ UNCHANGED held

ToAppend(p, c, es, b, t) ==
    /\ pc' = [pc EXCEPT ![p] = "append"]
    /\ cmd' = [cmd EXCEPT ![p] = c]
    /\ durable' = [durable EXCEPT ![p] = es]
    /\ batch' = [batch EXCEPT ![p] = b]
    /\ next' = [next EXCEPT ![p] = t]
    /\ UNCHANGED held

\* SQLiteGameSessionStore.load
Load(p) ==
    /\ pc[p] = "idle"
    /\ Reset(p, "recover", stored)
    /\ UNCHANGED <<log, stored>>

\* mutant: trusts the session row
Recover_Nothing(p) == pc[p] = "recover" /\ Reset(p, "ready", held[p]) /\ UNCHANGED <<log, stored>>

\* recover: close the window between a terminal append and the session save
Recover(p) ==
    LET se == held[p].session
        es == IF se.active = NoHand THEN <<>> ELSE log[se.active.hand]
    IN  /\ pc[p] = "recover"
        /\ es # <<>> => Replayable(es)   \* or replay_hand raises and the request dies
        /\ IF es # <<>> /\ HasCompleted(es)
           THEN \E t \in CompletedBy(se, se.active.hand, EndingStacks(es)) : ToSave(p, NoCommand, t)
           ELSE Reset(p, "ready", held[p])
        /\ UNCHANGED <<log, stored>>

\* the caller moves the session to its next hand
StartNextHand(p) ==
    /\ pc[p] = "ready"
    /\ held[p].session.handSequence < MaxHands
    /\ \E t \in StartedNext(held[p].session) : ToSave(p, NoCommand, t)
    /\ UNCHANGED <<log, stored>>

\* open_hand up to its append: the retry of a durable opening, or a fresh deal
OpenHand(p, c) ==
    LET se == held[p].session
        es == log[c.hand]
        fresh    == OwnsActive(se, c.hand) /\ es = <<>> /\ c.expected = 0
        repeated == OwnsActive(se, c.hand) /\ OpeningRepeated(se, es, c)
    IN  /\ pc[p] = "ready"
        /\ \/ /\ fresh
              /\ \E order \in [1 .. Cardinality(se.active.seats) -> se.active.seats] :
                    /\ \A i, j \in DOMAIN order : i < j => order[i] < order[j]
                    /\ ToAppend(p, c, es, EventsFor(c, OpeningPayloads(se, c.seed, order)), se)
           \/ repeated /\ \E t \in SuccessorForReplay(se, c.hand, es) : ToSave(p, c, t)
           \/ ~fresh /\ ~repeated /\ Idle(p)
        /\ UNCHANGED <<log, stored>>

\* execute up to its append: the retry of a durable action, or a new one
Execute(p, c) ==
    LET se == held[p].session
        es == log[c.hand]
        repeated == CanRead(se, c.hand, es) /\ ActionRepeated(es, c)
        accepted == CanRead(se, c.hand, es) /\ ActionAccepted(se, es, c)
    IN  /\ pc[p] = "ready"
        /\ \/ repeated /\ \E t \in SuccessorForReplay(se, c.hand, es) : ToSave(p, c, t)
           \/ /\ accepted
              /\ LET b == ActionBatch(es, c)
                 IN  /\ Replayable(es \o b)
                     /\ \E t \in SuccessorForReplay(se, c.hand, es \o b) : ToAppend(p, c, es, b, t)
           \/ ~repeated /\ ~accepted /\ Idle(p)
        /\ UNCHANGED <<log, stored>>

\* mutant: no check of the head
AppendBatch_Unchecked(p) ==
    /\ pc[p] = "append"
    /\ log' = [log EXCEPT ![cmd[p].hand] = @ \o batch[p]]
    /\ ToSave(p, cmd[p], next[p]) /\ UNCHANGED stored

\* HandEventStore.append: one transaction, checked against the durable head
AppendBatch(p) ==
    LET h == cmd[p].hand
        duplicate == \E i \in 1 .. Len(log[h]), j \in 1 .. Len(batch[p]) :
                        EventId(log[h][i]) = EventId(batch[p][j])
    IN  /\ pc[p] = "append"
        /\ \/ /\ Len(log[h]) = cmd[p].expected
              /\ IF duplicate
                 THEN Idle(p) /\ UNCHANGED log   \* HandEventIdentityConflict
                 ELSE /\ log' = [log EXCEPT ![h] = @ \o batch[p]]
                      /\ ToSave(p, cmd[p], next[p])
           \/ /\ Len(log[h]) # cmd[p].expected   \* ExpectedSequenceConflict
              /\ pc' = [pc EXCEPT ![p] = "reread"]
              /\ batch' = [batch EXCEPT ![p] = <<>>]
              /\ durable' = [durable EXCEPT ![p] = <<>>]
              /\ UNCHANGED <<log, held, cmd, next>>
        /\ UNCHANGED stored

\* the single re-read after an ExpectedSequenceConflict
Reconcile(p) ==
    LET se == held[p].session
        c  == cmd[p]
        es == log[c.hand]
    IN  /\ pc[p] = "reread"
        /\ IF AlreadyCommitted(se, es, c)
           THEN \E t \in SuccessorForReplay(se, c.hand, es) : ToSave(p, c, t)
           ELSE Idle(p)
        /\ UNCHANGED <<log, stored>>

\* mutants: no compare-and-set; an identical save answers with the next revision
Save_LastWriterWins(p) ==
    /\ pc[p] = "save"
    /\ stored' = [revision |-> stored.revision + 1, session |-> next[p]]
    /\ Reset(p, "ready", [revision |-> stored.revision + 1, session |-> next[p]])
    /\ UNCHANGED log
Save_ReturnsNextRevision(p) ==
    /\ pc[p] = "save"
    /\ IF next[p] = stored.session \/ held[p].revision = stored.revision
       THEN /\ stored' = IF next[p] = stored.session THEN stored
                         ELSE [revision |-> stored.revision + 1, session |-> next[p]]
            /\ Reset(p, "ready", [revision |-> stored.revision + 1, session |-> next[p]])
       ELSE Idle(p) /\ UNCHANGED stored
    /\ UNCHANGED log

\* SQLiteGameSessionStore.save: compare-and-set on the revision, except that
\* saving what is already stored just returns the current revision
Save(p) ==
    /\ pc[p] = "save"
    /\ \/ next[p] = stored.session /\ UNCHANGED stored /\ Reset(p, "ready", stored)
       \/ /\ next[p] # stored.session
          /\ held[p].revision = stored.revision
          /\ stored' = [revision |-> stored.revision + 1, session |-> next[p]]
          /\ Reset(p, "ready", [revision |-> stored.revision + 1, session |-> next[p]])
       \/ /\ next[p] # stored.session
          /\ held[p].revision # stored.revision
          /\ Idle(p) /\ UNCHANGED stored
    /\ UNCHANGED log

\* the request is answered
Finish(p) == pc[p] = "ready" /\ Idle(p) /\ UNCHANGED <<log, stored>>

\* the process dies, or a store error aborts the request, between transactions
Crash(p) == pc[p] \notin {"idle", "ready"} /\ Idle(p) /\ UNCHANGED <<log, stored>>

Init ==
    /\ log = [h \in Hands |-> <<>>]
    /\ \E s \in StartedNext(Created(0)) : stored = [revision |-> 1, session |-> s]
    /\ pc = [p \in Procs |-> "idle"]
    /\ held = [p \in Procs |-> NoStored]
    /\ cmd = [p \in Procs |-> NoCommand]
    /\ durable = [p \in Procs |-> <<>>]
    /\ batch = [p \in Procs |-> <<>>]
    /\ next = [p \in Procs |-> NoStored.session]

Step(p) ==
    \/ Load(p) \/ Recover(p) \/ StartNextHand(p)
    \/ \E c \in Requests : c.kind = "open" /\ OpenHand(p, c)
    \/ \E c \in Requests : c.kind = "act" /\ Execute(p, c)
    \/ AppendBatch(p) \/ Reconcile(p) \/ Save(p) \/ Finish(p) \/ Crash(p)

Next == \E p \in Procs : Step(p)

Spec == Init /\ [][Next]_vars

\* A patient client keeps polling the table, does not stop in the middle of a
\* request, and is not killed every time it gets to recover or to save: strong
\* fairness of those two, which a crash can interrupt.  Nothing is assumed of
\* the other callers.
Proceed(p) == Load(p) \/ AppendBatch(p) \/ Reconcile(p) \/ Finish(p)
Fairness ==
    \A p \in Patient : /\ WF_vars(Proceed(p))
                       /\ SF_vars(Recover(p))
                       /\ SF_vars(Save(p))

FairSpec == Spec /\ Fairness

(***************************************************************************)
(* Properties.                                                             *)
(***************************************************************************)
\* Every variable holds a value of its kind; in particular every durable
\* event has a known payload and a process only ever holds a well-typed session.
TypeOK ==
    /\ log \in [Hands -> Seq(Event)]
    /\ stored \in StoredSession
    /\ pc \in [Procs -> {"idle", "recover", "ready", "append", "reread", "save"}]
    /\ held \in [Procs -> StoredSession]
    /\ cmd \in [Procs -> OpenCommand \cup ActCommand \cup {NoCommand}]
    /\ durable \in [Procs -> Seq(Event)]
    /\ batch \in [Procs -> Seq(Event)]
    /\ next \in [Procs -> Session]

\* Whatever order concurrent callers append in, every durable stream passes
\* validate_hand_event_stream and agrees with its own settlement, so that
\* read -> replay_hand (which every caller does first) never raises.
StreamsReplay == \A h \in Hands : log[h] # <<>> => Replayable(log[h])

\* A durable hand is one legal play of the rules, with no step half done: each
\* action was legal for the seat to act where it landed, a street was dealt
\* only when betting had closed, and a stream ends with a seat to act or with
\* its completion.
Prefix(es, i) == SubSeq(es, 1, i)
LegalPlay(es) ==
    /\ \A i \in 2 .. Len(es) :
          LET before == StateOf(Prefix(es, i - 1))
          IN  /\ IsKind(es[i], "action_taken") =>
                    /\ Actor(before) = es[i].payload.intent.seat
                    /\ Legal(before, es[i].payload.intent)
              /\ IsKind(es[i], "board_dealt") => InProgress(before) /\ Actor(before) = NoSeat
              /\ IsKind(es[i], "hand_completed") => ~InProgress(before)
    /\ IF HasCompleted(es) THEN ~InProgress(StateOf(es)) ELSE Actor(StateOf(es)) # NoSeat
LogsAreLegalPlay == \A h \in Hands : log[h] # <<>> => LegalPlay(log[h])

\* However commands race, are retried and die, a hand's log is a legal play that
\* replays.
HistoriesReplay == StreamsReplay /\ LogsAreLegalPlay

IsBeginning(d, es) == Len(d) <= Len(es) /\ \A i \in 1 .. Len(d) : es[i] = d[i]
IsBatchOf(b, c) ==
    /\ Len(b) >= 1
    /\ \A j \in 1 .. Len(b) : b[j].sequence = c.expected + j /\ b[j].cause = c.id /\ b[j].offset = j
    /\ IF c.kind = "open"
       THEN IsKind(b[1], "hand_started") /\ b[1].payload.seed = c.seed
       ELSE IsKind(b[1], "action_taken") /\ b[1].payload.intent = c.intent

\* What a process about to append relies on, however long ago it read: the
\* events it decided on are still the beginning of the hand (the head may have
\* moved past them, never under them), the command caused none of them, and the
\* batch continues exactly them.
PendingBatch ==
    \A p \in Procs :
        /\ pc[p] \in {"append", "reread"} => cmd[p] # NoCommand
        /\ pc[p] = "append" =>
              /\ Len(durable[p]) = cmd[p].expected
              /\ IsBeginning(durable[p], log[cmd[p].hand])
              /\ CausedBy(durable[p], cmd[p].id) = {}
              /\ IsBatchOf(batch[p], cmd[p])

\* Sequence numbers are gapless: an event's number is its place in the hand.
Contiguous == \A h \in Hands : \A i \in 1 .. Len(log[h]) : log[h][i].sequence = i

\* A command id takes effect at most once in a hand, however often it is
\* retried and by whomever: all events it caused are one batch.
CommandOnce ==
    \A h \in Hands : \A i, j \in 1 .. Len(log[h]) :
        log[h][i].cause = log[h][j].cause
          => i - log[h][i].offset = j - log[h][j].offset

\* What a caller is told has happened has happened: on the way out of open_hand
\* or execute (fresh, idempotent or reconciled after a conflict) the command's
\* event is durable, at the sequence and with the intent it was sent with.
ReportedIsDurable ==
    \A p \in Procs : pc[p] = "save" /\ cmd[p] # NoCommand => TookEffect(log[cmd[p].hand], cmd[p])

\* A batch that passes the head check never collides with a durable event id,
\* so HandEventIdentityConflict is unreachable for the orchestrator's callers.
NoIdentityConflict ==
    \A p \in Procs : pc[p] = "append" /\ Len(log[cmd[p].hand]) = cmd[p].expected =>
        \A i \in 1 .. Len(log[cmd[p].hand]), j \in 1 .. Len(batch[p]) :
            EventId(log[cmd[p].hand][i]) # EventId(batch[p][j])

\* A revision identifies one session value: two processes that hold the same
\* revision hold the same session, and nobody holds a revision from the future.
RevisionPinsSession ==
    /\ stored.revision > 0
    /\ \A p \in Procs :
          /\ held[p].revision = 0 <=> pc[p] = "idle"
          /\ held[p].revision <= stored.revision
          /\ held[p].revision = stored.revision => held[p].session = stored.session
          /\ \A q \in Procs : held[q].revision = held[p].revision => held[q].session = held[p].session

\* The session is explained by the event logs: replaying the completed hands in
\* order, with their rebuys and button moves, gives exactly the stored session,
\* and every hand was opened with the facts that replay predicts.  Nothing is
\* settled twice, skipped, or settled from a hand that is still going on.
Explained ==
    LET The(S) == CHOOSE t \in S : TRUE
        after[k \in 0 .. MaxHands] ==
            IF k = 0 THEN Created(0)
            ELSE The(CompletedBy(The(StartedNext(after[k - 1])), k, EndingStacks(log[k])))
        settled == Len(stored.session.completed)
    IN  /\ \A k \in 1 .. settled : log[k] # <<>> /\ HasCompleted(log[k])
        /\ stored.session = IF stored.session.active = NoHand THEN after[settled]
                            ELSE The(StartedNext(after[settled]))
        /\ \A h \in Hands : log[h] # <<>> =>
              /\ h <= stored.session.handSequence
              /\ Facts(log[h]) = OpeningFacts(The(StartedNext(after[h - 1])))

\* The session never violates its own validators, which pydantic would turn
\* into an exception in the middle of a request.
SessionsValid == ValidSession(stored.session) /\ \A p \in Procs : ValidSession(next[p])

\* Sending the same command again is answered idempotently by every process
\* whose session owns the hand (docs/simulator-game-orchestrator-v1.md:39-41).
RetryIsAnswered ==
    \A p \in Procs, h \in Hands :
        pc[p] = "ready" /\ log[h] # <<>> /\ OwnsHand(held[p].session, h)
           => CanRead(held[p].session, h, log[h])

\* ... and the part of it that holds: the retry of a command of the hand the
\* session is playing, or of any hand while none is active, can be read and has
\* a successor session to answer with.
RetryOfCurrentIsAnswered ==
    \A p \in Procs, h \in Hands :
        LET se == held[p].session
        IN  pc[p] = "ready" /\ log[h] # <<>> /\ OwnsHand(se, h)
                /\ (OwnsActive(se, h) \/ se.active = NoHand)
               => CanRead(se, h, log[h]) /\ SuccessorForReplay(se, h, log[h]) # {}

\* The session is valid, is what the logs say, and answers for its hand.
SessionsExplained == TypeOK /\ Explained /\ SessionsValid /\ RetryOfCurrentIsAnswered

\* The stores implement the ledger: a command is an atomic step of it.
Accepted(es) ==
    LET upTo[i \in 0 .. Len(es)] ==
            IF i = 0 THEN <<>>
            ELSE IF es[i].offset = 1   \* the first event of its batch
                 THEN Append(upTo[i - 1], [id |-> es[i].cause, expected |-> es[i].sequence - 1])
                 ELSE upTo[i - 1]
    IN  upTo[Len(es)]
Ledger == INSTANCE HandLedger WITH
    accepted <- [h \in Hands |-> Accepted(log[h])],
    head     <- [h \in Hands |-> Len(log[h])],
    closed   <- [h \in Hands |-> HasCompleted(log[h])],
    current  <- stored.session.handSequence,
    settled  <- Len(stored.session.completed)
ImplementsLedger == Ledger!Spec

\* A hand whose completion is durable is eventually settled into the session,
\* even if the process that completed it died before saving.
CompletedIsSettled ==
    \A h \in Hands : HasCompleted(log[h]) ~> h \in Range(stored.session.completed)

=============================================================================
