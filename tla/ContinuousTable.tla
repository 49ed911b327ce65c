--------------------------- MODULE ContinuousTable ---------------------------
(***************************************************************************)
(* ContinuousTableService: one table whose session, hand events, command   *)
(* log and bot decisions live in one SQLite file, served by workers that   *)
(* share nothing else.  A request is a chain of separate transactions;     *)
(* a worker may die, or a transaction fail, between any two of them.       *)
(*                                                                         *)
(* A hand is the sequence of the batches the orchestrator appended: who    *)
(* caused it and who is to act after it ("hero", "bot", or "over").  The   *)
(* rules of play are HandRules' business, the orchestrator's own reads and *)
(* retries GameOrchestrator's: here its append is one step.                *)
(***************************************************************************)
EXTENDS Integers, Sequences, FiniteSets

CONSTANTS Workers,       \* processes serving the table
          Ids,           \* the commandIds clients use
          NoId,          \* stands for the derived command id of a bot
          SequenceRange, \* 1_000_000 in _projection
          MaxHands,      \* bound: hands of the table
          MaxBatches,    \* bound: batches of a hand
          MaxRequests,   \* bound: different requests clients send
          MaxCrashes     \* bound: deaths of a worker and failed transactions

Hands == 1 .. MaxHands
Turns == {"hero", "bot", "over"}
Kinds == {"create", "hero", "next", "bot"}

\* What an instance assumes of its constants.
TableAssumption ==
    /\ NoId \notin Ids
    /\ MaxBatches \in 2 .. SequenceRange - 1 /\ SequenceRange \in Nat
    /\ MaxHands \in Nat \ {0} /\ MaxRequests \in Nat /\ MaxCrashes \in Nat

\* a command: rev is the expectedRevision (of a bot: the sequence it acts on)
Request == [kind : Kinds, id : Ids \cup {NoId}, hand : Nat, rev : Nat]
Batch == [by : Request, turn : Turns]
\* game_sessions: revision, hand_sequence, and whether that hand is active
Session == [rev : Nat, hand : Nat, active : BOOLEAN]
NoSession == [rev |-> 0, hand |-> 0, active |-> FALSE]
NoRequest == [kind |-> "bot", id |-> NoId, hand |-> 0, rev |-> 0]

VARIABLES
    row,       \* the game_sessions row
    logs,      \* logs[h]: the durable batches of hand h
    meta,      \* whether the continuous_table_metadata row is there
    commands,  \* continuous_table_commands: the requests recorded
    decisions, \* continuous_table_bot_decisions: <<hand, sequence>> keys
    reviews,   \* hands whose review was materialized
    wedged,    \* workers whose connection holds an open write transaction
    pc, req, held, seen,  \* per worker: place, request, session, expected sequence
    sent,      \* the requests clients have sent (they may send them again)
    answered,  \* the requests that were answered without an error
    crashes,
    serial     \* history: whether no request began while another was running

durable == <<row, logs, meta, commands, decisions, reviews>>
local == <<pc, req, held, seen>>
vars == <<durable, wedged, local, sent, answered, crashes, serial>>

Turn(es) == es[Len(es)].turn
Over(es) == es # <<>> /\ Turn(es) = "over"

\* mutant: forgets the session's own revision
Revision_OfHand(se, es) == Len(es)
Revision(se, es) == se.rev * SequenceRange + Len(es)
CurrentRevision == Revision(row, logs[row.hand])

\* _load_create_command / _command_matches: the row found under the id
Recorded(q) == {c \in commands : /\ c.id = q.id
                                 /\ q.kind = "create" => c.kind = "create"}

SameRequest(q) == Recorded(q) = {q}

\* the causation id the orchestrator sees ("open:..." for a create)
Cause(q) == <<q.kind \in {"create", "bot"}, q.id, IF q.kind = "bot" THEN q.rev ELSE 0>>
CausedAt(es, q) == {i \in 1 .. Len(es) : Cause(es[i].by) = Cause(q)}

(***************************************************************************)
(* Places of a worker.                                                     *)
(***************************************************************************)
Goes(w, place) == pc' = [pc EXCEPT ![w] = place]
Ends(w) == /\ Goes(w, "idle")
           /\ req' = [req EXCEPT ![w] = NoRequest]
           /\ held' = [held EXCEPT ![w] = NoSession]
           /\ seen' = [seen EXCEPT ![w] = 0]
\* an error: the client gets it, nothing more is written
Refuses(w) == Ends(w) /\ UNCHANGED <<durable, wedged, sent, answered, crashes, serial>>

\* SQLite grants the write lock only if no connection holds it
Writable == wedged = {}

\* SQLiteGameSessionStore.save of se with expected revision se.rev
Savable(se) == \/ row.rev = 0 /\ se.rev = 0
               \/ row.rev > 0 /\ (row.rev = se.rev \/ (row.hand = se.hand /\ row.active = se.active))
Stored(se) == IF row.hand = se.hand /\ row.active = se.active
              THEN row
              ELSE [se EXCEPT !.rev = row.rev + 1]

Saves(w, se, place) ==
    IF Writable /\ Savable(se)
    THEN /\ row' = Stored(se)
         /\ held' = [held EXCEPT ![w] = Stored(se)]
         /\ Goes(w, place)
         /\ UNCHANGED <<logs, meta, commands, decisions, reviews, wedged, req, seen, sent, answered, crashes, serial>>
    ELSE Refuses(w)

(***************************************************************************)
(* GameOrchestrator.execute / open_hand of command q on hand h, expecting  *)
(* the sequence s: appended once, repeated if the same command is already  *)
(* there, refused otherwise.                                               *)
(***************************************************************************)
\* mutant: appends wherever the log stands
Accepts_Anywhere(es, q, s) == ~Over(es)
Accepts(es, q, s) == CausedAt(es, q) = {} /\ ~Over(es) /\ Len(es) = s
\* the event of the command is the one right after the expected sequence
Repeats(es, q, s) == s + 1 \in CausedAt(es, q)

\* who may be to act next; the bound closes the hand
NextTurns(es) == CASE es = <<>> -> {"hero", "bot"}
                   [] Len(es) + 1 < MaxBatches -> Turns
                   [] OTHER -> {"over"}

\* the session _successor_for_replay returns
After(se, es) == [se EXCEPT !.active = se.active /\ ~Over(es)]

Executes(w, q, place) ==
    LET es == logs[held[w].hand] IN
    \/ /\ Writable /\ Accepts(es, q, seen[w])
       /\ \E t \in NextTurns(es) :
             LET grown == Append(es, [by |-> q, turn |-> t]) IN
             /\ logs' = [logs EXCEPT ![held[w].hand] = grown]
             /\ held' = [held EXCEPT ![w] = After(held[w], grown)]
       /\ Goes(w, place)
       /\ UNCHANGED <<row, meta, commands, decisions, reviews, wedged, req, seen, sent, answered, crashes, serial>>
    \/ /\ Repeats(es, q, seen[w])
       /\ held' = [held EXCEPT ![w] = After(held[w], es)]
       /\ Goes(w, place)
       /\ UNCHANGED <<durable, wedged, req, seen, sent, answered, crashes, serial>>
    \/ ~(Writable /\ Accepts(es, q, seen[w])) /\ ~Repeats(es, q, seen[w]) /\ Refuses(w)

(***************************************************************************)
(* Requests.                                                               *)
(***************************************************************************)
\* what a client may send: about the table as a projection shows it, or again
Sendable ==
    LET fresh == {[kind |-> "create", id |-> i, hand |-> 0, rev |-> 0] : i \in Ids}
                   \cup IF ~meta THEN {}
                        ELSE {[kind |-> "hero", id |-> i, hand |-> row.hand, rev |-> CurrentRevision] : i \in Ids}
                               \cup (IF row.hand < MaxHands
                                     THEN {[kind |-> "next", id |-> i, hand |-> 0, rev |-> CurrentRevision] : i \in Ids}
                                     ELSE {})
    IN  sent \cup IF Cardinality(sent) < MaxRequests THEN fresh ELSE {}

\* the first read of create, submit_hero_action and start_next_hand
Receive(w, q) ==
    /\ pc[w] = "idle" /\ q \in Sendable
    /\ sent' = sent \cup {q}
    /\ IF Recorded(q) = {}
       THEN Goes(w, IF q.kind = "create" THEN "load" ELSE "recover") /\ req' = [req EXCEPT ![w] = q]
       ELSE IF SameRequest(q)
       THEN Goes(w, "answer") /\ req' = [req EXCEPT ![w] = q]
       ELSE UNCHANGED <<pc, req>>     \* command_id_conflict
    /\ serial' = (serial /\ \A v \in Workers : pc[v] = "idle")
    /\ UNCHANGED <<durable, wedged, held, seen, answered, crashes>>

\* create: the session must not exist, then it is saved with its first hand
LoadNothing(w) ==
    /\ pc[w] = "load"
    /\ IF row.rev > 0 THEN Refuses(w)  \* session_already_exists
       ELSE /\ held' = [held EXCEPT ![w] = [rev |-> 0, hand |-> 1, active |-> TRUE]]
            /\ Goes(w, "create")
            /\ UNCHANGED <<durable, wedged, req, seen, sent, answered, crashes, serial>>

SaveCreated(w) == pc[w] = "create" /\ Saves(w, held[w], "insert")

\* an INSERT meets a row under its primary key: the error leaves the
\* connection's implicit transaction open, and the write lock with it
Wedges(w) == /\ Ends(w)
             /\ wedged' = wedged \cup {w}
             /\ UNCHANGED <<durable, sent, answered, crashes, serial>>

InsertMetadata(w) ==
    /\ pc[w] = "insert"
    /\ \/ Writable /\ meta /\ Wedges(w)
       \/ ~Writable /\ Refuses(w)
       \/ /\ Writable /\ ~meta
          /\ meta' = TRUE
          /\ commands' = commands \cup {req[w]}
          /\ seen' = [seen EXCEPT ![w] = 0]
          /\ Goes(w, "open")
          /\ UNCHANGED <<row, logs, decisions, reviews, wedged, req, held, sent, answered, crashes, serial>>

\* _recover: load the session, and settle its hand if the log ends it
Recover(w, from, place) ==
    /\ pc[w] = from
    /\ IF row.rev = 0 THEN Refuses(w)   \* session_not_found
       ELSE Saves(w, After(row, logs[row.hand]), place)

RecoverTable(w) == Recover(w, "recover", "project")

RequireRevision(q, se) == q.rev = Revision(se, logs[se.hand])

MayTake(q, se) == /\ q.kind = "hero" => se.active /\ q.hand = se.hand
                  /\ q.kind = "next" => ~se.active

\* the metadata and the projection, and what they must agree with
Project(w) ==
    /\ pc[w] = "project"
    /\ LET q == req[w]  se == held[w] IN
       IF meta /\ RequireRevision(q, se) /\ MayTake(q, se)
       THEN /\ Goes(w, IF q.kind = "hero" THEN "turn" ELSE "start")
            /\ UNCHANGED <<durable, wedged, req, held, seen, sent, answered, crashes, serial>>
       ELSE Refuses(w)

\* submit_hero_action reads the hand again: hero must be the one to act
TakeTurn(w) ==
    /\ pc[w] = "turn"
    /\ LET es == logs[held[w].hand] IN
       IF es # <<>> /\ Turn(es) = "hero"
       THEN /\ seen' = [seen EXCEPT ![w] = Len(es)]
            /\ Goes(w, "execute")
            /\ UNCHANGED <<durable, wedged, req, held, sent, answered, crashes, serial>>
       ELSE Refuses(w)

\* the orchestrator may also find the action illegal
ExecuteHero(w) == /\ pc[w] = "execute"
                  /\ Executes(w, req[w], "save") \/ Refuses(w)
SaveHero(w) == pc[w] = "save" /\ Saves(w, held[w], "record")

\* start_next_hand
StartNext(w) ==
    /\ pc[w] = "start"
    /\ Saves(w, [held[w] EXCEPT !.hand = @ + 1, !.active = TRUE], "record")

\* _record_command
RecordCommand(w) ==
    /\ pc[w] = "record"
    /\ \/ Writable /\ (\E c \in commands : c.id = req[w].id) /\ Wedges(w)
       \/ ~Writable /\ Refuses(w)
       \/ /\ Writable /\ \A c \in commands : c.id # req[w].id
          /\ commands' = commands \cup {req[w]}
          /\ seen' = [seen EXCEPT ![w] = 0]
          /\ Goes(w, IF req[w].kind = "hero" THEN "advance" ELSE "open")
          /\ UNCHANGED <<row, logs, meta, decisions, reviews, wedged, req, held, sent, answered, crashes, serial>>

\* _open_and_advance
OpenHand(w) == pc[w] = "open" /\ Executes(w, req[w], "opened")
SaveOpened(w) == pc[w] = "opened" /\ Saves(w, held[w], "advance")

(***************************************************************************)
(* _advance_bots, one turn of its loop.                                    *)
(***************************************************************************)
BotCommand(w) == [kind |-> "bot", id |-> NoId, hand |-> held[w].hand, rev |-> seen[w]]

\* mutant: lets one bot act and answers
StopsAt_FirstBot(es) == Turn(es) = "hero" \/ (Len(es) > 1 /\ es[Len(es)].by.kind = "bot")
StopsAt(es) == Turn(es) = "hero"

\* read the hand: answer, settle what another worker finished, or ask a bot
Advance(w) ==
    /\ pc[w] = "advance"
    /\ LET es == logs[held[w].hand]
           stops == ~held[w].active \/ (~Over(es) /\ StopsAt(es))
       IN  /\ Goes(w, CASE stops -> "answer" [] ~stops /\ Over(es) -> "settle" [] OTHER -> "bot")
           /\ seen' = [seen EXCEPT ![w] = Len(es)]
    /\ UNCHANGED <<durable, wedged, req, held, sent, answered, crashes, serial>>

Settle(w) == pc[w] = "settle" /\ Saves(w, [held[w] EXCEPT !.active = FALSE], "review")
Review(w) ==
    /\ pc[w] = "review"
    /\ IF Writable
       THEN /\ reviews' = reviews \cup {held[w].hand}
            /\ Goes(w, "answer")
            /\ UNCHANGED <<row, logs, meta, commands, decisions, wedged, req, held, seen, sent, answered, crashes, serial>>
       ELSE Refuses(w)

\* BotRuntime.decide returns a legal action, and it is appended
ExecuteBot(w) == pc[w] = "bot" /\ Executes(w, BotCommand(w), "decision")

DecisionKey(w) == <<held[w].hand, seen[w] + 1>>

\* _record_bot_decision, INSERT OR REPLACE
RecordDecision(w) ==
    /\ pc[w] = "decision"
    /\ IF Writable
       THEN /\ decisions' = decisions \cup {DecisionKey(w)}
            /\ Goes(w, "played")
            /\ UNCHANGED <<row, logs, meta, commands, reviews, wedged, req, held, seen, sent, answered, crashes, serial>>
       ELSE Refuses(w)
SavePlayed(w) == pc[w] = "played" /\ Saves(w, held[w], "advance")

\* the projection every successful request returns, of a recovered session
Recovering(w) == Recover(w, "answer", "answered")
Answer(w) ==
    /\ pc[w] = "answered"
    /\ IF meta
       THEN Ends(w) /\ answered' = answered \cup {req[w]} /\ UNCHANGED <<durable, wedged, sent, crashes, serial>>
       ELSE Refuses(w)

(***************************************************************************)
(* Faults: the worker dies (and its connections close), or a transaction   *)
(* of its request fails.                                                   *)
(***************************************************************************)
Die(w) ==
    /\ crashes < MaxCrashes
    /\ crashes' = crashes + 1
    /\ Ends(w)
    /\ wedged' = wedged \ {w}
    /\ UNCHANGED <<durable, sent, answered, serial>>

Init ==
    /\ row = NoSession /\ logs = [h \in 0 .. MaxHands |-> <<>>]
    /\ meta = FALSE /\ commands = {} /\ decisions = {} /\ reviews = {}
    /\ wedged = {}
    /\ pc = [w \in Workers |-> "idle"]
    /\ req = [w \in Workers |-> NoRequest]
    /\ held = [w \in Workers |-> NoSession]
    /\ seen = [w \in Workers |-> 0]
    /\ sent = {} /\ answered = {} /\ crashes = 0 /\ serial = TRUE

Work(w) ==
    \/ LoadNothing(w) \/ SaveCreated(w) \/ InsertMetadata(w)
    \/ RecoverTable(w) \/ Project(w) \/ TakeTurn(w) \/ ExecuteHero(w) \/ SaveHero(w)
    \/ StartNext(w) \/ RecordCommand(w) \/ OpenHand(w) \/ SaveOpened(w)
    \/ Advance(w) \/ Settle(w) \/ Review(w) \/ ExecuteBot(w) \/ RecordDecision(w) \/ SavePlayed(w)
    \/ Recovering(w) \/ Answer(w)

Next == \E w \in Workers : Work(w) \/ Die(w) \/ \E q \in Sendable : Receive(w, q)

Spec == Init /\ [][Next]_vars

(***************************************************************************)
(* Properties.                                                             *)
(***************************************************************************)
TypeOK ==
    /\ row \in Session /\ row.hand <= MaxHands /\ meta \in BOOLEAN
    /\ DOMAIN logs = 0 .. MaxHands
    /\ \A h \in 0 .. MaxHands : /\ Len(logs[h]) <= MaxBatches
                                /\ \A i \in 1 .. Len(logs[h]) : logs[h][i] \in Batch
    /\ commands \subseteq sent /\ answered \subseteq sent
    /\ \A w \in Workers : held[w] \in Session /\ seen[w] \in Nat /\ req[w] \in Request

BatchesOf(q) ==
    {p \in Hands \X (1 .. MaxBatches) : p[2] <= Len(logs[p[1]]) /\ logs[p[1]][p[2]].by = q}

\* A request takes effect at most once, however often, on however many workers
\* and after whatever faults it is sent (command log, revision, causation ids
\* and expected sequence of submit_hero_action and start_next_hand together).
OncePerRequest == \A q \in sent : Cardinality(BatchesOf(q)) <= 1

\* The action of a hero stands exactly where the projection the client saw
\* ended: no action is played on a decision the player was not shown
\* (_require_revision).
PlayedWhereSeen ==
    \A h \in Hands : \A i \in 1 .. Len(logs[h]) :
        LET q == logs[h][i].by
        IN  q.kind = "hero" => q.hand = h /\ q.rev % SequenceRange = i - 1

\* A hero's request that was answered without an error, or recorded as
\* executed, is in the log of its hand, once (submit_hero_action records last).
AnsweredTookEffect ==
    \A q \in answered \cup commands :
        q.kind = "hero" => Cardinality(CausedAt(logs[q.hand], q)) = 1

\* The successor is opened only after a completed hand, and hands are numbered
\* without gaps: every hand before the current one is over, no later one has
\* events, and a settled one really ended (start_next_hand, recover).
HandsInTurn ==
    /\ \A h \in Hands : h < row.hand => Over(logs[h])
    /\ \A h \in Hands : h > row.hand => logs[h] = <<>>
    /\ row.rev > 0 /\ ~row.active => Over(logs[row.hand])

\* A stored bot decision explains an action a bot took at that sequence
\* (_record_bot_decision after the append).
DecisionsExplainActions ==
    \A d \in decisions : /\ d[2] <= Len(logs[d[1]])
                         /\ logs[d[1]][d[2]].by.kind = "bot"

\* Every action of a bot has the decision that explains it once no request is
\* running.
ActionsExplained ==
    (\A w \in Workers : pc[w] = "idle") =>
        \A h \in Hands : \A i \in 1 .. Len(logs[h]) :
            logs[h][i].by.kind = "bot" => <<h, i>> \in decisions

\* Between requests the table waits for its hero or has settled its hand: the
\* bots were run "stopping only at hero or a terminal hand" (_advance_bots), so
\* some request can always move the table on.
AtRest ==
    (\A w \in Workers : pc[w] = "idle") =>
        \/ row.rev = 0
        \/ meta /\ logs[row.hand] # <<>> /\ (Turn(logs[row.hand]) = "hero" \/ ~row.active)

\* A request that was answered without an error did all it promises: a create
\* and a next hand have opened the hand.
AnsweredHandsOpen ==
    \A q \in answered : q.kind \in {"create", "next"} => Cardinality(BatchesOf(q)) = 1

\* Two different states of the table never share a revision, and a later one
\* has the larger: what _require_revision compares identifies the projection.
RevisionGrows ==
    [][row.rev > 0 /\ <<row, logs>>' # <<row, logs>> => CurrentRevision' > CurrentRevision]_vars

\* No worker keeps the write lock of the database after its request has ended
\* (_record_command and create commit what they insert).
LockReleased == wedged = {}

\* Whatever requests race, are repeated or die half way: each takes effect once,
\* what was answered stands, hands follow each other and bots' actions are told
\* from decisions that were recorded for them.
RequestsHold ==
    TypeOK /\ OncePerRequest /\ AnsweredTookEffect /\ HandsInTurn /\ DecisionsExplainActions

\* As long as requests come one at a time, to whichever workers, and nothing fails,
\* every request also finishes its work: the table comes to rest at its hero, every
\* bot action is explained, no action is played on another decision than the one
\* shown, and no lock is kept.
TableServes ==
    serial /\ crashes = 0 =>
        AtRest /\ ActionsExplained /\ AnsweredHandsOpen /\ PlayedWhereSeen /\ LockReleased
=============================================================================
