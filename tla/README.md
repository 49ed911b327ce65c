# Formal models of Riverline Poker Coach

TLA+ models of the backend of this repository: how a poker hand is played, how its
events are made durable by concurrent callers, how the table, its bots and its read
models follow from them, how long computations are queued, stored and answered, and
how hands, ranges and scenarios go in and out. TLC checks small instances; TLAPS
proves the main safety properties for every instance. Paths below are relative to
`src/backend/poker_coach/`.

## The system

| part | state it keeps | operations | talks to |
|---|---|---|---|
| `simulator/orchestrator.py` GameOrchestrator | none of its own: a session value given by the caller, the events it read | `open_hand`, `execute`; each with a retry path and a reconcile path | hand event store, rules adapter, session aggregate |
| `persistence/hand_event_store.py` | `hand_events` (append only, one gapless sequence per hand), `outbox_messages` | `append` (head check, identity check, one transaction), `read`, `claim_outbox`, `mark_outbox_dispatched`, `retry_outbox` | SQLite or PostgreSQL |
| `persistence/session_store.py` | `game_sessions` row: revision, session | `load`, `save` (compare-and-set), `recover` | SQLite, hand event store |
| `simulator/session.py` GameSession | immutable value: button, stacks, hand sequence, completed hands, active hand, rebuys | `create`, `start_next_hand`, `complete_active_hand` | - |
| `simulator/replay.py`, `rules/pokerkit_adapter.py` | a PokerKit state rebuilt on every replay | stream validation, replay, `deal_seeded`, legal actions, settlement, scenario replay | PokerKit (external) |
| `simulator/continuous_table.py` | metadata, command and bot-decision tables, a re-entrant lock | `create`, `submit_hero_action`, `start_next_hand`, `_advance_bots`, projections and advice | all of the above, bot runtime |
| `simulator/bot_runtime.py`, `bot_providers.py` | - | `decide`: provider, then fallback, then emergency action | providers |
| `simulator/recovery.py`, `persistence/projection_store.py` | checkpoint and snapshot per stream | outbox dispatch, projection run and rebuild | event store |
| `persistence/session_stats_store.py`, `review_projection_store.py` | statistics and reviews, applied hands | exactly-once application of a hand | event store |
| `jobs/`, `solver/` | Redis lists and hashes, a dict shared with pool threads, the solver cache, a sidecar process | submit, get, cancel, claim, finish, solve | workers, Docker |
| `persistence/sqlite_store.py`, `postgres_store.py` | scenarios, revisions, runs, teaching sessions, profiles, practice | save, update, delete, analyse, grade | SQLite or PostgreSQL |
| `api/app.py` | rate-limit stamps, idempotency cache, equity requests | middleware and endpoints | everything |
| `theory/l2_solver.py`, `theory/recommendation.py`, `simulator/fast_solver.py` | an LRU cache of solved rivers | river theory | event beliefs |
| `ranges/` | a belief cache | beliefs of a table's seats, the trace of a range through a scenario | policies, replay |
| `domain/models.py`, `simulator/phh.py`, `simulator/hand_lab_compat.py` | documents | validation, exchange as PHH, Hand Lab | adapter |
| coach, review text, learning paths, frontend | records and text | - | - |

Only databases, Redis and, inside one process, a dictionary or a cache are shared.
What is hard lies between two of their steps:

* two callers decide on the same head of a hand, or settle the same session;
* a caller dies after its append and before its save, a worker between the pop of a
  job and its status, a dispatcher between a side effect and its mark;
* a command is retried, by its sender or through another process, at any time;
* a lease, a timeout or a cancellation races the work it is about;
* a value is used long after it was read: a session, a list of events, a
  scenario's revision, a learner's profile, a cached belief or policy.

`PROJECT.json` lists these hazards at the line where they bite, with the properties
that cover each, those of one cause as one hazard.

## Modules

| module | models | of the code |
|---|---|---|
| `HandRules` | one hand as operators: blinds, legal intents, betting rounds, streets, side pots, settlement; event streams, their validation and replay | adapter, `replay.py`, payload contracts |
| `SessionRules` | the session aggregate as operators: a transition is the set of its results, empty where the code raises | `session.py` |
| `HandPlay`, `GameSession` | a hand played step by step from any button and stacks; a session through any settlements | adapter, `session.py` |
| `GameOrchestrator` | any number of processes over the two stores | `orchestrator.py`, both stores |
| `HandLedger` | what a game session promises its callers: the abstract specification | - |
| `ContinuousTable` | the table service: requests as chains of transactions, the bot loop, its tables, deaths and several workers | `continuous_table.py`, `session_store.py` |
| `TableReads` | the read-only endpoints and the advice, by the fingerprint of a projection | `continuous_table.py`, observation |
| `BotRuntime` | one decision: providers, deadline, fallback, emergency action | `bot_runtime.py`, `bot_providers.py` |
| `Outbox`, `AtLeastOnce` | the outbox and its dispatchers, and what they promise | `recovery.py`, `hand_event_store.py` |
| `Projections` | runner, rebuild, session statistics and reviews | `recovery.py`, the projection stores |
| `HandTape`, `HandStats` | a played hand with its recorded stream; the statistics both projections take from it | `session_stats.py`, `replay.py` |
| `JobQueue`, `InProcessJobs`, `SolverSidecar` | the Redis queue (and the solver's), the in-process backend, one solve with its cache and process | `jobs/`, `solver/` |
| `ScenarioStore`, `PracticeLedger`, `ApiGate` | saved scenarios, the learners' records, the gate of the API | `persistence/`, `learning/`, `api/app.py` |
| `ScenarioSpec` | validation and canonical form of a scenario | `domain/models.py` |
| `ScenarioReplay`, `HandDraft` | a written scenario replayed; its author | adapter |
| `PhhExchange` | a finished hand written as a PHH text and read back | `phh.py` |
| `HandLab` | a hand of the table opened in Hand Lab, and an action sent back | `hand_lab_compat.py` |
| `RiverTheory`, `RiverCfr`, `HandValues` | the answer for a river, one traversal of its solver, its evaluator | `theory` of the table, `l2_solver.py` |
| `SeatBeliefs`, `RangeTrace` | what may be thought of every seat's cards; a seat's range through a history | `ranges/` |
| `*Proofs` | theorems about `HandPlay` (with the lemmas on `HandRules`), `GameOrchestrator`, `ContinuousTable` (with `TableReads` and `BotRuntime`), `Outbox`, `Projections`, `JobQueue`; `InProcessJobsProofs`: `InProcessJobs` and `SolverSidecar`; `ScenarioProofs`: `ScenarioStore`, `ScenarioSpec`, `ApiGate` and `PracticeLedger` | - |
| `MC*` | instances for TLC | - |

`GameOrchestrator` EXTENDS `SessionRules`, which EXTENDS `HandRules`; the
orchestrator's batches are sequences of `HandPlay` steps and its session transitions
are those of `GameSession`. `ContinuousTable` takes the orchestrator's append as one
step, since `GameOrchestrator` shows what it does to a stream. `HandStats`,
`HandDraft`, `PhhExchange`, `HandLab`, `SeatBeliefs` and `RangeTrace` all play their
hands with `HandPlay` and read them as the code does, so each compares two parts of
the system: what the rules say happened and what the reader makes of it.

### GameOrchestrator

`log[h]` is the durable stream of hand `h`; `stored` the session row. Each process
has a place `pc` in its request and the locals of the code: the session it loaded
(`held`), its command, the events it read (`durable`), the batch it will append and
the successor session it will save (`next`). A step is a store transaction
together with the computation up to the next one:

| step | code |
|---|---|
| `Load`, `Recover` | `SQLiteGameSessionStore.recover`: load; then read the active hand and, if its completion is durable, compute the successor |
| `StartNextHand` | `start_next_hand` of the session, on its way to the save |
| `OpenHand` | `open_hand` up to its append: a fresh deal, or the retry of a durable opening, or a refusal |
| `Execute` | `execute` up to its append: the retry of a durable action, a new action with the streets it runs out and the completion, or a refusal |
| `AppendBatch` | `HandEventStore.append`; on an `ExpectedSequenceConflict` the process goes on to |
| `Reconcile` | the single re-read: success if this very command is durable, otherwise a refusal |
| `Save` | `save`: compare-and-set, identical sessions answered without it |
| `Finish`, `Crash` | the answer; the process dies, or a store error aborts the request, between two transactions |

After a save a process may go on with the session it was handed back, as the table
service does from one bot to the next. A refusal (every exception of the code) is
the process going idle: no exception leaves a trace in the stores. A crash is not
an action of a process in `idle` or `ready`, where `Finish` has the same effect.

* Cards are the seed that deals them: `deal_seeded` is a function of the scenario
  and the seed, and `Strength[seed]` orders the showdown hands. There are no ties,
  hence no split pots and no odd chips.
* PokerKit is outside the repository. The operators about its state (`InProgress`,
  `Actor`, `Waiting`, `PotLevels`, ...) are external, written from how the adapter,
  the orchestrator and the tests use it. A short all-in raise reopens the betting
  for everybody, which PokerKit restricts; a fold is always legal, as the adapter
  offers it. PokerKit gives a player who wins by folds its own bets of the
  street back outside the pot (`tests/test_multiway_replay.py`); here every chip
  is in a pot and an uncalled part of a bet is a pot of its owner. The stacks the
  hand ends with are the same, and where the size of a payout matters
  (`ScenarioReplay`) it leaves the winner's own uncollected bets out.
* A hand id is `<session>:hand:<n>`, so a hand is the number `n`; an event id is the
  hash of (hand, command, offset, kind), so it is that tuple.
* One session, so no cross-session checks. Timestamps, provenance other than the
  causation id, and serialisation are left out.
* The active hand's snapshot keeps its seats only: no transition changes stacks
  while a hand is active.
* `HandPlay` deals nobody in with less than a big blind: `EveryoneFunded` of
  `GameSession` is why.
* Every store transaction is one step: SQLite takes the write lock with
  `BEGIN IMMEDIATE` before it reads, PostgreSQL an advisory lock per hand. The
  session store exists for SQLite only. A plain `load` or `read` is one SELECT.

### The table: ContinuousTable, TableReads, BotRuntime

A worker is one process with its re-entrant lock. The bots' providers are local and
never suspend, and `asyncio.wait_for` runs them to the end inline (Python 3.13), so
within one worker a request is not interrupted by another; several workers on one
SQLite file interleave between any two transactions. A hand is the sequence of the
orchestrator's batches, each with its cause and who is to act after it ("hero",
"bot", "over"); a hero action may be refused by the rules. `create` uses one fixed
session id. `Die` is a death or a failed transaction: the request stops where it is.
`wedged` are the workers whose connection kept a transaction open after an
IntegrityError. `serial` is a history variable: no request began while another was
running, which is what one worker's lock guarantees. `CurrentRevision` packs session revision and sequence as the code
does, with `SequenceRange`.

In `TableReads` the table plays while clients ask: in the process that reads its lock
keeps the two reads of a request together, another process may act between them. `raced`
is a history variable: a batch came between the last request's two reads. A fingerprint
is the session's revision, hand, activity, and the number of batches projected.

`BotRuntime` chooses by the code's comparisons on scaled integers: amounts in half
big blinds, strengths in percent, frequencies and draws in twentieths (a draw may
round to 1, beyond every threshold). Providers other than the in-process ones may
answer anything, raise, or be late.

### Behind the log: Outbox, Projections, HandStats

Times in `Outbox` are relative to the store's clock, which keeps them bounded: a tick
lowers what is left of each lease and delay. A dispatcher's own clock may differ by
`Skew`; a dispatch call takes up to `CallTime` ticks. A claim token is a uuid4, hence
never handed out twice while anybody remembers it (`TokensNeverRunOut` says the
bound on tokens is never the reason a claim cannot happen). One claim gives the
whole batch one lease; the first failed mark aborts the rest of it.

`Projections` is parameterised by `EarlyHands`, the hands that callers apply while they
are still being played, which nothing in the code forbids. Safety holds of all hands, the
equality of rebuild and increments only of the others. The
PostgreSQL store serialises a stream with an advisory lock, SQLite with
`BEGIN IMMEDIATE`: one step each.

### Work: JobQueue, InProcessJobs, SolverSidecar

One Redis command is one step, and Redis stays up. Callers know an id once `submit`
has returned it. LREM removes the one occurrence there is. A worker's or caller's
death is bounded by `MaxDeaths`, and nobody takes a dead worker's job over, as in
the code. The solver's queue is the same module without the counter. In
`InProcessJobs` the event loop runs one endpoint at a time, while pool threads read
and write the shared dictionary between any two of its accesses. In `SolverSidecar`
the process, the thread that watches it, the poller of the cancel event and the
caller interleave; timeouts strike at any time.

### On file: ScenarioStore, PracticeLedger, ApiGate, ScenarioSpec

Several API processes share the database; every statement or transaction is a step.
Row locks, UNIQUE keys and foreign keys serialise and refuse writers as either
database does; uuid ids are never reused; a COMMIT does not fail. `PracticeLedger`
has both databases, which differ in how a look-up creates a profile; since the profile
is read, changed and written back whole, an answer saved while another of the profile is
being graded makes the other overwrite it, and the history variable `raced` remembers
the profiles this happened to: their sums may miss answers, the others' may not.
`ApiGate` covers the lifetime of one process: a minute is `Window` ticks, `Limit` = 0
turns the rate limit off, and stamps are numbered so that two within one reading of the
clock count twice. `ScenarioSpec` edits the stored document one field at a time; a
range is its combos without weights. A decision on the showdown with nothing dealt
before it raises a KeyError inside the validator (`models.py:619`), which ends the
request with nothing stored, as a refusal does.

### Hands outside the table: ScenarioReplay, HandDraft, PhhExchange, HandLab

An author appends events and the scenario is replayed after each; a refused event is
taken back. Unknown cards are "??" to the engine: the order in which it ranks the
seats agrees with the deal on the seats that are known, and on nothing else for
certain. PokerKit's PHH parser is external: player 1 is the seat after the button, and
a text without hole cards is accepted (`test_phh_codec.py`). In `HandLab` a stream is
read between two batches, there is one view per behaviour, and an action goes back
as a command with the sequence the viewer saw while the table may play on. An all-in
goes with an observation of any decision of the hand, for nothing compares it with the
sequence: the total of an earlier street is let through as the bet that puts the seat
all in on this one, which `StepsFollow` states, and no other difference is possible.

### Thinking: RiverTheory, RiverCfr, HandValues, SeatBeliefs, RangeTrace

A request runs in one piece in its process and the caches are the process's.
`RiverTheory` has the smallest bets, and a raise is all in. `RiverCfr` is one
traversal from any regrets, with probabilities in sixths and one combo for the
hero. `HandValues` compares the solver's evaluator with the rules of poker on a deck
of fourteen cards whose sevens have every category from two pair upwards as their best
hand; one pair and a high card do not occur. A belief (`SeatBeliefs`) is the set of
combos a seat may hold and the evidence that weighed them, without the numbers: equal
evidence gives equal numbers. A reach (`RangeTrace`) is a product of quarters.

## Runs

Independent components share a run as its parts: `part` is chosen in the initial
state, a behaviour is one of a single part, and the variables of the others keep
their initial values. A part's state space is therefore exactly that of its
component alone, its properties are guarded by `part = ...`, and its fairness is
taken in the same way, so nothing is gained from a neighbour.

| run | parts and instances | asks |
|---|---|---|
| `one_hand` | 2 processes, 3 seats, 4 command ids, 1 hand | do all interleavings leave a replayable stream that is one legal play, with every command taking effect once and every answer true? |
| `two_hands` | 2 processes, 2 seats, 2 ids and 2 seeds, 2 hands | is the session explained by the logs, does a revision identify a session, are retries answered, do the stores implement `HandLedger`? |
| `settles` | as above, 1 hand, one patient caller | is a durable completion always settled into the session? |
| `retry_after_next_hand` | 2 processes, 2 seats, 2 hands | violated: see the finding |
| `hands` | at a table of four with one sitting out: a hand of 2 or 3, stacks 2, 4 and 7, all showdown orders; statistics with stacks 2 and 8, which three preflop raises fit into; a session of two hands | is every hand settled correctly, does it end, do two projections count it alike; does the session stay valid, funded and startable whatever the settlements? |
| `table` | the service with one worker, with two deaths, with two workers; reads while the table plays; a bot's decision | do requests take effect once, in turn and for good, and come to rest; is advice of one decision; is every bot action legal? |
| `recovery` | outbox with leases overrun and skewed clocks; with a poison message, a failure and a crash; with batches longer than their lease; projections applied on completion | is the outbox fenced, transactional and at-least-once, does every repeat have a cause, does every message arrive, do read models catch up? |
| `projections` | 2 processes, 2 hands of 2 events, one of them applied early, rebuilds and a crash | are cursors prefixes, hands counted once and reviews final in any interleaving, and does what is counted equal a rebuild? |
| `jobs` | the queue with 2 callers, with a death, with 2 solver jobs; in-process with 2 places and with 1; the sidecar with 2 workers and a presolver | has a job one holder and one computation, does it end; do cache and answers tell what was solved? |
| `stores` | scenarios of 2 processes, and with copies; practice on SQLite and PostgreSQL by 2 processes, and one request at a time for two learners; rate limit; idempotency keys; validation | do the tables fit together, change as asked only, and are limits and answers right? |
| `theory` | river, traversal, evaluator, trace, beliefs, belief cache | is the answer of this decision, by this evidence, computed as it claims? |
| `lab` | a draft, PHH, Hand Lab heads-up and with three seats | is what a reader makes of a hand what the rules made of it? |

**Bounds.** Two processes are enough for every pairwise race, and each may play any
number of roles in turn; a crashed process comes back as a new one. In the
orchestrator's instances blinds are 1 and 2 and stacks 4, so a raise is all-in, a
call is a short one for the small blind's opponent, and a hand reaches its run-out
within a few commands: four ids open a three-handed hand and complete it (fold,
fold; raise, fold, call with a run-out of three streets). `MCRequests` contains the
commands with every expected head up to `MaxExpected`, so stale and premature
commands occur, and each id is offered with every intent, so reused ids do.
`MaxHands` = 2 lets a command of the first hand meet the second. In the session part of
`hands` a stack of 3 against a big blind of 2 makes a short stack, a broke one and a full
one possible after the first hand, and the second exercises the button and the
repeated rebuy rule. The stacks of a hand make up to three different all-ins, hence
two side pots; statistics need a stack that is all-in with its blind and one of three preflop raises, so that the opener or a third seat can four-bet,
and one showdown order, since they look at no cards; one button is enough because seats are numbered relative to it.

Three ids and four requests over two hands let the table see a retry, a stale
request and a request of the previous hand (`table`); `MaxBatches` cuts a hand after
so many batches. The reads see a three-handed hand of up to three batches and a second
of two, so a seat can fold before a showdown; "theory" and "solver" are left
out of the instance because they read as "reconciliation" does, the solver for an active
hand only (the theorem is about all five). The outbox has three messages of two events, batches of two or
three, and a lease shorter than, equal to and longer than what the batch takes; the
bound on tokens never blocks. Two jobs and two workers let a cancel meet the claim,
the computation and the finish of its own job and of another. In `stores`
`MaxRevision` = 3 gives an update something to lose twice, three answers overflow a
list of `RecentKept` = 2, and ten ticks hold three windows. A `SeatBeliefs` hand
is three-handed and five big blinds deep with scaled charts (`FullRing`,
`DeepBlinds`), long enough for a re-raise and a flop; a `RangeTrace` hand is
heads-up with `MaxEvents` = 6, the blinds, the preflop exchange, a flop and its first
action. In `lab` two stacks and two or three seats make all-ins, run-outs and uncalled
bets; `MaxEvents` = 4 ends a draft.

**Symmetry** is used for processes, command ids and values of which nothing is
compared but identity; `recovery` and `jobs`, which check liveness, use none, and
neither does `settles`.

**Fairness.**
* `settles` assumes it of one caller only: a client that keeps polling the table
  (`projection` recovers on every call) and does not stop in the middle of a request
  (`WF` of its other steps), and whose process is not killed every single time it
  recovers or saves (`SF` of `Recover` and `Save`, which a crash interrupts). Nothing
  is assumed of other callers, who may crash or stay away for good.
* `hands`: the loop of `execute` deals and a player to act acts.
* `recovery`: time passes, a running dispatch call goes on, and `dispatch_once` is
  called again and again by every worker. A message arrives although others are
  poison only where a batch fits its lease. Projections: started runs go on, and a
  hand's delivery is repeated until applied (`SF`, since a run can be refused or die).
* `jobs`: started methods run on, workers loop (`run_forever`), computations end
  (`timeout_seconds`), the sidecar's process ends or is killed.

**Deadlock** is checked in the orchestrator's runs, `hands`, `recovery` and
`projections`. It is off where the bounds let everything stop: a table out of
requests, jobs all done, a full draft, a scenario deleted for good.

### Properties

A run's invariant is a conjunction of a component's, named part by part in its module.

* Orchestrator: `HistoriesReplay` (a stream passes the validator, agrees with its own
  settlement, is a legal play, and ends with a seat to act or with its completion),
  `CommandOnce` and `ReportedIsDurable` (exactly-once effect, no false success),
  `SessionsExplained` (the stored session is the replay of the logs: no settlement is
  lost, repeated or made from an unfinished hand, and its validators hold),
  `RevisionPinsSession` (the optimistic lock means what it should, including the save
  that skips it), `ImplementsLedger` (the stores implement `HandLedger`, a stream's
  batches being the accepted commands), `CompletedIsSettled` (`recover` closes the
  window between the terminal append and the save).
* Hands: `HandSound` (chips conserved, side pots fair, betting closes matched, the
  actor can go on), `EveryHandEnds`, `StatsSound` (rates in range, and the two
  projections agree where they mean the same), `SessionSound` (every transition leads to a
  session its validator accepts, chips come from buy-ins and recorded rebuys only,
  everyone is dealt in with a big blind, and the next hand can start).
* Table: `RequestsHold` (once, in turn, answered means done, decisions explain the
  actions they were recorded for: under every race and fault), `TableServes` (while
  requests come one at a time and nothing fails, the table also comes to rest at its hero,
  explains every bot action, opens every hand answered for, plays an action only on the
  decision shown and keeps no lock), `RevisionGrows` (the packed revision
  identifies the projection), `ReadsAgree` (advice is computed for one decision, the
  one asked about unless a batch came in between; cards show at a showdown only),
  `BotsSound` (always legal, honest provenance, local providers need no fallback, the
  policy plays its table).
* Recovery: `OutboxSafe` (a mark needs the current claim, messages exist exactly for
  durable events), `ImplementsDelivery` (refines `AtLeastOnce`), `RepeatsHaveACause`,
  `EveryMessageArrives`; `ReadModelsSafe` (cursors are prefixes, hands are counted once,
  a review is of a whole prefix and final), `RebuildEqualsIncremental`,
  `ReadModelsCatchUp`.
* Jobs: `QueuesSafe` (one holder, one computation, none of what was cancelled in time,
  nothing lost without a death, the counter right up to the deaths; and in process with
  one place),
  `InProcessSafe` (only finished entries are dropped, the capacity holds, one run a
  job), `SidecarSafe` (the cache holds what was solved, answers follow from what
  happened), `WorkEnds`.
* Stores: `StoreSound` (a row is its latest revision, nothing outlives its scenario, a
  run is of an existing revision, and what was analysed is of that one or an earlier),
  `NoSaveIsLost` (an update replaces the content and title it read and nothing that was
  saved since; revisions never change), `PracticeSound` (nothing outlives its profile, counts are backed by
  answers; the profile sums them up unless two were graded at the same time), `GateSound` (at most `Limit` in
  every minute, refused only when full, one answer a key), `SpecSound` (a document on
  file validates again unchanged, says the same in both forms, and is valid at each
  earlier decision).
* Theory: `TheorySound` (the cache is complete, a policy is of the decision asked
  about, its bet a covered jam), `SolverSound` (utilities are net gains, regrets
  counterfactual, and the evaluator's best hand is what the cards are worth), `TraceSound` (a range is Bayes over the actions up to its moment,
  with nothing from later), `BeliefsSound` (contexts are the table's, a policy weighs
  before the heuristics, grades follow the evidence, visible cards are dead, and the
  cache answers with the current belief).
* Lab: `DraftSound` (awards are paid, showdowns evidenced, offers honoured),
  `StepsFollow` (every accepted event is a step of the rules; a command from Hand Lab
  does what the screen said), `ArchiveSound` (a hand that comes back is the hand that
  went out), `LabSound` (the lab shows the table's hand and offers its actions).

### Finding

`RetryIsAnswered` fails: `execute` compares the opening facts of the hand it was
asked about with the session's *active* hand before it looks the command id up, also
when the hand is a completed one (`orchestrator.py:267`). Once the next hand has
started, the retry of a command of the previous hand is refused with
`opening_facts_mismatch`, where `docs/simulator-game-orchestrator-v1.md:39-41`
promises the durable replay as an idempotent result.

### Further divergences

These definitions are kept in their modules beside the properties that do hold. Each
states a doc, a comment or a test, and is violated when named as an INVARIANT or
PROPERTY of its part's instance.

| definition | what the code does |
|---|---|
| `Projections!EveryRebuildAgrees` with `EarlyHands` | `apply_hand` marks a running hand applied, so its later events are never counted (`session_stats.py:209`; `docs/simulator-refactor-master-plan.md:123`) |
| `HandStats!ThreeBetIsFirstReRaise` | a four-bettor is counted as a three-bettor (`session_stats.py:147`; the comment at :148) |
| `ContinuousTable!AtRest` with deaths | nothing runs the bots again after a restart, so the table stays where it died (`continuous_table.py:524`) |
| `PlayedWhereSeen` with two workers | the revision is compared with one read and the expected sequence taken from another (`continuous_table.py:458`) |
| `LockReleased` with two workers | an IntegrityError in `_record_command` leaves the connection's transaction open (`continuous_table.py:673`) |
| `TableReads!AdviceIsOfTheFingerprint` with two workers (`raced`) | the fingerprint is compared with one read, the advice computed from a second (`continuous_table.py:383`) |
| `JobQueue!Settles` | `cancel` writes "cancellation_requested" over a final status (`redis_queue.py:109`) |
| `JobQueue!CancelledNeverStarts` | a worker that popped the job and read its hash before the flag runs it after cancel answered (`redis_queue.py:106`) |
| `CompletedHasResult` of both queues | the status is written, or read, apart from the result (`redis_queue.py:154`, `backends.py:87`) |
| `InProcessJobs!CancelEnds` | "cancellation_requested" can be written after "completed" and stay (`backends.py:101`) |
| `SolverSidecar!SolvedAtMostOnce` | two workers miss together (`cache.py:92`, against :88) |
| `SolverSidecar!PreSolvePopulates` | without a cancel event the client returns nothing to parse (`client.py:65`) |
| `ScenarioStore!AnalysisOfItsRevision` | the run of one revision is stored under the next when an update falls in between (`sqlite_store.py:235`) |
| `ApiGate!NoInternalError` | the multiway equity answer reads `elapsed_ms` before its assignment (`app.py:792`) |
| `RiverTheory!TreeIsTheDecision` | the gate {check, bet} also admits the hero in position, whose tree is another (`continuous_table.py:738`, the comment at :743) |
| `RangeTrace!ReasonIsReported` | a board card that takes the last combo raises instead of stopping the trace |
| `RangeTrace!FlopLeavesThePast` | in a spot without deal events the last preflop action is shown the flop |
| `RangeTrace!PolicyIsOfThisSpot` at other blinds | the heads-up nodes compare raises with absolute chips |
| `HandDraft!MarkersAreTerminal` | a showdown marker is accepted while a seat is to act |
| `HandDraft!BetsAreTotals` | a bet's amount is added to what the seat has in, a raise's is not |
| `ScenarioSpec!NoCardTwice` | a two-seat field of a seat the new map does not name is never checked |
| `PhhExchange!EveryHandExports` | stacks are written by active seat and read by player number (`phh.py:128`) |
| `PhhExchange!ArchiveComesBack` | every `cbr` comes back as a raise, so an archive with a bet is refused (`phh.py:423`) |
| `PhhExchange!FoldsNeedNoCards` | without hole cards the small blind's call counts its blind twice (`phh.py:206`) |

## Proofs

All are for any values of the constants that satisfy the modules' named assumptions:
any number of processes, hands, seats, messages, jobs, cards, any bounds.

| module | theorems |
|---|---|
| `HandPlayProofs` | `HandsStaySound`, `StatsStaySound` |
| `GameOrchestratorProofs` | `TypeCorrect`, `GaplessSequences`, `ExactlyOnce`, `BatchesContinue`, `AnswersAreDurable`, `NoConflict`, `RevisionsIdentifySessions`, `SessionsStayValid`, `TableGoesOn`, `SessionStaysSound`, `HistoriesAlwaysReplay`, `SessionIsWhatTheLogsSay`, `StoresImplementLedger` |
| `ContinuousTableProofs` | `RequestsAlwaysHold`, `RevisionsGrow`, `ServesInTurn`, `AdviceAgrees`, `BotsStaySound` |
| `OutboxProofs` | `RowsValid`, `TokensFence`, `OutboxIsTransactional`, `OutboxHolds`, `DispatchedStays`, `NoRepeatWithoutCause`, `OutboxImplementsDelivery` |
| `ProjectionsProofs` | `TypesHold`, `CursorsArePrefixes`, `HandsCountedOnce`, `ReviewsOfWholeHands`, `ReadModelsHold`, `RebuildsAgree` |
| `JobQueueProofs` | `JobsStaySafe`, `TheoryStaysSound` |
| `InProcessJobsProofs` | `InProcessStaysSafe`, `SidecarStaysSafe` |
| `ScenarioProofs` | `ScenariosStaySound`, `StoreStaysSound`, `NoSaveGetsLost`, `GateStaysSound`, `PracticeStaysSound` |

**HandPlay.** The theorem says of every hand, with any number of seats, stacks, blinds
and showdown orders, that it conserves its chips, pays fair side pots, closes betting
with matched bets and leaves whoever is to act able to. The invariant `HandInv` speaks of
the betting state alone. A seat's stack, its bet and what it put in on earlier streets
add up to the stack it sat down with, and nobody holds a bet above the top bet. A live
seat that owes no decision has matched the top bet or is all-in: this is what a closed
round needs. Folding is what threatens the settlement: if the seat with the most chips in
could fold, part of its last bet would be contested by nobody and no pot would pay it
out. `TopLives` says that some live seat has put in the most, and `Optional` why a fold
keeps it so: when nobody else has matched the actor's top bet, it is the big blind or the
raiser itself, whose turn comes only to check, and a single seat left ends the hand.
The settlement is a lemma about sums: the levels of `PotLevels` slice what the seats put
in, a slice is what each seat contributes between two levels, every pot has a live winner
because the highest level is a live seat's, and no pot takes from a seat more than the
winner put in. Sums are folds of a library operator, `SumFunctionOnSet`; the lemmas about
them (a sum is the sum of its parts, is monotone, can be taken by owner) rest on
`SubsetInduction`: a set of subsets of a finite set that holds each whose proper subsets
it holds, holds all. It follows from the library's `WFMin`, which takes a set and no
operator, so induction over finite sets and numbers is in the prover's reach after all
where the claim can be written as membership in a set.

**HandPlayProofs, the statistics.** The session reads its counts off the sequence of
actions, the replay carries counters through it in one pass; `Tallied` says that after
every action they are the same sets, and that the replay's count of raises is exact up to
two. What is not about sequences is the three-bet: the replay counts the second raise,
whoever makes it, the session only raises of seats other than the opener, the four-bets
and later ones with them (`FourBets`, the disclosed divergence `ThreeBetIsFirstReRaise`).
`ProjectionsAgree` says that these are the only difference. `OpenerWaits`
closes the gap with the rules of betting: who has made the only raise before the flop owes
no decision, since everybody else's fold, check or call leaves the top bet as it was, so
the second raise is always another's.

**GameOrchestrator.** The log theorems share one inductive invariant, `IInv`: `TypeOK`,
`Contiguous`, `CommandOnce`, `PendingBatch` and `ReportedIsDurable`. `PendingBatch`
is what makes it inductive. A process appends on the strength of a read it made
earlier; the head check only compares a length. That the length suffices needs
that what was read is still the beginning of the log and was exactly as long as
the command expects: logs only grow, so equal length then means equal log, and
what the process concluded from its read (the id is new, the batch continues the
stream) holds of the log at the instant of the append. `NoConflict` follows:
command ids of the log and of the batch differ, so event ids do. The session
theorem has its own invariant, `RInv`: with `RevisionPinsSession` it needs that an
idle process holds nothing. The interesting case is the save that skips the revision
check: it hands back the stored revision with a session equal to the stored one. Type
correctness of a session goes through lemmas on the session operators; that
intermediate betting states are well typed is not needed, because what enters a log
is an intent of a request, a street number and a set of seats. `SessionsStayValid` and
`TableGoesOn` hold whatever a settlement was, so nothing is needed of replays: both
session transitions refill short stacks, so between hands nobody is short (`Funded`),
the refill at the next start repeats no rebuy, and everyone who does not sit out takes
part. Theorems that speak of sessions assume that seat 0, the button of a created
session, does not sit out.

What a durable hand *means* is the subject of `HistoriesAlwaysReplay`. Its invariant
`HInv` says of every log, and of every process about to append, that what is read plus
the batch is a hand (`HandOK`): it replays, each step is legal in the state before it, it
ends with a seat to act or with its completion, and its betting state satisfies
`HandInv`. That a batch is written whole is what makes this inductive: a street or a
completion is dealt by the command that caused it, so no reader ever finds a hand between
two players' decisions. Replay is the function `Trace` of states along the events, so
that a longer log leaves the states of a shorter one alone (`TraceOfBeginning`).
`SessionIsWhatTheLogsSay` adds the session that `log` tells (`Told`, by recursion on the
number of hands, each opened with the facts the one before left and settled with the
stacks its own log ends with). `EInv` says that the stored session is that one
(`Tells`), that no hand was opened with other facts, and that what a process holds is
told too (`LocalTells`); logs of completed hands never change, so neither do the
sessions they tell (`TellsStays`). The revision check then does its part: a save that
passes it replaces the very session its successor was computed from.
`StoresImplementLedger` reads `HandLedger` off the stores: the accepted commands of a
hand are the events that head a batch (`Accepted`, a recursive function of the log), an
append is one acceptance, a save is a start, a settlement, or, where the stored session
was already its successor, nothing.
`SessionStaysSound`, about `GameSession` alone, starts from any button that takes part and
adds the chips: a settlement moves chips between the seats of the hand, a refill adds what
its rebuys record, and a new rebuy is never one that is recorded already, so the sum over
the recorded ones grows by just that.

**ContinuousTable.** A request is a chain of transactions, and between two of them any
other worker may act or this one die. Two facts carry the proof: the row only moves to
later revisions, and logs only grow. What a worker read is therefore of the row's past
or present (`HeldFits`), and `PlaceFits` says for each place of a request what it may
still rely on: who records an answer has its action in the log, who settles a hand holds
one that is over, who opens one has the row of that hand. Two things had to be
added to make this inductive. A hand is opened by the one worker that recorded its
request (`OneOpens`, `OpenedOnce`): the primary key of the command table is what keeps
two workers with the same retry from opening two hands. And a cause is in a log at most
once (`LogKept`), which the store's identity check gives. `SentInTime` only carries
the bound on hands: nobody asks for a hand after the last. `RevisionsGrow` compares a
step of the session with a step of the log, and needs that a log stays shorter than
`SequenceRange`; `TableAssumption` says so, of the code's factor 1_000_000 against a
hand's few dozen events. Neither theorem assumes anything of the number of workers or of
their timing.
`ServesInTurn` is about the runs in which requests take turns (`serial`) and nothing
fails. `TableAt`, `RequestAt` and `BotsAt` say for each place of the one running request
what it finds there: between requests the table rests (`Resting`), behind the append of
an action the row is one save behind the log, a bot's last action may still lack its
decision, a recorded opening may still lack its hand. The proof shows that nothing is
then refused half way: every save finds the row it loaded, every append the sequence it
read, every insert a free key, so a request can only end where the table rests. A bot's
command is new because each acts at a sequence of its own, and a hero's revision modulo
`SequenceRange` is the sequence (`ModSum`). No hand is left for another to settle
(`NothingToSettle`).

**ContinuousTableProofs, the reads.** A log only grows until its hand is over, and a seat that
is out stays out (`Narrows`), so what an answer or a projection said of a hand stays true
of it (`LogGrows`). A request past its comparison was asked about the projection it
compared with, and its second read is at least as long (`ComparedWith`). Two revisions to a
hand (`TwoToAHand`) keep every fingerprint a client may know within the hands dealt.

**ContinuousTableProofs, the bots.** Every menu offers a fold, and a check or a call
(`MenuParts`), so each preference order finds a legal action (`FirstOfIsIn`) and each
built-in choice is within its bounds. `BInv` adds that only a provider of another kind
can have brought the runtime to its fallback, with a failed attempt on record, which is
what makes `degraded` true exactly when it should be. A draw finds an action with a
frequency or rounds up to a raise (`SampleIsOfTheTable`).

**Outbox.** The invariant adds to types and the transactional append that claims of
different calls on one message have different tokens (`TokensApart`) and that a call
about to mark a message it still owns has handed it out (`WorkIsDurable`). Fencing
follows from the first, the refinement of `AtLeastOnce` from the second: only a mark by
the current claim settles a message, and such a claim has the effect behind it. The
one assumption beyond the types is that a uuid4 differs from those in use.

**Projections.** `CallsOK` says what a running call still has to justify it: the
position its cursor had, the snapshot that belongs to it, events from a prefix of the
stream. Streams only grow, so nothing another process does takes that away, and a
save that wins its compare-and-set writes the fold of a prefix. `RebuildsAgree` adds
that a run for the statistics, of a hand outside `EarlyHands`, began after the hand was
over and therefore carries all of it (`CallWhole`), also the hands of a rebuild that are
still waiting for their turn.

**JobQueueProofs, the queue.** A job's place decides what may be said of it: submitted and not pushed
(only its caller knows it), on the list (nobody holds it), or with one worker
(`OneHolder`). `ComputedLater` says that what has not been started has not been
computed; `FlagsAreSeen` that a flag set while the job was listed is still to be seen by
whoever pops it. `NotLost` and `RunningCounts` are inductive with these. Lemmas on
LPUSH, RPOP and LREM say what each does to the set of listed ids.

**JobQueueProofs, the theory of a river.** `IsCache` is what the cache always is: one result
per decision, each of a full run, `MaxEntries` at most. A put first takes out what the
cache holds of the decision, so the new result is the only one of it, and drops the oldest if that
leaves too many; a hit moves its result to the end. `AnswerFits` keeps with a grade B
answer the gate it passed (`Gate`) and the river it was given on. A smallest bet
that is the whole stack means a stack of at most a big blind, and then the rules
offer nobody a raise (`GateIsAJam`): that is why the solver's tree, which has none, leaves
out no size.

**InProcessJobsProofs, the backend.** There is no lock, so the invariant says who owns what: a job that a
thread holds or the executor queues has an entry that is not done (`HeldIsActive`), so
`active_count` never drops it. The bound is not inductive by itself: `cancel` compares a
status and writes another two steps later, and if the job ends in between, the write
turns a finished entry into an active one. It stays within the bound because no
endpoint runs in the middle of a cancel: `Places` counts what is being cancelled as
active from the comparison on, and only a submit takes a place.

**InProcessJobsProofs, the sidecar.** `CallFits` relates where a call is, what its process has
come to and what the cache knows: a call that has not missed yet has no process; one
about to put has a process that ended well, and its spot counts as solved; one that
has answered has no process running. The rest is that the cache and the counts only
grow and that an event, once set, stays set until its caller begins anew.

**ScenarioProofs, the store.** A store method reads, and writes in a later transaction what it made
of the read. `CallsHold` says what such a call may still rely on. An id is never
handed out twice, a scenario's revisions only grow and one that is deleted does not come
back, so what a process read (`Carries`) stays true for as long as the scenario is
there. Of an update more is needed: the number it carries is taken by now or the next
one (`UpdateIsNext`), which makes the unique key on (scenario, number) the revision check of this
store; and in the second case nobody else has updated since, so the content and title it
read are still the row's. `NoSaveIsLost` follows from that. (The API names a title in every
update, so an untitled PUT renames the scenario; and what the property protects is the
row as the update read it, not what its client had on the screen, since a PUT carries no
revision.)

**ScenarioProofs, the validator.** The invariant is that the document on file is the normal form of a
valid one. Normalising is idempotent, keeps the cards, ranges and streets that
validation looks at, and an earlier decision sees a part of the same board.

**ScenarioProofs, the gate.** The limiter throws stamps away, so the invariant
(`LimiterInv`) says what it still has: every admission of the last `Window` ticks, hence
the same number of them. A window with more than `Limit` admissions would have been
one too full when its last was admitted; so no window has, wherever it begins. For the
idempotency cache, an answer given for a key is in the cache from then on (`CacheInv`).

**ScenarioProofs, the practice ledger.** Requests may be on their way with what they
read of a profile that others change, delete and create again. `CallsFit` says what is
left of a read: question ids are never reused and a question goes with its profile, so
if the question an attempt answers is still on file, so is the very profile that was
read, and none of what it counted was deleted since (`ReadBacked`); only then does the
transaction go through. What was read is exactly the profile's document as long as
the profile is not `raced`. From this `Backed` (no number above the answers on
file) and `Sums` (all of them, the latest named in order) are kept by an answer, which adds
one row to the answers and one to each count (`CountsGrow`, `RecentsExtended`).

Only model-checked: liveness, which the prover cannot reach (`EveryHandEnds`,
`CompletedIsSettled`, `EveryMessageArrives`, `ReadModelsCatchUp`, `WorkEnds`); `QueuesSafe`,
which says of the two queues of the suite what `JobsStaySafe` proves of each; `SolverSound`,
`TraceSound` and `BeliefsSound`, which compare recursive numeric definitions with their
references; and the lab's `DraftSound`, `StepsFollow`, `ArchiveSound` and `LabSound`, whose
modules enumerate plays of a hand. What a RECURSIVE operator computes cannot be proved with
the provers at hand, and the library's induction theorems over an operator cannot be applied.

## Not modelled

* Equity, hand strength percentiles, the fast solver and the formula advisor, the
  convergence of the river solver: floating point and card spaces out of TLC's reach.
* The translation of a scenario into the solver's tree and back; the 169-cell
  aggregation and wire views of ranges; the eight-handed opening charts.
* Antes, rake, ties and odd chips of a hand.
* Texts: coach, teacher, review comments, explanations. Static data: the strategy catalog.
* Parsing, serialisation, HTTP routing, schema migrations, the frontend.
* Failures of Redis itself and of a database's COMMIT.

`PROJECT.json` lists every component with its status and reason.

## Extensions worth making

1. Ties and odd chips in `HandRules`, which the settlement and `ArchiveSound` would meet.
