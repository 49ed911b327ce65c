------------------------------ MODULE HandRules ------------------------------
(***************************************************************************)
(* One no-limit hold'em hand as the backend drives it: the betting state   *)
(* that rules/pokerkit_adapter.py obtains by replaying a scenario through  *)
(* the PokerKit library, and simulator/replay.py's validation of a stream  *)
(* of hand events.  PokerKit itself is not in the repository: the          *)
(* operators about its state are external, written from how the adapter,  *)
(* the orchestrator and the tests use it.                                  *)
(*                                                                         *)
(* Cards are abstracted to the RNG seed that deals them (deal_seeded is a  *)
(* function of the scenario and the seed) and Strength[seed][seat] orders  *)
(* the showdown hands of that deal, without ties.                          *)
(***************************************************************************)
EXTENDS Integers, Sequences, FiniteSets, FiniteSetsExt, Functions

CONSTANTS NSeats,      \* table_size
          SmallBlind, BigBlind,
          Seeds,       \* the rng_seed values a hand may be opened with
          Strength,    \* Strength[seed][seat]: showdown order of the deal
          NoSeat       \* "nobody is to act"

ASSUME HandRulesAssumption ==
    /\ NSeats \in Nat \ {0, 1}
    /\ SmallBlind \in Nat \ {0} /\ BigBlind \in Nat /\ SmallBlind < BigBlind
    /\ Strength \in [Seeds -> [0 .. NSeats - 1 -> Nat]]
    /\ NoSeat \notin 0 .. NSeats - 1

Seats == 0 .. NSeats - 1
Actions == {"fold", "check", "call", "bet", "raise"}
River == 3             \* streets are 0 (preflop) .. 3 (river)

Least(a, b) == IF a <= b THEN a ELSE b

(***************************************************************************)
(* Seating.  Opening facts f are [button, stacks, active]: the button, the *)
(* stack of every table seat and the seats that take part in the hand.     *)
(***************************************************************************)
Ahead(s, t) == (t - s - 1) % NSeats
FirstAfter(s, S) == CHOOSE t \in S : \A u \in S : Ahead(s, t) <= Ahead(s, u)

SmallBlindSeat(f) == IF Cardinality(f.active) = 2
                     THEN f.button ELSE FirstAfter(f.button, f.active)
BigBlindSeat(f) == FirstAfter(SmallBlindSeat(f), f.active)

Posted(f, s) == CASE s = SmallBlindSeat(f) -> Least(SmallBlind, f.stacks[s])
                  [] s = BigBlindSeat(f)   -> Least(BigBlind, f.stacks[s])
                  [] OTHER                 -> 0

(***************************************************************************)
(* The betting state.  toAct holds the seats that still owe a decision on  *)
(* this street, last the seat after which the next actor is looked for,    *)
(* step the smallest raise increment.                                      *)
(***************************************************************************)
Opened(f) ==
    [street |-> 0, button |-> f.button, live |-> f.active,
     stack  |-> [s \in f.active |-> f.stacks[s] - Posted(f, s)],
     bet    |-> [s \in f.active |-> Posted(f, s)],
     toAct  |-> {s \in f.active : f.stacks[s] > Posted(f, s)},
     last   |-> BigBlindSeat(f), step |-> BigBlind]

TopBet(st) == Max(Range(st.bet))
WithChips(st) == {s \in st.live : st.stack[s] > 0}
InProgress(st) == Cardinality(st.live) > 1 /\ ~(st.street = River /\ st.toAct = {})
Actor(st) == IF InProgress(st) /\ st.toAct # {} THEN FirstAfter(st.last, st.toAct) ELSE NoSeat

CallCost(st, s) == Least(TopBet(st) - st.bet[s], st.stack[s])
AllInTo(st, s) == st.bet[s] + st.stack[s]
RaiseTo(st, s) == IF AllInTo(st, s) > TopBet(st) /\ WithChips(st) \ {s} # {}
                  THEN Least(TopBet(st) + st.step, AllInTo(st, s)) .. AllInTo(st, s)
                  ELSE {}

\* The legal intents of the seat to act: a fold is always offered, a bet is
\* "by" (chips added) and a raise is "to" (total street bet).
Legal(st, i) ==
    \/ i.action = "fold"  /\ i.amount = 0
    \/ i.action = "check" /\ i.amount = 0 /\ CallCost(st, i.seat) = 0
    \/ i.action = "call"  /\ i.amount = CallCost(st, i.seat) /\ i.amount > 0
    \/ i.action = "bet"   /\ CallCost(st, i.seat) = 0
                          /\ st.bet[i.seat] + i.amount \in RaiseTo(st, i.seat)
    \/ i.action = "raise" /\ CallCost(st, i.seat) > 0
                          /\ i.amount \in RaiseTo(st, i.seat)

Added(st, i) == CASE i.action \in {"call", "bet"} -> i.amount
                  [] i.action = "raise" -> i.amount - st.bet[i.seat]
                  [] OTHER -> 0

\* who still owes a decision after seat s acted: everyone with chips if it raised
Waiting(st, s, live, stack, raised) ==
    {t \in IF raised THEN live ELSE st.toAct \cap live : t # s /\ stack[t] > 0}

Acted(st, i) ==
    LET s       == i.seat
        stack   == [st.stack EXCEPT ![s] = @ - Added(st, i)]
        bet     == [st.bet EXCEPT ![s] = @ + Added(st, i)]
        live    == IF i.action = "fold" THEN st.live \ {s} ELSE st.live
        raised  == bet[s] > TopBet(st)
        waiting == Waiting(st, s, live, stack, raised)
        owing   == {t \in waiting : bet[t] < Max(Range(bet))}
        closed  == \/ Cardinality(live) = 1
                   \/ owing = {} /\ Cardinality({t \in live : stack[t] > 0}) <= 1
    IN  [st EXCEPT !.stack = stack, !.bet = bet, !.live = live, !.last = s,
                   !.toAct = IF closed THEN {} ELSE waiting,
                   !.step  = IF raised THEN Max({@, bet[s] - TopBet(st)}) ELSE @]

Dealt_SameStreet(st) ==   \* mutant: deals the street it is on again
    [st EXCEPT !.last = st.button, !.step = BigBlind, !.bet = [s \in DOMAIN @ |-> 0],
               !.toAct = IF Cardinality(WithChips(st)) > 1 THEN WithChips(st) ELSE {}]
Dealt(st) ==
    [st EXCEPT !.street = @ + 1, !.last = st.button, !.step = BigBlind,
               !.bet    = [s \in DOMAIN @ |-> 0],
               !.toAct  = IF Cardinality(WithChips(st)) > 1 THEN WithChips(st) ELSE {}]

(***************************************************************************)
(* Settlement: every level of commitment is a pot, won by the strongest    *)
(* live hand that paid for it.  PokerKit hands a winner back its own bets  *)
(* of the street outside the pot, which leaves the stacks the same.        *)
(***************************************************************************)
PotLevels(paid, live) == {paid[s] : s \in live}
Entitled(paid, live, l) == {s \in live : paid[s] >= l}

\* for every pot, by its level: who takes it and how much it holds
PotsPushed(f, st, seed) ==
    LET paid     == [s \in f.active |-> f.stacks[s] - st.stack[s]]
        levels   == PotLevels(paid, st.live)
        Below(l) == Max({0} \cup {m \in levels : m < l})
        Best(l)  == CHOOSE s \in Entitled(paid, st.live, l) :
                        \A t \in Entitled(paid, st.live, l) : Strength[seed][s] >= Strength[seed][t]
    IN  [l \in levels |->
            [seat   |-> Best(l),
             amount |-> SumFunction([s \in f.active |-> Least(paid[s], l) - Least(paid[s], Below(l))])]]

PayoutOf(pots, s) == SumFunction([l \in {m \in DOMAIN pots : pots[m].seat = s} |-> pots[l].amount])
\* mutant: a later pot replaces an earlier one
Payouts_LastPot(f, st, seed) ==
    LET pots == PotsPushed(f, st, seed)
        Won(s) == {m \in DOMAIN pots : pots[m].seat = s}
    IN  [s \in f.active |-> IF Won(s) = {} THEN 0 ELSE pots[Max(Won(s))].amount]
Payouts(f, st, seed) ==
    LET pots == PotsPushed(f, st, seed)
    IN  [s \in f.active |-> PayoutOf(pots, s)]

(***************************************************************************)
(* Event streams.  An event is [sequence, cause, offset, payload].         *)
(***************************************************************************)
IsKind(e, k) == e.payload.kind = k
Facts(es) == es[1].payload.facts
SeedOf(es) == es[1].payload.seed
CausedBy(es, id) == {i \in 1 .. Len(es) : es[i].cause = id}
BoardsDealt(es) == Cardinality({i \in 1 .. Len(es) : IsKind(es[i], "board_dealt")})
HasCompleted(es) == \E i \in 1 .. Len(es) : IsKind(es[i], "hand_completed")

Applied(st, payload) ==
    CASE payload.kind = "action_taken" -> Acted(st, payload.intent)
      [] payload.kind = "board_dealt"  -> Dealt(st)
      [] OTHER                         -> st

\* Replay of a nonempty stream up to its last event.  (Here and in Settlement the
\* choice from a singleton binds a state to its value, which keeps TLC's
\* evaluation linear where it does not cache.)
StateOf(es) ==
    LET at[i \in 1 .. Len(es)] ==
            IF i = 1 THEN Opened(Facts(es))
            ELSE CHOOSE st \in {Applied(before, es[i].payload) : before \in {at[i - 1]}} : TRUE
    IN  at[Len(es)]

\* what the settled hand leaves every seat with, and who won a pot
SettledFrom(f, st, seed) ==
    LET won == Payouts(f, st, seed)
    IN  [stacks  |-> [s \in f.active |-> st.stack[s] + won[s]],
         winners |-> {s \in f.active : won[s] > 0}]
Settlement(es) ==
    CHOOSE r \in {SettledFrom(Facts(es), st, SeedOf(es)) : st \in {StateOf(es)}} : TRUE
EndingStacks(es) == Settlement(es).stacks
Winners(es) == Settlement(es).winners

\* event_id hashes hand, command, offset and kind (the hand is the log's index)
EventId(e) == <<e.cause, e.offset, e.payload.kind>>

\* validate_hand_event_stream, check by check
ValidStream(es) ==
    /\ es # <<>>
    /\ \A i \in 1 .. Len(es) : es[i].sequence = i
    /\ \A i, j \in 1 .. Len(es) : i # j => EventId(es[i]) # EventId(es[j])
    /\ \A i \in 1 .. Len(es) : IsKind(es[i], "hand_started") <=> i = 1
    /\ \A i \in 1 .. Len(es) : IsKind(es[i], "hand_completed") => i = Len(es)
    /\ \A i \in 1 .. Len(es) :
          /\ IsKind(es[i], "hole_cards_recorded") =>
                /\ es[i].payload.seat \in Facts(es).active
                /\ \A j \in 1 .. i - 1 : IsKind(es[j], "hole_cards_recorded")
                                           => es[j].payload.seat # es[i].payload.seat
          /\ IsKind(es[i], "action_taken") => es[i].payload.intent.seat \in Facts(es).active
          /\ IsKind(es[i], "board_dealt") =>
                es[i].payload.street
                  = 1 + Cardinality({j \in 1 .. i - 1 : IsKind(es[j], "board_dealt")})
          /\ IsKind(es[i], "hand_completed") => es[i].payload.winners \subseteq Facts(es).active

\* replay_hand: the stream is well formed, and a completion agrees with the
\* settlement the rules engine computes from the other events.  (The code compares
\* the payouts too; winners and payouts are written from one settlement, and the
\* payload keeps the winners for both.)
Replayable(es) ==
    /\ ValidStream(es)
    /\ HasCompleted(es) => /\ ~InProgress(StateOf(es))
                           /\ es[Len(es)].payload.winners = Winners(es)

=============================================================================
