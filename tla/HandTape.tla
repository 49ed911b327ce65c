------------------------------ MODULE HandTape ------------------------------
(***************************************************************************)
(* A hand played by the rules with the stream the orchestrator records:    *)
(* its opening facts, everyone's hole cards, each action with the street   *)
(* it was taken on, each street dealt and, once settled, the completion.   *)
(***************************************************************************)
EXTENDS HandPlay, ScenarioReplay

VARIABLE tape     \* the payloads of the hand's events, in order
tapeVars == <<handVars, tape>>

Taken(i, street) == [kind |-> "action_taken", intent |-> i, street |-> street]
BoardOf(k) == [kind |-> "board_dealt", street |-> k]
HoleCards(s) == [kind |-> "hole_cards_recorded", seat |-> s]

SortedActive(f) == SetToSortSeq(f.active, <)
OpeningOf(f, d) ==
    <<[kind |-> "hand_started", facts |-> f, seed |-> d]>>
      \o [k \in 1 .. Cardinality(f.active) |-> HoleCards(SortedActive(f)[k])]

IsTaken(p) == p.kind = "action_taken"
IsBoard(p) == p.kind = "board_dealt"
IsHole(p) == p.kind = "hole_cards_recorded"
Completed(t) == Last(t).kind = "hand_completed"

TapeInit == PlayInit /\ tape = OpeningOf(facts, seed)

TapeAct(i) == Act(i) /\ tape' = Append(tape, Taken(i, table.street))
TapeDeal == Deal /\ tape' = Append(tape, BoardOf(table.street + 1))
Close ==
    /\ ~InProgress(table) /\ ~Completed(tape)
    /\ tape' = Append(tape, [kind |-> "hand_completed",
                             winners |-> SettledFrom(facts, table, seed).winners])
    /\ UNCHANGED handVars

TapeNext == (\E i \in Intents : TapeAct(i)) \/ TapeDeal \/ Close

(***************************************************************************)
(* scenario_from_events, with the cards of the seats given.                *)
(***************************************************************************)
LabType == [fold |-> "fold", check |-> "check", call |-> "call", bet |-> "bet", raise |-> "raise_to"]
LabEvent(f, p) ==
    IF IsBoard(p) THEN [type |-> "deal", seat |-> f.button, amount |-> 0, street |-> p.street]
    ELSE [type |-> LabType[p.intent.action], seat |-> p.intent.seat,
          amount |-> p.intent.amount, street |-> p.street]

ScenarioOf(f, payloads, shown) ==
    [facts |-> f, known |-> shown,
     board |-> Cardinality({k \in DOMAIN payloads : IsBoard(payloads[k])}),
     events |-> LET played == SelectSeq(payloads, LAMBDA p : IsTaken(p) \/ IsBoard(p))
                IN  [k \in DOMAIN played |-> LabEvent(f, played[k])]]

=============================================================================
