--------------------------- MODULE ScenarioReplay ---------------------------
(***************************************************************************)
(* Hand Lab's scenarios, and PokerKitAdapter.replay of one: the events a   *)
(* user wrote are applied to the engine's state one by one, each refused   *)
(* with a code or accepted, and what an all-in leaves to chance is dealt   *)
(* from the scenario's board at the end.                                   *)
(*                                                                         *)
(* A scenario is [facts, known, board, events]: the opening facts, the     *)
(* seats whose hole cards it gives, the number of streets its board field  *)
(* reaches, and action_history.  An event is [type, seat, amount, street]; *)
(* a deal's seat is not read, and neither are the blinds' streets.  Rake   *)
(* is refused and antes, ties and the optional pot_before and stack_before *)
(* claims are left out.                                                    *)
(***************************************************************************)
EXTENDS HandRules, SequencesExt

Showdown == 4          \* after the river's 3
Complete == 5
NoError == "none"

BetTypes == {"bet", "raise_to", "all_in"}
PlayerTypes == {"check", "call", "fold"} \cup BetTypes
EventTypes == PlayerTypes \cup {"post_blind", "deal", "showdown", "award_pot"}

(***************************************************************************)
(* The forced blinds.  The state is created with both posted; events that  *)
(* say so may only lead the history and repeat it.                         *)
(***************************************************************************)
BlindSchedule(f) ==
    LET small == [seat |-> SmallBlindSeat(f), amount |-> SmallBlind]
        big   == [seat |-> BigBlindSeat(f), amount |-> BigBlind]
    IN  IF Cardinality(f.active) = 2 THEN <<big, small>> ELSE <<small, big>>

IsBlind(e) == e.type = "post_blind"
LeadingBlinds(es) ==
    Cardinality({k \in 1 .. Len(es) : \A j \in 1 .. k : IsBlind(es[j])})

BlindsRefused(sc) ==
    LET es == sc.events
        n  == LeadingBlinds(es)
    IN  CASE \E k \in 1 .. Least(n, 2) :
                 [seat |-> es[k].seat, amount |-> es[k].amount] # BlindSchedule(sc.facts)[k]
                 -> "blind_mismatch"
          [] n > 2 -> "duplicate_blind"
          [] \E k \in n + 1 .. Len(es) : IsBlind(es[k]) -> "blind_order"
          [] OTHER -> NoError

(***************************************************************************)
(* The engine.  Betting that has closed with at most one stack left to bet *)
(* is PokerKit's all_in_status.                                            *)
(***************************************************************************)
AwaitsBoard(st) == InProgress(st) /\ Actor(st) = NoSeat
AllIn(st) == AwaitsBoard(st) /\ Cardinality(WithChips(st)) <= 1

Target(st, e) == (IF e.type = "bet" THEN st.bet[e.seat] ELSE 0) + e.amount

\* what the settlement pushes to a seat: the pots it wins, less the bets of an
\* unfinished street, which go back to it outside the pot
PushedTo(f, st, order, s) ==
    Payouts(f, st, order)[s]
      - (IF s \in st.live /\ Cardinality(st.live) = 1 THEN st.bet[s] ELSE 0)

\* the street an event has to carry (the board's, for a player's action)
ExpectedStreet(st, e) == CASE e.type = "showdown"  -> Showdown
                           [] e.type = "award_pot" -> Complete
                           [] e.type = "deal"      -> e.street
                           [] OTHER                -> st.street

(***************************************************************************)
(* Why an event is refused in state st.  `order` ranks the hands where the *)
(* engine has to compare them.                                             *)
(***************************************************************************)
DealRefused(sc, st, e) ==
    CASE e.street # st.street + 1 -> "board_order"
      [] sc.board < e.street      -> "board_missing"
      [] ~AwaitsBoard(st)         -> "board_not_pending"
      [] OTHER                    -> NoError

MarkerRefused(sc, st, e) ==
    CASE e.seat \notin sc.facts.active  -> "unknown_actor"
      [] ~(st.live \subseteq sc.known)  -> "showdown_requires_hole_cards"
      [] AwaitsBoard(st) /\ ~AllIn(st)  -> "showdown_not_ready"
      [] OTHER -> NoError

AwardRefused(sc, st, e, order) ==
    CASE e.seat \notin sc.facts.active -> "unknown_actor"
      [] AllIn(st)                     -> NoError
      [] InProgress(st)                -> "award_not_ready"
      [] PushedTo(sc.facts, st, order, e.seat) # e.amount -> "award_amount_mismatch"
      [] OTHER -> NoError

BetRefused(st, e) ==
    CASE RaiseTo(st, e.seat) = {} -> "raise_not_legal"
      [] Target(st, e) \notin RaiseTo(st, e.seat) -> "raise_amount_out_of_range"
      [] e.type = "all_in" /\ Target(st, e) # Max(RaiseTo(st, e.seat)) -> "all_in_amount_mismatch"
      [] OTHER -> NoError

PlayerRefused(sc, st, e) ==
    CASE e.seat \notin sc.facts.active -> "unknown_actor"
      [] Actor(st) # e.seat            -> "wrong_actor"
      [] e.type = "check" /\ CallCost(st, e.seat) # 0       -> "check_not_legal"
      [] e.type = "call" /\ e.amount # CallCost(st, e.seat) -> "call_amount_mismatch"
      [] e.type \in BetTypes           -> BetRefused(st, e)
      [] OTHER -> NoError

Refused(sc, st, e, order) ==
    CASE /\ ~InProgress(st)
         /\ ~(e.type = "showdown" /\ e.street = Showdown)
         /\ ~(e.type = "award_pot" /\ e.street = Complete) -> "hand_ended"
      [] e.street # ExpectedStreet(st, e) -> "wrong_street"
      [] e.type = "deal"      -> DealRefused(sc, st, e)
      [] e.type = "showdown"  -> MarkerRefused(sc, st, e)
      [] e.type = "award_pot" -> AwardRefused(sc, st, e, order)
      [] OTHER                -> PlayerRefused(sc, st, e)

\* the engine's move an accepted player event stands for
MoveOf(st, e) ==
    CASE e.type \in {"check", "call"} ->
             [seat |-> e.seat, amount |-> CallCost(st, e.seat),
              action |-> IF CallCost(st, e.seat) = 0 THEN "check" ELSE "call"]
      [] e.type = "fold" -> [seat |-> e.seat, action |-> "fold", amount |-> 0]
      [] TopBet(st) = st.bet[e.seat] ->
             [seat |-> e.seat, action |-> "bet", amount |-> Target(st, e) - st.bet[e.seat]]
      [] OTHER -> [seat |-> e.seat, action |-> "raise", amount |-> Target(st, e)]

After(st, e) == CASE e.type = "deal" -> Dealt(st)
                  [] e.type \in PlayerTypes -> Acted(st, MoveOf(st, e))
                  [] OTHER -> st

(***************************************************************************)
(* replay.  An award in an all-in waits for the runout; the rest of the    *)
(* events are applied in order, up to the first that is refused.           *)
(***************************************************************************)
OneEvent(sc, order, r, e) ==
    LET why == Refused(sc, r.state, e, order)
    IN  CASE r.error # NoError -> r
          [] r.error = NoError /\ e.type = "award_pot" /\ AllIn(r.state) ->
                 [r EXCEPT !.awards = Append(@, e)]
          [] OTHER -> [r EXCEPT !.error = why,
                                !.state = IF why = NoError THEN After(@, e) ELSE @]

Started(sc) == [state |-> Opened(sc.facts), error |-> BlindsRefused(sc), awards |-> <<>>]

\* (the choice from a singleton binds a record to its value, as in StateOf)
Applies(sc, order) ==
    LET skip == LeadingBlinds(sc.events)
        at[n \in 0 .. Len(sc.events) - skip] ==
            IF n = 0 THEN Started(sc)
            ELSE CHOOSE r \in {OneEvent(sc, order, before, sc.events[skip + n]) :
                                   before \in {at[n - 1]}} : TRUE
    IN  at[Len(sc.events) - skip]

\* _auto_runout: the rest of the scenario's board
RanOut(sc, st) ==
    LET dealt[k \in Nat] == IF k = 0 THEN st ELSE Dealt(dealt[k - 1])
    IN  IF AllIn(st) /\ sc.board > st.street THEN dealt[sc.board - st.street] ELSE st

LateAwards_Trusted(sc, order, st, awards) == NoError   \* mutant: never looked at again
LateAwards(sc, order, st, awards) ==
    LET bad == {k \in DOMAIN awards : AwardRefused(sc, st, awards[k], order) # NoError}
    IN  IF bad = {} THEN NoError ELSE AwardRefused(sc, st, awards[Min(bad)], order)

\* the code of the first error, the final state, and the state as the events left it
Reply(sc, order, r) ==
    LET end == RanOut(sc, r.state)
    IN  IF r.error # NoError THEN [error |-> r.error, state |-> r.state, played |-> r.state]
        ELSE [error |-> LateAwards(sc, order, end, r.awards), state |-> end, played |-> r.state]
Replayed(sc, order) ==
    CHOOSE reply \in {Reply(sc, order, r) : r \in {Applies(sc, order)}} : TRUE

PayoutsOf(sc, st, order) ==
    IF InProgress(st) THEN [s \in {} |-> 0]
    ELSE [s \in sc.facts.active |-> PushedTo(sc.facts, st, order, s)]

(***************************************************************************)
(* legal_actions of a state, as the snapshot offers them: the events the   *)
(* actor may append.                                                       *)
(***************************************************************************)
Offer(st, type, amount) ==
    [type |-> type, seat |-> Actor(st), amount |-> amount, street |-> st.street]
Offered(st) ==
    IF Actor(st) = NoSeat THEN {}
    ELSE LET s    == Actor(st)
             cost == CallCost(st, s)
             tos  == RaiseTo(st, s)
         IN  {Offer(st, "fold", 0),
              IF cost = 0 THEN Offer(st, "check", 0) ELSE Offer(st, "call", cost)}
             \cup {IF cost = 0 THEN Offer(st, "bet", to - st.bet[s])
                               ELSE Offer(st, "raise_to", to) : to \in tos}
             \cup (IF tos # {} THEN {Offer(st, "all_in", Max(tos))} ELSE {})

=============================================================================
