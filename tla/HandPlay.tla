------------------------------ MODULE HandPlay ------------------------------
(***************************************************************************)
(* One hand played by the rules, from any button and any stacks: legal     *)
(* intents of the seat to act, and the street the orchestrator deals when  *)
(* betting has closed.  The orchestrator's batches are sequences of these  *)
(* steps.                                                                  *)
(***************************************************************************)
EXTENDS HandRules

CONSTANTS StackSizes,   \* bound: the stacks a seat may start with
          Buttons,      \* bound: the buttons tried
          Amounts       \* bound: the amounts tried

\* a session deals nobody in with less than a big blind (EveryoneFunded of
\* GameSession)
ASSUME HandPlayAssumption ==
    /\ StackSizes \subseteq Nat /\ \A n \in StackSizes : n >= BigBlind
    /\ Buttons \subseteq Seats /\ Amounts \subseteq Nat

VARIABLES facts,   \* the opening facts of the hand
          table,   \* its betting state
          seed     \* the seed that deals it

handVars == <<facts, table, seed>>

PlayInit ==
    /\ facts \in {f \in [button : Buttons, stacks : [Seats -> StackSizes], active : SUBSET Seats] :
                     f.button \in f.active /\ Cardinality(f.active) >= 2}
    /\ table = Opened(facts)
    /\ seed \in Seeds

Act(i) ==
    /\ Actor(table) = i.seat
    /\ Legal(table, i)
    /\ table' = Acted(table, i)
    /\ UNCHANGED <<facts, seed>>

Deal ==
    /\ InProgress(table) /\ Actor(table) = NoSeat /\ table.street < River
    /\ table' = Dealt(table)
    /\ UNCHANGED <<facts, seed>>

\* the hand is over; the hand is settled from this state
Over == ~InProgress(table) /\ UNCHANGED handVars

Intents == [seat : Seats, action : Actions, amount : Amounts]
PlayNext == (\E i \in Intents : Act(i)) \/ Deal \/ Over

PlaySpec == PlayInit /\ [][PlayNext]_handVars

\* The table waits for its players: execute's loop deals at once, and every
\* bot or player eventually acts.
FairPlay == PlaySpec /\ WF_handVars(Deal) /\ WF_handVars(\E i \in Intents : Act(i))

(***************************************************************************)
(* Properties.                                                             *)
(***************************************************************************)
Paid(s) == facts.stacks[s] - table.stack[s]

\* Chips are neither created nor lost: when a hand is over, what it leaves the
\* seats with is what they sat down with (complete_active_hand refuses a
\* settlement for which this fails, and the hand could then never be settled).
ChipsConserved ==
    ~InProgress(table) =>
        SumFunction(SettledFrom(facts, table, seed).stacks)
          = SumFunctionOnSet(facts.stacks, facts.active)

\* Nobody wins from another seat more than they put in themselves, and folded
\* or beaten chips are not paid back: the side pots are right.
SidePotsFair ==
    ~InProgress(table) => \A s \in facts.active :
        LET won == Payouts(facts, table, seed)[s]
        IN  /\ won <= SumFunction([t \in facts.active |-> Least(Paid(t), Paid(s))])
            /\ s \notin table.live => won = 0

\* Betting closes on a street only when every live seat has matched the top
\* bet or is all-in.
BettingClosesMatched ==
    InProgress(table) /\ Actor(table) = NoSeat =>
        \A s \in table.live : table.stack[s] > 0 => table.bet[s] = TopBet(table)

\* Whoever is to act can do something that keeps the hand alive: the actor has
\* chips, is in the hand, and may check or call.
ActorCanContinue ==
    Actor(table) # NoSeat =>
        /\ Actor(table) \in WithChips(table)
        /\ \E a \in {"check", "call"} :
              Legal(table, [seat |-> Actor(table), action |-> a,
                            amount |-> CallCost(table, Actor(table))])

\* Betting is closed, continued and settled by the rules, whatever the stacks.
HandSound == ChipsConserved /\ SidePotsFair /\ BettingClosesMatched /\ ActorCanContinue

\* Every hand ends.
HandEnds == <>~InProgress(table)

=============================================================================
