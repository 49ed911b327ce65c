----------------------------- MODULE HandDraft -----------------------------
(***************************************************************************)
(* A user writes a hand into Hand Lab event by event, and the scenario is  *)
(* replayed after every change (POST /v1/scenarios/validate).  A refused   *)
(* event is taken back before the next is written.                         *)
(***************************************************************************)
EXTENDS ScenarioReplay

CONSTANTS StackSizes, Buttons, Amounts,
          Boards,       \* bound: how many streets the board field may reach
          MaxEvents     \* bound: events of a draft

VARIABLES facts, seed,   \* the hand's opening facts; the order of the hands it deals
          known,         \* the seats whose cards the scenario gives
          order,         \* the order the engine finds, where it must compare
          board, history,
         reply,         \* what the endpoint answered last
         table          \* the betting state the accepted events lead to
handFacts == <<facts, seed, known, order, board>>
draftVars == <<handFacts, history, reply, table>>

Scenario(es) == [facts |-> facts, known |-> known, board |-> board, events |-> es]
Accepted == reply.error = NoError

\* Hidden cards go into the engine as "??": the order it finds agrees with the
\* deal on the seats that are known, and on nothing else for certain.
Finds(o) == \A s, t \in known :
                Strength[o][s] > Strength[o][t] <=> Strength[seed][s] > Strength[seed][t]

Init ==
    /\ facts \in {f \in [button : Buttons, stacks : [Seats -> StackSizes], active : SUBSET Seats] :
                     f.button \in f.active /\ Cardinality(f.active) >= 2}
    /\ seed \in Seeds /\ order \in Seeds
    /\ known \in SUBSET facts.active
    /\ Finds(order)
    /\ board \in Boards
    /\ history = <<>>
    /\ reply = Replayed(Scenario(<<>>), order)
    /\ table = reply.state

\* bound: the events tried carry the street that is on, or the next but one
Sized == {"post_blind", "call", "award_pot"} \cup BetTypes
Events ==
    [type : Sized \ {"award_pot"}, seat : Seats, amount : Amounts, street : {table.street}]
      \cup [type : {"check", "fold"}, seat : Seats, amount : {0}, street : {table.street, table.street + 2}]
      \cup [type : {"deal"}, seat : {facts.button}, amount : {0}, street : 1 .. River]
      \cup [type : {"showdown"}, seat : Seats, amount : {0}, street : {Showdown}]
      \cup [type : {"award_pot"}, seat : Seats, amount : Amounts, street : {Complete}]

Write(e) ==
    /\ Accepted /\ Len(history) < MaxEvents
    /\ history' = Append(history, e)
    /\ reply' = Replayed(Scenario(history'), order)
    /\ table' = IF reply'.error = NoError THEN reply'.played ELSE table
    /\ UNCHANGED handFacts

TakeBack ==
    /\ ~Accepted
    /\ history' = Front(history)
    /\ reply' = Replayed(Scenario(history'), order)
    /\ UNCHANGED <<handFacts, table>>

Next == (\E e \in Events : Write(e)) \/ TakeBack
Spec == Init /\ [][Next]_draftVars

(***************************************************************************)
(* Properties.                                                             *)
(***************************************************************************)
DraftOK == /\ Len(history) \in 0 .. MaxEvents
           /\ table.street \in 0 .. board
           /\ \A s \in facts.active : table.stack[s] \in Nat /\ table.bet[s] \in Nat

\* Whatever a user writes, what the adapter accepts is a hand played by the rules:
\* every event it lets through is a legal move of the seat to act, a street that
\* was due, or a marker that changes nothing.
Rules == INSTANCE HandPlay
PlaysByTheRules == Rules!PlayInit /\ [][Rules!PlayNext]_<<facts, table, seed>>

Ended == Accepted /\ ~InProgress(reply.state)

\* An accepted award says what its seat was really paid, also where it was written
\* before the board that decides it had been run out.
AwardsArePaid ==
    Ended => \A e \in Range(history) : e.type = "award_pot" =>
        PushedTo(facts, reply.state, order, e.seat) = e.amount

\* Where a showdown is on record, its result is the deal's and not a guess about
\* cards the scenario does not give.
ShowdownsAreEvidenced ==
    Ended /\ (\E e \in Range(history) : e.type = "showdown") =>
        PayoutsOf(Scenario(history), reply.state, order)
          = PayoutsOf(Scenario(history), reply.state, seed)

\* What the snapshot offers the actor is accepted when it is written next.
OffersAreHonoured ==
    Accepted => \A e \in Offered(reply.state) :
        Replayed(Scenario(Append(history, e)), order).error = NoError

\* The offer's explanation of a bet holds: "amount is the total bet after the action".
BetsAreTotals ==
    Accepted /\ Actor(table) # NoSeat /\ CallCost(table, Actor(table)) = 0 =>
        \A to \in RaiseTo(table, Actor(table)) :
            LET bet  == Offer(table, "bet", to)
                next == Replayed(Scenario(Append(history, bet)), order)
            IN  next.error = NoError /\ next.played.bet[bet.seat] = to

\* A showdown marker that is accepted stands where the betting is over.
MarkersAreTerminal ==
    Accepted /\ history # <<>> /\ Last(history).type = "showdown" => Actor(table) = NoSeat

\* What is accepted is paid, shown and offered as the rules have it.
DraftSound == DraftOK /\ AwardsArePaid /\ ShowdownsAreEvidenced /\ OffersAreHonoured

=============================================================================
