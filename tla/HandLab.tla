------------------------------- MODULE HandLab -------------------------------
(***************************************************************************)
(* simulator/hand_lab_compat.py: a hand of the table is opened in Hand Lab *)
(* as a scenario with the cards its viewer may see, and an action chosen   *)
(* there is sent back to the table as a command, while the table plays on. *)
(*                                                                         *)
(* A stream is read between the orchestrator's batches: a player is to     *)
(* act, or the hand is completed.  Hidden cards go into the engine as      *)
(* "??"; wherever it compares them, the order it finds agrees with the     *)
(* deal on the seats that are known, and on nothing else for certain.      *)
(***************************************************************************)
EXTENDS HandTape

CONSTANTS Reveals,    \* bound: the sets of seats a reveal policy authorizes
          Nothing     \* no hand is shown

VARIABLES lab,        \* what Hand Lab has open: its hero, whom it was allowed to see, how
                      \* much of the stream it covers, the state shown or the bridge's error
          answer      \* of the step that sent an action: the refusal, or the event it was
labVars == <<tapeVars, lab, answer>>

AtRest == Actor(table) # NoSeat \/ Completed(tape)

Finds(o, known) == \A s, t \in known :
    Strength[o][s] > Strength[o][t] <=> Strength[seed][s] > Strength[seed][t]

(***************************************************************************)
(* scenario_from_authoritative_events.                                     *)
(***************************************************************************)
StartedFacts(t) == t[1].facts
Recorded(t) == {t[k].seat : k \in {j \in DOMAIN t : IsHole(t[j])}}
Folded(t) == {t[k].intent.seat : k \in {j \in DOMAIN t : IsTaken(t[j]) /\ t[j].intent.action = "fold"}}

\* the seats whose cards a completed showdown needs
Contenders_Everyone(t) == StartedFacts(t).active   \* mutant: folds are not taken out
Contenders(t) == StartedFacts(t).active \ Folded(t)

LabScenario(t, authorized) == ScenarioOf(StartedFacts(t), t, authorized \cap Recorded(t))

\* what the two replays are compared on
ViewOf(sc, reply, order) ==
    [state |-> reply.state,
     payouts |-> IF InProgress(reply.state) THEN <<>> ELSE PayoutsOf(sc, reply.state, order)]

Concealed(t, hero, authorized) ==
    Completed(t) /\ Cardinality(Contenders(t)) > 1 /\ ~(Contenders(t) \subseteq authorized \cap Recorded(t))

Strangers(t, hero, authorized) ==
    CASE hero \notin StartedFacts(t).active             -> "invalid_hero_seat"
      [] ~(authorized \subseteq StartedFacts(t).active) -> "invalid_hole_card_visibility"
      [] OTHER -> NoError

Closed(error) == [error |-> error, shown |-> Nothing]
Bridge(t, hero, authorized, order) ==
    LET sc    == LabScenario(t, authorized)
        whole == LabScenario(t, StartedFacts(t).active)
        seen  == Replayed(sc, order)
    IN  CASE Strangers(t, hero, authorized) # NoError -> Closed(Strangers(t, hero, authorized))
          [] Concealed(t, hero, authorized)           -> Closed("insufficient_visible_facts")
          [] seen.error # NoError                     -> Closed("insufficient_visible_facts")
          [] ViewOf(sc, seen, order) # ViewOf(whole, Replayed(whole, seed), seed)
                                                      -> Closed("insufficient_visible_facts")
          [] OTHER -> [error |-> NoError, shown |-> seen.state]

Unopened == [error |-> "unopened"]
Opens == lab.error = NoError
Silent == [error |-> "none sent", event |-> Nothing]
\* bound: one view in a behaviour, for views share nothing
Open(hero, authorized, order) ==
    /\ AtRest /\ lab = Unopened /\ Finds(order, authorized \cap facts.active)
    /\ \E result \in {Bridge(tape, hero, authorized, order)} :
          lab' = result @@ [hero |-> hero, authorized |-> authorized, covers |-> Len(tape)]
    /\ UNCHANGED <<tapeVars, answer>>

(***************************************************************************)
(* player_action_command_from_hand_lab.  The observation is passed beside  *)
(* expected_sequence and may be of any point of the hand at which somebody *)
(* was to act, for that seat, or missing; its bet and raise are published  *)
(* with their largest amounts.  The refusal amount_semantics_mismatch is   *)
(* left out: an ActionEvent of another amount type is not a valid one.     *)
(***************************************************************************)
Covered == SubSeq(tape, 1, lab.covers)

Endpoints(st, s) ==
    LET tos == RaiseTo(st, s)
    IN  CASE tos = {}            -> {}
          [] CallCost(st, s) = 0 -> {[action |-> "bet", amount |-> Max(tos) - st.bet[s]]}
          [] OTHER               -> {[action |-> "raise", amount |-> Max(tos)]}

AllInOf(st, e) ==
    {c \in Endpoints(st, e.seat) :
        e.amount = c.amount + (IF c.action = "bet" THEN st.bet[e.seat] ELSE 0)}

\* what the acting seat saw at some decision of the hand, or no observation
Decisions == {n \in DOMAIN tape : Recorded(SubSeq(tape, 1, n)) = facts.active}
StateAt(n) == Replayed(LabScenario(SubSeq(tape, 1, n), facts.active), seed).state
Observations == {st \in {StateAt(n) : n \in Decisions} : Actor(st) # NoSeat}

SimulatorAction == [fold |-> "fold", check |-> "check", call |-> "call", bet |-> "bet", raise_to |-> "raise"]
Command(observed, e) ==
    CASE e.type = "all_in" /\ (observed = Nothing \/ Actor(observed) # e.seat) ->
             [error |-> "all_in_requires_authoritative_observation"]
      [] e.type = "all_in" /\ AllInOf(observed, e) = {} ->
             [error |-> "all_in_not_authoritative_endpoint"]
      [] e.type = "all_in" ->
             LET c == CHOOSE c \in AllInOf(observed, e) : TRUE
             IN  [error |-> NoError, intent |-> [seat |-> e.seat, action |-> c.action, amount |-> c.amount]]
      [] e.type \notin DOMAIN SimulatorAction -> [error |-> "unsupported_hand_lab_action"]
      [] OTHER -> [error |-> NoError,
                   intent |-> [seat |-> e.seat, action |-> SimulatorAction[e.type], amount |-> e.amount]]

\* GameOrchestrator.execute's refusals of a new command
Executed_AnySequence(i, expected) ==   \* mutant: where the sender was is not looked at
    CASE Completed(tape)          -> "hand_completed"
      [] Actor(table) # i.seat    -> "wrong_actor"
      [] ~Legal(table, i)         -> "action_not_legal"
      [] OTHER                    -> NoError
Executed(i, expected) ==
    CASE Completed(tape)          -> "hand_completed"
      [] expected # Len(tape)     -> "expected_sequence_conflict"
      [] Actor(table) # i.seat    -> "wrong_actor"
      [] ~Legal(table, i)         -> "action_not_legal"
      [] OTHER                    -> NoError

Answered(observed, e) ==
    LET c == Command(observed, e)
    IN  IF c.error # NoError THEN c.error ELSE Executed(c.intent, lab.covers)

Send(observed, e) ==
    /\ Opens /\ AtRest
    /\ observed = Nothing \/ e.type = "all_in"   \* bound: no other is read with it
    /\ \E error \in {Answered(observed, e)} :
          IF error = NoError
          THEN answer' = [error |-> error, event |-> e] /\ TapeAct(Command(observed, e).intent)
          ELSE answer' = [error |-> error, event |-> Nothing] /\ UNCHANGED tapeVars
    /\ UNCHANGED lab

\* the events a user can write at what is shown; one that no player takes stands for the rest
Writable ==
    [type : PlayerTypes \ {"check", "fold"}, seat : Seats, amount : Amounts, street : {lab.shown.street}]
      \cup [type : {"check", "fold", "showdown"}, seat : Seats, amount : {0}, street : {lab.shown.street}]

Play == (lab = Unopened \/ Opens) /\ TapeNext /\ answer' = Silent /\ UNCHANGED lab

LabInit == TapeInit /\ lab = Unopened /\ answer = Silent
LabNext ==
    \/ Play
    \/ \E hero \in Seats, authorized \in Reveals, order \in Seeds : Open(hero, authorized, order)
    \/ Opens /\ AtRest /\ \E observed \in {Nothing} \cup Observations :
           \E e \in Writable : Send(observed, e)
LabSpec == LabInit /\ [][LabNext]_labVars

(***************************************************************************)
(* Properties.                                                             *)
(***************************************************************************)
HandLabOK ==
    /\ lab = Unopened \/ lab.covers \in 1 .. Len(tape)
    /\ Opens => {lab.hero} \cup lab.authorized \subseteq facts.active
    /\ lab.error \in {"unopened", NoError, "invalid_hero_seat", "invalid_hole_card_visibility",
                      "insufficient_visible_facts"}
    /\ answer.error \in {"none sent", NoError, "all_in_requires_authoritative_observation",
                   "all_in_not_authoritative_endpoint", "unsupported_hand_lab_action",
                   "hand_completed", "expected_sequence_conflict", "wrong_actor", "action_not_legal"}

UpToDate == lab # Unopened /\ lab.covers = Len(tape)

\* A hand is refused only for what its reader may not see: a participant's own
\* hand opens while it is played, after a fold, and with every live seat's cards.
OpensInLab ==
    UpToDate /\ lab.error = "insufficient_visible_facts" =>
        ~InProgress(table) /\ Cardinality(table.live) > 1 /\ ~(table.live \subseteq lab.authorized)

\* What is open in Hand Lab is the table's hand, chips and payouts, whatever the
\* cards it hides are: no result rests on a hand nobody may see.
LabIsTheTable ==
    Opens /\ UpToDate => \A o \in {p \in Seeds : Finds(p, lab.authorized)} :
        LET sc == LabScenario(tape, lab.authorized)
            r  == Replayed(sc, o)
        IN  /\ r.error = NoError /\ r.state = table
            /\ ~InProgress(table) => PayoutsOf(sc, table, o) = PayoutsOf(sc, table, seed)

\* Every action Hand Lab offers at the table's decision is one the table takes,
\* with the observation of that decision.
OffersArrive ==
    Opens /\ UpToDate => \A e \in Offered(lab.shown) : Answered(table, e) = NoError

\* An action the table takes from Hand Lab is one Hand Lab would have taken, and
\* what it does at the table is what it did on the screen, however long the
\* screen was open and whichever decision the observation sent along was of.
\* An all-in puts in all the seat has on the screen, even when its amount is the
\* total of another street, which the observation of that street lets through.
Meant(st, e) ==
    IF e.type = "all_in" THEN [e EXCEPT !.amount = st.bet[e.seat] + st.stack[e.seat]] ELSE e
SentAsShown ==
    answer'.error = NoError => \E e \in {Meant(lab.shown, answer'.event)} :
        /\ Refused(LabScenario(Covered, lab.authorized), lab.shown, e, seed) = NoError
        /\ table' = After(lab.shown, e)

\* Hand Lab shows the table's hand to whoever may see it, and the table takes
\* what Hand Lab offers.
LabSound == HandLabOK /\ OpensInLab /\ LabIsTheTable /\ OffersArrive

=============================================================================
