----------------------------- MODULE GameSession -----------------------------
(***************************************************************************)
(* The life of one GameSession: hands are started and completed with any   *)
(* settlement that conserves the hand's chips, whoever computed it.        *)
(***************************************************************************)
EXTENDS SessionRules

CONSTANTS LastHand   \* bound: hands the session may start

\* What an instance assumes of its constants.
GameSessionAssumption == LastHand \in Nat

VARIABLE session

SessionInit == \E button \in Seats \ SittingOut : session = Created(button)

SessionStartsHand ==
    /\ session.handSequence < LastHand
    /\ session' \in StartedNext(session)

\* every way to divide the chips of the hand among its seats
Settlements(se) ==
    LET pot == SumFunctionOnSet(se.stacks, se.active.seats)
    IN  {ending \in [se.active.seats -> 0 .. pot] : SumFunction(ending) = pot}

SessionCompletesHand ==
    /\ session.active # NoHand
    /\ \E ending \in Settlements(session) :
          session' \in CompletedBy(session, session.active.hand, ending)

SessionNext == SessionStartsHand \/ SessionCompletesHand

SessionSpec == SessionInit /\ [][SessionNext]_session

(***************************************************************************)
(* Properties.                                                             *)
(***************************************************************************)
\* No legal sequence of transitions reaches a session its own validator
\* rejects: _replace never raises, whatever the settlements were.
AlwaysValid == session \in Session /\ ValidSession(session)

\* The only chips that ever enter the table are recorded rebuys, each worth
\* what it added: stacks are the buy-ins plus the rebuys.
ChipsAccounted ==
    SumFunction(session.stacks)
      = NSeats * StartingStack
          + SumFunction([r \in session.rebuys |-> StartingStack - r.before])

\* Everyone who is not sitting out is dealt in, with at least a big blind.
EveryoneFunded ==
    session.active # NoHand =>
        /\ session.active.seats = Seats \ SittingOut
        /\ \A s \in session.active.seats : session.stacks[s] >= BigBlind

\* Between hands the next hand can always be started: enough seats are funded,
\* and the refill that both transitions apply never repeats a rebuy.
NextHandStarts == session.active = NoHand => StartedNext(session) # {}

\* Whatever the settlements were, the session stays valid, funded and startable.
SessionSound == AlwaysValid /\ ChipsAccounted /\ EveryoneFunded /\ NextHandStarts

=============================================================================
