------------------------------ MODULE MCHands -------------------------------
(***************************************************************************)
(* Hands under any legal intents: one hand with unequal stacks for every   *)
(* showdown order, and the statistics of such hands; and the session that  *)
(* deals them, under any settlements.  One of the four seats sits out.  A  *)
(* behaviour is one of a single part, and the other parts stay in an       *)
(* initial state.                                                          *)
(***************************************************************************)
EXTENDS HandStats, GameSession

VARIABLE part

Playing == Seats \ SittingOut

\* A seed IS an order of the seats: every showdown order of the hand.
MCSeeds == {o \in [Seats -> 0 .. NSeats - 1] :
               /\ \A s \in Seats : o[s] = 0 <=> s \in SittingOut
               /\ \A s, t \in Playing : s # t => o[s] # o[t]}
MCStrength == [o \in MCSeeds |-> o]

\* Who wins does not change the counts: one order.
OneOrder == CHOOSE o \in MCSeeds : TRUE
\* Stacks of three raises before the flop (to 4, 6 and 8): the opener raises
\* again, or a third seat does.
Stats == INSTANCE HandStats WITH Seeds <- {OneOrder}, StackSizes <- {2, 8}

vars == <<part, statsVars, session>>

\* The seats that sit out are not dealt in, and their chips stay as they are.
AtTheTable == facts.active \subseteq Playing /\ \A s \in SittingOut : facts.stacks[s] = BigBlind
OneHandDealt == facts.active = Playing /\ \A s \in Seats : facts.stacks[s] = BigBlind
\* bound: the session has dealt its last hand
Enough == session.handSequence = LastHand /\ session.active = NoHand /\ UNCHANGED session

SuiteInit ==
    \/ part = "hand" /\ StatsInit /\ AtTheTable /\ session = Created(0)
    \/ part = "statistics" /\ Stats!StatsInit /\ AtTheTable /\ session = Created(0)
    \/ part = "session" /\ StatsInit /\ OneHandDealt /\ seed = OneOrder /\ SessionInit

SuiteNext ==
    /\ \/ part = "hand" /\ PlayNext /\ UNCHANGED <<taken, session>>
       \/ part = "statistics" /\ Stats!StatsNext /\ UNCHANGED session
       \/ part = "session" /\ (SessionNext \/ Enough) /\ UNCHANGED statsVars
    /\ UNCHANGED part

\* FairPlay of HandPlay
SuiteSpec ==
    /\ SuiteInit /\ [][SuiteNext]_vars
    /\ WF_handVars(part = "hand" /\ Deal)
    /\ WF_handVars(part = "hand" /\ \E i \in Intents : Act(i))

ASSUME HandsSuiteAssumption == GameSessionAssumption
-----------------------------------------------------------------------------
\* HandSound is HandPlay's own, StatsSound HandStats' and SessionSound
\* GameSession's, in every part (a part without actions has nothing to count).

\* HandPlay: every hand ends.
EveryHandEnds == part = "hand" => HandEnds
=============================================================================
