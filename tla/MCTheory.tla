------------------------------ MODULE MCTheory ------------------------------
(***************************************************************************)
(* What the coach computes: the theory of a river and the traversal of its *)
(* solver, the value of seven cards, the trace of a range through a hand,  *)
(* and the beliefs about the seats of a table.  Each is a part of its own: *)
(* a behaviour is one of a single part, and the other parts stay in an     *)
(* initial state.                                                          *)
(***************************************************************************)
EXTENDS RiverTheory, FiniteSetsExt, Functions, TLC

CONSTANTS k1, k2, NoSeat

VARIABLES part,
    world, regrets, sums, before,            \* a traversal
    cards, value,                            \* seven cards
    facts, table, seed,                      \* a hand, traced or believed about
    history, prior, known,                   \* its trace
    stream, cache, hands, asks               \* beliefs about its seats

\* Strategies in sixths: no regret, thirds, and one action only.
Cfr == INSTANCE RiverCfr WITH
    Unit <- 6, Combos <- {k1, k2}, Regrets <- {<<-1, -2>>, <<2, 1>>, <<3, -1>>},
    Pot <- 3, Bet <- 2, Chances <- {1}

\* Fourteen cards whose sevens hold every category from two pair upwards, two sets
\* of three among them: a suit of six ranks, four of them in a second suit, and the
\* other deuces and treys.
Values == INSTANCE HandValues WITH
    Deck <- ({2, 3, 4, 5, 6, 14} \X {"s"}) \cup ({2, 3, 4, 14} \X {"h"})
              \cup ({2, 3} \X {"d", "c"})

\* Ranges of combos of eight cards.  Solver results are on file for the big
\* blind's first action on the flop and for the button's answer.
Wide == [c \in kSubset(2, 1 .. 5) |-> 1 + (Min(c) % 2)]
Narrow == ({1, 2} :> 3) @@ ({4, 5} :> 1)
Label(action, size) == [action |-> action, size |-> size]
Leads == <<Label("check", 0), Label("bet", 8), Label("bet", 20)>>
Lead(x, y, z) == (Leads[1] :> x) @@ (Leads[2] :> y) @@ (Leads[3] :> z)
Replies == <<Label("call", 0), Label("fold", 0)>>
Reply(x, y) == (Replies[1] :> x) @@ (Replies[2] :> y)
OnFile ==
    {[seat |-> 1, sequence |-> 4, actions |-> Leads,
      frequency |-> ({2, 3} :> Lead(2, 2, 0)) @@ ({3, 4} :> Lead(3, 0, 1))
                      @@ ({4, 5} :> Lead(0, 1, 3))],
     [seat |-> 0, sequence |-> 5, actions |-> Replies,
      frequency |-> ({2, 3} :> Reply(4, 0)) @@ ({2, 4} :> Reply(1, 3))]}
Trace == INSTANCE RangeTrace WITH
    NSeats <- 2, SmallBlind <- 2, BigBlind <- 4, Seeds <- {1}, Strength <- <<(0 :> 0) @@ (1 :> 1)>>,
    StackSizes <- {400}, Buttons <- {0}, Amounts <- {0, 1, 2, 4, 6, 8, 10, 12, 16, 20},
    Cards <- 1 .. 8, Runout <- <<{1}, {7}, {8}>>, Priors <- {Wide, Narrow}, KnownHands <- {{}, {5, 6}},
    OpenRange <- {{1, 2}, {1, 3}, {2, 3}, {2, 4}, {3, 4}}, ReraiseRange <- {{1, 2}, {1, 3}},
    DefendRange <- {{2, 3}, {3, 4}, {4, 5}}, FourBetRange <- {{1, 2}},
    VsReraiseRange <- {{2, 3}, {2, 4}},
    HuOpen <- 8, HuThreeBet <- 12, HuFourBet <- 16, HundredBlinds <- 100,
    Artifacts <- OnFile, MaxEvents <- 6

\* A table of three (the full ring of the instance), five big blinds deep, with
\* six cards and two seeds that deal other flops.
Standing == [d \in {1, 2} |-> [s \in 0 .. 2 |-> s]]
Charted == {<<"rfi", 0>>, <<"rfi", 1>>, <<"vs_single_rfi", 1>>, <<"vs_single_rfi", 2>>}
Dealing == [d \in {1, 2} |-> <<{d, 2 + d}, {5}, {6}>>]
Beliefs == INSTANCE SeatBeliefs WITH
    NSeats <- 3, SmallBlind <- 1, BigBlind <- 2, Seeds <- {1, 2}, Strength <- Standing,
    StackSizes <- {10, 14}, Buttons <- {0}, Amounts <- {0, 1, 2, 3, 4, 5, 8},
    FullRing <- 3, DeepBlinds <- 5, OpenTo <- 5, ReraiseTo <- 8, Nodes <- Charted,
    Cards <- 1 .. 6, BoardOf <- Dealing, Observers <- {{}, {5, 6}}, BeliefCacheMax <- 1,
    MaxEvents <- 8, MaxHands <- 1, MaxAsks <- 0
\* and two hands of it that share the cache
Asked == INSTANCE SeatBeliefs WITH
    NSeats <- 3, SmallBlind <- 1, BigBlind <- 2, Seeds <- {1, 2}, Strength <- Standing,
    StackSizes <- {10}, Buttons <- {0}, Amounts <- {0, 1, 2},
    FullRing <- 3, DeepBlinds <- 5, OpenTo <- 5, ReraiseTo <- 8, Nodes <- Charted,
    Cards <- 1 .. 6, BoardOf <- Dealing, Observers <- {{}, {5, 6}}, BeliefCacheMax <- 1,
    MaxEvents <- 6, MaxHands <- 2, MaxAsks <- 2

ASSUME TheoryAssumption ==
    /\ Cfr!CfrAssumption /\ Values!DeckAssumption
    /\ Trace!RangeTraceAssumption /\ Beliefs!SeatBeliefsAssumption /\ Asked!SeatBeliefsAssumption

cfrVars == <<world, regrets, sums, before>>
valueVars == <<cards, value>>
handVars == <<facts, table, seed>>
traceVars == <<history, prior, known>>
beliefVars == <<stream, cache, hands, asks>>
vars == <<part, riverVars, cfrVars, valueVars, handVars, traceVars, beliefVars>>

OneRiver == RiverInit /\ spot = CHOOSE s \in Spots : TRUE
NoTraversal == world = 0 /\ regrets = 0 /\ sums = 0 /\ before = <<>>
NoCards == cards = {} /\ value = <<>>
NoHand == facts = 0 /\ table = 0 /\ seed = 0
NoTrace == history = <<>> /\ prior = 0 /\ known = {}
NoBeliefs == stream = <<>> /\ cache = <<>> /\ hands = 0 /\ asks = 0

Init ==
    /\ part \in {"river", "traversal", "values", "trace", "beliefs", "cache"}
    /\ IF part = "river" THEN RiverInit ELSE OneRiver
    /\ IF part = "traversal" THEN Cfr!Init ELSE NoTraversal
    /\ IF part = "values" THEN Values!Init ELSE NoCards
    /\ CASE part = "trace" -> Trace!TraceInit /\ NoBeliefs
         [] part = "beliefs" -> Beliefs!BeliefInit /\ NoTrace
         [] part = "cache" -> Asked!BeliefInit /\ NoTrace
         [] OTHER -> NoHand /\ NoTrace /\ NoBeliefs

Next ==
    /\ \/ /\ part = "river" /\ RiverNext
          /\ UNCHANGED <<cfrVars, valueVars, handVars, traceVars, beliefVars>>
       \/ /\ part = "traversal" /\ Cfr!Next
          /\ UNCHANGED <<riverVars, valueVars, handVars, traceVars, beliefVars>>
       \/ /\ part = "values" /\ Values!Next
          /\ UNCHANGED <<riverVars, cfrVars, handVars, traceVars, beliefVars>>
       \/ /\ part = "trace" /\ Trace!TraceNext
          /\ UNCHANGED <<riverVars, cfrVars, valueVars, beliefVars>>
       \/ /\ \/ part = "beliefs" /\ Beliefs!BeliefNext
             \/ part = "cache" /\ Asked!BeliefNext
          /\ UNCHANGED <<riverVars, cfrVars, valueVars, traceVars>>
    /\ UNCHANGED part

Spec == Init /\ [][Next]_vars

Symmetry == Permutations({k1, k2})
-----------------------------------------------------------------------------
\* TheorySound is RiverTheory's own, in every part.

\* RiverCfr, HandValues: the solver computes counterfactual regret, and the best
\* of twenty-one hands is what its seven cards are worth.
SolverSound ==
    /\ part = "traversal" => Cfr!CfrSound
    /\ part = "values" => Values!BestIsTheWorth

\* RangeTrace: a range is its prior, weighed by the actions up to its moment.
TraceSound == part = "trace" => Trace!TraceSound

\* SeatBeliefs: beliefs are of this table, by this evidence, and of this hand.
BeliefsSound ==
    /\ part = "beliefs" => Beliefs!BeliefsSound
    /\ part = "cache" => Asked!AnswersAreFresh
=============================================================================
