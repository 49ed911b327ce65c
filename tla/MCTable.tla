------------------------------ MODULE MCTable -------------------------------
(***************************************************************************)
(* The continuous table: the service with one worker, with one that dies   *)
(* and with two; its read-only endpoints; and the runtime that decides for *)
(* its bots.  Each is a part of its own: a behaviour is one of a single    *)
(* part, and the other parts stay in an initial state.                     *)
(***************************************************************************)
EXTENDS ContinuousTable, TableReads, BotRuntime, TLC

CONSTANTS w1, w2, c1, c2, c3

VARIABLE part

\* two hands, nothing fails
Alone == INSTANCE ContinuousTable WITH Workers <- {w1}, MaxCrashes <- 0
\* the worker dies, or one of its transactions fails, twice
Crashes == INSTANCE ContinuousTable WITH Workers <- {w1}, MaxBatches <- 3, MaxRequests <- 3
\* two workers on the same file
TwoWorkers == INSTANCE ContinuousTable WITH MaxBatches <- 3, MaxRequests <- 3, MaxCrashes <- 0

\* every provider against every shape of the legal actions
Rfi == [size |-> 6, preflop |-> TRUE, deep |-> TRUE, raises |-> <<>>, calls |-> 0, position |-> "BTN"]
MCHoles == {<<14, 14>>, <<13, 12>>, <<12, 5>>, <<3, 2>>}
MCBoards == {<<>>, <<12, 7, 2>>, <<3, 3, 9, 10>>}
MCSpots == {Rfi,
            [Rfi EXCEPT !.position = "BB"],
            [Rfi EXCEPT !.position = "UTG"],
            [Rfi EXCEPT !.raises = <<5>>],
            [Rfi EXCEPT !.raises = <<5>>, !.position = "BB"],
            [Rfi EXCEPT !.raises = <<5>>, !.position = "UTG"],
            [Rfi EXCEPT !.raises = <<6>>],
            [Rfi EXCEPT !.raises = <<5, 18>>],
            [Rfi EXCEPT !.raises = <<5>>, !.calls = 1],
            [Rfi EXCEPT !.calls = 1],
            [Rfi EXCEPT !.deep = FALSE],
            [Rfi EXCEPT !.preflop = FALSE],
            [Rfi EXCEPT !.size = 5]}

ASSUME TableSuiteAssumption ==
    /\ TableAssumption /\ Alone!TableAssumption /\ Crashes!TableAssumption /\ TwoWorkers!TableAssumption
    /\ ReadsAssumption
    /\ RuntimeAssumption

suiteVars == <<part, vars, readVars, botVars>>

\* the decision a bot is asked for in the parts that ask for none
NoDecisionAsked == provider = "fixed" /\ menu = Menu("check", 0, {}, [min |-> 2, max |-> 2])

SuiteInit ==
    /\ part \in {"one worker", "crashes", "two workers", "reads", "bots"}
    /\ Init
    /\ ReadsInit
    /\ IF part = "bots" THEN TRUE ELSE NoDecisionAsked
    /\ BotInit

SuiteNext ==
    /\ \/ /\ UNCHANGED <<readVars, botVars>>
          /\ \/ part = "one worker" /\ Alone!Next
             \/ part = "crashes" /\ Crashes!Next
             \/ part = "two workers" /\ TwoWorkers!Next
       \/ part = "reads" /\ ReadsNext /\ UNCHANGED <<vars, botVars>>
       \/ part = "bots" /\ BotNext /\ UNCHANGED <<vars, readVars>>
    /\ UNCHANGED part

SuiteSpec == SuiteInit /\ [][SuiteNext]_suiteVars

Symmetry == Permutations({w1, w2}) \cup Permutations({c1, c2, c3})
-----------------------------------------------------------------------------
\* RequestsHold, TableServes and RevisionGrows are ContinuousTable's own, in every
\* part, ReadsAgree is TableReads' and BotsSound is BotRuntime's.
=============================================================================
