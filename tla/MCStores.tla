------------------------------ MODULE MCStores ------------------------------
(***************************************************************************)
(* What the API keeps on file and lets through: scenarios and their        *)
(* revisions, the learners' ledger, the gate before an analysis, and the   *)
(* validation of a scenario.  Each is a part of its own: a behaviour is    *)
(* one of a single part, and the other parts stay in their initial states. *)
(* The values a part has two of are interchangeable.                       *)
(***************************************************************************)
EXTENDS ScenarioSpec, ScenarioStore, PracticeLedger, ApiGate, TLC

CONSTANTS p1, p2, s1, s2, k1, k2, t1, t2

VARIABLE part

\* two API processes on one scenario
OneScenario == Next /\ Cardinality(used') <= 1
\* and on a scenario and its copy, of one content and title.  (Exchanging k1 and
\* k2, or t1 and t2, makes no two reachable states of this part equal, so that
\* the symmetry is sound here too.)
Copies == INSTANCE ScenarioStore WITH
    Contents <- {k1}, Titles <- {t1}, MaxRevision <- 1

\* one profile that is deleted and created again, on either database, and whose
\* questions train all concepts
PostgreSQL == INSTANCE PracticeLedger WITH Postgres <- TRUE
OneLearner == \A p \in Servers : serving'[p] # NoCall =>
    /\ serving'[p].profile = "anna"
    /\ "text" \in DOMAIN serving'[p] => serving'[p].text.concepts = Concepts
\* one request at a time, of two learners
OneAtATime == Cardinality({p \in Servers : serving'[p] # NoCall}) <= 1

\* a minute of three ticks within ten, and two requests a minute, one at a time
OneRequest ==
    /\ \A r \in Requests : request'[r] \in {NoRequest, [route |-> "equity", villains |-> "headsUp"]}
    /\ Cardinality({r \in Requests : request'[r] # NoRequest}) <= 1
\* two requests in flight, with one of two keys or none, and no limit
Idempotency == INSTANCE ApiGate WITH Limit <- 0, MaxTime <- Window

\* hands that share cards with each other, with the board and with the ranges,
\* and one that is half written
MCHands == {{1, 2}, {2, 3}, {3}}
MCBoards == {<<>>, <<{4}>>, <<{4}, {1}>>}
MCRanges == {{{1, 2}}, {{2, 3}, {4, 5}}}

ASSUME StoresAssumption ==
    /\ ScenarioStoreAssumption /\ Copies!ScenarioStoreAssumption
    /\ PracticeAssumption /\ PostgreSQL!PracticeAssumption
    /\ GateAssumption /\ Idempotency!GateAssumption

suiteVars == <<part, specVars, vars, practiceVars, gateVars>>

SuiteInit ==
    /\ part \in {"scenarios", "copies", "sqlite", "postgres", "one process",
                "limit", "keys", "spec"}
    /\ Init /\ DocumentInit /\ PracticeInit /\ GateInit

SuiteNext ==
    /\ \/ part = "spec" /\ DocumentNext /\ UNCHANGED <<vars, practiceVars, gateVars>>
       \/ /\ UNCHANGED <<specVars, practiceVars, gateVars>>
          /\ \/ part = "scenarios" /\ OneScenario
             \/ part = "copies" /\ Copies!Next
       \/ /\ UNCHANGED <<specVars, vars, gateVars>>
          /\ \/ part = "sqlite" /\ PracticeNext /\ OneLearner
             \/ part = "postgres" /\ PostgreSQL!PracticeNext /\ OneLearner
             \/ part = "one process" /\ PracticeNext /\ OneAtATime
       \/ /\ UNCHANGED <<specVars, vars, practiceVars>>
          /\ \/ part = "limit" /\ GateNext /\ OneRequest
             \/ part = "keys" /\ Idempotency!GateNext
    /\ UNCHANGED part

SuiteSpec == SuiteInit /\ [][SuiteNext]_suiteVars

Symmetry == Permutations({p1, p2}) \cup Permutations({s1, s2})
              \cup Permutations({k1, k2}) \cup Permutations({t1, t2})

\* The properties are ScenarioStore's, ScenarioSpec's, PracticeLedger's and
\* ApiGate's.
=============================================================================
