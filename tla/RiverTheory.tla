---------------------------- MODULE RiverTheory ----------------------------
(***************************************************************************)
(* The theory recommendation of a continuous table on a heads-up river:    *)
(* the table plays, clients ask about decisions they saw, and an answer    *)
(* comes from the bounded river solver (grade B) or is formula math        *)
(* without a policy (grade C).  A request runs in one piece on the event   *)
(* loop of its process; the solver's results live in an LRU cache of that   *)
(* process.                                                                *)
(*                                                                         *)
(* A decision's fingerprint hashes the whole projection, so it is the pair *)
(* of its hand and its sequence here; the ranges the beliefs give for it   *)
(* are a function of it, and a policy is the decision and the number of    *)
(* iterations it was computed from.                                        *)
(***************************************************************************)
EXTENDS Integers, Sequences, FiniteSets, SequencesExt

CONSTANTS BigBlind,   \* the smallest bet
          RiverStacks, \* stacks a seat may bring to the river
          Iterations, \* L2Budget.iterations (8)
          MaxEntries, \* L2Cache.max_entries (16 for a table)
          MaxHands    \* bound: hands of the table

ASSUME RiverAssumption ==
    /\ BigBlind \in Nat \ {0} /\ RiverStacks \subseteq Nat \ {0}
    /\ Iterations \in Nat \ {0} /\ MaxEntries \in Nat \ {0} /\ MaxHands \in Nat \ {0}

VARIABLES
    hand,   \* the number of the hand at the table
    spot,   \* its river: who opens it, the stacks, whether beliefs can be formed
    log,    \* the actions on this river
    solved, \* L2Cache: results, the least recently used first
    answer  \* the answer given last

riverVars == <<hand, spot, log, solved, answer>>

(***************************************************************************)
(* A river of two seats.                                                   *)
(***************************************************************************)
Players == {"hero", "villain"}
Other(p) == CHOOSE q \in Players : q # p
Spots == [first : Players, stack : [Players -> RiverStacks], beliefs : BOOLEAN]
\* the actor of the n-th action
ActorAt(s, n) == IF n % 2 = 1 THEN s.first ELSE Other(s.first)
Ended(h) == \/ h # <<>> /\ h[Len(h)] \in {"fold", "call"}
            \/ Len(h) = 2 /\ h[2] = "check"
\* what the rules allow when bets are the smallest (bound) and a raise is all
\* in: a bet may be raised if it leaves both seats chips
LegalNames(s, h) == CASE Ended(h) -> {}
                      [] ~Ended(h) /\ h # <<>> /\ h[Len(h)] \in {"bet", "raise"} ->
                            {"fold", "call"} \cup IF h[Len(h)] = "bet" /\ \A p \in Players : s.stack[p] > BigBlind
                                                  THEN {"raise"} ELSE {}
                      [] OTHER -> {"check", "bet"}
SmallestOf(m, n) == IF m < n THEN m ELSE n
\* min_amount and max_amount of the bet of p
BetBounds(s, p) == [min |-> SmallestOf(BigBlind, s.stack[p]), max |-> s.stack[p]]
Turn(s, h) == IF Ended(h) THEN "over" ELSE ActorAt(s, Len(h) + 1)

Decision == <<hand, Len(log)>>

(***************************************************************************)
(* The solver: one tree, whatever the spot.                                *)
(***************************************************************************)
\* _ACTIONS: the actor of "" and "cb" is the root player
TreeActions == [h \in {<<>>, <<"check">>, <<"bet">>, <<"check", "bet">>} |->
                  IF h = <<>> \/ h = <<"check">> THEN {"check", "bet"} ELSE {"fold", "call"}]

\* _live_hu_river_l2: a jam of the hero that the opponent covers
Gate(s, h) ==
    LET b == BetBounds(s, "hero") IN
    /\ LegalNames(s, h) = {"check", "bet"}
    /\ b.min = b.max /\ b.min = s.stack["hero"] /\ b.min <= s.stack["villain"]
    /\ s.beliefs

\* a result: the decision it was solved for and the iterations completed
Result(d, n) == [of |-> d, done |-> n]
Coverage(r) == IF r.done = Iterations THEN "covered" ELSE "fallback"
HasPolicy(r) == r.done > 0

Keys == {solved[i].of : i \in 1 .. Len(solved)}
Entry(d) == solved[CHOOSE i \in 1 .. Len(solved) : solved[i].of = d]
\* a decision has one result at most (CacheIsComplete)
OthersThan(c, d) == IF \E i \in DOMAIN c : c[i].of = d
                    THEN RemoveAt(c, CHOOSE i \in DOMAIN c : c[i].of = d)
                    ELSE c
\* L2Cache.get of a key that is there
Touched(d) == Append(OthersThan(solved, d), Entry(d))
\* L2Cache.put
Put(r) == LET grown == Append(OthersThan(solved, r.of), r)
          IN  IF Len(grown) > MaxEntries THEN Tail(grown) ELSE grown

\* mutant: keeps what a timeout left
Kept_Degraded(r) == r.done > 0
\* solve_hu_river stores results of a full run only
Kept(r) == r.done = Iterations

(***************************************************************************)
(* Answers.                                                                *)
(***************************************************************************)
Answer(d, grade, status, policy) ==
    [about |-> d, grade |-> grade, status |-> status, policy |-> policy,
     spot |-> spot, log |-> log]
NoPolicy == Result(<<0, 0>>, 0)
Formula(d) == Answer(d, "C", "ready", NoPolicy)
Unavailable(d) == Answer(d, "unsupported", "not_ready", NoPolicy)
\* TheoryExplainer.recommend of a result on the river
Explained(d, r) ==
    IF HasPolicy(r)
    THEN Answer(d, "B", IF Coverage(r) = "covered" THEN "ready" ELSE "degraded", r)
    ELSE Formula(d)

\* the stale-hand and stale-fingerprint gate of theory_recommendation
Fresh(d) == d = Decision

Refuse(d) == /\ ~Fresh(d)
             /\ UNCHANGED riverVars

NotHeroDecision(d) == /\ Fresh(d) /\ Turn(spot, log) # "hero"
                      /\ answer' = Unavailable(d)
                      /\ UNCHANGED <<hand, spot, log, solved>>

ByFormula(d) == /\ Fresh(d) /\ Turn(spot, log) = "hero"
                /\ ~Gate(spot, log)
                /\ answer' = Formula(d)
                /\ UNCHANGED <<hand, spot, log, solved>>

Hit(d) == /\ Fresh(d) /\ Turn(spot, log) = "hero"
          /\ Gate(spot, log) /\ Decision \in Keys
          /\ solved' = Touched(Decision)
          /\ answer' = Explained(d, Entry(Decision))
          /\ UNCHANGED <<hand, spot, log>>

\* n iterations before a timeout, or all of them
Solve(d, n) == /\ Fresh(d) /\ Turn(spot, log) = "hero"
               /\ Gate(spot, log) /\ Decision \notin Keys
               /\ LET r == Result(Decision, n) IN
                  /\ solved' = IF Kept(r) THEN Put(r) ELSE solved
                  /\ answer' = Explained(d, r)
               /\ UNCHANGED <<hand, spot, log>>

(***************************************************************************)
(* The table.                                                              *)
(***************************************************************************)
Act(a) == /\ a \in LegalNames(spot, log)
          /\ log' = Append(log, a)
          /\ UNCHANGED <<hand, spot, solved, answer>>

NextHand == /\ Ended(log) /\ hand < MaxHands
            /\ hand' = hand + 1
            /\ spot' \in Spots
            /\ log' = <<>>
            /\ UNCHANGED <<solved, answer>>

\* the process restarts: the cache was its own
Restart == /\ solved' = <<>>
           /\ UNCHANGED <<hand, spot, log, answer>>

RiverInit == /\ hand = 1 /\ spot \in Spots /\ log = <<>>
        /\ solved = <<>>
        /\ answer = Answer(<<0, 0>>, "unsupported", "not_ready", NoPolicy)

Ask(d) == \/ Refuse(d) \/ NotHeroDecision(d) \/ ByFormula(d) \/ Hit(d)
          \/ \E n \in 0 .. Iterations : Solve(d, n)

\* clients ask about any decision the table has had
Askable == {<<h, n>> : h \in 1 .. hand, n \in 0 .. 3}

RiverNext == \/ \E d \in Askable : Ask(d)
             \/ NextHand
             \/ Restart
             \/ \E a \in {"check", "bet", "fold", "call", "raise"} : Act(a)

RiverSpec == RiverInit /\ [][RiverNext]_riverVars

(***************************************************************************)
(* Properties.                                                             *)
(***************************************************************************)
\* Every variable keeps its type, and the cache its limit.
RiverOK == /\ hand \in 1 .. MaxHands /\ spot \in Spots
           /\ log \in Seq({"check", "bet", "fold", "call", "raise"})
           /\ \A i \in 1 .. Len(solved) : solved[i].done \in 1 .. Iterations
           /\ Len(solved) <= MaxEntries
           /\ answer.grade \in {"B", "C", "unsupported"}

\* What the cache holds was solved to the end, and once per decision: a run
\* that a timeout cut short never answers a later request.
CacheIsComplete == /\ \A i \in 1 .. Len(solved) : solved[i].done = Iterations
                   /\ \A i, j \in 1 .. Len(solved) : solved[i].of = solved[j].of => i = j

\* A policy is given only for the decision asked about, which was the hero's
\* and the table's latest when it was answered; "ready" means all iterations
\* ran, and only grade B carries a policy.
PolicyIsOfTheDecision ==
    /\ answer.about[2] = Len(answer.log) \/ answer.about = <<0, 0>>
    /\ answer.grade = "B" => /\ answer.policy.of = answer.about
                             /\ Turn(answer.spot, answer.log) = "hero"
                             /\ answer.status = "ready" <=> answer.policy.done = Iterations
    /\ answer.grade # "B" => answer.policy = NoPolicy

\* The bet of a policy is the hero's whole stack and can be called in full:
\* no side pot, no raise and no other size is left out of the solved tree.
BetIsACoveredJam ==
    answer.grade = "B" =>
        LET s == answer.spot IN
        /\ BetBounds(s, "hero") = [min |-> s.stack["hero"], max |-> s.stack["hero"]]
        /\ s.stack["hero"] <= s.stack["villain"]
        /\ \A h \in {<<"bet">>, <<"check", "bet">>} : LegalNames(s, h) \subseteq TreeActions[h]

\* The tree the solver walks from the hero's decision is the rest of the hand:
\* after each of its histories the rules allow just the actions it considers,
\* and where it ends, the hand ends.
TreeIsTheDecision ==
    answer.grade = "B" =>
        \A h \in DOMAIN TreeActions :
            LegalNames(answer.spot, answer.log \o h) = TreeActions[h]

\* What the table's theory answers is complete, of the decision asked about, and
\* of a tree that leaves no size out.
TheorySound == RiverOK /\ CacheIsComplete /\ PolicyIsOfTheDecision /\ BetIsACoveredJam
=============================================================================
