------------------------------ MODULE RiverCfr ------------------------------
(***************************************************************************)
(* The arithmetic of solve_hu_river: one traversal of the tree for one     *)
(* world (a combo of each player that do not collide), from any regrets    *)
(* earlier traversals may have left.  Probabilities are in units of        *)
(* 1 / Unit, so a value at depth d is an integer in units of               *)
(* Unit^(d - Depth).                                                       *)
(***************************************************************************)
EXTENDS Integers, Sequences, FiniteSets, FiniteSetsExt

CONSTANTS Unit,     \* probabilities are multiples of 1 / Unit
          Combos,   \* combos of the second player (the first has one, as live)
          Regrets,  \* pairs of regrets an infoset may hold, of action 1 and 2
          Pot, Bet, \* chips in the pot and of the tree's only bet
          Chances   \* weights a world may have

\* What an instance assumes of its constants.
CfrAssumption ==
    /\ Unit \in Nat \ {0} /\ Pot \in Nat /\ Bet \in Nat \ {0} /\ Chances \subseteq Nat \ {0}
    /\ \A r \in Regrets : r \in Int \X Int

Depth == 3
Hero == "hero"
\* _ACTIONS, by history
Actions(h) == IF h = <<>> \/ h = <<"check">> THEN <<"check", "bet">> ELSE <<"fold", "call">>
Inner == {<<>>, <<"check">>, <<"bet">>, <<"check", "bet">>}
Child(h, i) == Append(h, Actions(h)[i])
Leaves == {Child(h, i) : h \in Inner, i \in 1 .. 2} \ Inner
Histories == Inner \cup Leaves
Actor(h) == IF h = <<>> \/ h = <<"check", "bet">> THEN 0 ELSE 1

VARIABLES
    world,    \* the second player's combo, the world's weight, who wins it
    regrets,  \* regrets[<<combo, history>>]: of the two actions
    sums,     \* strategy_sums, likewise
    before    \* the regrets the traversal started from

vars == <<world, regrets, sums, before>>

Worlds == [combo : Combos, chance : Chances, wins : {-1, 0, 1}]
Key(w, h) == <<IF Actor(h) = 0 THEN Hero ELSE w.combo, h>>
Keys == {<<IF Actor(h) = 0 THEN Hero ELSE c, h>> : c \in Combos, h \in Inner}

Positive(x) == IF x > 0 THEN x ELSE 0
\* regret matching: positive regrets, normalised; uniform when there are none
Strategy(r) == LET total == Positive(r[1]) + Positive(r[2])
               IN  [i \in 1 .. 2 |-> IF total = 0 THEN Unit \div 2 ELSE (Positive(r[i]) * Unit) \div total]

\* _terminal_utility and _showdown_utility
TerminalUtility(w, z) ==
    CASE z = <<"check", "check">> -> w.wins * Pot
      [] z \in {<<"bet", "call">>, <<"check", "bet", "call">>} -> w.wins * (Pot + 2 * Bet)
      [] z = <<"bet", "fold">> -> Pot
      [] z = <<"check", "bet", "fold">> -> -Pot

\* node_value of every history, for the regrets rs
Values(w, rs) ==
    LET v[h \in Histories] ==
            IF h \in Leaves THEN TerminalUtility(w, h) * Unit ^ (Depth - Len(h))
            ELSE LET s == Strategy(rs[Key(w, h)]) IN s[1] * v[Child(h, 1)] + s[2] * v[Child(h, 2)]
    IN  v

\* the product of the probabilities with which player p plays its part of h
Reach(w, rs, p, h) ==
    LET r[k \in 0 .. Len(h)] ==
            IF k = 0 THEN 1
            ELSE LET g == SubSeq(h, 1, k - 1)
                     i == CHOOSE n \in 1 .. 2 : Actions(g)[n] = h[k]
                 IN  r[k - 1] * (IF Actor(g) = p THEN Strategy(rs[Key(w, g)])[i] ELSE 1)
    IN  r[Len(h)]

Sign(p) == IF p = 0 THEN 1 ELSE -1
\* what _cfr adds to the regret of action i at h
RegretOf(w, rs, h, i) ==
    LET v == Values(w, rs)
    IN  w.chance * Reach(w, rs, 1 - Actor(h), h) * Sign(Actor(h)) * (Unit * v[Child(h, i)] - v[h])
\* what it adds to the average strategy
SumOf(w, rs, h, i) == w.chance * Reach(w, rs, Actor(h), h) * Strategy(rs[Key(w, h)])[i]

Visited(w) == {Key(w, h) : h \in Inner}

Traverse ==
    /\ before = <<>>
    /\ before' = regrets
    /\ regrets' = [k \in Keys |-> IF k \in Visited(world)
                                  THEN [i \in 1 .. 2 |-> regrets[k][i] + RegretOf(world, regrets, k[2], i)]
                                  ELSE regrets[k]]
    /\ sums' = [k \in Keys |-> IF k \in Visited(world)
                               THEN [i \in 1 .. 2 |-> sums[k][i] + SumOf(world, regrets, k[2], i)]
                               ELSE sums[k]]
    /\ UNCHANGED world

Init == /\ world \in Worlds
        /\ regrets \in [Keys -> Regrets]
        /\ sums = [k \in Keys |-> <<0, 0>>]
        /\ before = <<>>

Next == Traverse

Spec == Init /\ [][Next]_vars

(***************************************************************************)
(* Properties.                                                             *)
(***************************************************************************)
\* Every variable keeps its type.
TypeOK == /\ world \in Worlds
          /\ \A k \in Keys, i \in 1 .. 2 : regrets[k][i] \in Int /\ sums[k][i] \in Nat

\* chips a player put in on the river along a line, and who folded
Staked(z, p) == Bet * Cardinality({k \in 1 .. Len(z) : /\ z[k] \in {"bet", "call"}
                                                       /\ Actor(SubSeq(z, 1, k - 1)) = p})
Folder(z) == IF z[Len(z)] = "fold" THEN Actor(SubSeq(z, 1, Len(z) - 1)) ELSE -1
\* twice what p gains: its share of the pot and of both stakes, less its stake
Net(w, z, p) ==
    LET shares == CASE Folder(z) = p -> 0
                    [] Folder(z) = 1 - p -> 2
                    [] OTHER -> 1 + Sign(p) * w.wins
    IN  shares * (Pot + Staked(z, 0) + Staked(z, 1)) - 2 * Staked(z, p)

\* The utility of a leaf is what the root player gains over what the other
\* gains when the chips of that line are paid out.
UtilityIsNetGain ==
    \A z \in Leaves : 2 * TerminalUtility(world, z) = Net(world, z, 0) - Net(world, z, 1)

\* The reference plays every combination of choices out, one per history.
Plans == [Inner -> 1 .. 2]
Path(h) == {SubSeq(h, 1, k) : k \in 0 .. Len(h) - 1}
Outcome(c) == CHOOSE z \in Leaves : \A g \in Path(z) : z[Len(g) + 1] = Actions(g)[c[g]]
\* the probability of the choices c makes at the histories gs
Prob(w, rs, c, gs) == LET p(g) == IF g \in gs THEN Strategy(rs[Key(w, g)])[c[g]] ELSE 1
                      IN  p(<<>>) * p(<<"check">>) * p(<<"bet">>) * p(<<"check", "bet">>)
\* what the actor's side gets from action i at h, were it to play towards h
Counterfactual(w, rs, h, i) ==
    LET own == {g \in Path(h) : Actor(g) = Actor(h)}
        through == {c \in Plans : h \in Path(Outcome(c)) /\ c[h] = i}
    IN  Sign(Actor(h)) * w.chance
          * MapThenSumSet(LAMBDA c : Prob(w, rs, c, Inner \ (own \cup {h})) * TerminalUtility(w, Outcome(c)), through)

\* A traversal adds to the regret of an action what playing it instead of the
\* current strategy would have gained, counterfactually: weighed with the
\* chance of the world and the other player's choices only.
RegretIsCounterfactual ==
    before # <<>> =>
        \A k \in Visited(world), i \in 1 .. 2 :
            LET gain(j) == Counterfactual(world, before, k[2], j)
                s == Strategy(before[k])
            IN  Unit * (regrets[k][i] - before[k][i])
                  = Unit * gain(i) - (s[1] * gain(1) + s[2] * gain(2))

\* The average strategy is a flow: what a player's histories receive is what
\* its own choices on the way to them let through, and other combos' averages
\* do not move.
AveragesFlow ==
    before # <<>> =>
        /\ \A k \in Visited(world) :
              sums[k][1] + sums[k][2]
                = IF k[2] = <<"check", "bet">> THEN Unit * sums[Key(world, <<>>)][1]
                                               ELSE Unit * world.chance
        /\ \A k \in Keys \ Visited(world) : sums[k] = <<0, 0>> /\ regrets[k] = before[k]

\* One traversal moves regrets and averages as counterfactual regret does.
CfrSound == TypeOK /\ UtilityIsNetGain /\ RegretIsCounterfactual /\ AveragesFlow
=============================================================================
