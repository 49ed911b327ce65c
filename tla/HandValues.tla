----------------------------- MODULE HandValues -----------------------------
(***************************************************************************)
(* The river solver's own hand evaluator (_best_hand, _five_card_value):   *)
(* the value of seven cards is the largest of its five-card hands, values  *)
(* being compared like Python tuples.                                      *)
(***************************************************************************)
EXTENDS Integers, Sequences, FiniteSets, FiniteSetsExt

CONSTANT Deck  \* cards <<rank, suit>>; an ace has rank 14

Ace == 14
\* What an instance assumes of its constants.
DeckAssumption == \A c \in Deck : c[1] \in 2 .. Ace

VARIABLES cards, value
vars == <<cards, value>>

RankOf(c) == c[1]
Ranks(h) == {RankOf(c) : c \in h}
Count(h, r) == Cardinality({c \in h : RankOf(c) = r})
Highest(S) == CHOOSE x \in S : \A y \in S : y <= x
\* the members of a set of ranks from the highest down
Down(S) == [i \in 1 .. Cardinality(S) |->
              CHOOSE x \in S : Cardinality({y \in S : y > x}) = i - 1]

\* Python's order of tuples
Less(s, t) == \E i \in 1 .. Len(t) :
                 /\ \A j \in 1 .. i - 1 : j <= Len(s) /\ s[j] = t[j]
                 /\ i > Len(s) \/ s[i] < t[i]

Wheel == {Ace, 2, 3, 4, 5}
\* mutant: the ace is never low
StraightHigh_NoWheel(R) == IF Cardinality(R) = 5 /\ \A r \in R : Highest(R) - r <= 4 THEN Highest(R) ELSE 0
\* straight_high; 0 when the ranks are no straight
StraightHigh(R) == CASE R = Wheel -> 5
                     [] R # Wheel /\ Cardinality(R) = 5 /\ \A r \in R : Highest(R) - r <= 4 -> Highest(R)
                     [] OTHER -> 0

\* the ranks of a hand, the more frequent ones first
Grouped(h) == LET before(r, s) == Count(h, r) > Count(h, s) \/ (Count(h, r) = Count(h, s) /\ r > s)
              IN  [i \in 1 .. Cardinality(Ranks(h)) |->
                     CHOOSE r \in Ranks(h) : Cardinality({s \in Ranks(h) : before(s, r)}) = i - 1]

FiveCardValue(h) ==
    LET g == Grouped(h)
        flush == Cardinality({c[2] : c \in h}) = 1
        straight == StraightHigh(Ranks(h))
        most == Count(h, g[1])
        pairs == {r \in Ranks(h) : Count(h, r) = 2}
    IN  CASE flush /\ straight > 0 -> <<8, straight>>
          [] most = 4 -> <<7, g[1], g[2]>>
          [] most = 3 /\ pairs # {} -> <<6, g[1], g[2]>>
          [] flush /\ straight = 0 -> <<5>> \o g
          [] ~flush /\ straight > 0 -> <<4, straight>>
          [] most = 3 /\ pairs = {} -> <<3>> \o g
          [] most = 2 /\ Cardinality(pairs) = 2 -> <<2>> \o g
          [] most = 2 /\ Cardinality(pairs) = 1 -> <<1>> \o g
          [] OTHER -> <<0>> \o g

BestHand(hand) ==
    LET values == {FiveCardValue(h) : h \in {k \in SUBSET hand : Cardinality(k) = 5}}
    IN  CHOOSE v \in values : \A u \in values : ~Less(v, u)

Init == /\ cards \in kSubset(7, Deck)
        /\ value = <<>>

Evaluate == /\ value = <<>>
            /\ value' = BestHand(cards)
            /\ UNCHANGED cards

Next == Evaluate

Spec == Init /\ [][Next]_vars

(***************************************************************************)
(* Reference: what seven cards are worth, read off the seven at once.      *)
(***************************************************************************)
Suited(s) == {c \in cards : c[2] = s}
Suits == {c[2] : c \in cards}
\* the highest card of a run of five among some ranks; 0 when there is none
Run(R) == LET low == R \cup (IF Ace \in R THEN {1} ELSE {})
              tops == {r \in low : r - 4 .. r \subseteq low}
          IN  IF tops = {} THEN 0 ELSE Highest(tops)
AtLeast(n) == {r \in Ranks(cards) : Count(cards, r) >= n}
Kickers(R, n) == SubSeq(Down(Ranks(cards) \ R), 1, n)
Flushes == {s \in Suits : Cardinality(Suited(s)) >= 5}

Worth ==
    LET straightFlush == {Run(Ranks(Suited(s))) : s \in Flushes} \ {0}
        quad == AtLeast(4)
        trips == AtLeast(3)
        pairs == AtLeast(2)
        top(S) == Highest(S)
    IN  CASE straightFlush # {} -> <<8, top(straightFlush)>>
          [] straightFlush = {} /\ quad # {} -> <<7, top(quad)>> \o Kickers(quad, 1)
          [] straightFlush = {} /\ quad = {} /\ trips # {} /\ Cardinality(pairs) > 1 ->
                <<6, top(trips), top(pairs \ {top(trips)})>>
          [] OTHER ->
               CASE Flushes # {} -> <<5>> \o SubSeq(Down(Ranks(Suited(CHOOSE s \in Flushes : TRUE))), 1, 5)
                 [] Flushes = {} /\ Run(Ranks(cards)) > 0 -> <<4, Run(Ranks(cards))>>
                 [] OTHER ->
                      CASE trips # {} -> <<3, top(trips)>> \o Kickers(trips, 2)
                        [] trips = {} /\ Cardinality(pairs) > 1 ->
                              LET two == {top(pairs), top(pairs \ {top(pairs)})}
                              IN  <<2>> \o Down(two) \o Kickers(two, 1)
                        [] trips = {} /\ Cardinality(pairs) = 1 -> <<1, top(pairs)>> \o Kickers(pairs, 3)
                        [] OTHER -> <<0>> \o Kickers({}, 5)

\* The cards stay, and a value has a category and its ranks.
TypeOK == cards \subseteq Deck /\ (value # <<>> => value[1] \in 0 .. 8 /\ Len(value) \in 2 .. 6)

\* Taking the best of twenty-one five-card hands is the rank of the seven
\* cards: no straight, flush or full house that spans them is missed, and the
\* kickers are the right ones.
BestIsTheWorth == value # <<>> => value = Worth
=============================================================================
