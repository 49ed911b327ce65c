----------------------------- MODULE ScenarioSpec -----------------------------
(***************************************************************************)
(* ScenarioSpec's validation: what a client sends is checked and brought   *)
(* into the seat-based form (version 2), the fields of the two-seat form   *)
(* (hero and villain) being read where the new ones are empty and filled   *)
(* from them otherwise.  Documents are stored as validated, read back,     *)
(* changed in one field, and sent again.                                   *)
(*                                                                         *)
(* A document is [known, hero, villain: cards; board: one set of cards a   *)
(* street; ranges, heroRange, villainRange: sets of combos; after, street: *)
(* how many of the streets its history deals the decision comes after, and *)
(* the street the decision says it is on, from 0 before the flop].  A      *)
(* range is its combos, without their weights; the checks of one field     *)
(* alone (amounts, labels, tags, positions) are left out.                  *)
(***************************************************************************)
EXTENDS Integers, Sequences, FiniteSets

CONSTANTS Seats, Hero,
          Hands,        \* bound: the hole cards written, as sets of cards
          Boards,       \* bound: the boards, as sequences of sets of cards
          RangesTried   \* bound: the ranges, as nonempty sets of hands

ASSUME ScenarioSpecAssumption ==
    /\ Hero \in Seats /\ Cardinality(Seats) >= 2
    /\ {} \notin RangesTried
    /\ \A b \in Boards : Len(b) \in Nat /\ DOMAIN b = 1 .. Len(b)

Nothing == {}                      \* an absent field, and its empty wire form
HeadsUp == Cardinality(Seats) = 2
Opponent == CHOOSE s \in Seats : s # Hero

Given(f) == {s \in Seats : f[s] # Nothing}

(***************************************************************************)
(* The checks, on the cards and ranges the document counts as its own.     *)
(***************************************************************************)
\* the legacy field of a seat, where it has one
LegacyOf(s, hero, villain) == CASE s = Hero -> hero
                                [] s # Hero /\ HeadsUp -> villain
                                [] OTHER -> Nothing

\* seat by seat: the new field if any is given, and else the two-seat form's
Canonical(new, hero, villain) ==
    IF Given(new) # {} THEN new ELSE [s \in Seats |-> LegacyOf(s, hero, villain)]

KnownCards(d) == Canonical(d.known, d.hero, d.villain)
RangesOf(d) == Canonical(d.ranges, d.heroRange, d.villainRange)

BoardCards(d, streets) == UNION {d.board[k] : k \in 1 .. streets}
Earlier(x, y) == IF x <= y THEN x ELSE y

VisibleStreets(d) ==
    Earlier(Len(d.board), IF d.after > 0 THEN d.after ELSE d.street)

NoOverlap_AsSent(d) ==   \* mutant: looks at the seat-based fields before filling them
    /\ \A s, t \in Seats : s # t => d.known[s] \cap d.known[t] = {}
    /\ \A s \in Seats : d.known[s] \cap BoardCards(d, Len(d.board)) = {}
\* no card twice among the known hands and the whole board
NoOverlap(d) ==
    LET held == KnownCards(d)
    IN  /\ \A s, t \in Seats : s # t => held[s] \cap held[t] = {}
        /\ \A s \in Seats : held[s] \cap BoardCards(d, Len(d.board)) = {}

\* what blocks a seat's range: the visible board and the other seats' cards
Blockers(d, s) ==
    BoardCards(d, VisibleStreets(d)) \cup UNION {KnownCards(d)[t] : t \in Seats \ {s}}

RangesLive(d) == \A s \in Seats : \A combo \in RangesOf(d)[s] : combo \cap Blockers(d, s) = {}

WholeHands(d) == \A s \in Seats : d.known[s] # Nothing => Cardinality(d.known[s]) = 2

\* a decision on the showdown, and after no deal, has no board size: the KeyError
\* ends the request like a refusal
Showdown == 4
BoardHasSize(d) == d.after > 0 \/ d.street # Showdown

Valid(d) == BoardHasSize(d) /\ WholeHands(d) /\ NoOverlap(d) /\ RangesLive(d)

(***************************************************************************)
(* What the validated document holds.  A legacy hand is overwritten where  *)
(* its seat's cards are given, a legacy range whenever any range is.       *)
(***************************************************************************)
Normal(d) ==
    [d EXCEPT !.known   = KnownCards(d), !.ranges = RangesOf(d),
              !.hero    = IF d.known[Hero] # Nothing THEN d.known[Hero] ELSE @,
              !.villain = IF HeadsUp /\ d.known[Opponent] # Nothing THEN d.known[Opponent] ELSE @,
              !.heroRange    = IF Given(d.ranges) # {} THEN d.ranges[Hero] ELSE @,
              !.villainRange = IF Given(d.ranges) # {} /\ HeadsUp THEN d.ranges[Opponent] ELSE @]

VARIABLES stored,   \* the document on file
          tried     \* the one sent last
specVars == <<stored, tried>>

Blank == [known |-> [s \in Seats |-> Nothing], hero |-> Nothing, villain |-> Nothing,
          board |-> <<>>, ranges |-> [s \in Seats |-> Nothing],
          heroRange |-> Nothing, villainRange |-> Nothing, after |-> 0, street |-> 0]

DocumentInit == stored = Blank /\ tried = Blank

Pairs == {h \in Hands : Cardinality(h) = 2}   \* the legacy fields' type
LegacyHands(d) == {[d EXCEPT !.hero = h] : h \in Pairs \cup {Nothing}}
                    \cup {[d EXCEPT !.villain = h] : h \in Pairs \cup {Nothing}}
SeatHands(d) == {[d EXCEPT !.known[s] = h] : s \in Seats, h \in Hands \cup {Nothing}}
OtherBoards(d) == {[d EXCEPT !.board = b] : b \in Boards}
LegacyRanges(d) == {[d EXCEPT !.heroRange = r] : r \in RangesTried \cup {Nothing}}
                     \cup {[d EXCEPT !.villainRange = r] : r \in RangesTried \cup {Nothing}}
SeatRanges(d) == {[d EXCEPT !.ranges[s] = r] : s \in Seats, r \in RangesTried \cup {Nothing}}
OtherNodes(d) == {[d EXCEPT !.street = k] : k \in 0 .. Len(d.board) \cup {Showdown}}
                   \cup {[d EXCEPT !.after = k, !.street = k] : k \in 0 .. Len(d.board)}

\* what a client changes in the document it read, before it sends it again
Edits(d) == LegacyHands(d) \cup SeatHands(d) \cup OtherBoards(d) \cup LegacyRanges(d)
              \cup SeatRanges(d) \cup OtherNodes(d)

Save(d) ==
    /\ Valid(d)
    /\ stored' = Normal(d) /\ tried' = d

Refuse(d) ==
    /\ ~Valid(d)
    /\ tried' = d /\ UNCHANGED stored

DocumentNext == \E d \in Edits(stored) : Save(d) \/ Refuse(d)
DocumentSpec == DocumentInit /\ [][DocumentNext]_specVars

(***************************************************************************)
(* Properties.                                                             *)
(***************************************************************************)
SpecOK == /\ DOMAIN stored = DOMAIN Blank
          /\ \A s \in Seats : Cardinality(stored.known[s]) \in {0, 2}

\* A document on file can be sent back as it is: it is valid and stays the same.
SavedIsStable == Valid(stored) /\ Normal(stored) = stored

\* A reader of the two-seat form finds the ranges the seat-based form holds.
RangesReadAlike ==
    /\ stored.heroRange = stored.ranges[Hero]
    /\ HeadsUp => stored.villainRange = stored.ranges[Opponent]

\* A range on file can be dealt next to the cards that are on file and in view,
\* whichever seat's and on whichever street the decision is.
RangesCanBeDealt ==
    \A s, t \in Seats : s # t =>
        \A combo \in stored.ranges[s] :
            combo \cap (BoardCards(stored, VisibleStreets(stored)) \cup stored.known[t]) = {}

\* A reader may step back from the decision to any earlier street (model_copy, with
\* no validation): the document is valid there too, whatever the runout brings.
EarlierNodesAreValid ==
    \A k \in 0 .. VisibleStreets(stored) :
        Valid([stored EXCEPT !.after = k, !.street = k])

\* A document on file is one the validation would take again, says the same in
\* both its forms, and can be dealt and stepped back through.
SpecSound ==
    SpecOK /\ SavedIsStable /\ RangesReadAlike /\ RangesCanBeDealt /\ EarlierNodesAreValid

\* No card is twice among the hands and the board that readers of the two-seat form
\* (evidence, the teacher) take from a document: "hole cards and board cards cannot
\* overlap".
NoCardTwice ==
    LET board == BoardCards(stored, Len(stored.board))
    IN  /\ stored.hero \cap board = {}
        /\ HeadsUp => stored.hero \cap stored.villain = {} /\ stored.villain \cap board = {}

=============================================================================
