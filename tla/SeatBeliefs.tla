----------------------------- MODULE SeatBeliefs -----------------------------
(***************************************************************************)
(* What the table may think of every seat's cards: ranges/event_beliefs.py *)
(* replays the public part of a hand's events, beside the hand itself, and *)
(* keeps the answers in a process-wide cache; ranges/seat_priors.py gives  *)
(* the belief before the first action and ranges/policy_artifact.py the    *)
(* preflop actions the artifact has frequencies for.                       *)
(*                                                                         *)
(* A belief is the set of combos a seat may still hold and the evidence    *)
(* that weighed them: one entry per public action of the seat, with        *)
(* everything the likelihood of a combo depends on.  The numbers are left  *)
(* out: two beliefs with the same combos and the same evidence are equal.  *)
(***************************************************************************)
EXTENDS HandPlay, SequencesExt

CONSTANTS FullRing,      \* the one table size with priors (6 in the code)
          DeepBlinds,    \* the stacks the artifact covers, in big blinds (100)
          OpenTo,        \* 2.5 big blinds
          ReraiseTo,     \* 9 big blinds
          Nodes,         \* the artifact's nodes: <<action prefix, seat after the button>>
          Cards, BoardOf,  \* BoardOf[seed][street]: the cards a street deals
          Observers,     \* the cards the observer of a belief may see
          BeliefCacheMax,
          MaxEvents,     \* bound: events of a public stream
          MaxHands,      \* bound: hands that share the process
          MaxAsks        \* bound: questions asked

\* What an instance assumes of its constants.
SeatBeliefsAssumption ==
    /\ Seeds \subseteq DOMAIN BoardOf
    /\ \A d \in Seeds : BoardOf[d] \in [1 .. River -> SUBSET Cards]
    /\ Observers \subseteq SUBSET Cards /\ BeliefCacheMax \in Nat \ {0}

VARIABLES stream,   \* _public_stream: the public events of the hand so far
          cache,    \* _BELIEF_CACHE, least recently used first
          hands,    \* hands begun
          asks      \* questions asked
beliefVars == <<stream, cache, hands, asks>>
vars == <<handVars, beliefVars>>

Combos == kSubset(2, Cards)

(***************************************************************************)
(* Priors.                                                                 *)
(***************************************************************************)
AfterButton(f, s) == (s - f.button) % NSeats

\* _unavailable_reason: six seats, all dealt in (antes and rake are not modelled)
HasPriors(f) == NSeats = FullRing /\ f.active = Seats
\* coverage_reason: every stack exactly a hundred big blinds
Covered(f) == HasPriors(f) /\ \A s \in f.active : f.stacks[s] = DeepBlinds * BigBlind

Prior(f, seen) ==
    [combos |-> {c \in Combos : c \cap seen = {}}, evidence |-> <<>>,
     source |-> IF Covered(f) THEN "policy" ELSE "heuristic", fingerprint |-> Covered(f)]

(***************************************************************************)
(* The public replay.  r is what the loop of beliefs_at carries: the       *)
(* belief of every seat, the pot, the stacks, what a seat put in on this   *)
(* street, who folded, and the preflop actions so far.                     *)
(***************************************************************************)
Forced(f, s) == CASE AfterButton(f, s) = 1 -> SmallBlind
                  [] AfterButton(f, s) = 2 -> BigBlind
                  [] OTHER -> 0

Opening(f, seen) ==
    [belief |-> [s \in f.active |-> Prior(f, seen)],
     pot    |-> SumFunction([s \in f.active |-> Forced(f, s)]),
     stacks |-> [s \in f.active |-> Max({0, f.stacks[s] - Forced(f, s)})],
     put    |-> [s \in f.active |-> Forced(f, s)],
     folded |-> {}, preflop |-> <<>>]

Contribution(r, i) ==
    Least(CASE i.action = "raise" -> Max({0, i.amount - r.put[i.seat]})
            [] i.action \in {"bet", "call"} -> i.amount
            [] OTHER -> 0,
          r.stacks[i.seat])

\* size_bucket and spr_bucket: what the likelihood sees of the amounts
SizeBucket(i, amount, pot) ==
    LET base == Max({1, pot})
    IN  CASE i.action \in {"check", "fold"} \/ amount = 0 -> "none"
          [] amount * 5 <= base * 2 -> "small"
          [] amount * 5 <= base * 4 -> "medium"
          [] amount * 4 <= base * 5 -> "large"
          [] OTHER -> "overbet"
SprBucket(stack, pot) ==
    CASE pot > 0 /\ stack < 4 * pot  -> "short"
      [] pot > 0 /\ stack < 10 * pot -> "medium"
      [] OTHER -> "deep"

\* _action_prefix over the preflop actions before this one
Prefix(acts) ==
    LET raises == SelectSeq(acts, LAMBDA i : i.action = "raise")
        calls  == SelectSeq(acts, LAMBDA i : i.action = "call")
    IN  CASE raises = <<>> /\ calls = <<>> -> "rfi"
          [] Len(raises) = 1 /\ calls = <<>> /\ raises[1].amount = OpenTo -> "vs_single_rfi"
          [] OTHER -> "none"

\* policy_for_action finds frequencies: a covered table, a node, an action of it
Labelled(prefix, i) ==
    CASE i.action = "fold"  -> TRUE
      [] i.action = "call"  -> prefix = "vs_single_rfi"
      [] i.action = "raise" -> i.amount = (IF prefix = "rfi" THEN OpenTo ELSE ReraiseTo)
      [] OTHER -> FALSE
ByPolicy(f, r, i, street) ==
    /\ street = 0 /\ Covered(f)
    /\ <<Prefix(r.preflop), AfterButton(f, i.seat)>> \in Nodes
    /\ Labelled(Prefix(r.preflop), i)

Evidence(f, r, i, street, board) ==
    IF ByPolicy(f, r, i, street)
    THEN [by |-> "policy", node |-> <<Prefix(r.preflop), AfterButton(f, i.seat)>>,
          action |-> i.action]
    ELSE [by |-> "heuristic", action |-> i.action, street |-> street, board |-> board,
          size |-> SizeBucket(i, Contribution(r, i), r.pot),
          spr  |-> SprBucket(r.stacks[i.seat], r.pot),
          position |-> AfterButton(f, i.seat)]

\* _apply_action and _mark_inactive: the actor's belief, and nobody else's
Weighed(b, e) == [b EXCEPT !.evidence = Append(@, e), !.source = e.by,
                           !.fingerprint = e.by = "policy"]

\* _apply_blockers: every seat's belief, whose metadata is now the deal's
Blocked(b, cards) == [b EXCEPT !.combos = {c \in @ : c \cap cards = {}},
                               !.fingerprint = FALSE]

LearnedBoard(r, p) ==
    [r EXCEPT !.belief = [s \in DOMAIN @ |-> Blocked(@[s], p.cards)],
              !.put    = [s \in DOMAIN @ |-> 0]]

LearnedAction(f, r, p, board) ==
    LET i     == p.intent
        chips == Contribution(r, i)
    IN  [r EXCEPT
           !.belief[i.seat] = Weighed(@, Evidence(f, r, i, p.street, board)),
           !.pot = @ + chips, !.stacks[i.seat] = @ - chips, !.put[i.seat] = @ + chips,
           !.folded = IF i.action = "fold" THEN @ \cup {i.seat} ELSE @,
           !.preflop = IF p.street = 0 THEN Append(@, i) ELSE @]

\* the cards dealt before event n
BoardAt(es, n) ==
    UNION {es[k].cards : k \in {j \in 1 .. n - 1 : es[j].kind = "board_dealt"}}

Replayed(es, seen, target) ==
    LET f == es[1].facts
        Step(r, n) == IF es[n].kind = "board_dealt" THEN LearnedBoard(r, es[n])
                      ELSE LearnedAction(f, r, es[n], BoardAt(es, n))
    IN  FoldLeft(Step, Opening(f, seen), [k \in 1 .. target - 1 |-> k + 1])

\* _provenance_for: grade B while the last word is the artifact's
Grade(b) == IF b.source = "policy" /\ b.fingerprint THEN "B" ELSE "C"

BeliefsAt(es, seen, target) ==
    IF ~HasPriors(es[1].facts) THEN {}
    ELSE {[seat |-> s, belief |-> r.belief[s], grade |-> Grade(r.belief[s]),
           inactive |-> s \in r.folded] :
             s \in es[1].facts.active, r \in {Replayed(es, seen, target)}}

(***************************************************************************)
(* The cache of answers.  Its key is the public prefix, the target and the *)
(* observer's cards; the seed of the deal is in none of them.              *)
(***************************************************************************)
Key_NoBoard(es, seen, target) ==   \* mutant: the cards of a street are left out
    <<target, seen, es[1].facts,
      [k \in 1 .. target |-> IF es[k].kind = "action_taken" THEN es[k].intent ELSE <<>>]>>
Key(es, seen, target) == <<target, seen, SubSeq(es, 1, target)>>

Cached(k) == {n \in 1 .. Len(cache) : cache[n].key = k}
\* move_to_end, and popitem of the oldest
Used(entry, others) ==
    LET kept == Append(others, entry)
    IN  IF Len(kept) > BeliefCacheMax THEN Tail(kept) ELSE kept

\* beliefs_at
Ask(seen, target) ==
    LET k == Key(stream, seen, target)
    IN  /\ asks < MaxAsks /\ target \in 1 .. Len(stream) /\ HasPriors(facts)
        /\ asks' = asks + 1
        /\ cache' = Used([key |-> k, seen |-> seen,
                          beliefs |-> IF Cached(k) # {} THEN cache[Min(Cached(k))].beliefs
                                      ELSE BeliefsAt(stream, seen, target)],
                         SelectSeq(cache, LAMBDA e : e.key # k))
        /\ UNCHANGED <<handVars, stream, hands>>

(***************************************************************************)
(* The hand, and its public stream.                                        *)
(***************************************************************************)
Started(f) == <<[kind |-> "hand_started", facts |-> f]>>

Play(i) ==
    /\ Len(stream) < MaxEvents
    /\ Act(i)
    /\ stream' = Append(stream, [kind |-> "action_taken", intent |-> i, street |-> table.street])
    /\ UNCHANGED <<cache, hands, asks>>

Board ==
    /\ Len(stream) < MaxEvents
    /\ Deal
    /\ stream' = Append(stream, [kind |-> "board_dealt",
                                 cards |-> BoardOf[seed][table.street + 1]])
    /\ UNCHANGED <<cache, hands, asks>>

\* another hand of the same process
NewHand(d) ==
    /\ hands < MaxHands
    /\ hands' = hands + 1
    /\ seed' = d
    /\ table' = Opened(facts)
    /\ stream' = Started(facts)
    /\ UNCHANGED <<facts, cache, asks>>

BeliefInit == /\ PlayInit
              /\ stream = Started(facts) /\ cache = <<>> /\ hands = 1 /\ asks = 0
BeliefNext == \/ \E i \in Intents : Play(i)
              \/ Board
              \/ \E d \in Seeds : NewHand(d)
              \/ \E seen \in Observers, n \in 1 .. MaxEvents : Ask(seen, n)

BeliefSpec == BeliefInit /\ [][BeliefNext]_vars

(***************************************************************************)
(* Properties.                                                             *)
(***************************************************************************)
SeatBeliefsOK ==
    /\ stream # <<>> /\ stream[1].facts = facts
    /\ Len(cache) <= BeliefCacheMax /\ hands \in 1 .. MaxHands /\ asks \in 0 .. MaxAsks
    /\ \A n \in 1 .. Len(cache) : cache[n].seen \in Observers

Now(seen) == Replayed(stream, seen, Len(stream))

\* The likelihood of an action is taken against the pot and the stacks of the
\* table: the replay's own bookkeeping (which knows raises "to", bets "by" and
\* resets on a street) agrees with the rules engine's hand at every event.
ContextIsTheTable ==
    HasPriors(facts) =>
        \A r \in {Now({})} :
            /\ r.pot = SumFunction([s \in facts.active |-> Paid(s)])
            /\ r.stacks = table.stack /\ r.put = table.bet
            /\ r.folded = facts.active \ table.live

\* The artifact speaks of a seat's first decision only: it weighs a belief at
\* most once, and never one a heuristic has weighed.
PolicyWeighsFirst ==
    HasPriors(facts) =>
        \A r \in {Now({})}, s \in facts.active :
            \A n \in 1 .. Len(r.belief[s].evidence) :
                r.belief[s].evidence[n].by = "policy" => n = 1

\* Grade B is said of beliefs the artifact alone has made.
GradeIsOfTheEvidence ==
    HasPriors(facts) =>
        \A b \in BeliefsAt(stream, {}, Len(stream)) : b.grade = "B" =>
            /\ Covered(facts)
            /\ \A n \in 1 .. Len(b.belief.evidence) : b.belief.evidence[n].by = "policy"

\* Nobody is thought to hold a card the observer sees: on the board, or in hand.
VisibleCardsAreDead ==
    HasPriors(facts) =>
        \A seen \in Observers : \A b \in BeliefsAt(stream, seen, Len(stream)) :
            \A c \in b.belief.combos : c \cap (seen \cup BoardAt(stream, Len(stream) + 1)) = {}

\* What the cache answers is what the replay would: of this hand, whatever the
\* hands before it were and however far they went.
CacheIsFresh ==
    \A n \in 1 .. Len(cache), k \in 1 .. Len(stream) :
        cache[n].key = Key(stream, cache[n].seen, k) =>
            cache[n].beliefs = BeliefsAt(stream, cache[n].seen, k)

\* Beliefs are formed against the table as it is, graded by what formed them,
\* and never of a card the observer sees.
BeliefsSound ==
    ContextIsTheTable /\ PolicyWeighsFirst /\ GradeIsOfTheEvidence /\ VisibleCardsAreDead

\* A belief is answered from the cache only when it is the current one.
AnswersAreFresh == SeatBeliefsOK /\ CacheIsFresh

=============================================================================
