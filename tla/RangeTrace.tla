----------------------------- MODULE RangeTrace -----------------------------
(***************************************************************************)
(* A seat's range along a scenario's action history: ranges/trace.py asks  *)
(* a chain of policies for the frequency of each of the seat's own actions *)
(* (ranges/providers), weighs the combos by it (ranges/update.py), removes *)
(* the cards that become visible, and stops with a reason where no policy  *)
(* answers.  The history is a heads-up hand played by the rules.           *)
(*                                                                         *)
(* Frequencies are quarters; a reach is a product of quarters, kept        *)
(* unnormalised (the conditional probabilities are the reaches' shares).   *)
(* A combo is a set of two cards.  Chips are in units of 25.               *)
(***************************************************************************)
EXTENDS HandPlay, SequencesExt

CONSTANTS Cards, Runout,     \* the scenario's full board, one set of cards a street
          Priors,            \* bound: prior ranges of a seat, combos to weights
          KnownHands,        \* bound: the other seat's known cards, or none
          OpenRange, ReraiseRange, DefendRange, FourBetRange, VsReraiseRange,
          HuOpen, HuThreeBet, HuFourBet,  \* 200, 300 and 400 chips in the code
          HundredBlinds,     \* the stacks the curated policy covers, in big blinds
          Artifacts,         \* solver results that may be among the policies
          MaxEvents          \* bound: events of a history

\* What an instance assumes of its constants.
RangeTraceAssumption ==
    /\ Runout \in [1 .. River -> SUBSET Cards]
    /\ \A a \in Artifacts :
          /\ a.seat \in Seats /\ a.sequence \in Nat
          /\ \A c \in DOMAIN a.frequency : DOMAIN a.frequency[c] = Range(a.actions)
    /\ \A prior \in Priors : \A c \in DOMAIN prior : prior[c] \in Nat

VARIABLES history,   \* action_history: the hand's events, from sequence 1
          prior,     \* rangesBySeat of the tracked seat
          known      \* knownHoleCardsBySeat of the other seat
traceVars == <<handVars, history, prior, known>>

Quarters == 4
IsDeal(e) == e.action = "deal"

(***************************************************************************)
(* Scenarios: a history, the sequence and street of the decision, and how  *)
(* many streets of the runout the board field holds.                       *)
(***************************************************************************)
DealsBy(sc, n) == {k \in 1 .. Least(n, Len(sc.events)) : IsDeal(sc.events[k])}
Streets(k) == UNION {Runout[s] : s \in 1 .. k}

BoardAt(sc, n) ==
    LET revealed == CASE DealsBy(sc, n) # {} -> Cardinality(DealsBy(sc, n))
                      [] DealsBy(sc, n) = {} /\ n = sc.after -> sc.street
                      [] OTHER -> 0
    IN  Streets(Least(revealed, sc.board))

StreetAt(sc, n) == CASE DealsBy(sc, n) # {} -> Cardinality(DealsBy(sc, n))
                     [] n = sc.after -> sc.street
                     [] OTHER -> 0

Dead(sc, n) == BoardAt(sc, n) \cup known
Lives(c, dead) == c \cap dead = {}

\* _scenario_at_action: nothing later than the action
AtAction(sc, n) ==
    [events |-> SubSeq(sc.events, 1, n), after |-> n, street |-> sc.events[n].street,
     board |-> IF BoardAt(sc, n) = {} THEN 0 ELSE CHOOSE k \in 1 .. River : Streets(k) = BoardAt(sc, n)]

\* the pot before the action at n (_pot_before_sequence)
Chips(es, n) == CASE es[n].action \in {"bet", "call"} -> es[n].amount
                  [] es[n].action = "raise" -> es[n].amount - es[n].put
                  [] OTHER -> 0
PotBefore(es, n) == SmallBlind + BigBlind + SumFunction([k \in 1 .. n - 1 |-> Chips(es, k)])

(***************************************************************************)
(* Policies.  One answers an action with labelled sizes, each combo's      *)
(* frequencies of the labels and the pot its sizes refer to.               *)
(***************************************************************************)
NoPolicy == [source |-> "none"]

Label(action, size) == [action |-> action, size |-> size]
IsRaise(e, s, amount) == e.seat = s /\ e.action = "raise" /\ e.amount = amount

\* _tiered_membership_policy; the binary one has an empty middle range
Tiered(combos, raiseTo, calls, high, middle, pot) ==
    LET labels == <<Label("raise", raiseTo)>>
                    \o (IF calls THEN <<Label("call", 0)>> ELSE <<>>) \o <<Label("fold", 0)>>
        Chosen(c) == CASE c \in high -> "raise"
                       [] c \notin high /\ c \in middle /\ calls -> "call"
                       [] OTHER -> "fold"
    IN  [source |-> "preflop_policy", actions |-> labels, pot |-> pot,
         frequency |-> [c \in combos |-> [l \in Range(labels) |->
                          IF l.action = Chosen(c) THEN Quarters ELSE 0]]]

\* PreflopPolicyProvider at a heads-up table: three nodes, at their exact sizes
Curated(sc, e, n, combos) ==
    LET es     == sc.events
        button == facts.button
        other  == BigBlindSeat(facts)
        Sized(size) == e.action \in {"call", "fold"} \/ IsRaise(e, e.seat, size)
    IN  CASE \/ \E s \in Seats : facts.stacks[s] # HundredBlinds * BigBlind
             \/ sc.board > 0 \/ e.street > 0
                -> NoPolicy
          [] n = 1 /\ e.seat = button /\ (e.action = "fold" \/ IsRaise(e, button, HuOpen))
                -> Tiered(combos, HuOpen, FALSE, OpenRange, {}, SmallBlind + BigBlind)
          [] n = 2 /\ IsRaise(es[1], button, HuOpen) /\ e.seat = other /\ Sized(HuThreeBet)
                -> Tiered(combos, HuThreeBet, TRUE, ReraiseRange, DefendRange, 12)   \* 300 chips
          [] n = 3 /\ IsRaise(es[1], button, HuOpen) /\ IsRaise(es[2], other, HuThreeBet)
                   /\ e.seat = button /\ Sized(HuFourBet)
                -> Tiered(combos, HuFourBet, TRUE, FourBetRange, VsReraiseRange, 20)   \* 500 chips
          [] OTHER -> NoPolicy

\* SolverPolicyAdapter, of a stored job: its own sequence and its own actor
Solved(a, sc, e, n) ==
    IF a.sequence = n /\ a.seat = e.seat
    THEN [source |-> "solver", actions |-> a.actions, frequency |-> a.frequency,
          pot |-> PotBefore(sc.events, n)]
    ELSE NoPolicy

\* the first provider of the chain that covers the node: curated, then solver
PolicyAt(sc, e, n, combos, artifacts) ==
    LET at      == AtAction(sc, n)
        answers == <<Curated(at, e, n, combos)>>
                     \o [k \in 1 .. Len(artifacts) |-> Solved(artifacts[k], at, e, n)]
        covering == {k \in 1 .. Len(answers) : answers[k] # NoPolicy}
    IN  IF covering = {} THEN NoPolicy ELSE answers[Min(covering)]

\* match_observed_action: a label of the action's family, of the nearest size
\* (as a share of the pot), ties to the smaller
Family(policy, e) ==
    {l \in Range(policy.actions) : l.action = e.action}
Gap(l, e, policy, pot) == LET d == l.size * pot - e.amount * policy.pot
                          IN  IF d < 0 THEN -d ELSE d
Match(policy, e, pot) ==
    LET family == Family(policy, e)
        nearest == {l \in family : \A k \in family : Gap(l, e, policy, pot) <= Gap(k, e, policy, pot)}
    IN  CHOOSE l \in nearest : \A k \in nearest : l.size <= k.size

Likelihood(policy, e, pot, c) ==
    IF c \in DOMAIN policy.frequency THEN policy.frequency[c][Match(policy, e, pot)] ELSE 0

(***************************************************************************)
(* The trace: snapshots [after, street, reach, source] in a chain, and how *)
(* it ended: complete, stalled at an action, or an error that no one       *)
(* turned into a reason.                                                   *)
(***************************************************************************)
Snapshot(after, street, reach, source) ==
    [after |-> after, street |-> street, reach |-> reach, source |-> source]
Current(t) == t.chain[Len(t.chain)]
Mass(reach) == SumFunction(reach)

\* snapshot_from_range: NoPriorRangeError when nothing of the prior is left
Begun(sc) ==
    LET alive == {c \in DOMAIN prior : Lives(c, Dead(sc, 0))}
    IN  [chain |-> <<Snapshot(0, StreetAt(sc, 0), Restrict(prior, alive), "manual")>>,
         status |-> IF Mass(Restrict(prior, alive)) > 0 THEN "tracing" ELSE "no_prior",
         shown |-> 0]

\* apply_dead_cards: ZeroProbabilityActionError when no combo survives
AfterDeal(sc, t, n) ==
    LET reach == Restrict(Current(t).reach,
                          {c \in DOMAIN Current(t).reach : Lives(c, Dead(sc, n))})
    IN  IF Mass(reach) = 0 THEN [t EXCEPT !.status = "raised"]
        ELSE [t EXCEPT !.chain = Append(@, Snapshot(n, StreetAt(sc, n), reach, Current(t).source)),
                       !.shown = Cardinality(BoardAt(sc, n))]

Reweighed_Afresh(reach, likelihood) == likelihood   \* mutant: what came before is forgotten
Reweighed(reach, likelihood) == reach * likelihood

\* update_range_belief, or the reason the chain stops here.  A combo the action
\* is impossible with leaves the range.
Weighed(sc, t, n, policy, pot) ==
    LET e      == sc.events[n]
        likely == IF policy = NoPolicy \/ Family(policy, e) = {} THEN {}
                  ELSE {c \in DOMAIN Current(t).reach :
                          Lives(c, Dead(sc, n)) /\ Likelihood(policy, e, pot, c) > 0}
        reach  == [c \in likely |-> Reweighed(Current(t).reach[c], Likelihood(policy, e, pot, c))]
    IN  IF likely = {} \/ Mass(reach) = 0 THEN [t EXCEPT !.status = "stalled"]
        ELSE [t EXCEPT !.chain = Append(@, Snapshot(n, e.street, reach, policy.source))]

\* an action of the seat's own: what a policy says of it, applied to the range
AfterAction(sc, t, n, artifacts) ==
    Weighed(sc, t, n, PolicyAt(sc, sc.events[n], n, DOMAIN Current(t).reach, artifacts),
            PotBefore(sc.events, n))

\* one event of the history; the board of a spot without deals comes at the end
Traced(sc, seat, artifacts, last) ==
    LET Step(t, n) ==
            CASE t.status # "tracing" -> t
              [] t.status = "tracing" /\ IsDeal(sc.events[n])
                    -> IF Cardinality(BoardAt(sc, n)) > t.shown THEN AfterDeal(sc, t, n) ELSE t
              [] t.status = "tracing" /\ sc.events[n].seat = seat
                    -> AfterAction(sc, t, n, artifacts)
              [] OTHER -> t
        Walked == FoldLeft(Step, Begun(sc), [n \in 1 .. Least(last, Len(sc.events)) |-> n])
    IN  CHOOSE r \in {IF t.status = "tracing" /\ Cardinality(BoardAt(sc, last)) > t.shown
                      THEN AfterDeal(sc, t, last) ELSE t : t \in {Walked}} : TRUE

\* _range_update_for_action: the reviewed action's own artifact at most, and an
\* answer only if the trace got as far as the action
RangeUpdate(sc, n, artifacts) ==
    LET own == SelectSeq(artifacts, LAMBDA a : a.sequence = n /\ sc.events[n].street > 0)
        t   == Traced(sc, sc.events[n].seat, own, n)
    IN  IF t.status = "tracing" /\ Current(t).after = n THEN Current(t).reach ELSE <<>>

(***************************************************************************)
(* The hand, recorded as a scenario's history.                             *)
(***************************************************************************)
TraceInit ==
    /\ PlayInit /\ facts.active = Seats
    /\ history = <<>> /\ prior \in Priors /\ known \in KnownHands

Recorded(i) == [seat |-> i.seat, action |-> i.action, amount |-> i.amount,
                put |-> table.bet[i.seat], street |-> table.street]
TraceNext ==
    /\ Len(history) < MaxEvents
    /\ \/ \E i \in Intents : Act(i) /\ history' = Append(history, Recorded(i))
       \/ Deal /\ history' = Append(history, [seat |-> NoSeat, action |-> "deal", amount |-> 0,
                                              put |-> 0, street |-> table.street + 1])
    /\ UNCHANGED <<prior, known>>

TraceSpec == TraceInit /\ [][TraceNext]_traceVars

(***************************************************************************)
(* Properties.  Played is the hand so far with its full runout on file; a  *)
(* static spot leaves out the deal of the flop it is about.                *)
(***************************************************************************)
Played == [events |-> history, after |-> Len(history), street |-> table.street, board |-> River]
AwaitsFlop == InProgress(table) /\ Actor(table) = NoSeat /\ table.street = 0
StaticSpot == [Played EXCEPT !.street = 1, !.board = 1]
DealtSpot == [events |-> Append(history, [seat |-> NoSeat, action |-> "deal", amount |-> 0,
                                          put |-> 0, street |-> 1]),
              after |-> Len(history) + 1, street |-> 1, board |-> 1]
Chains == {<<>>} \cup {<<a>> : a \in Artifacts}

TraceOK ==
    /\ Len(history) <= MaxEvents
    /\ \A n \in 1 .. Len(history) : history[n].seat \in Seats \cup {NoSeat}
    /\ prior \in Priors /\ known \in KnownHands

\* The range reached is Bayes' rule applied once, in any order: the prior weight
\* times the frequency of each of the seat's own actions, over the combos that
\* no visible card kills and every action is possible with.  So is the range a
\* review shows for an action.
OwnActions(seat, n) == {k \in 1 .. n : history[k].seat = seat}
Weight(seat, chain, n, c) ==
    LET Taken(k) == Likelihood(PolicyAt(Played, history[k], k, DOMAIN prior, chain),
                               history[k], PotBefore(history, k), c)
    IN  FoldSet(LAMBDA k, w : w * Taken(k), prior[c], OwnActions(seat, n))
Positive(weights) == Restrict(weights, {c \in DOMAIN weights : weights[c] > 0})
Bayes(seat, chain, n) ==
    Positive([c \in {d \in DOMAIN prior : Lives(d, Dead(Played, n))} |-> Weight(seat, chain, n, c)])
RangeIsBayes ==
    /\ \A seat \in Seats, chain \in Chains :
          \A t \in {Traced(Played, seat, chain, Len(history))} : t.status = "tracing" =>
              Current(t).reach = Bayes(seat, chain, Len(history))
    /\ \A chain \in Chains, n \in 1 .. Len(history) :
          ~IsDeal(history[n]) =>
              \A r \in {RangeUpdate(Played, n, chain)} :
                  r # <<>> => r = Bayes(history[n].seat, chain, n)

\* A range at an earlier point of a hand is the range of the hand as it stood
\* there: no card, action or artifact of later shows in it.
NothingFromLater ==
    \A seat \in Seats, chain \in Chains, n \in 0 .. Len(history) - 1 :
        LET then == [events |-> SubSeq(history, 1, n), after |-> n,
                     street |-> Cardinality(DealsBy(Played, n)),
                     board |-> Cardinality(DealsBy(Played, n))]
        IN  Traced(Played, seat, chain, n) = Traced(then, seat, chain, n)

\* The curated policy speaks of the spot its name says: opens of two big blinds,
\* three-bets of three, with the sizes measured against the pot of that spot.
PolicyIsOfThisSpot ==
    \A n \in 1 .. Len(history) :
        LET policy == Curated(AtAction(Played, n), history[n], n, DOMAIN prior)
        IN  ~IsDeal(history[n]) /\ policy # NoPolicy =>
                /\ policy.pot = PotBefore(history, n)
                /\ \A k \in 1 .. n : history[k].action = "raise" =>
                      history[k].amount = (k + 1) * BigBlind

\* A trace that cannot go on says why, and answers.
ReasonIsReported ==
    \A seat \in Seats, chain \in Chains :
        Traced(Played, seat, chain, Len(history)).status # "raised"

\* A flop that is given without being dealt does not reach into the preflop
\* actions: the range is the one of the same hand with the flop dealt.
FlopLeavesThePast ==
    AwaitsFlop =>
        \A seat \in Seats :
            Traced(DealtSpot, seat, <<>>, Len(history) + 1).status = "tracing" =>
                Traced(StaticSpot, seat, <<>>, Len(history)).status = "tracing"

\* A traced range is the range of its moment, by Bayes' rule.
TraceSound == TraceOK /\ RangeIsBayes /\ NothingFromLater /\ PolicyIsOfThisSpot

=============================================================================
