----------------------------- MODULE BotRuntime -----------------------------
(***************************************************************************)
(* BotRuntime.decide and the providers it runs: a provider gets a deadline *)
(* and a set of legal actions; whatever it does, the table gets a legal    *)
(* action and an honest account of where it came from.                     *)
(*                                                                         *)
(* The in-process providers are modelled by what they choose; "external"   *)
(* stands for any other provider behind the port, which may answer         *)
(* anything, raise, or not answer in time.  Amounts are in half big        *)
(* blinds, strengths in percent, frequencies and draws in twentieths.      *)
(***************************************************************************)
EXTENDS Integers, Sequences, FiniteSets

CONSTANTS Amounts,   \* amounts that bound legal actions and decisions
          Pots,      \* pot sizes a bot may see
          Spots,     \* preflop situations a bot may see (see Spot)
          Ordinals,  \* hand-class ordinals (_hand_classes)
          Holes,     \* hole cards a bot may have, by their ranks
          Boards     \* boards it may see, by their ranks

BotActions == {"fold", "check", "call", "bet", "raise"}
Local == {"fixed", "cautious", "balanced", "aggressive", "theory"}
Providers == Local \cup {"external"}
Statuses == {"success", "timeout", "exception", "invalid_action", "policy_fallback"}

\* of a preflop situation: the raises so far, the number of calls, the
\* position of the bot, and whether every seat started with 100 big blinds
Spot == [size : 2 .. 8, preflop : BOOLEAN, deep : BOOLEAN, raises : Seq(Nat), calls : Nat,
         position : {"UTG", "HJ", "CO", "BTN", "SB", "BB"}]

\* What an instance assumes of its constants.
RuntimeAssumption ==
    /\ Amounts \subseteq Nat \ {0} /\ Pots \subseteq Nat /\ Spots \subseteq Spot
    /\ Ordinals \subseteq 4 .. 32 /\ Holes \subseteq (2 .. 14) \X (2 .. 14)

(***************************************************************************)
(* Legal actions: fold, check or call, and a bet or a raise within bounds. *)
(***************************************************************************)
Sized(a) == a \in {"call", "bet", "raise"}
Bounds == {b \in [min : Amounts, max : Amounts] : b.min <= b.max}
Unsized == [min |-> 0, max |-> 0]
Menu(passive, cost, aggressive, bounds) ==
    [a \in {"fold", passive} \cup aggressive |->
        CASE a \in aggressive -> bounds [] a = "call" -> [min |-> cost, max |-> cost] [] OTHER -> Unsized]
BotMenus == {Menu("check", 0, g, b) : g \in {{}, {"bet"}}, b \in Bounds}
           \cup {Menu("call", c, g, b) : c \in Amounts, g \in {{}, {"raise"}}, b \in Bounds}

\* LegalActionV1.accepts of one of them
Admits(menu, d) == /\ d.action \in DOMAIN menu
                   /\ d.amount \in menu[d.action].min .. menu[d.action].max

Choice(action, amount) == [action |-> action, amount |-> amount]
\* the choices BotDecisionV1 can carry
Choices == {Choice(a, 0) : a \in {"fold", "check"}} \cup {Choice(a, n) : a \in {"call", "bet", "raise"}, n \in Amounts}

FirstOf(menu, order) == order[CHOOSE i \in 1 .. Len(order) :
                                 /\ order[i] \in DOMAIN menu
                                 /\ \A j \in 1 .. i - 1 : order[j] \notin DOMAIN menu]

(***************************************************************************)
(* The in-process providers.                                               *)
(***************************************************************************)
\* _visible_hand_strength of two ranks (14 is an ace), the board's ranks,
\* whether the seat is on or next to the button, and whether it is turn or river
Strength(hole, board, near, late) ==
    LET count(r) == Cardinality({i \in 1 .. Len(board) : board[i] = r})
        hits == {i \in 1 .. 2 : count(hole[i]) > 0}
        high == IF hole[1] > hole[2] THEN hole[1] ELSE hole[2]
        low == hole[1] + hole[2] - high
        base == CASE high = low -> 78 + (IF high - 2 < 10 THEN high - 2 ELSE 10)
                  [] high # low /\ hits # {} -> IF \E i \in hits : count(hole[i]) >= 2 THEN 82 ELSE 74
                  [] hits = {} /\ high >= 13 /\ low >= 11 -> 64
                  [] hits = {} /\ high >= 12 /\ ~(high >= 13 /\ low >= 11) /\ high # low -> 48
                  [] OTHER -> 22
    IN  base + (IF near THEN 3 ELSE 0) - (IF late /\ hits = {} THEN 5 ELSE 0)
Strengths == {Strength(h, b, n, l) : h \in Holes, b \in Boards, n \in BOOLEAN, l \in BOOLEAN}

\* a call must promise eight percent more than its price
TooWeak(strength, cost, pot) == (strength - 8) * (pot + cost) < 100 * cost

BalancedAction(menu, strength, pot) ==
    IF "call" \notin DOMAIN menu
    THEN IF strength >= 72 /\ "bet" \in DOMAIN menu THEN "bet" ELSE "check"
    ELSE CASE strength >= 82 /\ "raise" \in DOMAIN menu -> "raise"
           [] ~(strength >= 82 /\ "raise" \in DOMAIN menu)
                /\ TooWeak(strength, menu["call"].min, pot) -> "fold"
           [] OTHER -> "call"

\* _select_profile_action
ProfileAction(profile, menu, strength, pot) ==
    CASE profile = "balanced" -> BalancedAction(menu, strength, pot)
      [] profile = "cautious" -> FirstOf(menu, <<"fold", "check", "call", "bet", "raise">>)
      [] profile = "aggressive" -> FirstOf(menu, <<"bet", "raise", "call", "check", "fold">>)

\* _profile_amount
ProfileAmount(profile, bounds) ==
    CASE profile = "cautious" -> bounds.min
      [] profile = "balanced" -> (bounds.min + bounds.max) \div 2
      [] profile = "aggressive" -> bounds.max

ProfileChoice(profile, menu, strength, pot) ==
    LET a == ProfileAction(profile, menu, strength, pot) IN Choice(a, ProfileAmount(profile, menu[a]))

\* _select_fixed_action with its minimum: FixedPolicyProvider and the emergency
FixedChoice(menu) ==
    LET a == FirstOf(menu, <<"check", "call", "fold", "bet", "raise">>) IN Choice(a, menu[a].min)

(***************************************************************************)
(* PolicyArtifactBot: a table of frequencies for two kinds of spots.       *)
(***************************************************************************)
\* _action_prefix: unopened, or one raise to 2.5 big blinds and no caller
Prefix(spot) ==
    CASE spot.calls = 0 /\ spot.raises = <<>> -> "rfi"
      [] spot.calls = 0 /\ spot.raises = <<5>> -> "vs_single_rfi"
      [] OTHER -> "none"

Nodes == {<<"rfi", p>> : p \in {"UTG", "HJ", "CO", "BTN", "SB"}}
           \cup {<<"vs_single_rfi", p>> : p \in {"HJ", "CO", "BTN", "SB", "BB"}}

\* PolicyArtifact.match: nothing outside _coverage_miss and the nodes
Covered(spot) == /\ spot.size = 6 /\ spot.preflop /\ spot.deep
                 /\ <<Prefix(spot), spot.position>> \in Nodes
RaiseTo(spot) == IF Prefix(spot) = "rfi" THEN 5 ELSE 18

Freqs(call, fold, raise) == [call |-> call, fold |-> fold, raise |-> raise]
Frequencies(spot, ordinal) ==
    LET open == [UTG |-> 21, HJ |-> 19, CO |-> 17, BTN |-> 14, SB |-> 16, BB |-> 0][spot.position]
        shift == [HJ |-> 3, CO |-> 2, BTN |-> 0, SB |-> 1, BB |-> -1, UTG |-> 0][spot.position]
    IN  IF Prefix(spot) = "rfi"
        THEN CASE ordinal >= open + 6 -> Freqs(0, 0, 20)
               [] ordinal \in open .. open + 5 -> Freqs(0, 9, 11)
               [] OTHER -> Freqs(0, 20, 0)
        ELSE CASE ordinal >= 27 + shift -> Freqs(6, 0, 14)
               [] ordinal \in 22 + shift .. 26 + shift -> Freqs(8, 6, 6)
               [] ordinal \in 17 + shift .. 21 + shift -> Freqs(11, 9, 0)
               [] OTHER -> Freqs(0, 20, 0)

Support(freqs) == {a \in DOMAIN freqs : freqs[a] > 0}

\* _sample_action over the sorted actions; the draw may round up to one (20)
Sample(freqs, draw) == CASE draw < freqs["call"] -> "call"
                         [] draw \in freqs["call"] .. freqs["call"] + freqs["fold"] - 1 -> "fold"
                         [] OTHER -> "raise"

PolicyChoice(menu, spot, action) ==
    Choice(action, CASE action = "raise" -> RaiseTo(spot)
                     [] action = "call" /\ "call" \in DOMAIN menu -> menu["call"].min
                     [] OTHER -> 0)

\* _node_is_legal: every action with a frequency can be played as the tree says
NodeIsLegal(menu, spot, freqs) == \A a \in Support(freqs) : Admits(menu, PolicyChoice(menu, spot, a))

-----------------------------------------------------------------------------
VARIABLES menu, pot, strength, spot, ordinal, provider,  \* what decide is called with
          stage,      \* "primary", "fallback", "done" or "cancelled"
          attempts,   \* the attempts recorded so far
          decision    \* the decision returned

given == <<menu, pot, strength, spot, ordinal, provider>>
botVars == <<given, stage, attempts, decision>>

NoDecision == [by |-> "none", degraded |-> FALSE, action |-> "fold", amount |-> 0]
Decision(c, by, degraded) == [by |-> by, degraded |-> degraded, action |-> c.action, amount |-> c.amount]
Attempt(by, status) == [by |-> by, status |-> status]

Returns(c, by, degraded, tries) ==
    /\ stage' = "done"
    /\ decision' = Decision(c, by, degraded)
    /\ attempts' = Append(tries, Attempt(by, "success"))
    /\ UNCHANGED given

FallsBack(tries) == /\ stage' = "fallback"
                    /\ attempts' = tries
                    /\ UNCHANGED <<given, decision>>

\* mutant: takes the provider's word for it
Checked_Trusting(c, degraded, tries) == Returns(c, provider, degraded, tries)
\* _require_legal of the provider's answer
Checked(c, degraded, tries) ==
    IF Admits(menu, c)
    THEN Returns(c, provider, degraded, tries)
    ELSE FallsBack(Append(tries, Attempt(provider, "invalid_action")))

LocalAnswer ==
    /\ stage = "primary"
    /\ \/ provider = "fixed" /\ Checked(FixedChoice(menu), FALSE, <<>>)
       \/ /\ provider \in {"cautious", "balanced", "aggressive"}
          /\ Checked(ProfileChoice(provider, menu, strength, pot), FALSE, <<>>)

\* PolicyArtifactBot.decide: a covered spot, or the balanced profile, degraded
PolicyAnswer ==
    /\ stage = "primary" /\ provider = "theory"
    /\ LET freqs == Frequencies(spot, ordinal)
           balanced == Checked(ProfileChoice("balanced", menu, strength, pot), TRUE,
                               <<Attempt("theory", "policy_fallback")>>)
       IN  IF ~Covered(spot) \/ ~NodeIsLegal(menu, spot, freqs)
           THEN balanced
           ELSE \E draw \in 0 .. 20 :
                   LET c == PolicyChoice(menu, spot, Sample(freqs, draw))
                   IN  IF Admits(menu, c) THEN Checked(c, FALSE, <<>>) ELSE balanced

ExternalAnswer == /\ stage = "primary" /\ provider = "external"
                  /\ \E c \in Choices : Checked(c, FALSE, <<>>)
ExternalFails == /\ stage = "primary" /\ provider = "external"
                 /\ \E s \in {"timeout", "exception"} : FallsBack(<<Attempt(provider, s)>>)

\* the fallback provider; a configured one may fail as well
FallbackAnswers == /\ stage = "fallback"
                   /\ Returns(FixedChoice(menu), "fallback", TRUE, attempts)

Emergency == Returns(FixedChoice(menu), "emergency", TRUE, Append(attempts, Attempt("fallback", "exception")))
FallbackFails == stage = "fallback" /\ Emergency

\* the request the decision is made for goes away
Cancel == /\ stage \in {"primary", "fallback"} /\ provider = "external"
          /\ stage' = "cancelled"
          /\ UNCHANGED <<given, attempts, decision>>

\* each provider is given what it reads; the rest is fixed
BotInit ==
    /\ provider \in Providers
    /\ menu \in BotMenus
    /\ pot \in Pots
    /\ strength \in Strengths
    /\ spot \in Spots
    /\ ordinal \in Ordinals
    /\ provider # "theory" => spot = (CHOOSE s \in Spots : TRUE) /\ ordinal = (CHOOSE o \in Ordinals : TRUE)
    /\ provider \notin {"theory", "balanced"} => pot = (CHOOSE p \in Pots : TRUE) /\ strength = (CHOOSE s \in Strengths : TRUE)
    /\ stage = "primary" /\ attempts = <<>> /\ decision = NoDecision

BotNext == \/ LocalAnswer \/ PolicyAnswer \/ ExternalAnswer \/ ExternalFails
        \/ FallbackAnswers \/ FallbackFails \/ Cancel
BotSpec == BotInit /\ [][BotNext]_botVars

-----------------------------------------------------------------------------
DecisionTyped ==
    /\ stage \in {"primary", "fallback", "done", "cancelled"}
    /\ decision.action \in BotActions /\ decision.amount \in Nat
    /\ \A i \in 1 .. Len(attempts) : attempts[i].status \in Statuses
    /\ stage = "done" <=> decision # NoDecision

\* Whatever the provider and the fallback do, the decision is one of the legal
\* actions ("always return a legal action", BotRuntime).
AlwaysLegal == stage = "done" => Admits(menu, decision)

\* A decision is marked degraded exactly when some attempt failed, and every
\* action that is not the asked provider's own is; the last attempt is the one
\* that was played, by the provider the decision names (_finalize,
\* BotDecisionV1.validate_decision).
HonestProvenance ==
    stage = "done" =>
        LET last == attempts[Len(attempts)] IN
        /\ decision.degraded <=> \E i \in 1 .. Len(attempts) : attempts[i].status # "success"
        /\ decision.by # provider => decision.degraded
        /\ last = Attempt(decision.by, "success")

\* The in-process providers always choose a legal action themselves: the table
\* needs the runtime's fallback only for a provider of another kind.
LocalsNeedNoFallback == provider \in Local => stage # "fallback"

\* A theory bot that is not degraded plays an action of its table with a
\* positive frequency, in a spot the artifact covers: at most one raise, to 2.5
\* big blinds, no caller, 100 big blinds deep (unless the draw rounds to one).
PolicyPlaysItsTable ==
    (provider = "theory" /\ stage = "done" /\ ~decision.degraded) =>
        /\ spot.calls = 0 /\ spot.deep /\ spot.preflop /\ spot.raises \in {<<>>, <<5>>}
        /\ decision.action \in Support(Frequencies(spot, ordinal)) \cup {"raise"}
        /\ decision.action = "raise" => decision.amount = RaiseTo(spot)

\* Whoever answers, late, badly or not at all, the table gets a legal action and
\* a true account of where it came from.
BotsSound == DecisionTyped /\ AlwaysLegal /\ HonestProvenance /\ LocalsNeedNoFallback /\ PolicyPlaysItsTable
=============================================================================
