---------------------------- MODULE SessionRules ----------------------------
(***************************************************************************)
(* The GameSession aggregate of simulator/session.py as operators: a       *)
(* session is an immutable value and a transition returns its replacement. *)
(* A transition is the SET of its possible results, empty when the code    *)
(* raises, a singleton otherwise.                                          *)
(*                                                                         *)
(* Hand ids are "<session>:hand:<n>", so a hand is its number n.  The      *)
(* active hand's snapshot keeps its seats but not their starting stacks:   *)
(* no transition touches the seats' stacks while a hand is active, so they *)
(* are the session's.                                                      *)
(***************************************************************************)
EXTENDS HandRules

CONSTANTS StartingStack,  \* configuration.starting_stack
          SittingOut,     \* seats that take no part (SessionSeatV1.sitting_out)
          NoHand          \* active_hand is None

ActiveHand == [hand : Nat, button : Seats, seats : SUBSET Seats]

ASSUME SessionAssumption ==
    /\ StartingStack \in Nat \ {0} /\ StartingStack >= BigBlind
    /\ SittingOut \subseteq Seats /\ Cardinality(Seats \ SittingOut) >= 2
    /\ NoHand \notin ActiveHand

Rebuy == [hand : Nat, seat : Seats, before : Nat]
Session == [button : Seats, stacks : [Seats -> Nat], handSequence : Nat,
            completed : Seq(Nat), active : ActiveHand \cup {NoHand},
            rebuys : SUBSET Rebuy]

Participating(stacks) == {s \in Seats \ SittingOut : stacks[s] > 0}

(***************************************************************************)
(* validate_session_ownership: what pydantic re-validates on every         *)
(* transition.                                                             *)
(***************************************************************************)
ValidSession(se) ==
    /\ se.button \in Participating(se.stacks)
    /\ se.completed = [i \in 1 .. Len(se.completed) |-> i]
    /\ se.handSequence = Len(se.completed) + IF se.active = NoHand THEN 0 ELSE 1
    /\ se.active # NoHand => /\ se.active.hand = se.handSequence
                             /\ se.active.button = se.button
                             /\ se.active.button \in se.active.seats
    /\ \A r1, r2 \in se.rebuys : r1.hand = r2.hand /\ r1.seat = r2.seat => r1 = r2
    /\ \A r \in se.rebuys : r.hand <= se.handSequence + 1

Short(stacks) == {s \in Seats \ SittingOut : stacks[s] < BigBlind}
Refilled(stacks) == [s \in Seats |-> IF s \in Short(stacks) THEN StartingStack ELSE stacks[s]]
AutoRebuys(se, stacks) == {[hand |-> se.handSequence + 1, seat |-> s, before |-> stacks[s]]
                             : s \in Short(stacks)}

\* cash rebuys are a tuple: repeating a (hand, seat) fails validation
NewRebuys(se, stacks) ==
    \A r \in se.rebuys, n \in AutoRebuys(se, stacks) : <<r.hand, r.seat>> # <<n.hand, n.seat>>

Created(button) ==
    [button |-> button, stacks |-> [s \in Seats |-> StartingStack], handSequence |-> 0,
     completed |-> <<>>, active |-> NoHand, rebuys |-> {}]

\* the next participating seat after the button, as the loop finds it
NextButtons(se, stacks) ==
    {b \in Participating(stacks) : b = FirstAfter(se.button, Participating(stacks))}

MayStart(se) ==
    /\ se.active = NoHand /\ NewRebuys(se, se.stacks)
    /\ Cardinality(Participating(Refilled(se.stacks))) >= 2

StartedNext(se) ==
    LET stacks == Refilled(se.stacks)
        hand   == [hand |-> se.handSequence + 1, button |-> se.button,
                   seats |-> Participating(stacks)]
    IN  {t \in {[button |-> se.button, stacks |-> stacks, handSequence |-> hand.hand,
                 completed |-> se.completed, active |-> hand,
                 rebuys |-> se.rebuys \cup AutoRebuys(se, se.stacks)]} :
            MayStart(se)}

\* complete_active_hand(hand, ending): ending stacks must be those of the
\* hand's seats, non-negative and conserve the opening chips
Settled(se, ending) == [s \in Seats |-> IF s \in DOMAIN ending THEN ending[s] ELSE se.stacks[s]]

SettledStacks_Unfilled(se, ending) == Settled(se, ending)   \* mutant: rebuys only on paper
SettledStacks(se, ending) == Refilled(Settled(se, ending))

CompletedBy(se, hand, ending) ==
    {[button |-> b, stacks |-> SettledStacks(se, ending), handSequence |-> se.handSequence,
      completed |-> Append(se.completed, se.active.hand), active |-> NoHand,
      rebuys |-> se.rebuys \cup AutoRebuys(se, Settled(se, ending))] :
        b \in {b \in NextButtons(se, SettledStacks(se, ending)) :
                 /\ se.active # NoHand
                 /\ se.active.hand = hand
                 /\ DOMAIN ending = se.active.seats
                 /\ \A s \in DOMAIN ending : ending[s] \in Nat
                 /\ SumFunction(ending) = SumFunctionOnSet(se.stacks, se.active.seats)
                 /\ NewRebuys(se, Settled(se, ending))}}

\* the opening facts a durable hand must have been started with
OpeningFacts(se) == [button |-> se.active.button, stacks |-> se.stacks, active |-> se.active.seats]

=============================================================================
