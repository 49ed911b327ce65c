---------------------------- MODULE AtLeastOnce ----------------------------
(***************************************************************************)
(* What the outbox promises to whoever appends an event with intents: each *)
(* recorded message is handed to the dispatch callable at least once       *)
(* before it is settled, and nothing settled is ever forgotten.            *)
(***************************************************************************)
CONSTANTS Messages, Healthy       \* Healthy: the dispatch callable accepts them

VARIABLES recorded, handed, settled

vars == <<recorded, handed, settled>>

Init == recorded = {} /\ handed = {} /\ settled = {}

Record(S) ==
  /\ S \subseteq Messages \ recorded
  /\ recorded' = recorded \union S
  /\ UNCHANGED <<handed, settled>>

Hand(m) ==
  /\ m \in recorded
  /\ handed' = handed \union {m}
  /\ UNCHANGED <<recorded, settled>>

Settle(m) ==
  /\ m \in handed
  /\ settled' = settled \union {m}
  /\ UNCHANGED <<recorded, handed>>

Next == \/ \E S \in SUBSET Messages : Record(S)
        \/ \E m \in Messages : Hand(m) \/ Settle(m)

Safe == Init /\ [][Next]_vars

\* What is recorded and healthy is handed over and settled in the end.
Arrives == \A m \in Healthy : m \in recorded ~> m \in settled

Spec == Safe /\ Arrives
=============================================================================
