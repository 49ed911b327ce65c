------------------------- MODULE MCGameOrchestrator -------------------------
(***************************************************************************)
(* Instances of GameOrchestrator for TLC: heads-up hands at a scaled-down  *)
(* table (blinds 1 and 2, stacks of 4, so an open raise is all-in).        *)
(***************************************************************************)
EXTENDS GameOrchestrator, TLC

CONSTANTS MaxExpected

\* seat 0 holds the best hand of an odd seed, the last seat that of an even one
MCStrength == [d \in Seeds |-> [s \in Seats |-> IF d % 2 = 1 THEN NSeats - s ELSE s + 1]]

MCIntents == {i \in [seat : Seats, action : Actions, amount : {0, 1, 2, 4}] :
                \/ i.action \in {"fold", "check"} /\ i.amount = 0
                \/ i.action = "call" /\ i.amount \in {1, 2}
                \/ i.action = "raise" /\ i.amount = 4}

MCRequests ==
    [kind : {"open"}, id : Ids, hand : Hands, expected : {0}, seed : Seeds]
    \cup [kind : {"act"}, id : Ids, hand : Hands, expected : 3 .. MaxExpected, intent : MCIntents]

Symmetric == Permutations(Ids) \cup Permutations(Procs)

=============================================================================
