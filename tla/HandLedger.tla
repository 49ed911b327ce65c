----------------------------- MODULE HandLedger -----------------------------
(***************************************************************************)
(* What a game session promises its callers, with no stores and no         *)
(* processes: hands are played one at a time and in order; a command is    *)
(* accepted in one atomic step, at exactly the head it expected, at most   *)
(* once per hand, and only until the hand is closed; a hand is settled     *)
(* into the session once, after it closed and before the next one begins.  *)
(***************************************************************************)
EXTENDS Integers, Sequences

CONSTANTS Ids, MaxHands

VARIABLES accepted,  \* accepted[h]: the commands of hand h, in order of effect
          head,      \* head[h]: events of hand h
          closed,    \* closed[h]: hand h has its completion
          current,   \* the hand the session started last
          settled    \* the hands settled so far

ledger == <<accepted, head, closed, current, settled>>

Init ==
    /\ accepted = [h \in 1 .. MaxHands |-> <<>>]
    /\ head = [h \in 1 .. MaxHands |-> 0]
    /\ closed = [h \in 1 .. MaxHands |-> FALSE]
    /\ current = 1 /\ settled = 0

Accept(id) ==
    /\ settled < current /\ ~closed[current]
    /\ \A i \in 1 .. Len(accepted[current]) : accepted[current][i].id # id
    /\ accepted' = [accepted EXCEPT ![current] =
                        Append(@, [id |-> id, expected |-> head[current]])]
    /\ head'[current] > head[current]
    /\ head' = [head EXCEPT ![current] = head'[current]]
    /\ \E closes \in BOOLEAN : closed' = [closed EXCEPT ![current] = closes]
    /\ UNCHANGED <<current, settled>>

Settle ==
    /\ settled < current /\ closed[current]
    /\ settled' = settled + 1
    /\ UNCHANGED <<accepted, head, closed, current>>

Begin ==
    /\ settled = current /\ current < MaxHands
    /\ current' = current + 1
    /\ UNCHANGED <<accepted, head, closed, settled>>

Next == (\E id \in Ids : Accept(id)) \/ Settle \/ Begin

Spec == Init /\ [][Next]_ledger

=============================================================================
