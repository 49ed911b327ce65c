----------------------------- MODULE HandStats -----------------------------
(***************************************************************************)
(* The statistics projected from a hand's actions: project_hand_stats of   *)
(* simulator/session_stats.py (the session statistics) and                 *)
(* _project_statistics of simulator/replay.py (the replay of one hand),    *)
(* evaluated on every sequence of actions that HandPlay can produce.       *)
(***************************************************************************)
EXTENDS HandPlay

VARIABLE taken    \* the ActionTaken events of the hand so far

statsVars == <<facts, table, seed, taken>>

StatsInit == PlayInit /\ taken = <<>>

Taken(i) == [seat |-> i.seat, street |-> table.street, action |-> i.action]

StatsNext == \/ \E i \in Intents : Act(i) /\ taken' = Append(taken, Taken(i))
             \/ (Deal \/ Over) /\ UNCHANGED taken

StatsSpec == StatsInit /\ [][StatsNext]_statsVars

-----------------------------------------------------------------------------
(* session_stats.py *)

Preflop == {i \in DOMAIN taken : taken[i].street = 0}
IsRaise(i) == taken[i].action \in {"bet", "raise"}
Raises == {i \in Preflop : IsRaise(i)}

Open == Min(Raises)     \* the opening raise, where there is one
AfterOpen == {i \in Preflop : Raises # {} /\ i > Open /\ taken[i].seat # taken[Open].seat}

SeatsOf(I) == {taken[i].seat : i \in I}

Voluntary == SeatsOf({i \in Preflop : taken[i].action \in {"call", "bet", "raise"}})

\* Any raise of another seat after the open counts, not only the first.
ThreeBets == SeatsOf({i \in AfterOpen : IsRaise(i)})

Opportunities == SeatsOf(AfterOpen)

Counts(s) ==
  [dealt |-> s \in facts.active, played |-> s \in SeatsOf(DOMAIN taken),
   vpip |-> s \in Voluntary, pfr |-> s \in SeatsOf(Raises),
   opportunity |-> s \in Opportunities, threeBet |-> s \in ThreeBets]

-----------------------------------------------------------------------------
(* replay.py: one pass with a counter of preflop raises *)

Fresh == [vpip |-> {}, pfr |-> {}, threeBet |-> {}, acted |-> {}, raises |-> 0]

\* mutant: every raise after the first is a three-bet, whosever it is
Counted_AnyLater(acc, a) ==
  LET raise == a.street = 0 /\ a.action \in {"bet", "raise"}
      n     == acc.raises + 1
  IN [acted    |-> acc.acted \union {a.seat},
      vpip     |-> IF a.street = 0 /\ a.action \in {"call", "bet", "raise"}
                   THEN acc.vpip \union {a.seat} ELSE acc.vpip,
      pfr      |-> IF raise THEN acc.pfr \union {a.seat} ELSE acc.pfr,
      threeBet |-> IF raise /\ n >= 2 THEN acc.threeBet \union {a.seat} ELSE acc.threeBet,
      raises   |-> IF raise THEN n ELSE acc.raises]
Counted(acc, a) ==
  LET raise == a.street = 0 /\ a.action \in {"bet", "raise"}
      n     == acc.raises + 1
  IN [acted    |-> acc.acted \union {a.seat},
      vpip     |-> IF a.street = 0 /\ a.action \in {"call", "bet", "raise"}
                   THEN acc.vpip \union {a.seat} ELSE acc.vpip,
      pfr      |-> IF raise THEN acc.pfr \union {a.seat} ELSE acc.pfr,
      threeBet |-> IF raise /\ n = 2 THEN acc.threeBet \union {a.seat} ELSE acc.threeBet,
      raises   |-> IF raise THEN n ELSE acc.raises]

\* what the pass over the actions es has counted at their end
Pass(es) ==
  LET acc[n \in 0 .. Len(es)] == IF n = 0 THEN Fresh ELSE Counted(acc[n - 1], es[n])
  IN  acc[Len(es)]

Replayed == Pass(taken)

-----------------------------------------------------------------------------
(* Properties *)

\* SeatStatsV1's validators never refuse a contribution: nobody has more
\* three-bets than opportunities, raises than voluntary actions, or actions
\* in a hand they were not dealt.
RatesInRange ==
  \A s \in Seats :
    LET c == Counts(s) IN
    /\ c.threeBet => c.opportunity
    /\ c.opportunity => c.played
    /\ c.pfr => c.vpip
    /\ c.vpip => c.played
    /\ c.played => c.dealt

\* Raises of another seat than the opener's with two raises before them: what
\* the session counts as three-bets too, and the replay does not.
FourBets == {i \in AfterOpen : IsRaise(i) /\ \E j, k \in Raises : j < k /\ k < i}

\* The two projections of a hand agree on who played, who put chips in and who
\* raised.  On who three-bet they differ in nothing but the four-bets and later
\* raises: the second raise of the replay is never the opener's own, however
\* long the hand is raised, so the session counts it as well.
ProjectionsAgree ==
  \A s \in Seats :
    LET c == Counts(s) IN
    /\ c.played <=> s \in Replayed.acted
    /\ c.vpip <=> s \in Replayed.vpip
    /\ c.pfr <=> s \in Replayed.pfr
    /\ c.threeBet <=> s \in Replayed.threeBet \union SeatsOf(FourBets)

\* The two projections count a hand soundly and alike.
StatsSound == RatesInRange /\ ProjectionsAgree

\* docs/orchestration/handoffs/F4-01.md:53 "A 3-bet is only the first raise by
\* another seat after the first preflop open raise".
ThreeBetIsFirstReRaise == Cardinality(ThreeBets) <= 1
=============================================================================
