----------------------------- MODULE PhhExchange -----------------------------
(***************************************************************************)
(* simulator/phh.py: a completed hand written out as a PHH text, with the  *)
(* seats' cards ("authoritative_archive") or without ("public"), and read  *)
(* back.  A text is [stacks, actions, finishing, winnings, saved]: stacks  *)
(* by player number, the results by active seat, and the riverline_*       *)
(* fields: the hand's facts, seed and one entry for each of its events, or *)
(* nothing in a text another program wrote.                                *)
(*                                                                         *)
(* PokerKit's parser is external: player 1 is the seat after the button,   *)
(* the hand has the stacks the text gives its players, and a text with an  *)
(* action that is not legal in that hand is refused.  A text without hole  *)
(* cards is accepted (test_phh_codec.py exports one), and a showdown is    *)
(* not run.  Ids, times and provenance are left out.                       *)
(***************************************************************************)
EXTENDS HandTape

CONSTANT NotOurs      \* the extension fields of a foreign text

Forms == {"archive", "public", "foreign"}

VARIABLE import       \* what each kind of text of the finished hand came back as
phhVars == <<tapeVars, import>>

(***************************************************************************)
(* Players.  The text numbers them from the seat after the button.         *)
(***************************************************************************)
PlayersOf(f) == SetToSortSeq(f.active, LAMBDA s, t : Ahead(f.button, s) < Ahead(f.button, t))
PlayerOf(f, s) == CHOOSE p \in DOMAIN PlayersOf(f) : PlayersOf(f)[p] = s

Op(name, p, amount) == [op |-> name, player |-> p, amount |-> amount]

\* another program writes every size as the standard has it, as the street's total
TotalOf(t, k) ==
    LET f == t[1].facts
        i == t[k].intent
    IN  Applies(ScenarioOf(f, SubSeq(t, 1, k - 1), f.active), t[1].seed).state.bet[i.seat] + i.amount

PhhAction(t, k, form) ==
    LET f == t[1].facts
        p == t[k]
    IN  CASE IsHole(p)  -> Op("dh", PlayerOf(f, p.seat), 0)
          [] IsBoard(p) -> Op("db", 0, 0)
          [] OTHER ->
                LET player == PlayerOf(f, p.intent.seat)
                IN  CASE p.intent.action = "fold" -> Op("f", player, 0)
                      [] p.intent.action \in {"check", "call"} -> Op("cc", player, 0)
                      [] p.intent.action = "bet" /\ form = "foreign" -> Op("cbr", player, TotalOf(t, k))
                      [] OTHER -> Op("cbr", player, p.intent.amount)

\* the places of the payloads that are written
Written(t, form) ==
    SelectSeq([k \in 1 .. Len(t) |-> k],
              LAMBDA k : IsTaken(t[k]) \/ IsBoard(t[k]) \/ (form # "public" /\ IsHole(t[k])))

\* the stacks line: by active seat in our own texts, by player in a foreign one
StacksLine(f, form) ==
    LET seats == IF form = "foreign" THEN PlayersOf(f) ELSE SortedActive(f)
    IN  [k \in DOMAIN seats |-> f.stacks[seats[k]]]

(***************************************************************************)
(* PokerKit reads a text: the state after each action, as a set that is    *)
(* empty from the first illegal one on.                                    *)
(***************************************************************************)
TextFacts(f, text) ==
    [f EXCEPT !.stacks = [s \in Seats |-> IF s \in f.active THEN text.stacks[PlayerOf(f, s)] ELSE 0]]

ReadAction(f, st, a) ==
    LET s == PlayersOf(f)[a.player]
    IN  CASE a.op = "dh" -> {st}
          [] a.op = "db" -> IF AwaitsBoard(st) THEN {Dealt(st)} ELSE {}
          [] Actor(st) # s -> {}
          [] a.op = "f"  -> {Acted(st, [seat |-> s, action |-> "fold", amount |-> 0])}
          [] a.op = "cc" -> {Acted(st, MoveOf(st, [type |-> "call", seat |-> s]))}
          [] a.op = "cbr" /\ a.amount \in RaiseTo(st, s) ->
                {Acted(st, MoveOf(st, [type |-> "raise_to", seat |-> s, amount |-> a.amount]))}
          [] OTHER -> {}

\* (the choice from a singleton binds a sequence to its value, as in StateOf)
StatesOf(f, text) ==
    LET upTo[k \in 0 .. Len(text.actions)] ==
            IF k = 0 THEN <<{Opened(TextFacts(f, text))}>>
            ELSE CHOOSE r \in {Append(before, UNION {ReadAction(f, st, text.actions[k]) : st \in Last(before)}) :
                                  before \in {upTo[k - 1]}} : TRUE
    IN  upTo[Len(text.actions)]
Readable(f, text) == Last(StatesOf(f, text)) # {}
StateAfter(at, k) == CHOOSE st \in at[k + 1] : TRUE

(***************************************************************************)
(* export: the text, or nothing where PokerKit cannot read what it wrote.  *)
(***************************************************************************)
TextOf(t, form) ==
    LET f       == t[1].facts
        seats   == SortedActive(f)
        settled == SettledFrom(f, table, t[1].seed).stacks
    IN  [stacks    |-> StacksLine(f, form),
         actions   |-> LET w == Written(t, form)
                      IN  [n \in DOMAIN w |-> PhhAction(t, w[n], form)],
         finishing |-> [k \in DOMAIN seats |-> settled[seats[k]]],
         winnings  |-> [k \in DOMAIN seats |-> PushedTo(f, table, t[1].seed, seats[k])],
         saved     |-> IF form = "foreign" THEN NotOurs ELSE t]

(***************************************************************************)
(* import_phh.                                                             *)
(***************************************************************************)
\* A foreign text sits its players around the table in order, button last.
FactsIn(f, text) ==
    IF text.saved # NotOurs THEN text.saved[1].facts
    ELSE [f EXCEPT !.button = Max(f.active),
                   !.stacks = [s \in Seats |-> IF s \in f.active
                                 THEN text.stacks[CHOOSE k \in DOMAIN text.stacks : SortedActive(f)[k] = s]
                                 ELSE 0]]

\* the entry saved for the payload that comes next
Entry(text, k) ==
    IF text.saved # NotOurs /\ k < Len(text.saved) THEN text.saved[k + 1] ELSE NotOurs

\* _payload_from_phh_action: a call's cost is what its player's stack lost since
\* the action before, and before the first action since the text's stacks
CostOf(f, text, at, k, s) ==
    (IF k = 1 THEN TextFacts(f, text).stacks ELSE StateAfter(at, k - 1).stack)[s]
      - StateAfter(at, k).stack[s]

PayloadOf_By(f, text, at, k) ==   \* mutant: a size is read as the chips added
    LET a == text.actions[k]
        s == PlayersOf(f)[a.player]
        Take(action, amount) ==
            Taken([seat |-> s, action |-> action, amount |-> amount], StateAfter(at, k).street)
    IN  CASE a.op = "dh" -> HoleCards(s)
          [] a.op = "db" -> BoardOf(StateAfter(at, k).street)
          [] a.op = "f"  -> Take("fold", 0)
          [] a.op = "cc" -> Take("call", CostOf(f, text, at, k, s))
          [] a.op = "cbr" -> Take("bet", a.amount)
PayloadOf(f, text, at, k) ==
    LET a  == text.actions[k]
        st == StateAfter(at, k)
        s  == PlayersOf(f)[a.player]
        Take(action, amount) == Taken([seat |-> s, action |-> action, amount |-> amount], st.street)
    IN  CASE a.op = "dh" -> HoleCards(s)
          [] a.op = "db" -> BoardOf(st.street)
          [] a.op = "f"  -> Take("fold", 0)
          [] a.op = "cc" -> IF CostOf(f, text, at, k, s) = 0 THEN Take("check", 0)
                            ELSE Take("call", CostOf(f, text, at, k, s))
          [] a.op = "cbr" -> Take("raise", a.amount)

\* _restored_action_payload
Disagrees(p, entry) ==
    /\ IsTaken(p) /\ entry # NotOurs /\ entry.kind = "action_taken"
    /\ entry.intent.seat # p.intent.seat \/ entry.intent.action # p.intent.action
Restored(p, entry) ==
    IF IsTaken(p) /\ entry # NotOurs /\ entry.kind = "action_taken" THEN entry ELSE p

Settles(f, d, st, text) ==
    LET seats == SortedActive(f)
    IN  \A k \in DOMAIN seats :
            /\ text.finishing[k] = SettledFrom(f, st, d).stacks[seats[k]]
            /\ text.winnings[k] = PushedTo(f, st, d, seats[k])

Imported(f0, d, text) ==
    LET f     == FactsIn(f0, text)
        at    == StatesOf(f, text)
        n     == Len(text.actions)
        raw   == [k \in 1 .. n |-> PayloadOf(f, text, at, k)]
        ps    == [k \in 1 .. n |-> Restored(raw[k], Entry(text, k))]
        shown == {ps[k].seat : k \in {j \in 1 .. n : IsHole(ps[j])}}
        end   == Replayed(ScenarioOf(f, ps, shown), d)
        done  == [kind |-> "hand_completed", winners |-> SettledFrom(f, end.state, d).winners]
    IN  CASE Last(at) = {}                                 -> [error |-> "invalid_phh"]
          [] \E k \in 1 .. n : Disagrees(raw[k], Entry(text, k)) -> [error |-> "provenance_extension_mismatch"]
          [] end.error # NoError                           -> [error |-> "authoritative_replay_rejected"]
          [] InProgress(end.state)                         -> [error |-> "incomplete_hand"]
          [] ~Settles(f, d, end.state, text)               -> [error |-> "settlement_mismatch"]
          [] Cardinality(end.state.live) > 1 /\ ~(end.state.live \subseteq shown)
                                                           -> [error |-> "insufficient_hole_cards"]
          [] OTHER -> [error |-> NoError,
                       hand |-> <<[kind |-> "hand_started", facts |-> f, seed |-> d]>>
                                  \o ps \o <<done>>]

\* a text that export itself cannot read back is never handed out
Exchange(t, form) ==
    LET text == TextOf(t, form)
        f    == t[1].facts
    IN  IF form # "foreign" /\ ~Readable(f, text) THEN [error |-> "phh_serialization_invalid"]
        ELSE Imported(f, t[1].seed, text)

Untried == [error |-> "untried"]
PhhInit == TapeInit /\ import = [form \in Forms |-> Untried]

\* a foreign text has no table but its players': here, everyone with the last on the button
Foreign(f) == f.active = Seats /\ f.button = NSeats - 1

Play == TapeNext /\ UNCHANGED import
Trade ==
    /\ Completed(tape) /\ import["archive"] = Untried
    /\ import' = [form \in Forms |-> IF form = "foreign" /\ ~Foreign(facts) THEN Untried
                                     ELSE Exchange(tape, form)]
    /\ UNCHANGED tapeVars

PhhNext == Play \/ Trade
PhhSpec == PhhInit /\ [][PhhNext]_phhVars

(***************************************************************************)
(* Properties.                                                             *)
(***************************************************************************)
\* (and a text of our own is one PokerKit can read)
PhhOK ==
    /\ tape[1].kind = "hand_started"
    /\ \A form \in Forms : import[form].error \in
          {"untried", NoError, "phh_serialization_invalid", "provenance_extension_mismatch",
           "authoritative_replay_rejected", "incomplete_hand", "settlement_mismatch",
           "insufficient_hole_cards"}

Arrived(form) == import[form].error = NoError
HandIn(form) == import[form].hand

\* what the table was left with by every action of a hand, and who took it
MovesOf(t) ==
    LET played == ScenarioOf(facts, t, facts.active).events
        After1(m, e) == Append(m, [seat |-> e.seat, street |-> e.street, state |-> After(Last(m).state, e)])
    IN  FoldLeft(After1, <<[seat |-> NoSeat, street |-> 0, state |-> Opened(facts)]>>, played)

\* An archive that is read back is the hand it was written from, event for event.
ArchiveIsTheHand == Arrived("archive") => HandIn("archive") = tape

\* Whatever comes back from any text is the same hand at the table: the same chips,
\* from the same seats, in the same order, on the same streets, to the same winners.
SameHand ==
    \A form \in Forms : Arrived(form) =>
        /\ Last(HandIn(form)) = Last(tape)
        /\ MovesOf(HandIn(form)) = MovesOf(tape)

EqualStacks == \A s, t \in facts.active : facts.stacks[s] = facts.stacks[t]
HasBet == \E k \in DOMAIN tape : IsTaken(tape[k]) /\ tape[k].intent.action = "bet"

\* Where everyone sat down with the same stack, a hand without bets is archived and
\* restored; the archive of any hand survives where it is from another program.
ArchivesRestore ==
    /\ EqualStacks /\ ~HasBet => import["archive"].error \in {NoError, "untried"}
    /\ import["foreign"].error \in {NoError, "untried"}

\* "PHH supports ... player actions, board deals, completion": every hand can be exported.
EveryHandExports == import["archive"].error # "phh_serialization_invalid"

\* What was exported can be imported: "event -> PHH -> event".
ArchiveComesBack ==
    import["archive"].error \in {NoError, "untried", "phh_serialization_invalid"}

\* "A terminal fold can remain private-card sparse."
FoldsNeedNoCards ==
    Cardinality(table.live) = 1 /\ EqualStacks /\ ~HasBet =>
        import["public"].error \in {NoError, "untried"}

\* A hand that comes back is the hand that went out.
ArchiveSound == PhhOK /\ ArchiveIsTheHand /\ SameHand /\ ArchivesRestore

=============================================================================
