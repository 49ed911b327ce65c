----------------------------- MODULE TableReads -----------------------------
(***************************************************************************)
(* The read-only endpoints of a continuous table: the projection itself    *)
(* and the advice (insights, advisor, theory, solver, reconciliation) that *)
(* a client asks for by the hand and the fingerprint of a projection.  A   *)
(* request reads the session, projects the hand, compares the fingerprint, *)
(* and reads the hand's events again; the advice is computed from that     *)
(* second read.  Another worker may play on in between.                    *)
(*                                                                         *)
(* A fingerprint hashes the whole projection: it is the session's revision,*)
(* hand and activity and the number of batches projected.                  *)
(***************************************************************************)
EXTENDS Integers, Sequences, FiniteSets

CONSTANTS Endpoints,   \* the endpoints clients use
          Seats,       \* the seats of the table
          HeroMenus,   \* legal actions a hero may have
          MaxDealt,    \* bound: hands of the table
          MaxEvents    \* bound: batches of a hand and hands before it, together

Actions == {"fold", "check", "call", "bet", "raise"}

\* What an instance assumes of its constants.
ReadsAssumption ==
    /\ MaxDealt \in Nat \ {0} /\ MaxEvents \in Nat /\ MaxEvents > MaxDealt
    /\ Endpoints \subseteq {"insights", "advisor", "theory", "solver", "reconciliation"}
    /\ IsFiniteSet(Seats) /\ {} \notin HeroMenus /\ \A m \in HeroMenus : m \subseteq Actions

Dealt == 1 .. MaxDealt
\* what a batch leaves: who is to act, the hero's menu, the seats not folded
Situation == [turn : {"hero", "bot", "over"}, legal : HeroMenus \cup {{}}, live : SUBSET Seats]

VARIABLES
    session,   \* game_sessions: revision, hand and whether it is active
    batches,   \* batches[h]: the batches of hand h
    at,        \* the request: "idle", "recovered", "projected"
    asked,     \* its kind, hand and fingerprint
    recovered, \* the session it recovered
    cur,       \* the projection it compared with
    answer,    \* the advice given last
    shown,     \* hand and seats whose cards a projection revealed last
    raced      \* history: whether a batch came between the last request's two reads

readVars == <<session, batches, at, asked, recovered, cur, answer, shown, raced>>
tableVars == <<session, batches>>
requestVars == <<at, asked, recovered, cur, answer, shown>>

Last(es) == es[Len(es)]
Finished(es) == es # <<>> /\ Last(es).turn = "over"
Projection(se) == [rev |-> se.rev, hand |-> se.hand, active |-> se.active,
                   seq |-> Len(batches[se.hand])]
\* revealed_hole_cards
Revealed(es) == IF Finished(es) /\ Cardinality(Last(es).live) >= 2 THEN Last(es).live ELSE {}
HeroLegal(es) == IF es # <<>> /\ Last(es).turn = "hero" THEN Last(es).legal ELSE {}

\* the events advice is computed from: the second read of the projected hand
Observed == batches[cur.hand]

FirstSession == [rev |-> 1, hand |-> 1, active |-> TRUE]
Start == [rev |-> 1, hand |-> 1, active |-> TRUE, seq |-> 0]
NothingAsked == [kind |-> "none", about |-> Start]
NoAnswer == [kind |-> "none", about |-> Start, seq |-> 0, ready |-> FALSE, legal |-> {}, pick |-> {}]

(***************************************************************************)
(* The table plays: another worker appends, completes and starts hands.    *)
(***************************************************************************)
\* live seats never come back; a hand is over when one is left, or at a showdown
Continues(es) == {b \in Situation : /\ b.turn = "hero" <=> b.legal # {}
                                    /\ b.live # {}
                                    /\ es = <<>> => b.live = Seats /\ b.turn # "over"
                                    /\ es # <<>> => b.live \subseteq Last(es).live
                                    /\ Cardinality(b.live) = 1 => b.turn = "over"
                                    /\ Len(es) + session.hand = MaxEvents => b.turn = "over"}
Play == /\ session.active /\ ~Finished(batches[session.hand])
        /\ \E b \in Continues(batches[session.hand]) :
              batches' = [batches EXCEPT ![session.hand] = Append(@, b)]
        /\ raced' = (raced \/ (at = "projected" /\ cur.hand = session.hand))
        /\ UNCHANGED <<session, requestVars>>

\* complete_active_hand, when the terminal event is durable
Completed(se, es) == IF se.active /\ Finished(es) THEN [se EXCEPT !.rev = @ + 1, !.active = FALSE] ELSE se
Complete == /\ session.active /\ Finished(batches[session.hand])
            /\ session' = Completed(session, batches[session.hand])
            /\ UNCHANGED <<batches, requestVars, raced>>

NextHand == /\ ~session.active /\ session.hand < MaxDealt
            /\ session' = [rev |-> session.rev + 1, hand |-> session.hand + 1, active |-> TRUE]
            /\ UNCHANGED <<batches, requestVars, raced>>

(***************************************************************************)
(* A request.                                                              *)
(***************************************************************************)
Idle == at' = "idle" /\ asked' = NothingAsked /\ recovered' = FirstSession /\ cur' = Start

\* _recover: the session, its hand completed first if the events say so; insights
\* are asked for without a fingerprint
Recovers(kind, about) ==
    /\ at = "idle"
    /\ kind = "insights" => about = Start
    /\ session' = Completed(session, batches[session.hand])
    /\ recovered' = session'
    /\ asked' = [kind |-> kind, about |-> about]
    /\ at' = "recovered"
    /\ answer' = NoAnswer /\ shown' = <<1, {}>> /\ raced' = FALSE
    /\ UNCHANGED <<batches, cur>>

\* mutant: compares the handId only
Matches_HandOnly(p, about) == p.hand = about.hand
\* handId and decisionFingerprint of the request
Matches(p, about) == p = about

Compares == /\ asked.kind # "insights" => Matches(Projection(recovered), asked.about)
            /\ asked.kind = "solver" => recovered.active
            /\ batches[recovered.hand] # <<>>
\* _projection, read at this moment; the solver asks for an active hand,
\* insights for whatever is current
Projects == /\ at = "recovered" /\ Compares
            /\ asked' = IF asked.kind = "insights"
                        THEN [asked EXCEPT !.about = Projection(recovered)] ELSE asked
            /\ cur' = Projection(recovered)
            /\ at' = "projected"
            /\ shown' = <<recovered.hand, Revealed(batches[recovered.hand])>>
            /\ UNCHANGED <<tableVars, recovered, answer, raced>>

\* stale_decision, or a hand without events
Refuse == /\ at = "recovered" /\ ~Compares
          /\ Idle
          /\ UNCHANGED <<tableVars, answer, shown, raced>>

Given(ready, legal, pick) ==
    answer' = [kind |-> asked.kind, about |-> asked.about, seq |-> Len(Observed),
               ready |-> ready, legal |-> legal, pick |-> pick]

\* not the hero's decision, or the hand is over
NotReady == /\ at = "projected"
            /\ HeroLegal(Observed) = {}
            /\ Given(FALSE, {}, {})
            /\ Idle
            /\ UNCHANGED <<tableVars, shown, raced>>

\* _advisor_projection_fallback
Preferred(menu) == CASE "check" \in menu -> "check"
                     [] "check" \notin menu /\ "call" \in menu -> "call"
                     [] OTHER -> CHOOSE a \in menu : TRUE

\* the observation of the second read is judged; a judgement is some legal action
Advise == /\ at = "projected"
          /\ LET menu == HeroLegal(Observed) IN
             /\ menu # {}
             /\ \E a \in menu : Given(TRUE, menu, {a})
          /\ Idle
          /\ UNCHANGED <<tableVars, shown, raced>>

\* build_observation fails: the advisor falls back to the projected actions,
\* theory and reconciliation have nothing to say
ObservationFails ==
    /\ at = "projected"
    /\ HeroLegal(Observed) # {}
    /\ \/ /\ asked.kind = "advisor"
          /\ LET menu == HeroLegal(SubSeq(Observed, 1, cur.seq)) IN
             \/ menu # {} /\ Given(TRUE, menu, {Preferred(menu)})
             \/ menu = {} /\ UNCHANGED answer  \* legal[0] raises
       \/ asked.kind \in {"theory", "reconciliation"} /\ Given(FALSE, {}, {})
       \/ asked.kind \in {"insights", "solver"} /\ UNCHANGED answer
    /\ Idle
    /\ UNCHANGED <<tableVars, shown, raced>>

\* the projections there have been: revisions alternate between an active hand
\* and its completion
AtRevision(r, n) == [rev |-> r, hand |-> (r + 1) \div 2, active |-> r % 2 = 1, seq |-> n]
Fingerprints == UNION {{AtRevision(r, n) : n \in 0 .. Len(batches[(r + 1) \div 2])} :
                         r \in 1 .. session.rev}

ReadsInit == /\ session = FirstSession
             /\ batches = [h \in Dealt |-> <<>>]
             /\ at = "idle" /\ asked = NothingAsked /\ recovered = FirstSession /\ cur = Start
             /\ answer = NoAnswer /\ shown = <<1, {}>> /\ raced = FALSE

\* clients ask with the fingerprint of a projection they once got: of the
\* current state, or of an earlier one
ReadsNext == \/ Play \/ Complete \/ NextHand
             \/ \E kind \in Endpoints, about \in Fingerprints : Recovers(kind, about)
             \/ Projects \/ Refuse \/ NotReady \/ Advise \/ ObservationFails

ReadsSpec == ReadsInit /\ [][ReadsNext]_readVars

(***************************************************************************)
(* Properties.                                                             *)
(***************************************************************************)
\* Every variable keeps its type.
ReadsTyped == /\ session \in [rev : Nat, hand : Dealt, active : BOOLEAN]
              /\ \A h \in Dealt : batches[h] \in Seq(Situation)
              /\ at \in {"idle", "recovered", "projected"}
              /\ answer.legal \subseteq Actions /\ answer.pick \subseteq Actions

\* Advice belongs to one hero decision of the hand it was asked about, not
\* earlier than the one asked about, and recommends what is legal there,
\* however much was played between the two reads.  (The advisor's fallback
\* takes the projected actions: this holds for it if nothing was.)
AdviceIsOfOneDecision ==
    answer.ready /\ (answer.kind # "advisor" \/ answer.seq = answer.about.seq) =>
        LET b == batches[answer.about.hand][answer.seq] IN
        /\ answer.seq >= answer.about.seq
        /\ b.turn = "hero" /\ answer.legal = b.legal
        /\ answer.pick \subseteq b.legal

\* The advice is about the decision whose fingerprint the client sent: the
\* actions weighed are those of that moment.
AdviceIsOfTheFingerprint ==
    answer.ready => /\ answer.seq = answer.about.seq
                    /\ answer.legal = batches[answer.about.hand][answer.about.seq].legal

\* A projection reveals the cards of a hand that went to a showdown, of seats
\* that were still in it: never those of a running hand, of a folded seat or
\* of a winner everyone else folded to.
CardsShowAtShowdown ==
    shown[2] # {} => /\ Finished(batches[shown[1]])
                     /\ Cardinality(shown[2]) > 1
                     /\ \A i \in 1 .. Len(batches[shown[1]]) : shown[2] \subseteq batches[shown[1]][i].live

\* However the table plays on while a request reads: advice of one decision, of
\* the very one asked about when no batch came between the two reads, and cards
\* of a showdown only.
ReadsAgree ==
    /\ ReadsTyped /\ AdviceIsOfOneDecision /\ CardsShowAtShowdown
    /\ ~raced => AdviceIsOfTheFingerprint
=============================================================================
