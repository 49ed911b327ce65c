----------------------- MODULE GameOrchestratorProofs -----------------------
(***************************************************************************)
(* Proofs about GameOrchestrator, for every number of callers, hands,      *)
(* seats, command ids and requests.                                        *)
(***************************************************************************)
EXTENDS GameOrchestrator, GameSession, HandPlayProofs, SequenceTheorems

LEMMA Constants ==
    /\ NSeats \in Nat \ {0} /\ BigBlind \in Nat \ {0}
    /\ MaxHands \in Nat \ {0} /\ Patient \subseteq Procs
    /\ Requests \subseteq OpenCommand \cup ActCommand
    /\ StartingStack \in Nat \ {0} /\ StartingStack >= BigBlind
    /\ SittingOut \subseteq Seats /\ Cardinality(Seats \ SittingOut) >= 2
    /\ NoHand \notin ActiveHand
  BY OrchestratorAssumption, SessionAssumption, HandRulesAssumption

USE Constants

(***************************************************************************)
(* Session transitions stay within the type.                               *)
(***************************************************************************)
LEMMA RefilledType ==
    ASSUME NEW stacks \in [Seats -> Nat]
    PROVE  Refilled(stacks) \in [Seats -> Nat]
  BY DEF Refilled

LEMMA FirstButton == 0 \in Seats
  BY DEF Seats

LEMMA CreatedType == ASSUME NEW b \in Seats PROVE Created(b) \in Session
<1>1. <<>> \in Seq(Nat)
  OBVIOUS
<1>2. QED
  BY <1>1 DEF Created, Session

LEMMA ActiveSeatsFinite ==
    ASSUME NEW se \in Session, se.active # NoHand
    PROVE  Cardinality(se.active.seats) \in Nat
<1>1. IsFiniteSet(Seats)
  BY FS_Interval DEF Seats
<1>2. se.active.seats \in SUBSET Seats
  BY DEF Session, ActiveHand
<1>3. QED
  BY <1>1, <1>2, FS_Subset, FS_CardinalityType

LEMMA RebuysType ==
    ASSUME NEW se \in Session, NEW stacks \in [Seats -> Nat]
    PROVE  se.rebuys \cup AutoRebuys(se, stacks) \in SUBSET Rebuy
<1>1. se.rebuys \in SUBSET Rebuy /\ se.handSequence + 1 \in Nat
  BY DEF Session
<1>2. \A s \in Short(stacks) : s \in Seats /\ stacks[s] \in Nat
  BY DEF Short
<1>3. QED
  BY <1>1, <1>2 DEF AutoRebuys, Rebuy

LEMMA StartedType ==
    ASSUME NEW se \in Session, NEW t \in StartedNext(se)
    PROVE  t \in Session
<1> DEFINE stacks == Refilled(se.stacks)
           hand == [hand |-> se.handSequence + 1, button |-> se.button,
                    seats |-> Participating(stacks)]
<1>1. stacks \in [Seats -> Nat]
  BY RefilledType DEF Session
<1>2. hand \in ActiveHand
  BY DEF ActiveHand, Session, Participating
<1>3. se.rebuys \cup AutoRebuys(se, se.stacks) \in SUBSET Rebuy
  BY RebuysType DEF Session
<1>4. t = [button |-> se.button, stacks |-> stacks, handSequence |-> hand.hand,
           completed |-> se.completed, active |-> hand,
           rebuys |-> se.rebuys \cup AutoRebuys(se, se.stacks)]
  BY DEF StartedNext
<1>5. QED
  BY <1>1, <1>2, <1>3, <1>4 DEF Session

LEMMA CompletedType ==
    ASSUME NEW se \in Session, NEW h, NEW ending, NEW t \in CompletedBy(se, h, ending)
    PROVE  t \in Session
<1> DEFINE stacks == Settled(se, ending)
<1>1. PICK b \in NextButtons(se, Refilled(stacks)) :
          /\ t = [button |-> b, stacks |-> Refilled(stacks), handSequence |-> se.handSequence,
                  completed |-> Append(se.completed, se.active.hand), active |-> NoHand,
                  rebuys |-> se.rebuys \cup AutoRebuys(se, stacks)]
          /\ se.active # NoHand
          /\ \A s \in DOMAIN ending : ending[s] \in Nat
  BY DEF CompletedBy, SettledStacks
<1>2. stacks \in [Seats -> Nat]
  BY <1>1 DEF Settled, Session
<1>3. Refilled(stacks) \in [Seats -> Nat]
  BY <1>2, RefilledType
<1>4. b \in Seats
  BY <1>1 DEF NextButtons, Participating
<1>5. Append(se.completed, se.active.hand) \in Seq(Nat)
  BY <1>1 DEF Session, ActiveHand
<1>6. se.rebuys \cup AutoRebuys(se, stacks) \in SUBSET Rebuy
  BY <1>2, RebuysType
<1>7. QED
  BY <1>1, <1>3, <1>4, <1>5, <1>6 DEF Session

LEMMA SuccessorType ==
    ASSUME NEW se \in Session, NEW h, NEW es, NEW t \in SuccessorForReplay(se, h, es)
    PROVE  t \in Session
  BY CompletedType DEF SuccessorForReplay

(***************************************************************************)
(* Batches: what EventsFor builds from a command and its payloads.         *)
(***************************************************************************)
Command == OpenCommand \cup ActCommand

LEMMA EventsForType ==
    ASSUME NEW c \in Command, NEW payloads \in Seq(Payload)
    PROVE  /\ EventsFor(c, payloads) \in Seq(Event)
           /\ Len(EventsFor(c, payloads)) = Len(payloads)
           /\ \A i \in 1 .. Len(payloads) :
                 /\ EventsFor(c, payloads)[i].sequence = c.expected + i
                 /\ EventsFor(c, payloads)[i].cause = c.id
                 /\ EventsFor(c, payloads)[i].offset = i
                 /\ EventsFor(c, payloads)[i].payload = payloads[i]
<1>1. c.expected \in Nat /\ c.id \in Ids
  BY DEF Command, OpenCommand, ActCommand
<1>2. ASSUME NEW i \in 1 .. Len(payloads)
      PROVE  [sequence |-> c.expected + i, cause |-> c.id, offset |-> i,
              payload |-> payloads[i]] \in Event
  BY <1>1, <1>2 DEF Event
<1>3. Len(payloads) \in Nat
  OBVIOUS
<1>4. QED
  BY <1>2, <1>3 DEF EventsFor

LEMMA FunctionIsSeq ==
    ASSUME NEW S, NEW n \in Nat, NEW f \in [1 .. n -> S]
    PROVE  f \in Seq(S) /\ Len(f) = n
  OBVIOUS

LEMMA ConcatType ==
    ASSUME NEW S, NEW a \in S, NEW s \in Seq(S)
    PROVE  /\ <<a>> \o s \in Seq(S)
           /\ Len(<<a>> \o s) = 1 + Len(s)
           /\ Len(<<a>> \o s) >= 1
           /\ (<<a>> \o s)[1] = a
  OBVIOUS

LEMMA OpeningPayloadsType ==
    ASSUME NEW se \in Session, se.active # NoHand, NEW dealt \in Seeds,
           NEW n \in Nat, NEW order \in [1 .. n -> se.active.seats]
    PROVE  /\ OpeningPayloads(se, dealt, order) \in Seq(Payload)
           /\ Len(OpeningPayloads(se, dealt, order)) >= 1
           /\ OpeningPayloads(se, dealt, order)[1].kind = "hand_started"
           /\ OpeningPayloads(se, dealt, order)[1].seed = dealt
<1> DEFINE start == [kind |-> "hand_started", facts |-> OpeningFacts(se), seed |-> dealt]
           holes == [i \in 1 .. Len(order) |->
                       [kind |-> "hole_cards_recorded", seat |-> order[i], seed |-> dealt]]
<1>1. OpeningFacts(se) \in OpeningFact
  BY DEF OpeningFacts, OpeningFact, Session, ActiveHand
<1>2. start \in Payload
  BY <1>1 DEF Payload
<1>3. order \in Seq(Seats) /\ Len(order) = n
  <2>1. order \in [1 .. n -> Seats]
    BY DEF Session, ActiveHand
  <2>2. QED
    BY <2>1, FunctionIsSeq
<1>4. \A i \in 1 .. n : [kind |-> "hole_cards_recorded", seat |-> order[i], seed |-> dealt] \in Payload
  BY <1>3 DEF Payload
<1>5. holes \in Seq(Payload)
  <2>1. holes \in [1 .. n -> Payload]
    BY <1>3, <1>4
  <2>2. QED
    BY <2>1, FunctionIsSeq
<1>6. QED
  BY <1>2, <1>5, ConcatType DEF OpeningPayloads

LEMMA CountsAreNat ==
    /\ \A st : DealsDue(st) \in Nat
    /\ \A es \in Seq(Event) : BoardsDealt(es) \in Nat
<1>1. ASSUME NEW st PROVE DealsDue(st) \in Nat
  <2>1. IsFiniteSet(0 .. River - 1)
    <3>1. River - 1 \in Int
      BY DEF River
    <3>2. QED
      BY <3>1, FS_Interval
  <2>2. ASSUME NEW T \in SUBSET (0 .. River - 1) PROVE Cardinality(T) \in Nat
    BY <2>1, FS_Subset, FS_CardinalityType
  <2> DEFINE S == {k \in 0 .. River - 1 : \A j \in 0 .. k : DealDue(AfterDeals(st)[j])}
  <2>3. S \in SUBSET (0 .. River - 1)
    OBVIOUS
  <2>4. DealsDue(st) = Cardinality(S)
    BY DEF DealsDue
  <2>5. QED
    <3> HIDE DEF S
    <3>1. QED
      BY <2>2, <2>3, <2>4
<1>2. ASSUME NEW es \in Seq(Event) PROVE BoardsDealt(es) \in Nat
  <2>1. IsFiniteSet(1 .. Len(es))
    BY FS_Interval
  <2>2. QED
    BY <2>1, FS_Subset, FS_CardinalityType DEF BoardsDealt
<1>3. QED
  BY <1>1, <1>2

\* A stream that starts with HandStarted carries typed facts and a seed.
LEMMA StartedFactsType ==
    ASSUME NEW es \in Seq(Event), es # <<>>, IsKind(es[1], "hand_started")
    PROVE  Facts(es) \in OpeningFact /\ SeedOf(es) \in Seeds
<1>1. es[1] \in Event
  OBVIOUS
<1>2. es[1].payload \in Payload /\ es[1].payload.kind = "hand_started"
  BY <1>1 DEF Event, IsKind
<1>3. es[1].payload \in [kind : {"hand_started"}, facts : OpeningFact, seed : Seeds]
  BY <1>2 DEF Payload
<1>4. QED
  BY <1>3 DEF Facts, SeedOf

LEMMA ActionPayloadsType ==
    ASSUME NEW es \in Seq(Event), NEW intent \in Intent, SeedOf(es) \in Seeds
    PROVE  /\ ActionPayloads(es, intent) \in Seq(Payload)
           /\ Len(ActionPayloads(es, intent)) >= 1
           /\ ActionPayloads(es, intent)[1] = [kind |-> "action_taken", intent |-> intent]
<1> DEFINE n == DealsDue(Acted(StateOf(es), intent))
           act == [kind |-> "action_taken", intent |-> intent]
           boards == [k \in 1 .. n |->
              [kind |-> "board_dealt", street |-> BoardsDealt(es) + k, seed |-> SeedOf(es)]]
<1>1. n \in Nat /\ BoardsDealt(es) \in Nat
  BY CountsAreNat
<1>2. \A k \in 1 .. n :
        [kind |-> "board_dealt", street |-> BoardsDealt(es) + k, seed |-> SeedOf(es)] \in Payload
  BY <1>1 DEF Payload
<1>3. boards \in Seq(Payload)
  <2>1. boards \in [1 .. n -> Payload]
    BY <1>2
  <2>2. QED
    BY <1>1, <2>1, FunctionIsSeq
<1>4. act \in Payload
  BY DEF Payload
<1>5. ActionPayloads(es, intent) = <<act>> \o boards
  BY DEF ActionPayloads
<1>6. QED
  <2> HIDE DEF act, boards
  <2>1. /\ ActionPayloads(es, intent) \in Seq(Payload)
        /\ Len(ActionPayloads(es, intent)) >= 1
        /\ ActionPayloads(es, intent)[1] = act
    BY <1>3, <1>4, <1>5, ConcatType
  <2>2. QED
    BY <2>1 DEF act

LEMMA WinnersPlayed == \A es : Winners(es) \subseteq Facts(es).active
<1> SUFFICES ASSUME NEW es PROVE Winners(es) \subseteq Facts(es).active
  OBVIOUS
<1>1. Settlement(es) = SettledFrom(Facts(es), StateOf(es), SeedOf(es))
  BY DEF Settlement
<1>2. QED
  BY <1>1 DEF Winners, SettledFrom

LEMMA ActionBatchType ==
    ASSUME NEW es \in Seq(Event), NEW c \in ActCommand,
           es # <<>>, IsKind(es[1], "hand_started")
    PROVE  /\ ActionBatch(es, c) \in Seq(Event)
           /\ Len(ActionBatch(es, c)) >= 1
           /\ \A i \in 1 .. Len(ActionBatch(es, c)) :
                 /\ ActionBatch(es, c)[i].sequence = c.expected + i
                 /\ ActionBatch(es, c)[i].cause = c.id
                 /\ ActionBatch(es, c)[i].offset = i
           /\ ActionBatch(es, c)[1].payload = [kind |-> "action_taken", intent |-> c.intent]
<1> DEFINE payloads == ActionPayloads(es, c.intent)
           played == EventsFor(c, payloads)
           final == [kind |-> "hand_completed", winners |-> Winners(es \o played)]
<1>1. c \in Command /\ c.intent \in Intent
  BY DEF Command, ActCommand
<1>2. payloads \in Seq(Payload) /\ Len(payloads) >= 1
  BY <1>1, ActionPayloadsType, StartedFactsType
<1>3. payloads[1] = [kind |-> "action_taken", intent |-> c.intent]
  BY <1>1, ActionPayloadsType, StartedFactsType
<1>4. CASE InProgress(StateOf(es \o played))
  <2>1. ActionBatch(es, c) = EventsFor(c, payloads)
    BY <1>4 DEF ActionBatch
  <2>2. QED
    <3> HIDE DEF payloads
    <3>1. QED
      BY <2>1, <1>1, <1>2, <1>3, EventsForType
<1>5. CASE ~InProgress(StateOf(es \o played))
  <2>1. played \in Seq(Event)
    BY <1>1, <1>2, EventsForType
  <2>2. (es \o played)[1] = es[1]
    <3> HIDE DEF played
    <3>1. QED
      BY <2>1
  <2>3. Facts(es \o played) = Facts(es)
    BY <2>2 DEF Facts
  <2>4. Winners(es \o played) \in SUBSET Seats
    BY <2>3, StartedFactsType, WinnersPlayed DEF OpeningFact
  <2>5. final \in Payload
    BY <2>4 DEF Payload
  <2>6. /\ Append(payloads, final) \in Seq(Payload)
        /\ Len(Append(payloads, final)) = Len(payloads) + 1
        /\ Len(payloads) \in Nat
        /\ Append(payloads, final)[1] = payloads[1]
    <3> HIDE DEF payloads, final
    <3>1. QED
      BY <1>2, <2>5
  <2>7. ActionBatch(es, c) = EventsFor(c, Append(payloads, final))
    BY <1>5 DEF ActionBatch
  <2>8. Len(Append(payloads, final)) >= 1
    BY <2>6, <1>2
  <2> DEFINE full == Append(payloads, final)
  <2> HIDE DEF full
  <2>9. /\ full \in Seq(Payload) /\ Len(full) >= 1 /\ ActionBatch(es, c) = EventsFor(c, full)
        /\ full[1] = [kind |-> "action_taken", intent |-> c.intent]
    BY <2>6, <2>7, <2>8, <1>3 DEF full
  <2>10. QED
    BY <2>9, <1>1, EventsForType
<1>6. QED
  BY <1>4, <1>5

(***************************************************************************)
(* Type correctness.  The stores and the processes are typed separately:   *)
(* most steps touch only the locals of one process.                        *)
(***************************************************************************)
StoresOK == log \in [Hands -> Seq(Event)] /\ stored \in StoredSession
ProcsOK ==
    /\ pc \in [Procs -> {"idle", "recover", "ready", "append", "reread", "save"}]
    /\ held \in [Procs -> StoredSession]
    /\ cmd \in [Procs -> OpenCommand \cup ActCommand \cup {NoCommand}]
    /\ durable \in [Procs -> Seq(Event)]
    /\ batch \in [Procs -> Seq(Event)]
    /\ next \in [Procs -> Session]

LEMMA TypeSplit == (TypeOK <=> StoresOK /\ ProcsOK) /\ (TypeOK' <=> StoresOK' /\ ProcsOK')
  BY DEF TypeOK, StoresOK, ProcsOK

LEMMA NoStoredType == NoStored \in StoredSession
  BY FirstButton, CreatedType DEF NoStored, StoredSession

LEMMA EmptyType == <<>> \in Seq(Event)
  OBVIOUS

LEMMA ResetType ==
    ASSUME ProcsOK, NEW p \in Procs, NEW place \in {"idle", "recover", "ready"},
           NEW st \in StoredSession, Reset(p, place, st)
    PROVE  ProcsOK'
  BY FirstButton, CreatedType, EmptyType DEF Reset, ProcsOK, NoStored

LEMMA IdleType ==
    ASSUME ProcsOK, NEW p \in Procs, Idle(p)
    PROVE  ProcsOK'
  BY ResetType, NoStoredType DEF Idle

LEMMA ToSaveType ==
    ASSUME ProcsOK, NEW p \in Procs, NEW c \in Command \cup {NoCommand},
           NEW t \in Session, ToSave(p, c, t)
    PROVE  ProcsOK'
  BY EmptyType DEF ToSave, ProcsOK, Command

LEMMA ToAppendType ==
    ASSUME ProcsOK, NEW p \in Procs, NEW c \in Command, NEW es \in Seq(Event),
           NEW b \in Seq(Event), NEW t \in Session, ToAppend(p, c, es, b, t)
    PROVE  ProcsOK'
  BY DEF ToAppend, ProcsOK, Command

LEMMA InitType == Init => TypeOK
<1> SUFFICES ASSUME Init PROVE TypeOK
  OBVIOUS
<1>1. stored \in StoredSession
  BY FirstButton, StartedType, CreatedType DEF Init, StoredSession
<1>2. log \in [Hands -> Seq(Event)]
  BY EmptyType DEF Init
<1>3. QED
  BY <1>1, <1>2, FirstButton, CreatedType, NoStoredType, EmptyType DEF Init, TypeOK, NoStored

LEMMA HeldType ==
    ASSUME TypeOK, NEW p \in Procs
    PROVE  /\ held[p] \in StoredSession /\ held[p].session \in Session
           /\ \A h \in Hands : log[h] \in Seq(Event)
  BY DEF TypeOK, StoredSession

LEMMA TypeStep == TypeOK /\ [Next]_vars => TypeOK'
<1> SUFFICES ASSUME TypeOK, [Next]_vars PROVE StoresOK' /\ ProcsOK'
  BY TypeSplit
<1> StoresOK /\ ProcsOK
  BY TypeSplit
<1>1. ASSUME NEW p \in Procs, Load(p) PROVE StoresOK' /\ ProcsOK'
  BY <1>1, ResetType DEF Load, StoresOK
<1>2. ASSUME NEW p \in Procs, Recover(p) PROVE StoresOK' /\ ProcsOK'
  <2>1. StoresOK'
    BY <1>2 DEF Recover, StoresOK
  <2>2. CASE Reset(p, "ready", held[p])
    BY <2>1, <2>2, HeldType, ResetType
  <2>3. ASSUME NEW h, NEW ending, NEW t \in CompletedBy(held[p].session, h, ending),
               ToSave(p, NoCommand, t)
        PROVE  ProcsOK'
    BY <2>3, HeldType, CompletedType, ToSaveType
  <2>4. QED
    BY <1>2, <2>1, <2>2, <2>3 DEF Recover
<1>3. ASSUME NEW p \in Procs, StartNextHand(p) PROVE StoresOK' /\ ProcsOK'
  <2>1. PICK t \in StartedNext(held[p].session) : ToSave(p, NoCommand, t)
    BY <1>3 DEF StartNextHand
  <2>2. t \in Session
    BY HeldType, StartedType
  <2>3. QED
    BY <1>3, <2>1, <2>2, ToSaveType DEF StartNextHand, StoresOK
<1>4. ASSUME NEW p \in Procs, NEW c \in Requests, c.kind = "open", OpenHand(p, c)
      PROVE  StoresOK' /\ ProcsOK'
  <2> DEFINE se == held[p].session
             es == log[c.hand]
  <2>1. StoresOK'
    BY <1>4 DEF OpenHand, StoresOK
  <2>2. c \in OpenCommand /\ c \in Command /\ c.hand \in Hands /\ c.seed \in Seeds
    BY <1>4 DEF OpenCommand, ActCommand, Command
  <2>3. se \in Session /\ es \in Seq(Event)
    BY <2>2, HeldType
  <2>4. CASE Idle(p)
    BY <2>1, <2>4, IdleType
  <2>5. ASSUME OwnsActive(se, c.hand),
               NEW order \in [1 .. Cardinality(se.active.seats) -> se.active.seats],
               ToAppend(p, c, es, EventsFor(c, OpeningPayloads(se, c.seed, order)), se)
        PROVE  ProcsOK'
    <3>1. se.active \in ActiveHand /\ se.active # NoHand
      BY <2>3, <2>5 DEF OwnsActive, Session
    <3>2. Cardinality(se.active.seats) \in Nat
      BY <2>3, <3>1, ActiveSeatsFinite
    <3>3. OpeningPayloads(se, c.seed, order) \in Seq(Payload)
      BY <2>2, <2>3, <3>1, <3>2, OpeningPayloadsType
    <3>4. EventsFor(c, OpeningPayloads(se, c.seed, order)) \in Seq(Event)
      BY <2>2, <3>3, EventsForType
    <3>5. QED
      BY <2>2, <2>3, <2>5, <3>4, ToAppendType
  <2>6. ASSUME NEW t \in SuccessorForReplay(se, c.hand, es), ToSave(p, c, t)
        PROVE  ProcsOK'
    BY <2>2, <2>3, <2>6, SuccessorType, ToSaveType
  <2>7. QED
    BY <1>4, <2>1, <2>4, <2>5, <2>6 DEF OpenHand
<1>5. ASSUME NEW p \in Procs, NEW c \in Requests, c.kind = "act", Execute(p, c)
      PROVE  StoresOK' /\ ProcsOK'
  <2> DEFINE se == held[p].session
             es == log[c.hand]
             b  == ActionBatch(es, c)
  <2>1. StoresOK'
    BY <1>5 DEF Execute, StoresOK
  <2>2. c \in ActCommand /\ c \in Command /\ c.hand \in Hands
    BY <1>5 DEF OpenCommand, ActCommand, Command
  <2>3. se \in Session /\ es \in Seq(Event)
    BY <2>2, HeldType
  <2>4. CASE Idle(p)
    BY <2>1, <2>4, IdleType
  <2>5. ASSUME NEW t \in SuccessorForReplay(se, c.hand, es), ToSave(p, c, t)
        PROVE  ProcsOK'
    BY <2>2, <2>3, <2>5, SuccessorType, ToSaveType
  <2>6. ASSUME es # <<>>, SeedProvenance(es),
               NEW t \in SuccessorForReplay(se, c.hand, es \o b), ToAppend(p, c, es, b, t)
        PROVE  ProcsOK'
    <3>1. b \in Seq(Event)
      BY <2>2, <2>3, <2>6, ActionBatchType DEF SeedProvenance
    <3>2. t \in Session
      BY <2>3, <2>6, SuccessorType
    <3>3. QED
      BY <2>2, <2>3, <2>6, <3>1, <3>2, ToAppendType
  <2>7. QED
    BY <1>5, <2>1, <2>4, <2>5, <2>6 DEF Execute, CanRead
<1>6. ASSUME NEW p \in Procs, AppendBatch(p) PROVE StoresOK' /\ ProcsOK'
  <2> DEFINE h == cmd[p].hand
  <2>1. CASE Idle(p) /\ UNCHANGED log
    BY <1>6, <2>1, IdleType DEF AppendBatch, StoresOK
  <2>2. CASE log' = [log EXCEPT ![h] = @ \o batch[p]] /\ ToSave(p, cmd[p], next[p])
    <3>1. \A k \in Hands : log[k] \o batch[p] \in Seq(Event)
      BY DEF StoresOK, ProcsOK
    <3>2. log' \in [Hands -> Seq(Event)]
      BY <2>2, <3>1 DEF StoresOK
    <3>3. cmd[p] \in Command \cup {NoCommand} /\ next[p] \in Session
      BY DEF ProcsOK, Command
    <3>4. QED
      BY <1>6, <2>2, <3>2, <3>3, ToSaveType DEF AppendBatch, StoresOK
  <2>3. CASE /\ pc' = [pc EXCEPT ![p] = "reread"]
             /\ batch' = [batch EXCEPT ![p] = <<>>]
             /\ durable' = [durable EXCEPT ![p] = <<>>]
             /\ UNCHANGED <<log, held, cmd, next>>
    BY <1>6, <2>3, EmptyType DEF AppendBatch, StoresOK, ProcsOK
  <2>4. QED
    BY <1>6, <2>1, <2>2, <2>3 DEF AppendBatch
<1>7. ASSUME NEW p \in Procs, Reconcile(p) PROVE StoresOK' /\ ProcsOK'
  <2>1. StoresOK'
    BY <1>7 DEF Reconcile, StoresOK
  <2>2. cmd[p] \in Command \cup {NoCommand}
    BY DEF ProcsOK, Command
  <2>3. ASSUME NEW t \in SuccessorForReplay(held[p].session, cmd[p].hand, log[cmd[p].hand]),
               ToSave(p, cmd[p], t)
        PROVE  ProcsOK'
    BY <2>2, <2>3, HeldType, SuccessorType, ToSaveType
  <2>4. QED
    BY <1>7, <2>1, <2>3, IdleType DEF Reconcile
<1>8. ASSUME NEW p \in Procs, Save(p) PROVE StoresOK' /\ ProcsOK'
  <2>1. CASE UNCHANGED stored /\ Reset(p, "ready", stored)
    BY <1>8, <2>1, ResetType DEF Save, StoresOK
  <2>2. CASE /\ stored' = [revision |-> stored.revision + 1, session |-> next[p]]
             /\ Reset(p, "ready", [revision |-> stored.revision + 1, session |-> next[p]])
    <3>1. [revision |-> stored.revision + 1, session |-> next[p]] \in StoredSession
      BY DEF StoresOK, ProcsOK, StoredSession
    <3>2. QED
      BY <1>8, <2>2, <3>1, ResetType DEF Save, StoresOK
  <2>3. CASE Idle(p) /\ UNCHANGED stored
    BY <1>8, <2>3, IdleType DEF Save, StoresOK
  <2>4. QED
    BY <1>8, <2>1, <2>2, <2>3 DEF Save
<1>9. ASSUME NEW p \in Procs, Finish(p) \/ Crash(p) PROVE StoresOK' /\ ProcsOK'
  BY <1>9, IdleType DEF Finish, Crash, StoresOK
<1>10. CASE UNCHANGED vars
  BY <1>10 DEF vars, procVars, StoresOK, ProcsOK
<1>11. QED
  BY <1>1, <1>2, <1>3, <1>4, <1>5, <1>6, <1>7, <1>8, <1>9, <1>10 DEF Next, Step

\* Every variable of the specification always holds a value of its kind, for
\* any number of callers, seats, hands and requests.
THEOREM TypeCorrect == Spec => []TypeOK
<1>1. Init => TypeOK
  BY InitType
<1>2. TypeOK /\ [Next]_vars => TypeOK'
  BY TypeStep
<1>3. QED
  BY <1>1, <1>2, PTL DEF Spec

(***************************************************************************)
(* Exactly-once commands.  None of CommandOnce, NoIdentityConflict and     *)
(* ReportedIsDurable is inductive: a process appends what it decided on an *)
(* old read.  PendingBatch is the missing part: whatever was read is still *)
(* the beginning of the hand, so a batch that passes the head check was    *)
(* decided on the whole of it.                                             *)
(***************************************************************************)
IInv == TypeOK /\ Contiguous /\ CommandOnce /\ PendingBatch /\ ReportedIsDurable

LEMMA ConcatFacts ==
    ASSUME NEW s \in Seq(Event), NEW b \in Seq(Event)
    PROVE  /\ s \o b \in Seq(Event)
           /\ Len(s \o b) = Len(s) + Len(b)
           /\ \A i \in 1 .. Len(s) : (s \o b)[i] = s[i]
           /\ \A i \in 1 .. Len(s) + Len(b) : i > Len(s) =>
                 i - Len(s) \in 1 .. Len(b) /\ (s \o b)[i] = b[i - Len(s)]
  OBVIOUS

\* What is durable stays durable when a hand grows.
LEMMA DurableStays ==
    ASSUME NEW s \in Seq(Event), NEW b \in Seq(Event), NEW c, TookEffect(s, c)
    PROVE  TookEffect(s \o b, c)
<1>1. \A i \in CausedBy(s, c.id) : i \in CausedBy(s \o b, c.id) /\ (s \o b)[i] = s[i]
  BY ConcatFacts DEF CausedBy
<1>2. QED
  BY <1>1 DEF TookEffect, StartedBy, ActedBy

\* A beginning of the hand remains one when it grows.
LEMMA StillBeginning ==
    ASSUME NEW s \in Seq(Event), NEW b \in Seq(Event), NEW d \in Seq(Event), IsBeginning(d, s)
    PROVE  IsBeginning(d, s \o b)
<1>1. /\ Len(s) \in Nat /\ Len(b) \in Nat /\ Len(d) \in Nat /\ Len(d) <= Len(s)
      /\ \A i \in 1 .. Len(d) : s[i] = d[i]
  BY DEF IsBeginning
<1>2. \A i \in 1 .. Len(d) : i \in 1 .. Len(s)
  BY <1>1
<1>3. Len(s \o b) = Len(s) + Len(b) /\ \A i \in 1 .. Len(s) : (s \o b)[i] = s[i]
  BY ConcatFacts
<1> DEFINE n == s \o b
<1> HIDE DEF n
<1>4. Len(n) = Len(s) + Len(b) /\ \A i \in 1 .. Len(s) : n[i] = s[i]
  BY <1>3 DEF n
<1>5. IsBeginning(d, n)
  BY <1>1, <1>2, <1>4 DEF IsBeginning
<1>6. QED
  BY <1>5 DEF n

(***************************************************************************)
(* The heart of the argument, about values only: a hand s, a command c     *)
(* that caused nothing in it and expects its head, and c's batch b.        *)
(***************************************************************************)
InPlace(s) == \A i \in 1 .. Len(s) : s[i].sequence = i
OnePerCommand(s) == \A i, j \in 1 .. Len(s) :
                       s[i].cause = s[j].cause => i - s[i].offset = j - s[j].offset

LEMMA ExtendedFacts ==
    ASSUME NEW c \in Command, NEW s \in Seq(Event), NEW b \in Seq(Event), NEW n, n = s \o b,
           Len(s) = c.expected, CausedBy(s, c.id) = {}, IsBatchOf(b, c)
    PROVE  /\ \A i \in 1 .. Len(n) : i \in Int /\ (i \in 1 .. Len(s) \/ i > Len(s))
           /\ \A i \in 1 .. Len(s) : n[i] = s[i] /\ s[i].cause # c.id
           /\ \A i \in 1 .. Len(n) : i > Len(s) =>
                 n[i].sequence = i /\ n[i].cause = c.id /\ n[i].offset = i - Len(s)
           /\ Len(s) + 1 \in 1 .. Len(n)
           /\ n[Len(s) + 1] = b[1]
           /\ Len(s) \in Nat
<1>1. /\ Len(n) = Len(s) + Len(b) /\ Len(s) \in Nat /\ Len(b) \in Nat /\ c.expected \in Nat
      /\ \A i \in 1 .. Len(s) : n[i] = s[i]
      /\ \A i \in 1 .. Len(n) : i > Len(s) => i - Len(s) \in 1 .. Len(b) /\ n[i] = b[i - Len(s)]
  <2>1. c.expected \in Nat
    BY DEF Command, OpenCommand, ActCommand
  <2>2. Len(s) \in Nat /\ Len(b) \in Nat
    OBVIOUS
  <2>3. Len(n) = Len(s) + Len(b) /\ \A i \in 1 .. Len(s) : n[i] = s[i]
    BY ConcatFacts
  <2>4. \A i \in 1 .. Len(s) + Len(b) : i > Len(s) =>
           i - Len(s) \in 1 .. Len(b) /\ n[i] = b[i - Len(s)]
    BY ConcatFacts
  <2>5. QED
    BY <2>1, <2>2, <2>3, <2>4
<1>2. ASSUME NEW i \in 1 .. Len(n), i > Len(s)
      PROVE  n[i].sequence = i /\ n[i].cause = c.id /\ n[i].offset = i - Len(s)
  <2>1. i - Len(s) \in 1 .. Len(b) /\ n[i] = b[i - Len(s)]
    BY <1>1, <1>2
  <2>2. /\ b[i - Len(s)].sequence = c.expected + (i - Len(s))
        /\ b[i - Len(s)].cause = c.id /\ b[i - Len(s)].offset = i - Len(s)
    BY <2>1 DEF IsBatchOf
  <2>3. QED
    BY <1>1, <2>1, <2>2
<1>3. \A i \in 1 .. Len(n) : i \in Int /\ (i \in 1 .. Len(s) \/ i > Len(s))
  BY <1>1
<1>4. \A i \in 1 .. Len(s) : s[i].cause # c.id
  BY DEF CausedBy
<1>5. Len(s) + 1 \in 1 .. Len(n) /\ n[Len(s) + 1] = b[1]
  <2>1. Len(b) >= 1
    BY DEF IsBatchOf
  <2>2. Len(s) + 1 \in 1 .. Len(n) /\ Len(s) + 1 > Len(s) /\ (Len(s) + 1) - Len(s) = 1
    BY <1>1, <2>1
  <2>3. QED
    BY <1>1, <2>2
<1>6. QED
  BY <1>1, <1>2, <1>3, <1>4, <1>5

LEMMA Extended ==
    ASSUME NEW c \in Command, NEW s \in Seq(Event), NEW b \in Seq(Event),
           Len(s) = c.expected, CausedBy(s, c.id) = {}, IsBatchOf(b, c)
    PROVE  /\ InPlace(s) => InPlace(s \o b)
           /\ OnePerCommand(s) => OnePerCommand(s \o b)
           /\ TookEffect(s \o b, c)
<1> DEFINE n == s \o b
<1> HIDE DEF n
<1>1. /\ \A i \in 1 .. Len(n) : i \in Int /\ (i \in 1 .. Len(s) \/ i > Len(s))
      /\ \A i \in 1 .. Len(s) : n[i] = s[i] /\ s[i].cause # c.id
      /\ \A i \in 1 .. Len(n) : i > Len(s) =>
            n[i].sequence = i /\ n[i].cause = c.id /\ n[i].offset = i - Len(s)
      /\ Len(s) + 1 \in 1 .. Len(n)
      /\ n[Len(s) + 1] = b[1]
      /\ Len(s) \in Nat
  BY ExtendedFacts DEF n
<1>2. ASSUME InPlace(s) PROVE InPlace(n)
  BY <1>1, <1>2 DEF InPlace
<1>3. ASSUME OnePerCommand(s) PROVE OnePerCommand(n)
  <2>1. SUFFICES ASSUME NEW i \in 1 .. Len(n), NEW j \in 1 .. Len(n), n[i].cause = n[j].cause
                 PROVE  i - n[i].offset = j - n[j].offset
    BY DEF OnePerCommand
  <2>2. CASE i \in 1 .. Len(s) /\ j \in 1 .. Len(s)
    <3>1. n[i] = s[i] /\ n[j] = s[j]
      BY <1>1, <2>2
    <3>2. i - s[i].offset = j - s[j].offset
      BY <1>3, <2>1, <2>2, <3>1 DEF OnePerCommand
    <3>3. QED
      BY <3>1, <3>2
  <2>3. CASE i > Len(s) /\ j > Len(s)
    <3>1. /\ n[i].offset = i - Len(s) /\ n[j].offset = j - Len(s)
          /\ i \in Int /\ j \in Int /\ Len(s) \in Int
      BY <1>1, <2>3
    <3>2. i - (i - Len(s)) = j - (j - Len(s))
      BY <3>1
    <3>3. QED
      BY <3>1, <3>2
  <2>4. CASE i \in 1 .. Len(s) /\ j > Len(s)
    <3>1. n[i].cause # c.id /\ n[j].cause = c.id
      BY <1>1, <2>4
    <3>2. QED
      BY <2>1, <3>1
  <2>5. CASE i > Len(s) /\ j \in 1 .. Len(s)
    <3>1. n[i].cause = c.id /\ n[j].cause # c.id
      BY <1>1, <2>5
    <3>2. QED
      BY <2>1, <3>1
  <2>6. QED
    BY <1>1, <2>2, <2>3, <2>4, <2>5
<1>4. TookEffect(n, c)
  <2> DEFINE k == Len(s) + 1
  <2>1. k \in 1 .. Len(n) /\ n[k] = b[1] /\ n[k].cause = c.id /\ n[k].sequence = c.expected + 1
    <3>1. k \in 1 .. Len(n) /\ k > Len(s)
      BY <1>1
    <3>2. QED
      BY <1>1, <3>1
  <2> HIDE DEF k
  <2>2. k \in CausedBy(n, c.id)
    BY <2>1 DEF CausedBy
  <2>3. CASE c.kind = "open"
    <3>1. IsKind(n[k], "hand_started") /\ n[k].payload.seed = c.seed
      BY <2>1, <2>3 DEF IsBatchOf
    <3>2. StartedBy(n, c)
      BY <2>1, <2>2, <3>1 DEF StartedBy
    <3>3. QED
      BY <2>3, <3>2 DEF TookEffect
  <2>4. CASE c.kind # "open"
    <3>1. IsKind(n[k], "action_taken") /\ n[k].payload.intent = c.intent
      BY <2>1, <2>4 DEF IsBatchOf
    <3>2. ActedBy(n, c)
      BY <2>1, <2>2, <3>1 DEF ActedBy
    <3>3. QED
      BY <2>4, <3>2 DEF TookEffect
  <2>5. QED
    BY <2>3, <2>4
<1>5. QED
  BY <1>2, <1>3, <1>4 DEF n

(***************************************************************************)
(* The invariant, process by process.                                      *)
(***************************************************************************)
Committed(place, c, d, b, logs) ==
    /\ place \in {"append", "reread"} => c # NoCommand
    /\ place = "append" => /\ Len(d) = c.expected
                           /\ IsBeginning(d, logs[c.hand])
                           /\ CausedBy(d, c.id) = {}
                           /\ IsBatchOf(b, c)
    /\ place = "save" /\ c # NoCommand => TookEffect(logs[c.hand], c)

LEMMA PerProcess ==
    /\ PendingBatch /\ ReportedIsDurable
          <=> \A p \in Procs : Committed(pc[p], cmd[p], durable[p], batch[p], log)
    /\ PendingBatch' /\ ReportedIsDurable'
          <=> \A p \in Procs : Committed(pc'[p], cmd'[p], durable'[p], batch'[p], log')
  BY DEF PendingBatch, ReportedIsDurable, Committed, IsBeginning, CausedBy, IsBatchOf,
         TookEffect, StartedBy, ActedBy, IsKind

LEMMA LogInvariants ==
    /\ Contiguous <=> \A h \in Hands : InPlace(log[h])
    /\ CommandOnce <=> \A h \in Hands : OnePerCommand(log[h])
    /\ Contiguous' <=> \A h \in Hands : InPlace(log'[h])
    /\ CommandOnce' <=> \A h \in Hands : OnePerCommand(log'[h])
  BY DEF Contiguous, CommandOnce, InPlace, OnePerCommand

LEMMA InitIInv == Init => IInv
<1> SUFFICES ASSUME Init PROVE IInv
  OBVIOUS
<1>1. TypeOK
  BY InitType
<1>2. \A h \in Hands : log[h] = <<>>
  BY DEF Init
<1>3. Contiguous /\ CommandOnce
  BY <1>2 DEF Contiguous, CommandOnce
<1>4. PendingBatch /\ ReportedIsDurable
  BY DEF Init, PendingBatch, ReportedIsDurable
<1>5. QED
  BY <1>1, <1>3, <1>4 DEF IInv

LEMMA ResetKeeps ==
    ASSUME TypeOK, PendingBatch, ReportedIsDurable, log' = log,
           NEW p \in Procs, NEW place \in {"idle", "recover", "ready"}, NEW st, Reset(p, place, st)
    PROVE  PendingBatch' /\ ReportedIsDurable'
<1>1. pc'[p] = place /\ \A q \in Procs : q # p =>
          /\ pc'[q] = pc[q] /\ cmd'[q] = cmd[q] /\ durable'[q] = durable[q] /\ batch'[q] = batch[q]
  BY DEF Reset, TypeOK
<1>2. Committed(pc'[p], cmd'[p], durable'[p], batch'[p], log')
  BY <1>1 DEF Committed
<1>3. QED
  BY <1>1, <1>2, PerProcess

LEMMA ToSaveKeeps ==
    ASSUME TypeOK, PendingBatch, ReportedIsDurable, log' = log,
           NEW p \in Procs, NEW c, NEW t, ToSave(p, c, t),
           c # NoCommand => TookEffect(log[c.hand], c)
    PROVE  PendingBatch' /\ ReportedIsDurable'
<1>1. pc'[p] = "save" /\ cmd'[p] = c /\ \A q \in Procs : q # p =>
          /\ pc'[q] = pc[q] /\ cmd'[q] = cmd[q] /\ durable'[q] = durable[q] /\ batch'[q] = batch[q]
  BY DEF ToSave, TypeOK
<1>2. Committed(pc'[p], cmd'[p], durable'[p], batch'[p], log')
  BY <1>1 DEF Committed
<1>3. QED
  BY <1>1, <1>2, PerProcess

LEMMA ToAppendKeeps ==
    ASSUME TypeOK, PendingBatch, ReportedIsDurable, log' = log,
           NEW p \in Procs, NEW c \in Command, NEW b, NEW t,
           ToAppend(p, c, log[c.hand], b, t),
           Len(log[c.hand]) = c.expected, CausedBy(log[c.hand], c.id) = {}, IsBatchOf(b, c)
    PROVE  PendingBatch' /\ ReportedIsDurable'
<1>1. c # NoCommand /\ c.hand \in Hands
  BY DEF Command, OpenCommand, ActCommand, NoCommand
<1>2. IsBeginning(log[c.hand], log[c.hand])
  <2>1. Len(log[c.hand]) \in Nat
    BY <1>1 DEF TypeOK
  <2>2. QED
    BY <2>1 DEF IsBeginning
<1>3. /\ pc'[p] = "append" /\ cmd'[p] = c /\ durable'[p] = log[c.hand] /\ batch'[p] = b
      /\ \A q \in Procs : q # p =>
          /\ pc'[q] = pc[q] /\ cmd'[q] = cmd[q] /\ durable'[q] = durable[q] /\ batch'[q] = batch[q]
  BY DEF ToAppend, TypeOK
<1>4. Committed(pc'[p], cmd'[p], durable'[p], batch'[p], log')
  BY <1>1, <1>2, <1>3 DEF Committed
<1>5. QED
  BY <1>3, <1>4, PerProcess

LEMMA LogStands == log' = log /\ Contiguous /\ CommandOnce => Contiguous' /\ CommandOnce'
  BY DEF Contiguous, CommandOnce

\* An append that passes the head check.
LEMMA AppendKeeps ==
    ASSUME IInv, NEW p \in Procs, pc[p] = "append",
           Len(log[cmd[p].hand]) = cmd[p].expected,
           log' = [log EXCEPT ![cmd[p].hand] = @ \o batch[p]],
           ToSave(p, cmd[p], next[p])
    PROVE  Contiguous' /\ CommandOnce' /\ PendingBatch' /\ ReportedIsDurable'
<1> DEFINE c == cmd[p]
           h == c.hand
           s == log[h]
           b == batch[p]
<1>1. TypeOK /\ \A q \in Procs : Committed(pc[q], cmd[q], durable[q], batch[q], log)
  BY PerProcess DEF IInv
<1>2. /\ Len(durable[p]) = Len(s) /\ IsBeginning(durable[p], s)
      /\ CausedBy(durable[p], c.id) = {} /\ IsBatchOf(b, c) /\ c # NoCommand
  BY <1>1 DEF Committed
<1>3. c \in Command /\ h \in Hands
  BY <1>1, <1>2 DEF TypeOK, Command, OpenCommand, ActCommand
<1>4. s \in Seq(Event) /\ b \in Seq(Event)
  BY <1>1, <1>3 DEF TypeOK
<1>5. CausedBy(s, c.id) = {}
  BY <1>2 DEF CausedBy, IsBeginning
<1>6. log'[h] = s \o b /\ \A k \in Hands : k # h => log'[k] = log[k]
  BY <1>1, <1>3 DEF TypeOK
<1>7. /\ InPlace(s) => InPlace(s \o b)
      /\ OnePerCommand(s) => OnePerCommand(s \o b)
      /\ TookEffect(s \o b, c)
  BY <1>2, <1>3, <1>4, <1>5, Extended
<1>8. Contiguous' /\ CommandOnce'
  BY <1>3, <1>6, <1>7, LogInvariants DEF IInv
<1>9. pc'[p] = "save" /\ cmd'[p] = c /\ \A q \in Procs : q # p =>
          /\ pc'[q] = pc[q] /\ cmd'[q] = cmd[q] /\ durable'[q] = durable[q] /\ batch'[q] = batch[q]
  BY <1>1 DEF ToSave, TypeOK
<1>10. Committed(pc'[p], cmd'[p], durable'[p], batch'[p], log')
  BY <1>6, <1>7, <1>9 DEF Committed
<1>11. ASSUME NEW q \in Procs, q # p
       PROVE  Committed(pc'[q], cmd'[q], durable'[q], batch'[q], log')
  <2> DEFINE d == cmd[q]
             read == durable[q]
  <2>1. Committed(pc[q], d, read, batch[q], log)
    BY <1>1
  <2>2. Committed(pc[q], d, read, batch[q], log')
    <3>1. CASE d = NoCommand
      <4>1. pc[q] \notin {"append", "reread"}
        BY <2>1, <3>1 DEF Committed
      <4>2. QED
        BY <3>1, <4>1 DEF Committed
    <3>2. CASE d # NoCommand /\ d.hand # h
      <4>1. d.hand \in Hands
        BY <1>1, <3>2 DEF TypeOK, OpenCommand, ActCommand
      <4>2. log'[d.hand] = log[d.hand]
        BY <1>6, <3>2, <4>1
      <4>3. QED
        BY <2>1, <4>2 DEF Committed
    <3>3. CASE d # NoCommand /\ d.hand = h
      <4>1. read \in Seq(Event)
        BY <1>1 DEF TypeOK
      <4>2. IsBeginning(read, s) => IsBeginning(read, s \o b)
        BY <1>4, <4>1, StillBeginning
      <4>3. TookEffect(s, d) => TookEffect(s \o b, d)
        BY <1>4, DurableStays
      <4>4. log[d.hand] = s /\ log'[d.hand] = s \o b
        BY <1>6, <3>3
      <4> HIDE DEF d, read, s, b, c, h
      <4>5. QED
        BY <2>1, <4>2, <4>3, <4>4 DEF Committed
    <3>4. QED
      BY <3>1, <3>2, <3>3
  <2>3. QED
    BY <1>9, <1>11, <2>2
<1>12. QED
  BY <1>8, <1>10, <1>11, PerProcess

\* An append that fails the head check keeps its command and goes to re-read.
LEMMA RereadKeeps ==
    ASSUME TypeOK, PendingBatch, ReportedIsDurable, log' = log, NEW p \in Procs, pc[p] = "append",
           pc' = [pc EXCEPT ![p] = "reread"],
           batch' = [batch EXCEPT ![p] = <<>>],
           durable' = [durable EXCEPT ![p] = <<>>],
           cmd' = cmd
    PROVE  PendingBatch' /\ ReportedIsDurable'
<1>1. pc'[p] = "reread" /\ cmd'[p] = cmd[p] /\ \A q \in Procs : q # p =>
          /\ pc'[q] = pc[q] /\ cmd'[q] = cmd[q] /\ durable'[q] = durable[q] /\ batch'[q] = batch[q]
  BY DEF TypeOK
<1>2. cmd[p] # NoCommand
  BY PerProcess DEF Committed
<1>3. Committed(pc'[p], cmd'[p], durable'[p], batch'[p], log')
  BY <1>1, <1>2 DEF Committed
<1>4. QED
  BY <1>1, <1>3, PerProcess

\* The batches of the two commands are batches of the command.
LEMMA OpeningBatch ==
    ASSUME NEW c \in OpenCommand, NEW se \in Session, se.active # NoHand,
           NEW n \in Nat, NEW order \in [1 .. n -> se.active.seats]
    PROVE  IsBatchOf(EventsFor(c, OpeningPayloads(se, c.seed, order)), c)
<1> DEFINE payloads == OpeningPayloads(se, c.seed, order)
<1>1. c \in Command /\ c.seed \in Seeds /\ c.kind = "open"
  BY DEF OpenCommand, Command
<1>2. /\ payloads \in Seq(Payload) /\ Len(payloads) >= 1
      /\ payloads[1].kind = "hand_started" /\ payloads[1].seed = c.seed
  BY <1>1, OpeningPayloadsType
<1> HIDE DEF payloads
<1>3. /\ Len(EventsFor(c, payloads)) = Len(payloads)
      /\ \A i \in 1 .. Len(payloads) :
            /\ EventsFor(c, payloads)[i].sequence = c.expected + i
            /\ EventsFor(c, payloads)[i].cause = c.id
            /\ EventsFor(c, payloads)[i].offset = i
            /\ EventsFor(c, payloads)[i].payload = payloads[i]
  BY <1>1, <1>2, EventsForType
<1>4. 1 \in 1 .. Len(payloads)
  BY <1>2
<1>5. IsBatchOf(EventsFor(c, payloads), c)
  BY <1>1, <1>2, <1>3, <1>4 DEF IsBatchOf, IsKind
<1>6. QED
  BY <1>5 DEF payloads

LEMMA ActingBatch ==
    ASSUME NEW c \in ActCommand, NEW es \in Seq(Event), es # <<>>, IsKind(es[1], "hand_started")
    PROVE  IsBatchOf(ActionBatch(es, c), c)
<1> DEFINE b == ActionBatch(es, c)
<1>1. c.kind # "open"
  BY DEF ActCommand
<1>2. /\ Len(b) >= 1 /\ b[1].payload = [kind |-> "action_taken", intent |-> c.intent]
      /\ \A i \in 1 .. Len(b) :
            b[i].sequence = c.expected + i /\ b[i].cause = c.id /\ b[i].offset = i
  BY ActionBatchType
<1> HIDE DEF b
<1>3. b[1].payload.kind = "action_taken" /\ b[1].payload.intent = c.intent
  BY <1>2
<1>4. IsBatchOf(b, c)
  BY <1>1, <1>2, <1>3 DEF IsBatchOf, IsKind
<1>5. QED
  BY <1>4 DEF b

(***************************************************************************)
(* Every step keeps the invariant.                                         *)
(***************************************************************************)
Safe == Contiguous /\ CommandOnce /\ PendingBatch /\ ReportedIsDurable

LEMMA StandingStep ==
    ASSUME IInv, log' = log, PendingBatch' /\ ReportedIsDurable'
    PROVE  Safe'
  BY LogStands DEF IInv, Safe

LEMMA SafeStep == IInv /\ [Next]_vars => Safe'
<1> SUFFICES ASSUME IInv, [Next]_vars PROVE Safe'
  OBVIOUS
<1> USE DEF IInv
<1>1. ASSUME NEW p \in Procs, log' = log, NEW place \in {"idle", "recover", "ready"}, NEW st,
             Reset(p, place, st)
      PROVE  Safe'
  BY <1>1, ResetKeeps, StandingStep
<1>2. ASSUME NEW p \in Procs, log' = log, Idle(p) PROVE Safe'
  BY <1>1, <1>2 DEF Idle
<1>3. ASSUME NEW p \in Procs, log' = log, NEW c, NEW t, ToSave(p, c, t),
             c # NoCommand => TookEffect(log[c.hand], c)
      PROVE  Safe'
  BY <1>3, ToSaveKeeps, StandingStep
<1>4. ASSUME NEW p \in Procs, NEW c \in Requests, c.kind = "open", OpenHand(p, c) PROVE Safe'
  <2> DEFINE se == held[p].session
             es == log[c.hand]
  <2>1. log' = log /\ c \in OpenCommand /\ c \in Command /\ c.hand \in Hands
    BY <1>4 DEF OpenHand, OpenCommand, ActCommand, Command
  <2>2. CASE Idle(p)
    BY <1>2, <2>1, <2>2
  <2>3. ASSUME OwnsActive(se, c.hand), es = <<>>, c.expected = 0,
               NEW order \in [1 .. Cardinality(se.active.seats) -> se.active.seats],
               ToAppend(p, c, es, EventsFor(c, OpeningPayloads(se, c.seed, order)), se)
        PROVE  Safe'
    <3>1. se \in Session /\ se.active # NoHand
      BY <2>3, HeldType DEF OwnsActive
    <3>2. Cardinality(se.active.seats) \in Nat
      BY <3>1, ActiveSeatsFinite
    <3>3. IsBatchOf(EventsFor(c, OpeningPayloads(se, c.seed, order)), c)
      BY <2>1, <3>1, <3>2, <2>3, OpeningBatch
    <3>4. Len(es) = c.expected /\ CausedBy(es, c.id) = {}
      BY <2>3 DEF CausedBy
    <3>5. PendingBatch' /\ ReportedIsDurable'
      BY <2>1, <2>3, <3>3, <3>4, ToAppendKeeps
    <3>6. QED
      BY <2>1, <3>5, StandingStep
  <2>4. ASSUME StartedBy(es, c), NEW t, ToSave(p, c, t) PROVE Safe'
    <3>1. TookEffect(es, c)
      BY <1>4, <2>4 DEF TookEffect
    <3>2. QED
      BY <1>3, <2>1, <2>4, <3>1
  <2>5. QED
    BY <1>4, <2>2, <2>3, <2>4 DEF OpenHand, OpeningRepeated
<1>5. ASSUME NEW p \in Procs, NEW c \in Requests, c.kind = "act", Execute(p, c) PROVE Safe'
  <2> DEFINE se == held[p].session
             es == log[c.hand]
             b == ActionBatch(es, c)
  <2>1. log' = log /\ c \in ActCommand /\ c \in Command /\ c.hand \in Hands
    BY <1>5 DEF Execute, OpenCommand, ActCommand, Command
  <2>2. CASE Idle(p)
    BY <1>2, <2>1, <2>2
  <2>3. ASSUME es # <<>>, SeedProvenance(es), Len(es) = c.expected, CausedBy(es, c.id) = {},
               NEW t, ToAppend(p, c, es, b, t)
        PROVE  Safe'
    <3>1. es \in Seq(Event)
      BY <2>1, HeldType
    <3>2. IsBatchOf(b, c)
      BY <2>1, <2>3, <3>1, ActingBatch DEF SeedProvenance
    <3>3. PendingBatch' /\ ReportedIsDurable'
      BY <2>1, <2>3, <3>2, ToAppendKeeps
    <3>4. QED
      BY <2>1, <3>3, StandingStep
  <2>4. ASSUME ActedBy(es, c), NEW t, ToSave(p, c, t) PROVE Safe'
    <3>1. TookEffect(es, c)
      BY <1>5, <2>4 DEF TookEffect
    <3>2. QED
      BY <1>3, <2>1, <2>4, <3>1
  <2>5. QED
    BY <1>5, <2>2, <2>3, <2>4 DEF Execute, CanRead, ActionRepeated, ActionAccepted
<1>6. ASSUME NEW p \in Procs, AppendBatch(p) PROVE Safe'
  <2>1. CASE Idle(p) /\ UNCHANGED log
    BY <1>2, <2>1
  <2>2. CASE /\ Len(log[cmd[p].hand]) = cmd[p].expected
             /\ log' = [log EXCEPT ![cmd[p].hand] = @ \o batch[p]]
             /\ ToSave(p, cmd[p], next[p])
    BY <1>6, <2>2, AppendKeeps DEF AppendBatch, Safe
  <2>3. CASE /\ pc' = [pc EXCEPT ![p] = "reread"]
             /\ batch' = [batch EXCEPT ![p] = <<>>]
             /\ durable' = [durable EXCEPT ![p] = <<>>]
             /\ UNCHANGED <<log, held, cmd, next>>
    BY <1>6, <2>3, RereadKeeps, StandingStep DEF AppendBatch
  <2>4. QED
    BY <1>6, <2>1, <2>2, <2>3 DEF AppendBatch
<1>7. ASSUME NEW p \in Procs, Reconcile(p) PROVE Safe'
  BY <1>2, <1>3, <1>7 DEF Reconcile, AlreadyCommitted
<1>8. ASSUME NEW p \in Procs,
             Load(p) \/ Recover(p) \/ StartNextHand(p) \/ Save(p) \/ Finish(p) \/ Crash(p)
      PROVE  Safe'
  <2>1. CASE Load(p)
    BY <1>1, <2>1 DEF Load
  <2>2. CASE Recover(p)
    BY <1>1, <1>3, <2>2 DEF Recover
  <2>3. CASE StartNextHand(p)
    BY <1>3, <2>3 DEF StartNextHand
  <2>4. CASE Save(p)
    BY <1>1, <1>2, <2>4 DEF Save
  <2>5. CASE Finish(p) \/ Crash(p)
    BY <1>2, <2>5 DEF Finish, Crash
  <2>6. QED
    BY <1>8, <2>1, <2>2, <2>3, <2>4, <2>5
<1>9. CASE UNCHANGED vars
  BY <1>9, PerProcess, StandingStep DEF vars, procVars
<1>10. QED
  BY <1>4, <1>5, <1>6, <1>7, <1>8, <1>9 DEF Next, Step

LEMMA IInvStep == IInv /\ [Next]_vars => IInv'
  BY SafeStep, TypeStep DEF IInv, Safe

LEMMA IInvAlways == Spec => []IInv
<1>1. Init => IInv
  BY InitIInv
<1>2. IInv /\ [Next]_vars => IInv'
  BY IInvStep
<1>3. QED
  BY <1>1, <1>2, PTL DEF Spec

\* Whatever a process read before deciding, the batch it is about to append
\* continues a beginning of the hand that is still there.
THEOREM BatchesContinue == Spec => []PendingBatch
<1>1. IInv => PendingBatch
  BY DEF IInv
<1>2. QED
  BY <1>1, IInvAlways, PTL

\* Sequence numbers are gapless in every hand, for any number of callers.
THEOREM GaplessSequences == Spec => []Contiguous
<1>1. IInv => Contiguous
  BY DEF IInv
<1>2. QED
  BY <1>1, IInvAlways, PTL

\* A command id takes effect at most once in a hand, for any number of callers,
\* retries, crashes and lost races.
THEOREM ExactlyOnce == Spec => []CommandOnce
<1>1. IInv => CommandOnce
  BY DEF IInv
<1>2. QED
  BY <1>1, IInvAlways, PTL

\* A caller is answered with success only when its command is durable.
THEOREM AnswersAreDurable == Spec => []ReportedIsDurable
<1>1. IInv => ReportedIsDurable
  BY DEF IInv
<1>2. QED
  BY <1>1, IInvAlways, PTL

\* A batch that passes the head check has no event id that is durable already.
THEOREM NoConflict == Spec => []NoIdentityConflict
<1>1. ASSUME IInv PROVE NoIdentityConflict
  <2>1. SUFFICES ASSUME NEW p \in Procs, pc[p] = "append",
                        Len(log[cmd[p].hand]) = cmd[p].expected,
                        NEW i \in 1 .. Len(log[cmd[p].hand]), NEW j \in 1 .. Len(batch[p])
                 PROVE  log[cmd[p].hand][i].cause # batch[p][j].cause
    BY DEF NoIdentityConflict, EventId
  <2>2. Committed(pc[p], cmd[p], durable[p], batch[p], log)
    BY <1>1, PerProcess DEF IInv
  <2>3. /\ Len(durable[p]) = Len(log[cmd[p].hand])
        /\ log[cmd[p].hand][i] = durable[p][i]
        /\ CausedBy(durable[p], cmd[p].id) = {}
    BY <2>1, <2>2 DEF Committed, IsBeginning
  <2>4. log[cmd[p].hand][i].cause # cmd[p].id
    BY <2>3 DEF CausedBy
  <2>5. batch[p][j].cause = cmd[p].id
    BY <2>1, <2>2 DEF Committed, IsBatchOf
  <2>6. QED
    BY <2>4, <2>5
<1>2. QED
  BY <1>1, IInvAlways, PTL

(***************************************************************************)
(* Session revisions.  RevisionPinsSession is inductive once an idle       *)
(* process is known to hold nothing.                                       *)
(***************************************************************************)
IdleHoldsNothing == \A p \in Procs : pc[p] = "idle" => held[p] = NoStored
RInv == TypeOK /\ RevisionPinsSession /\ IdleHoldsNothing

LEMMA InitRInv == Init => RInv
<1> SUFFICES ASSUME Init PROVE RInv
  OBVIOUS
<1>1. TypeOK
  BY InitType
<1>2. stored.revision = 1 /\ \A p \in Procs : pc[p] = "idle" /\ held[p] = NoStored
  BY DEF Init
<1>3. QED
  BY <1>1, <1>2 DEF RInv, RevisionPinsSession, IdleHoldsNothing, NoStored

\* Steps that give up, or take the stored session as it is.
LEMMA HoldStored ==
    ASSUME RInv, NEW p \in Procs, stored' = stored,
           \/ Idle(p)
           \/ \E place \in {"recover", "ready"} : Reset(p, place, stored)
    PROVE  RevisionPinsSession' /\ IdleHoldsNothing'
<1>1. \A q \in Procs : q # p => pc'[q] = pc[q] /\ held'[q] = held[q]
  BY DEF Idle, Reset, RInv, TypeOK
<1>2. \/ pc'[p] = "idle" /\ held'[p] = NoStored
      \/ pc'[p] \in {"recover", "ready"} /\ held'[p] = stored
  BY DEF Idle, Reset, RInv, TypeOK
<1>3. stored.revision \in Nat /\ \A q \in Procs : held[q].revision \in Nat
  BY DEF RInv, TypeOK, StoredSession
<1>4. QED
  BY <1>1, <1>2, <1>3 DEF RInv, RevisionPinsSession, IdleHoldsNothing, NoStored

\* Steps within a request keep what the process holds.
LEMMA HoldSame ==
    ASSUME RInv, NEW p \in Procs, stored' = stored, held' = held,
           NEW place, pc' = [pc EXCEPT ![p] = place], place # "idle", pc[p] # "idle"
    PROVE  RevisionPinsSession' /\ IdleHoldsNothing'
<1>1. pc'[p] = place /\ \A q \in Procs : q # p => pc'[q] = pc[q]
  BY DEF RInv, TypeOK
<1>2. QED
  BY <1>1 DEF RInv, RevisionPinsSession, IdleHoldsNothing

LEMMA RInvStep == RInv /\ [Next]_vars => RInv'
<1> SUFFICES ASSUME RInv, [Next]_vars PROVE RevisionPinsSession' /\ IdleHoldsNothing'
  BY TypeStep DEF RInv
<1>1. ASSUME NEW p \in Procs, stored' = stored, Idle(p)
      PROVE  RevisionPinsSession' /\ IdleHoldsNothing'
  BY <1>1, HoldStored
<1>2. ASSUME NEW p \in Procs, stored' = stored, pc[p] # "idle", NEW c, NEW t, ToSave(p, c, t)
      PROVE  RevisionPinsSession' /\ IdleHoldsNothing'
  BY <1>2, HoldSame DEF ToSave
<1>3. ASSUME NEW p \in Procs, Load(p) PROVE RevisionPinsSession' /\ IdleHoldsNothing'
  BY <1>3, HoldStored DEF Load
<1>4. ASSUME NEW p \in Procs, Recover(p) PROVE RevisionPinsSession' /\ IdleHoldsNothing'
  <2>1. CASE Reset(p, "ready", held[p])
    <3>1. held' = held
      BY <2>1 DEF Reset, RInv, TypeOK
    <3>2. QED
      BY <1>4, <2>1, <3>1, HoldSame DEF Recover, Reset
  <2>2. QED
    BY <1>2, <1>4, <2>1 DEF Recover
<1>5. ASSUME NEW p \in Procs, StartNextHand(p) PROVE RevisionPinsSession' /\ IdleHoldsNothing'
  BY <1>2, <1>5 DEF StartNextHand
<1>6. ASSUME NEW p \in Procs, stored' = stored, pc[p] # "idle", NEW c, NEW es, NEW b, NEW t,
             ToAppend(p, c, es, b, t)
      PROVE  RevisionPinsSession' /\ IdleHoldsNothing'
  BY <1>6, HoldSame DEF ToAppend
<1>7. ASSUME NEW p \in Procs, NEW c \in Requests, OpenHand(p, c)
      PROVE  RevisionPinsSession' /\ IdleHoldsNothing'
  <2>1. /\ pc[p] # "idle" /\ stored' = stored
        /\ \/ Idle(p)
           \/ \E t : ToSave(p, c, t)
           \/ \E es, b, t : ToAppend(p, c, es, b, t)
    BY <1>7 DEF OpenHand
  <2>2. QED
    BY <1>1, <1>2, <1>6, <2>1
<1>8. ASSUME NEW p \in Procs, NEW c \in Requests, Execute(p, c)
      PROVE  RevisionPinsSession' /\ IdleHoldsNothing'
  <2>1. /\ pc[p] # "idle" /\ stored' = stored
        /\ \/ Idle(p)
           \/ \E t : ToSave(p, c, t)
           \/ \E es, b, t : ToAppend(p, c, es, b, t)
    BY <1>8 DEF Execute
  <2>2. QED
    BY <1>1, <1>2, <1>6, <2>1
<1>9. ASSUME NEW p \in Procs, AppendBatch(p) PROVE RevisionPinsSession' /\ IdleHoldsNothing'
  <2>1. CASE pc' = [pc EXCEPT ![p] = "reread"] /\ held' = held
    BY <1>9, <2>1, HoldSame DEF AppendBatch
  <2>2. QED
    BY <1>1, <1>2, <1>9, <2>1 DEF AppendBatch
<1>10. ASSUME NEW p \in Procs, Reconcile(p) PROVE RevisionPinsSession' /\ IdleHoldsNothing'
  BY <1>1, <1>2, <1>10 DEF Reconcile
<1>11. ASSUME NEW p \in Procs, Save(p) PROVE RevisionPinsSession' /\ IdleHoldsNothing'
  <2>1. CASE UNCHANGED stored /\ Reset(p, "ready", stored)
    BY <2>1, HoldStored
  <2>2. CASE UNCHANGED stored /\ Idle(p)
    BY <1>1, <2>2
  <2>3. CASE /\ stored' = [revision |-> stored.revision + 1, session |-> next[p]]
             /\ Reset(p, "ready", [revision |-> stored.revision + 1, session |-> next[p]])
    <3>1. /\ pc'[p] = "ready" /\ held'[p] = stored'
          /\ \A q \in Procs : q # p => pc'[q] = pc[q] /\ held'[q] = held[q]
      BY <2>3 DEF Reset, RInv, TypeOK
    <3>2. stored.revision \in Nat /\ \A q \in Procs : held[q].revision \in Nat
      BY DEF RInv, TypeOK, StoredSession
    <3>3. stored'.revision = stored.revision + 1
      BY <2>3
    <3>4. QED
      BY <3>1, <3>2, <3>3 DEF RInv, RevisionPinsSession, IdleHoldsNothing
  <2>4. QED
    BY <1>11, <2>1, <2>2, <2>3 DEF Save
<1>12. ASSUME NEW p \in Procs, Finish(p) \/ Crash(p)
       PROVE  RevisionPinsSession' /\ IdleHoldsNothing'
  BY <1>1, <1>12 DEF Finish, Crash
<1>13. CASE UNCHANGED vars
  BY <1>13 DEF vars, procVars, RInv, RevisionPinsSession, IdleHoldsNothing
<1>14. QED
  BY <1>3, <1>4, <1>5, <1>7, <1>8, <1>9, <1>10, <1>11, <1>12, <1>13 DEF Next, Step

\* Optimistic concurrency is sound: a revision names one session value, for any
\* number of callers, so a save that passes the compare-and-set was computed
\* from the session it replaces.
THEOREM RevisionsIdentifySessions == Spec => []RevisionPinsSession
<1>1. RInv => RevisionPinsSession
  BY DEF RInv
<1>2. QED
  BY <1>1, InitRInv, RInvStep, PTL DEF Spec

(***************************************************************************)
(* The session aggregate.  No transition leaves it, whatever a hand's      *)
(* settlement was, so every session a process loads, holds or is about to  *)
(* save passes its validator, and the table can go on.  What makes this    *)
(* inductive is that both transitions refill short stacks: between hands   *)
(* nobody is short, so the refill of the next start repeats no rebuy.      *)
(***************************************************************************)
Playable(se) ==
    IF se.active = NoHand
    THEN StartedNext(se) # {}
    ELSE /\ se.active.seats = Seats \ SittingOut
         /\ \A s \in se.active.seats : se.stacks[s] >= BigBlind

\* every seat that takes part holds a big blind: nobody is short
Funded(stacks) == \A s \in Seats \ SittingOut : stacks[s] >= BigBlind

Sound(se) ==
    /\ ValidSession(se) /\ Funded(se.stacks)
    /\ se.active # NoHand => se.active.seats = Seats \ SittingOut

LEMMA RefilledFunds ==
    ASSUME NEW stacks \in [Seats -> Nat]
    PROVE  Funded(Refilled(stacks))
  BY DEF Funded, Refilled, Short

LEMMA FundedTakesPart ==
    ASSUME NEW stacks \in [Seats -> Nat], Funded(stacks)
    PROVE  /\ Participating(stacks) = Seats \ SittingOut
           /\ Short(stacks) = {} /\ Refilled(stacks) = stacks
<1>1. Short(stacks) = {}
  BY DEF Funded, Short
<1>2. Participating(stacks) = Seats \ SittingOut
  BY DEF Funded, Participating
<1>3. QED
  BY <1>1, <1>2 DEF Refilled

\* Between hands the next hand can be started, and within one all are funded.
LEMMA SoundIsPlayable ==
    ASSUME NEW se \in Session, Sound(se)
    PROVE  Playable(se)
<1>1. CASE se.active = NoHand
  <2>1. se.stacks \in [Seats -> Nat] /\ Funded(se.stacks)
    BY DEF Session, Sound
  <2>2. NewRebuys(se, se.stacks)
    BY <2>1, FundedTakesPart DEF NewRebuys, AutoRebuys
  <2>3. Cardinality(Participating(Refilled(se.stacks))) >= 2
    BY <2>1, FundedTakesPart
  <2>4. MayStart(se)
    BY <1>1, <2>2, <2>3 DEF MayStart
  <2>5. StartedNext(se) # {}
    BY <2>4 DEF StartedNext
  <2> QED
    BY <1>1, <2>5 DEF Playable
<1>2. CASE se.active # NoHand
  BY <1>2 DEF Playable, Sound, Funded
<1> QED
  BY <1>1, <1>2

LEMMA CreatedSound == ASSUME NEW b \in Seats \ SittingOut PROVE Sound(Created(b))
<1>1. b \in Seats /\ StartingStack > 0 /\ StartingStack >= BigBlind
  OBVIOUS
<1>2. Funded([s \in Seats |-> StartingStack]) /\ b \in Participating([s \in Seats |-> StartingStack])
  BY <1>1 DEF Funded, Participating
<1>3. <<>> = [i \in 1 .. Len(<<>>) |-> i] /\ Len(<<>>) = 0
  OBVIOUS
<1> QED
  BY <1>2, <1>3 DEF Sound, ValidSession, Created

LEMMA RebuysStayValid ==
    ASSUME NEW se \in Session, ValidSession(se), NEW stacks \in [Seats -> Nat], NewRebuys(se, stacks)
    PROVE  LET rebuys == se.rebuys \cup AutoRebuys(se, stacks) IN
           /\ \A r1, r2 \in rebuys : r1.hand = r2.hand /\ r1.seat = r2.seat => r1 = r2
           /\ \A r \in rebuys : r.hand <= se.handSequence + 1
<1> DEFINE new == AutoRebuys(se, stacks)
<1>1. se.handSequence + 1 \in Nat
  BY DEF Session
<1>2. \A r \in new : r.hand = se.handSequence + 1 /\ r = [hand |-> r.hand, seat |-> r.seat, before |-> stacks[r.seat]]
  BY DEF AutoRebuys
<1>3. \A r \in se.rebuys, n \in new : ~(r.hand = n.hand /\ r.seat = n.seat)
  BY DEF NewRebuys
<1>4. \A r1, r2 \in new : r1.seat = r2.seat => r1 = r2
  BY <1>2
<1>5. /\ \A r1, r2 \in se.rebuys : r1.hand = r2.hand /\ r1.seat = r2.seat => r1 = r2
      /\ \A r \in se.rebuys : r.hand <= se.handSequence + 1
  BY DEF ValidSession
<1>6. \A r \in new : r.hand <= se.handSequence + 1
  BY <1>1, <1>2
<1> QED
  <2> HIDE DEF new
  <2>1. \A r1, r2 \in se.rebuys \cup new : r1.hand = r2.hand /\ r1.seat = r2.seat => r1 = r2
    BY <1>3, <1>4, <1>5
  <2>2. \A r \in se.rebuys \cup new : r.hand <= se.handSequence + 1
    BY <1>5, <1>6
  <2> QED
    BY <2>1, <2>2 DEF new

LEMMA StartedSound ==
    ASSUME NEW se \in Session, Sound(se), NEW t \in StartedNext(se)
    PROVE  Sound(t)
<1>1. se.stacks \in [Seats -> Nat] /\ Funded(se.stacks) /\ ValidSession(se)
  BY DEF Session, Sound
<1>2. /\ Refilled(se.stacks) = se.stacks
      /\ Participating(se.stacks) = Seats \ SittingOut
  BY <1>1, FundedTakesPart
<1>3. /\ t.button = se.button /\ t.stacks = se.stacks /\ t.handSequence = se.handSequence + 1
      /\ t.completed = se.completed
      /\ t.active = [hand |-> se.handSequence + 1, button |-> se.button, seats |-> Seats \ SittingOut]
      /\ t.rebuys = se.rebuys \cup AutoRebuys(se, se.stacks)
      /\ se.active = NoHand /\ NewRebuys(se, se.stacks)
  BY <1>2 DEF StartedNext, MayStart
<1>4. /\ \A r1, r2 \in t.rebuys : r1.hand = r2.hand /\ r1.seat = r2.seat => r1 = r2
      /\ \A r \in t.rebuys : r.hand <= se.handSequence + 1
  BY <1>1, <1>3, RebuysStayValid
<1>5. t \in Session
  BY StartedType
<1>6. \A r \in t.rebuys : r.hand <= t.handSequence + 1
  <2>1. se.handSequence \in Nat /\ \A r \in t.rebuys : r.hand \in Nat
    BY <1>5 DEF Session, Rebuy
  <2> QED
    BY <1>3, <1>4, <2>1
<1>7. /\ se.button \in Participating(se.stacks)
      /\ se.completed = [i \in 1 .. Len(se.completed) |-> i]
      /\ se.handSequence = Len(se.completed)
  <2>1. Len(se.completed) \in Nat
    BY DEF Session
  <2>2. se.handSequence = Len(se.completed) + 0
    BY <1>1, <1>3 DEF ValidSession
  <2>3. /\ se.button \in Participating(se.stacks)
        /\ se.completed = [i \in 1 .. Len(se.completed) |-> i]
    BY <1>1 DEF ValidSession
  <2> QED
    BY <2>1, <2>2, <2>3
<1>8. t.active # NoHand
  BY <1>3 DEF Session, ActiveHand
<1>9. ValidSession(t)
  <2>1. t.button \in Participating(t.stacks) /\ t.completed = [i \in 1 .. Len(t.completed) |-> i]
    BY <1>3, <1>7
  <2>2. t.handSequence = Len(t.completed) + 1
    BY <1>3, <1>7
  <2>3. t.active.hand = t.handSequence /\ t.active.button = t.button /\ t.active.button \in t.active.seats
    BY <1>2, <1>3, <1>7
  <2> QED
    BY <1>4, <1>6, <1>8, <2>1, <2>2, <2>3 DEF ValidSession
<1> QED
  BY <1>1, <1>3, <1>9 DEF Sound

\* Whatever the settlement was.
LEMMA CompletedSound ==
    ASSUME NEW se \in Session, Sound(se), NEW h, NEW ending, NEW t \in CompletedBy(se, h, ending)
    PROVE  Sound(t)
<1> DEFINE stacks == Settled(se, ending)
<1>1. PICK b \in NextButtons(se, Refilled(stacks)) :
          /\ t = [button |-> b, stacks |-> Refilled(stacks), handSequence |-> se.handSequence,
                  completed |-> Append(se.completed, se.active.hand), active |-> NoHand,
                  rebuys |-> se.rebuys \cup AutoRebuys(se, stacks)]
          /\ se.active # NoHand
          /\ \A s \in DOMAIN ending : ending[s] \in Nat
          /\ NewRebuys(se, stacks)
  BY DEF CompletedBy, SettledStacks
<1>2. stacks \in [Seats -> Nat]
  BY <1>1 DEF Settled, Session
<1>3. Funded(t.stacks)
  BY <1>1, <1>2, RefilledFunds
<1>4. ValidSession(se)
  BY DEF Sound
<1>5. /\ \A r1, r2 \in t.rebuys : r1.hand = r2.hand /\ r1.seat = r2.seat => r1 = r2
      /\ \A r \in t.rebuys : r.hand <= t.handSequence + 1
  <2> HIDE DEF stacks
  <2> QED
    BY <1>1, <1>2, <1>4, RebuysStayValid
<1>6. t.button \in Participating(t.stacks)
  BY <1>1 DEF NextButtons
<1>7. /\ t.completed = [i \in 1 .. Len(t.completed) |-> i]
      /\ t.handSequence = Len(t.completed)
  <2>1. /\ se.completed \in Seq(Nat) /\ Len(se.completed) \in Nat
        /\ se.active.hand = Len(se.completed) + 1 /\ se.handSequence = Len(se.completed) + 1
        /\ se.completed = [i \in 1 .. Len(se.completed) |-> i]
    BY <1>1, <1>4 DEF Session, ValidSession
  <2>2. t.completed = Append(se.completed, Len(se.completed) + 1) /\ t.handSequence = Len(se.completed) + 1
    BY <1>1, <2>1
  <2>3. /\ Len(t.completed) = Len(se.completed) + 1
        /\ \A i \in 1 .. Len(se.completed) + 1 : t.completed[i] = i
        /\ t.completed \in Seq(Nat)
    BY <2>1, <2>2
  <2>4. t.completed = [i \in 1 .. Len(t.completed) |-> t.completed[i]]
    BY <2>3
  <2> QED
    BY <2>2, <2>3, <2>4
<1>8. t.active = NoHand
  BY <1>1
<1> QED
  BY <1>3, <1>5, <1>6, <1>7, <1>8 DEF Sound, ValidSession

LEMMA SuccessorSound ==
    ASSUME NEW se \in Session, Sound(se), NEW h, NEW es, NEW t \in SuccessorForReplay(se, h, es)
    PROVE  Sound(t)
  BY CompletedSound DEF SuccessorForReplay

\* What is stored, held and about to be saved.
SInv == /\ Sound(stored.session)
        /\ \A p \in Procs : Sound(held[p].session) /\ Sound(next[p])

LEMMA InitSInv == ASSUME 0 \notin SittingOut PROVE Init => SInv
<1> SUFFICES ASSUME Init PROVE SInv
  OBVIOUS
<1>1. PICK s \in StartedNext(Created(0)) : stored = [revision |-> 1, session |-> s]
  BY DEF Init
<1>2. Sound(s)
  BY FirstButton, CreatedType, CreatedSound, StartedSound
<1> QED
  BY <1>1, <1>2, FirstButton, CreatedSound DEF Init, SInv, NoStored

\* A step changes what one process holds and is about to save, and stores at
\* most what it was about to save.
LEMMA LocalSound ==
    ASSUME TypeOK, SInv, NEW p \in Procs, NEW st, NEW t, Sound(st.session), Sound(t),
           held' = [held EXCEPT ![p] = st], next' = [next EXCEPT ![p] = t],
           stored' = stored \/ stored'.session = next[p]
    PROVE  SInv'
<1>1. Sound(stored.session) /\ \A q \in Procs : Sound(held[q].session) /\ Sound(next[q])
  BY DEF SInv
<1>2. PICK u : u = stored'.session
  OBVIOUS
<1>3. Sound(u)
  BY <1>1, <1>2
<1>4. ASSUME NEW q \in Procs PROVE Sound(held'[q].session) /\ Sound(next'[q])
  BY <1>1 DEF TypeOK
<1> QED
  BY <1>2, <1>3, <1>4 DEF SInv, Sound, ValidSession

LEMMA NothingChanged ==
    ASSUME SInv, stored' = stored, held' = held, next' = next
    PROVE  SInv'
<1>1. PICK u : u = stored'.session
  OBVIOUS
<1>2. Sound(u)
  BY <1>1 DEF SInv
<1>3. ASSUME NEW q \in Procs PROVE Sound(held'[q].session) /\ Sound(next'[q])
  BY DEF SInv
<1> QED
  BY <1>1, <1>2, <1>3 DEF SInv, Sound, ValidSession

LEMMA SInvStep ==
    ASSUME 0 \notin SittingOut, TypeOK, SInv, [Next]_vars
    PROVE  SInv'
<1> /\ Sound(stored.session) /\ Sound(NoStored.session)
    /\ \A p \in Procs : /\ held[p].session \in Session /\ next[p] \in Session
                        /\ Sound(held[p].session) /\ Sound(next[p])
  BY FirstButton, CreatedSound DEF SInv, NoStored, TypeOK, StoredSession
<1>1. ASSUME NEW p \in Procs, NEW place, NEW st, Reset(p, place, st), Sound(st.session),
             stored' = stored \/ stored'.session = next[p]
      PROVE  SInv'
  BY <1>1, LocalSound DEF Reset
<1>2. ASSUME NEW p \in Procs, stored' = stored, Idle(p)
      PROVE  SInv'
  BY <1>1, <1>2 DEF Idle
<1>3. ASSUME NEW p \in Procs, stored' = stored, NEW c, NEW t, Sound(t), ToSave(p, c, t)
      PROVE  SInv'
  <2>1. held' = [held EXCEPT ![p] = held[p]]
    BY <1>3 DEF ToSave, TypeOK
  <2> QED
    BY <1>3, <2>1, LocalSound DEF ToSave
<1>4. ASSUME NEW p \in Procs, stored' = stored, NEW c, NEW es, NEW b, NEW t, Sound(t),
             ToAppend(p, c, es, b, t)
      PROVE  SInv'
  <2>1. held' = [held EXCEPT ![p] = held[p]]
    BY <1>4 DEF ToAppend, TypeOK
  <2> QED
    BY <1>4, <2>1, LocalSound DEF ToAppend
<1>5. ASSUME NEW p \in Procs, Load(p) PROVE SInv'
  BY <1>1, <1>5 DEF Load
<1>6. ASSUME NEW p \in Procs, Recover(p) PROVE SInv'
  BY <1>1, <1>3, <1>6, CompletedSound DEF Recover
<1>7. ASSUME NEW p \in Procs, StartNextHand(p) PROVE SInv'
  BY <1>3, <1>7, StartedSound DEF StartNextHand
<1>8. ASSUME NEW p \in Procs, NEW c, OpenHand(p, c) PROVE SInv'
  <2>1. /\ stored' = stored
        /\ \/ Idle(p)
           \/ \E t \in SuccessorForReplay(held[p].session, c.hand, log[c.hand]) : ToSave(p, c, t)
           \/ \E es, b : ToAppend(p, c, es, b, held[p].session)
    BY <1>8 DEF OpenHand
  <2> QED
    BY <1>2, <1>3, <1>4, <2>1, SuccessorSound
<1>9. ASSUME NEW p \in Procs, NEW c, Execute(p, c) PROVE SInv'
  <2>1. /\ stored' = stored
        /\ \/ Idle(p)
           \/ \E t \in SuccessorForReplay(held[p].session, c.hand, log[c.hand]) : ToSave(p, c, t)
           \/ \E es, b, read : \E t \in SuccessorForReplay(held[p].session, c.hand, read) :
                 ToAppend(p, c, es, b, t)
    BY <1>9 DEF Execute
  <2> QED
    BY <1>2, <1>3, <1>4, <2>1, SuccessorSound
<1>10. ASSUME NEW p \in Procs, AppendBatch(p) PROVE SInv'
  <2>1. CASE held' = held /\ next' = next
    BY <1>10, <2>1, NothingChanged DEF AppendBatch
  <2> QED
    BY <1>2, <1>3, <1>10, <2>1 DEF AppendBatch
<1>11. ASSUME NEW p \in Procs, Reconcile(p) PROVE SInv'
  BY <1>2, <1>3, <1>11, SuccessorSound DEF Reconcile
<1>12. ASSUME NEW p \in Procs, Save(p) PROVE SInv'
  BY <1>1, <1>2, <1>12 DEF Save
<1>13. ASSUME NEW p \in Procs, Finish(p) \/ Crash(p) PROVE SInv'
  BY <1>2, <1>13 DEF Finish, Crash
<1>14. CASE UNCHANGED vars
  BY <1>14, NothingChanged DEF vars, procVars
<1> QED
  BY <1>5, <1>6, <1>7, <1>8, <1>9, <1>10, <1>11, <1>12, <1>13, <1>14 DEF Next, Step

LEMMA SInvAlways == ASSUME 0 \notin SittingOut PROVE Spec => [](TypeOK /\ SInv)
<1>1. Init => TypeOK /\ SInv
  BY InitType, InitSInv
<1>2. TypeOK /\ SInv /\ [Next]_vars => (TypeOK /\ SInv)'
  BY TypeStep, SInvStep
<1> QED
  BY <1>1, <1>2, PTL DEF Spec

\* No sequence of transitions, of any number of callers and with any settlements,
\* reaches a session that its own validator rejects: _replace never raises in the
\* middle of a request.  (Seat 0, the first button, takes part.)
THEOREM SessionsStayValid == ASSUME 0 \notin SittingOut PROVE Spec => []SessionsValid
<1>1. SInv => SessionsValid
  BY DEF SInv, Sound, SessionsValid
<1> QED
  BY <1>1, SInvAlways, PTL

\* The table never gets stuck between hands: its session can start the next one,
\* and in a hand everyone who is not sitting out holds at least a big blind.
THEOREM TableGoesOn == ASSUME 0 \notin SittingOut PROVE Spec => []Playable(stored.session)
<1>1. TypeOK /\ SInv => Playable(stored.session)
  BY SoundIsPlayable DEF SInv, TypeOK, StoredSession
<1> QED
  BY <1>1, SInvAlways, PTL

(***************************************************************************)
(* The chips of a session.                                                 *)
(***************************************************************************)
LEMMA SumConstant ==
    ASSUME NEW S, IsFiniteSet(S), NEW c \in Nat
    PROVE  SumFunctionOnSet([s \in S |-> c], S) = Cardinality(S) * c
<1> DEFINE f == [s \in S |-> c]
           A == {T \in SUBSET S : SumFunctionOnSet(f, T) = Cardinality(T) * c}
<1>1. {} \in A
  BY SumEmpty, FS_EmptySet
<1>2. ASSUME NEW T \in SUBSET S, NEW x \in T, T \ {x} \in A PROVE T \in A
  <2>1. IsFiniteSet(T) /\ IntOn(f, T) /\ f[x] = c
    BY FS_Subset DEF IntOn
  <2>2. SumFunctionOnSet(f, T) = f[x] + SumFunctionOnSet(f, T \ {x})
    BY <2>1, SumTake
  <2>3. Cardinality(T \ {x}) = Cardinality(T) - 1 /\ Cardinality(T) \in Nat
    BY <2>1, FS_RemoveElement, FS_CardinalityType
  <2>4. SumFunctionOnSet(f, T \ {x}) = Cardinality(T \ {x}) * c
    BY <1>2
  <2>5. c + (Cardinality(T) - 1) * c = Cardinality(T) * c
    BY <2>3
  <2> HIDE DEF f
  <2> QED
    BY <2>1, <2>2, <2>3, <2>4, <2>5
<1>3. S \in A
  <2> HIDE DEF A
  <2> QED
    BY <1>1, <1>2, SumInduction
<1> QED
  BY <1>3

LEMMA SumUnion ==
    ASSUME NEW f, NEW S, NEW T, IsFiniteSet(S), IsFiniteSet(T), S \cap T = {},
           IntOn(f, S), IntOn(f, T)
    PROVE  SumFunctionOnSet(f, S \cup T) = SumFunctionOnSet(f, S) + SumFunctionOnSet(f, T)
<1> DEFINE F(U) == SumFunctionOnSet(f, U)
           A == {U \in SUBSET T : F(S \cup U) = F(S) + F(U)}
<1>1. {} \in A
  <2>1. F({}) = 0 /\ F(S) \in Int /\ S \cup {} = S
    BY SumEmpty, SumInt
  <2> HIDE DEF F
  <2> QED
    BY <2>1
<1>2. ASSUME NEW U \in SUBSET T, NEW x \in U, U \ {x} \in A PROVE U \in A
  <2>1. /\ IsFiniteSet(U) /\ IsFiniteSet(U \ {x}) /\ IsFiniteSet(S \cup U)
        /\ IntOn(f, U) /\ IntOn(f, U \ {x}) /\ IntOn(f, S \cup U) /\ x \in S \cup U
    BY FS_Subset, FS_Union DEF IntOn
  <2>2. F(U) = f[x] + F(U \ {x}) /\ F(U \ {x}) \in Int /\ F(S) \in Int /\ f[x] \in Int
    BY <2>1, SumTake, SumInt DEF IntOn
  <2>3. F(S \cup U) = f[x] + F((S \cup U) \ {x})
    BY <2>1, SumTake
  <2>4. (S \cup U) \ {x} = S \cup (U \ {x})
    OBVIOUS
  <2>5. F(S \cup (U \ {x})) = F(S) + F(U \ {x})
    BY <1>2
  <2>6. F((S \cup U) \ {x}) = F(S) + F(U \ {x})
    BY <2>4, <2>5, Zenon
  <2>7. F(S \cup U) = F(S) + F(U)
    <3> HIDE DEF F
    <3> QED
      BY ONLY <2>2, <2>3, <2>6
  <2> QED
    BY <2>7
<1>3. T \in A
  <2> HIDE DEF A
  <2> QED
    BY <1>1, <1>2, SumInduction
<1> QED
  BY <1>3

RebuyChips(rebuys) == SumFunction([r \in rebuys |-> StartingStack - r.before])

LEMMA RebuyChipsUnion ==
    ASSUME NEW A, NEW B, IsFiniteSet(A), IsFiniteSet(B), A \cap B = {},
           A \subseteq Rebuy, B \subseteq Rebuy
    PROVE  /\ RebuyChips(A \cup B) = RebuyChips(A) + RebuyChips(B)
           /\ RebuyChips(A) \in Int /\ RebuyChips(B) \in Int
<1> DEFINE f(S) == [r \in S |-> StartingStack - r.before]
<1>1. IntOn(f(A \cup B), A) /\ IntOn(f(A \cup B), B) /\ IntOn(f(A), A) /\ IntOn(f(B), B)
  BY DEF IntOn, Rebuy
<1>2. SumFunctionOnSet(f(A \cup B), A \cup B)
        = SumFunctionOnSet(f(A \cup B), A) + SumFunctionOnSet(f(A \cup B), B)
  BY <1>1, SumUnion
<1>3. \A r \in A : f(A \cup B)[r] = f(A)[r]
  OBVIOUS
<1>4. \A r \in B : f(A \cup B)[r] = f(B)[r]
  OBVIOUS
<1>5. /\ RebuyChips(A \cup B) = SumFunctionOnSet(f(A \cup B), A \cup B)
      /\ RebuyChips(A) = SumFunctionOnSet(f(A), A) /\ RebuyChips(B) = SumFunctionOnSet(f(B), B)
  BY DEF RebuyChips, SumFunction
<1> HIDE DEF f
<1>6. SumFunctionOnSet(f(A \cup B), A) = SumFunctionOnSet(f(A), A)
  BY <1>1, <1>3, SumSame
<1>7. SumFunctionOnSet(f(A \cup B), B) = SumFunctionOnSet(f(B), B)
  BY <1>1, <1>4, SumSame
<1>8. SumFunctionOnSet(f(A), A) \in Int /\ SumFunctionOnSet(f(B), B) \in Int
  BY <1>1, SumInt
<1> QED
  BY <1>2, <1>5, <1>6, <1>7, <1>8

\* What a refill adds to the stacks is what its rebuys record.
LEMMA RefillIsRecorded ==
    ASSUME NEW se \in Session, NEW stacks \in [Seats -> Nat]
    PROVE  /\ SumFunction(Refilled(stacks)) = SumFunction(stacks) + RebuyChips(AutoRebuys(se, stacks))
           /\ IsFiniteSet(AutoRebuys(se, stacks)) /\ AutoRebuys(se, stacks) \subseteq Rebuy
<1> DEFINE rec == [s \in Short(stacks) |->
                     [hand |-> se.handSequence + 1, seat |-> s, before |-> stacks[s]]]
           L == AutoRebuys(se, stacks)
           a == [r \in L |-> StartingStack - r.before]
           g == [r \in L |-> r.seat]
           w == [s \in Seats |-> IF s \in Short(stacks) THEN StartingStack - stacks[s] ELSE 0]
<1>1. Short(stacks) \subseteq Seats /\ IsFiniteSet(Short(stacks)) /\ IsFiniteSet(Seats)
  BY SeatsFinite DEF Short
<1>2. L = {rec[s] : s \in Short(stacks)}
  BY DEF AutoRebuys
<1>3. IsFiniteSet(L)
  <2> HIDE DEF rec, L
  <2> QED
    BY <1>1, <1>2, ImageFinite
<1>4. L \subseteq Rebuy
  BY <1>1 DEF AutoRebuys, Rebuy, Session
<1>5. IntOn(a, L) /\ \A l \in L : g[l] \in Seats
  BY <1>4 DEF IntOn, Rebuy
<1>6. ASSUME NEW s \in Seats PROVE w[s] = Part(a, g, L, s)
  <2>1. CASE s \in Short(stacks)
    <3>1. rec[s] \in L /\ rec[s].before = stacks[s]
      BY <1>2, <2>1
    <3>2. {l \in L : g[l] = s} = {rec[s]}
      BY <2>1 DEF AutoRebuys
    <3>3. a[rec[s]] = StartingStack - stacks[s] /\ a[rec[s]] \in Int
      BY <3>1, <1>5 DEF IntOn
    <3>4. IsFiniteSet({rec[s]}) /\ rec[s] \in {rec[s]} /\ {rec[s]} \ {rec[s]} = {} /\ IntOn(a, {rec[s]})
      BY <3>3, FS_Singleton DEF IntOn
    <3>5. w[s] = StartingStack - stacks[s]
      BY <2>1
    <3> HIDE DEF a, g, L, rec, w
    <3>6. SumFunctionOnSet(a, {rec[s]}) = a[rec[s]] + SumFunctionOnSet(a, {rec[s]} \ {rec[s]})
      BY <3>4, SumTake
    <3>7. SumFunctionOnSet(a, {rec[s]} \ {rec[s]}) = 0
      BY <3>4, SumEmpty, Zenon
    <3>8. SumFunctionOnSet(a, {rec[s]}) = a[rec[s]]
      BY ONLY <3>3, <3>6, <3>7
    <3> QED
      BY <3>2, <3>3, <3>5, <3>8 DEF Part
  <2>2. CASE s \notin Short(stacks)
    <3>1. {l \in L : g[l] = s} = {}
      BY <2>2 DEF AutoRebuys
    <3>2. w[s] = 0
      BY <2>2
    <3> HIDE DEF a, g, L, w
    <3> QED
      BY <3>1, <3>2, SumEmpty DEF Part
  <2> QED
    BY <2>1, <2>2
<1>7. IntOn(stacks, Seats) /\ IntOn(w, Seats) /\ \A s \in Seats : Refilled(stacks)[s] = stacks[s] + w[s]
  BY DEF IntOn, Refilled
<1>8. SumFunctionOnSet(w, Seats) = SumFunctionOnSet(a, L)
  <2> HIDE DEF a, g, L, w
  <2> QED
    BY <1>1, <1>3, <1>5, <1>6, SumByOwner
<1>9. SumFunctionOnSet(Refilled(stacks), Seats) = SumFunctionOnSet(stacks, Seats) + SumFunctionOnSet(w, Seats)
  <2> HIDE DEF w
  <2> QED
    BY <1>1, <1>7, SumPlus
<1>10. DOMAIN Refilled(stacks) = Seats /\ DOMAIN stacks = Seats /\ RebuyChips(L) = SumFunctionOnSet(a, L)
  BY DEF Refilled, RebuyChips, SumFunction
<1> QED
  BY <1>3, <1>4, <1>8, <1>9, <1>10 DEF SumFunction

Accounted(se) ==
    /\ IsFiniteSet(se.rebuys)
    /\ SumFunction(se.stacks) = NSeats * StartingStack + RebuyChips(se.rebuys)

LEMMA CreatedAccounted == ASSUME NEW b \in Seats PROVE Accounted(Created(b))
<1> DEFINE f == [s \in Seats |-> StartingStack]
<1>1. Cardinality(Seats) = NSeats /\ IsFiniteSet(Seats)
  <2>1. /\ 0 \in Int /\ NSeats - 1 \in Int /\ ~(0 > NSeats - 1) /\ (NSeats - 1) - 0 + 1 = NSeats
    OBVIOUS
  <2> QED
    BY <2>1, FS_Interval DEF Seats
<1>2. SumFunctionOnSet(f, Seats) = NSeats * StartingStack
  BY <1>1, SumConstant
<1>3. RebuyChips({}) = 0
  BY SumEmpty DEF RebuyChips, SumFunction
<1>4. SumFunction(f) = NSeats * StartingStack
  BY <1>2 DEF SumFunction
<1>5. Created(b).rebuys = {} /\ Created(b).stacks = f
  BY DEF Created
<1>6. NSeats * StartingStack \in Nat
  BY DEF Seats
<1> HIDE DEF f
<1> QED
  BY <1>3, <1>4, <1>5, <1>6, FS_EmptySet DEF Accounted

\* A refill of stacks that hold the session's chips.
LEMMA RefillAccounted ==
    ASSUME NEW se \in Session, Accounted(se), NEW stacks \in [Seats -> Nat], NewRebuys(se, stacks),
           SumFunction(stacks) = SumFunction(se.stacks)
    PROVE  LET rebuys == se.rebuys \cup AutoRebuys(se, stacks) IN
           /\ IsFiniteSet(rebuys)
           /\ SumFunction(Refilled(stacks)) = NSeats * StartingStack + RebuyChips(rebuys)
<1> DEFINE new == AutoRebuys(se, stacks)
<1>1. /\ SumFunction(Refilled(stacks)) = SumFunction(stacks) + RebuyChips(new)
      /\ IsFiniteSet(new) /\ new \subseteq Rebuy
  BY RefillIsRecorded
<1>2. se.rebuys \subseteq Rebuy /\ IsFiniteSet(se.rebuys)
  BY DEF Session, Accounted
<1>3. se.rebuys \cap new = {}
  BY DEF NewRebuys
<1> HIDE DEF new
<1>4. /\ RebuyChips(se.rebuys \cup new) = RebuyChips(se.rebuys) + RebuyChips(new)
      /\ RebuyChips(se.rebuys) \in Int /\ RebuyChips(new) \in Int
  BY <1>1, <1>2, <1>3, RebuyChipsUnion
<1>5. SumFunction(se.stacks) = NSeats * StartingStack + RebuyChips(se.rebuys)
  BY DEF Accounted
<1>6. NSeats * StartingStack \in Int
  OBVIOUS
<1>7. IsFiniteSet(se.rebuys \cup new)
  BY <1>1, <1>2, FS_Union
<1>8. SumFunction(Refilled(stacks)) = NSeats * StartingStack + RebuyChips(se.rebuys \cup new)
  <2> DEFINE k == NSeats * StartingStack
  <2> HIDE DEF k
  <2> QED
    BY <1>1, <1>4, <1>5, <1>6 DEF k
<1> QED
  BY <1>7, <1>8 DEF new

LEMMA StartedAccounted ==
    ASSUME NEW se \in Session, Accounted(se), NEW t \in StartedNext(se)
    PROVE  Accounted(t)
<1>1. /\ t.stacks = Refilled(se.stacks) /\ t.rebuys = se.rebuys \cup AutoRebuys(se, se.stacks)
      /\ NewRebuys(se, se.stacks) /\ se.stacks \in [Seats -> Nat]
  BY DEF StartedNext, MayStart, Session
<1> QED
  BY <1>1, RefillAccounted DEF Accounted

\* A settlement moves chips between the seats of the hand only.
LEMMA SettledChips ==
    ASSUME NEW se \in Session, NEW ending, DOMAIN ending \subseteq Seats,
           \A s \in DOMAIN ending : ending[s] \in Nat,
           SumFunction(ending) = SumFunctionOnSet(se.stacks, DOMAIN ending)
    PROVE  /\ Settled(se, ending) \in [Seats -> Nat]
           /\ SumFunction(Settled(se, ending)) = SumFunction(se.stacks)
<1> DEFINE D == DOMAIN ending
           R == Seats \ D
           st == Settled(se, ending)
<1>1. se.stacks \in [Seats -> Nat] /\ st \in [Seats -> Nat]
  BY DEF Settled, Session
<1>2. /\ IsFiniteSet(D) /\ IsFiniteSet(R) /\ D \cap R = {} /\ D \cup R = Seats
  BY SeatsFinite
<1>3. /\ IntOn(st, D) /\ IntOn(st, R) /\ IntOn(se.stacks, D) /\ IntOn(se.stacks, R) /\ IntOn(ending, D)
  BY <1>1 DEF IntOn
<1>4. (\A s \in D : ending[s] = st[s]) /\ (\A s \in R : st[s] = se.stacks[s])
  BY DEF Settled
<1>5. DOMAIN st = Seats /\ DOMAIN se.stacks = Seats
  BY <1>1
<1> HIDE DEF st, R, D
<1>6. /\ SumFunctionOnSet(st, Seats) = SumFunctionOnSet(st, D) + SumFunctionOnSet(st, R)
      /\ SumFunctionOnSet(se.stacks, Seats) = SumFunctionOnSet(se.stacks, D) + SumFunctionOnSet(se.stacks, R)
  <2>1. SumFunctionOnSet(st, D \cup R) = SumFunctionOnSet(st, D) + SumFunctionOnSet(st, R)
    BY <1>2, <1>3, SumUnion
  <2>2. SumFunctionOnSet(se.stacks, D \cup R) = SumFunctionOnSet(se.stacks, D) + SumFunctionOnSet(se.stacks, R)
    BY <1>2, <1>3, SumUnion
  <2> QED
    BY <1>2, <2>1, <2>2
<1>7. SumFunctionOnSet(ending, D) = SumFunctionOnSet(st, D)
  BY <1>2, <1>3, <1>4, SumSame
<1>8. SumFunctionOnSet(st, R) = SumFunctionOnSet(se.stacks, R)
  BY <1>2, <1>3, <1>4, SumSame
<1>9. SumFunctionOnSet(ending, D) = SumFunctionOnSet(se.stacks, D)
  BY DEF D, SumFunction
<1>10. SumFunctionOnSet(st, Seats) = SumFunctionOnSet(se.stacks, Seats)
  BY <1>6, <1>7, <1>8, <1>9
<1> QED
  BY <1>1, <1>5, <1>10 DEF st, SumFunction

LEMMA CompletedAccounted ==
    ASSUME NEW se \in Session, Accounted(se), NEW h, NEW ending, NEW t \in CompletedBy(se, h, ending)
    PROVE  Accounted(t)
<1> DEFINE stacks == Settled(se, ending)
<1>1. /\ t.stacks = Refilled(stacks) /\ t.rebuys = se.rebuys \cup AutoRebuys(se, stacks)
      /\ NewRebuys(se, stacks) /\ se.active # NoHand /\ DOMAIN ending = se.active.seats
      /\ \A s \in DOMAIN ending : ending[s] \in Nat
      /\ SumFunction(ending) = SumFunctionOnSet(se.stacks, DOMAIN ending)
  BY DEF CompletedBy, SettledStacks
<1>2. DOMAIN ending \subseteq Seats
  BY <1>1 DEF Session, ActiveHand
<1> HIDE DEF stacks
<1>3. stacks \in [Seats -> Nat] /\ SumFunction(stacks) = SumFunction(se.stacks)
  BY <1>1, <1>2, SettledChips DEF stacks
<1> QED
  BY <1>1, <1>3, RefillAccounted DEF Accounted

\* What is inductive: the session is typed, passes its validator, everyone who
\* takes part is funded, and the chips are accounted for.
SessionInv == session \in Session /\ Sound(session) /\ Accounted(session)

LEMMA SessionGives == SessionInv => SessionSound
<1> SUFFICES ASSUME SessionInv PROVE SessionSound
  OBVIOUS
<1> USE DEF SessionInv
<1>1. AlwaysValid
  BY DEF AlwaysValid, Sound
<1>2. ChipsAccounted
  BY DEF ChipsAccounted, Accounted, RebuyChips
<1>3. Playable(session)
  BY SoundIsPlayable
<1>4. EveryoneFunded /\ NextHandStarts
  BY <1>3 DEF Playable, EveryoneFunded, NextHandStarts
<1> QED
  BY <1>1, <1>2, <1>4 DEF SessionSound

LEMMA SessionStep == SessionInv /\ [SessionNext]_session => SessionInv'
<1> SUFFICES ASSUME SessionInv, [SessionNext]_session PROVE SessionInv'
  OBVIOUS
<1>1. ASSUME NEW t, t \in Session, Sound(t), Accounted(t), session' = t PROVE SessionInv'
  BY <1>1 DEF SessionInv, Sound, Accounted, ValidSession
<1>2. PICK se : se = session
  OBVIOUS
<1>3. se \in Session /\ Sound(se) /\ Accounted(se)
  BY <1>2 DEF SessionInv
<1>4. PICK t : session' = t
  OBVIOUS
<1>5. CASE t \in StartedNext(se)
  BY <1>1, <1>3, <1>4, <1>5, StartedType, StartedSound, StartedAccounted
<1>6. ASSUME NEW h, NEW ending, t \in CompletedBy(se, h, ending) PROVE SessionInv'
  BY <1>1, <1>3, <1>4, <1>6, CompletedType, CompletedSound, CompletedAccounted
<1>7. CASE t = se
  BY <1>1, <1>3, <1>4, <1>7
<1> QED
  BY <1>2, <1>4, <1>5, <1>6, <1>7 DEF SessionNext, SessionStartsHand, SessionCompletesHand

\* A session stays one that its validator accepts and whose next hand can start,
\* deals everybody in with a big blind, and its chips are the buy-ins and the
\* recorded rebuys: whatever its first button, and whatever the settlements.
THEOREM SessionStaysSound == SessionSpec => []SessionSound
<1>1. SessionInit => SessionInv
  BY CreatedType, CreatedSound, CreatedAccounted DEF SessionInit, SessionInv
<1> QED
  BY <1>1, SessionStep, SessionGives, PTL DEF SessionSpec

(***************************************************************************)
(* The history of a hand.  An action is appended with every street it      *)
(* makes due and with the completion it causes, so that a durable hand is  *)
(* never left half done; all of it is a play by the rules of HandPlay.     *)
(***************************************************************************)
DealtFrom(st, g) == g = [k \in 0 .. River |-> IF k = 0 THEN st ELSE Dealt(g[k - 1])]

LEMMA AfterDealsFacts ==
    ASSUME NEW st
    PROVE  /\ AfterDeals(st)[0] = st
           /\ \A k \in 0 .. River - 1 : AfterDeals(st)[k + 1] = Dealt(AfterDeals(st)[k])
<1>1. AfterDeals(st) = CHOOSE g : DealtFrom(st, g)
  BY Zenon DEF AfterDeals, DealtFrom
<1>2. \E g : DealtFrom(st, g)
  <2> DEFINE d1 == Dealt(st)
             d2 == Dealt(d1)
             d3 == Dealt(d2)
             g == [k \in 0 .. River |-> IF k = 0 THEN st ELSE IF k = 1 THEN d1
                                        ELSE IF k = 2 THEN d2 ELSE d3]
  <2>1. g[0] = st /\ g[1] = d1 /\ g[2] = d2 /\ g[3] = d3
    BY DEF River
  <2>2. ASSUME NEW k \in 0 .. River PROVE g[k] = IF k = 0 THEN st ELSE Dealt(g[k - 1])
    <3>1. k = 0 \/ k = 1 \/ k = 2 \/ k = 3
      BY <2>2 DEF River
    <3> HIDE DEF g
    <3>2. CASE k = 0
      BY <2>1, <3>2
    <3>3. CASE k = 1
      BY <2>1, <3>3
    <3>4. CASE k = 2
      <4>1. k - 1 = 1
        BY <3>4
      <4>2. QED
        BY <2>1, <3>4, <4>1
    <3>5. CASE k = 3
      <4>1. k - 1 = 2
        BY <3>5
      <4>2. QED
        BY <2>1, <3>5, <4>1
    <3>6. QED
      BY <3>1, <3>2, <3>3, <3>4, <3>5
  <2>3. g = [k \in 0 .. River |-> g[k]]
    OBVIOUS
  <2> HIDE DEF g
  <2>4. DealtFrom(st, g)
    BY <2>2, <2>3 DEF DealtFrom
  <2>5. QED
    BY <2>4
<1>3. DealtFrom(st, AfterDeals(st))
  BY <1>1, <1>2
<1>4. ASSUME NEW k \in 0 .. River - 1
      PROVE  k + 1 \in 0 .. River /\ k + 1 # 0 /\ (k + 1) - 1 = k
  BY <1>4 DEF River
<1>5. 0 \in 0 .. River
  BY DEF River
<1>6. \A k \in 0 .. River : AfterDeals(st)[k] = IF k = 0 THEN st ELSE Dealt(AfterDeals(st)[k - 1])
  BY <1>3 DEF DealtFrom
<1>7. QED
  BY <1>4, <1>5, <1>6

\* The streets an action makes due are the first ones up to a seat to act, the
\* end of the hand or the river.
LEMMA DealsDueFacts ==
    ASSUME NEW st
    PROVE  LET n == DealsDue(st) IN
           /\ n \in 0 .. River
           /\ \A k \in 0 .. River : k < n => DealDue(AfterDeals(st)[k])
           /\ n < River => ~DealDue(AfterDeals(st)[n])
<1> DEFINE D == AfterDeals(st)
           due(k) == DealDue(D[k])
           S == {k \in 0 .. River - 1 : \A j \in 0 .. k : due(j)}
<1>1. DealsDue(st) = Cardinality(S)
  BY DEF DealsDue
<1>2. 0 .. River - 1 = {0, 1, 2} /\ 0 .. River = {0, 1, 2, 3}
  BY DEF River
<1>3. 0 .. 0 = {0} /\ 0 .. 1 = {0, 1} /\ 0 .. 2 = {0, 1, 2}
  OBVIOUS
<1> HIDE DEF D
<1>4. CASE ~due(0)
  <2>1. S = {}
    BY <1>2, <1>3, <1>4
  <2>2. Cardinality(S) = 0
    BY <2>1, FS_EmptySet
  <2>3. QED
    BY <1>1, <2>2, <1>4 DEF D, River
<1>5. CASE due(0) /\ ~due(1)
  <2>1. S = {0}
    BY <1>2, <1>3, <1>5
  <2>2. Cardinality(S) = 1
    BY <2>1, FS_Singleton
  <2>3. QED
    BY <1>1, <2>2, <1>5 DEF D, River
<1>6. CASE due(0) /\ due(1) /\ ~due(2)
  <2>1. S = {0} \cup {1}
    BY <1>2, <1>3, <1>6
  <2>2. Cardinality(S) = 2
    <3>1. IsFiniteSet({0}) /\ Cardinality({0}) = 1
      BY FS_Singleton
    <3>2. Cardinality({0} \cup {1}) = 2
      BY <3>1, FS_AddElement
    <3>3. QED
      BY <2>1, <3>2
  <2>3. QED
    BY <1>1, <2>2, <1>6 DEF D, River
<1>7. CASE due(0) /\ due(1) /\ due(2)
  <2>1. S = 0 .. 2
    BY <1>2, <1>3, <1>7
  <2>2. Cardinality(S) = 3
    <3>1. IsFiniteSet({0}) /\ Cardinality({0}) = 1
      BY FS_Singleton
    <3>2. IsFiniteSet({0} \cup {1}) /\ Cardinality({0} \cup {1}) = 2
      BY <3>1, FS_AddElement
    <3>3. Cardinality(({0} \cup {1}) \cup {2}) = 3
      BY <3>2, FS_AddElement
    <3>4. S = ({0} \cup {1}) \cup {2}
      BY <1>3, <2>1
    <3>5. QED
      BY <3>3, <3>4
  <2>3. QED
    BY <1>1, <2>2, <1>7 DEF D, River
<1>8. QED
  BY <1>4, <1>5, <1>6, <1>7

\* Where a hand goes on with no street due, a seat is to act.
LEMMA SomebodyActs ==
    ASSUME NEW f, NEW st, HandInv(f, st), InProgress(st), ~DealDue(st)
    PROVE  Actor(st) # NoSeat
<1>1. /\ st.street \in 0 .. River /\ st.toAct \subseteq Seats /\ st.last \in Seats
  BY DEF HandInv, StateOK, States
<1>2. CASE st.street = River
  <2>1. st.toAct # {}
    BY <1>2 DEF InProgress
  <2>2. Actor(st) = FirstAfter(st.last, st.toAct)
    BY <2>1 DEF Actor
  <2>3. Actor(st) \in Seats
    BY <1>1, <2>1, <2>2, FirstAfterFacts
  <2>4. QED
    BY <2>3, HandRulesAssumption DEF Seats
<1>3. CASE st.street # River
  <2>1. st.street < River
    BY <1>1, <1>3 DEF River
  <2>2. QED
    BY <2>1 DEF DealDue
<1>4. QED
  BY <1>2, <1>3

\* Every state on the way of the deals is one of the hand.
LEMMA DealsInv ==
    ASSUME NEW f, NEW st, HandInv(f, st)
    PROVE  \A k \in 0 .. River : k <= DealsDue(st) => HandInv(f, AfterDeals(st)[k])
<1> DEFINE n == DealsDue(st)
           D == AfterDeals(st)
<1>1. /\ n \in 0 .. River /\ \A k \in 0 .. River : k < n => DealDue(D[k])
      /\ D[0] = st /\ \A k \in 0 .. River - 1 : D[k + 1] = Dealt(D[k])
  BY DealsDueFacts, AfterDealsFacts
<1> HIDE DEF n, D
<1>2. ASSUME NEW k \in 0 .. River - 1, k < n, HandInv(f, D[k]) PROVE HandInv(f, D[k + 1])
  <2>1. Dealable(D[k])
    <3>1. k \in 0 .. River
      BY <1>2 DEF River
    <3>2. QED
      BY <1>1, <1>2, <3>1 DEF Dealable, DealDue
  <2>2. HandInv(f, Dealt(D[k]))
    BY <1>2, <2>1, DealtInv
  <2>3. QED
    BY <1>1, <2>2
<1>3. HandInv(f, D[0])
  BY <1>1
<1>4. 0 .. River - 1 = {0, 1, 2} /\ 0 .. River = {0, 1, 2, 3}
  BY DEF River
<1>5. n >= 1 => HandInv(f, D[1])
  <2>1. 0 < n <=> n >= 1
    BY <1>1
  <2>2. 0 + 1 = 1
    OBVIOUS
  <2>3. QED
    BY <1>2, <1>3, <1>4, <2>1, <2>2
<1>6. n >= 2 => HandInv(f, D[2])
  <2>1. (n >= 2 <=> 1 < n) /\ (n >= 2 => n >= 1)
    BY <1>1
  <2>2. 1 + 1 = 2
    OBVIOUS
  <2>3. QED
    BY <1>2, <1>5, <1>4, <2>1, <2>2
<1>7. n >= 3 => HandInv(f, D[3])
  <2>1. (n >= 3 <=> 2 < n) /\ (n >= 3 => n >= 2)
    BY <1>1
  <2>2. 2 + 1 = 3
    OBVIOUS
  <2>3. QED
    BY <1>2, <1>6, <1>4, <2>1, <2>2
<1>8. ASSUME NEW k \in 0 .. River, k <= n PROVE HandInv(f, D[k])
  <2>1. k = 0 \/ k = 1 \/ k = 2 \/ k = 3
    BY <1>4
  <2>2. QED
    BY <1>1, <1>3, <1>5, <1>6, <1>7, <1>8, <2>1
<1>9. QED
  BY <1>8 DEF n, D

\* After the deals a hand is over or waits for a seat.
LEMMA DealsEnd ==
    ASSUME NEW f, NEW st, HandInv(f, st)
    PROVE  LET last == AfterDeals(st)[DealsDue(st)] IN
           /\ HandInv(f, last)
           /\ InProgress(last) => Actor(last) # NoSeat
<1> DEFINE n == DealsDue(st)
           D == AfterDeals(st)
<1>1. /\ n \in 0 .. River /\ \A k \in 0 .. River : k < n => DealDue(D[k])
      /\ n < River => ~DealDue(D[n])
      /\ \A k \in 0 .. River - 1 : D[k + 1] = Dealt(D[k])
  BY DealsDueFacts, AfterDealsFacts
<1>2. \A k \in 0 .. River : k <= n => HandInv(f, D[k])
  BY DealsInv
<1> HIDE DEF n, D
<1>3. HandInv(f, D[n])
  BY <1>1, <1>2
<1>4. ~DealDue(D[n])
  <2>1. CASE n < River
    BY <1>1, <2>1
  <2>2. CASE n = River
    <3>1. /\ \A k \in {0, 1, 2} : DealDue(D[k]) /\ HandInv(f, D[k]) /\ D[k + 1] = Dealt(D[k])
      <4>1. \A k \in {0, 1, 2} : k \in 0 .. River /\ k \in 0 .. River - 1 /\ k < n /\ k <= n
        BY <2>2 DEF River
      <4>2. QED
        BY <1>1, <1>2, <4>1
    <3>2. ASSUME NEW k \in {0, 1, 2}
          PROVE  /\ D[k].street \in 0 .. River /\ D[k].street < River
                 /\ D[k + 1].street = D[k].street + 1
      <4>1. HandInv(f, D[k]) /\ DealDue(D[k]) /\ D[k + 1] = Dealt(D[k])
        BY <3>1
      <4>2. D[k] \in States(f)
        BY <4>1 DEF HandInv, StateOK
      <4>3. QED
        BY <4>1, <4>2 DEF States, Dealt, DealDue
    <3>3. /\ D[0].street \in 0 .. River /\ D[1].street = D[0].street + 1
          /\ D[2].street = D[1].street + 1 /\ D[3].street = D[2].street + 1
      <4>1. 0 + 1 = 1 /\ 1 + 1 = 2 /\ 2 + 1 = 3
        OBVIOUS
      <4>2. QED
        BY <3>2, <4>1
    <3>4. ~(D[3].street < River)
      BY <3>3 DEF River
    <3>5. n = 3
      BY <2>2 DEF River
    <3>6. QED
      BY <3>4, <3>5 DEF DealDue
  <2>3. QED
    BY <1>1, <2>1, <2>2 DEF River
<1>5. InProgress(D[n]) => Actor(D[n]) # NoSeat
  BY <1>3, <1>4, SomebodyActs
<1>6. QED
  BY <1>3, <1>5 DEF n, D

(***************************************************************************)
(* A stream as a play, event by event, with the states its replay goes     *)
(* through.                                                                *)
(***************************************************************************)
StepLegal(before, e) ==
    /\ IsKind(e, "action_taken") => /\ Actor(before) = e.payload.intent.seat
                                    /\ Legal(before, e.payload.intent)
    /\ IsKind(e, "board_dealt") => InProgress(before) /\ Actor(before) = NoSeat
    /\ IsKind(e, "hand_completed") => ~InProgress(before)
EndsWell(es) == IF HasCompleted(es) THEN ~InProgress(StateOf(es)) ELSE Actor(StateOf(es)) # NoSeat
StepsLegal(es) == \A i \in 2 .. Len(es) : StepLegal(Trace(es)[i - 1], es[i])

LEMMA PrefixFacts ==
    ASSUME NEW es \in Seq(Event), NEW i \in 1 .. Len(es)
    PROVE  /\ Len(Prefix(es, i)) = i
           /\ \A j \in 1 .. i : Prefix(es, i)[j] = es[j]
           /\ StateOf(Prefix(es, i)) = Trace(es)[i]
<1>1. Len(es) \in Nat /\ i \in Nat /\ i <= Len(es) /\ i >= 1
  OBVIOUS
<1>2. Len(Prefix(es, i)) = i /\ \A j \in 1 .. i : Prefix(es, i)[j] = es[j]
  <2>1. 1 \in 1 .. Len(es) + 1
    BY <1>1
  <2>2. /\ Len(SubSeq(es, 1, i)) = IF 1 <= i THEN i - 1 + 1 ELSE 0
        /\ \A j \in 1 .. i - 1 + 1 : SubSeq(es, 1, i)[j] = es[1 + j - 1]
    BY <1>1, <2>1, SubSeqProperties
  <2>3. Len(SubSeq(es, 1, i)) = i
    BY <1>1, <2>2
  <2>4. ASSUME NEW j \in 1 .. i PROVE SubSeq(es, 1, i)[j] = es[j]
    <3>1. j \in 1 .. i - 1 + 1 /\ 1 + j - 1 = j
      BY <1>1
    <3>2. QED
      BY <2>2, <3>1
  <2>5. QED
    BY <2>3, <2>4 DEF Prefix
<1>3. Trace(es)[i] = Trace(Prefix(es, i))[i]
  BY <1>1, <1>2, TraceOfBeginning
<1>4. QED
  BY <1>2, <1>3, StateIsTraced

LEMMA PlayIsTraced ==
    ASSUME NEW es \in Seq(Event)
    PROVE  LegalPlay(es) <=> StepsLegal(es) /\ EndsWell(es)
<1>1. ASSUME NEW i \in 2 .. Len(es)
      PROVE  StateOf(Prefix(es, i - 1)) = Trace(es)[i - 1]
  <2>1. i - 1 \in 1 .. Len(es)
    OBVIOUS
  <2>2. QED
    BY <2>1, PrefixFacts
<1>2. StepsLegal(es) <=> \A i \in 2 .. Len(es) : StepLegal(StateOf(Prefix(es, i - 1)), es[i])
  BY <1>1 DEF StepsLegal
<1>3. LegalPlay(es) <=> /\ \A i \in 2 .. Len(es) : StepLegal(StateOf(Prefix(es, i - 1)), es[i])
                        /\ EndsWell(es)
  BY Zenon DEF LegalPlay, StepLegal, EndsWell
<1>4. QED
  BY <1>2, <1>3

\* What is true of a durable hand: it replays, it is a play of the rules by the
\* seed it was opened with, and its betting state is one a hand can reach.
HandOK(es) ==
    /\ Replayable(es) /\ SeedProvenance(es)
    /\ StepsLegal(es) /\ EndsWell(es)
    /\ HandInv(Facts(es), StateOf(es))

LEMMA ReplayableStarts ==
    ASSUME NEW es \in Seq(Event), Replayable(es)
    PROVE  /\ es # <<>> /\ Len(es) \in Nat /\ Len(es) >= 1 /\ IsKind(es[1], "hand_started")
           /\ \A i \in 1 .. Len(es) : IsKind(es[i], "hand_completed") => i = Len(es)
           /\ Facts(es) \in OpeningFact /\ SeedOf(es) \in Seeds
<1>1. /\ es # <<>>
      /\ \A i \in 1 .. Len(es) : IsKind(es[i], "hand_started") <=> i = 1
      /\ \A i \in 1 .. Len(es) : IsKind(es[i], "hand_completed") => i = Len(es)
  BY DEF Replayable, ValidStream
<1>2. Len(es) \in Nat /\ Len(es) >= 1
  BY <1>1
<1>3. IsKind(es[1], "hand_started")
  BY <1>1, <1>2
<1>4. QED
  BY <1>1, <1>2, <1>3, StartedFactsType

LEMMA OpeningFactsOK ==
    ASSUME NEW se \in Session, Sound(se), se.active # NoHand
    PROVE  FactsOK(OpeningFacts(se))
<1>1. /\ se.active \in ActiveHand /\ se.stacks \in [Seats -> Nat]
      /\ se.active.button \in se.active.seats /\ se.active.seats = Seats \ SittingOut
      /\ \A s \in Seats \ SittingOut : se.stacks[s] >= BigBlind
  BY DEF Sound, ValidSession, Funded, Session
<1>2. QED
  BY <1>1 DEF FactsOK, OpeningFacts

\* The small blind still owes the difference, so somebody is to act.
LEMMA OpenedWaits ==
    ASSUME NEW f, FactsOK(f)
    PROVE  HandInv(f, Opened(f)) /\ InProgress(Opened(f)) /\ Actor(Opened(f)) # NoSeat
<1>1. HandInv(f, Opened(f))
  BY OpenedInv
<1>2. InProgress(Opened(f))
  <2>1. Opened(f).live = f.active /\ Opened(f).street = 0
    BY DEF Opened
  <2>2. f.active \subseteq Seats /\ Cardinality(f.active) >= 2
    BY DEF FactsOK
  <2>3. Cardinality(f.active) \in Nat
    BY <2>2, SeatsFinite, FS_CardinalityType
  <2>4. QED
    BY <2>1, <2>2, <2>3 DEF InProgress, River
<1>3. Opened(f).toAct # {}
  <2>1. SmallBlindSeat(f) \in f.active /\ Posted(f, SmallBlindSeat(f)) = SmallBlind
    BY BlindSeats
  <2>2. f.stacks[SmallBlindSeat(f)] > SmallBlind
    <3>1. f.stacks[SmallBlindSeat(f)] \in Nat /\ f.stacks[SmallBlindSeat(f)] >= BigBlind
      BY <2>1 DEF FactsOK
    <3>2. QED
      BY <3>1, HandRulesAssumption
  <2>3. SmallBlindSeat(f) \in Opened(f).toAct
    BY <2>1, <2>2 DEF Opened
  <2>4. QED
    BY <2>3
<1>4. Opened(f).toAct \subseteq Seats /\ Opened(f).last \in Seats
  BY <1>1 DEF HandInv, StateOK, States
<1>5. Actor(Opened(f)) = FirstAfter(Opened(f).last, Opened(f).toAct)
  BY <1>2, <1>3 DEF Actor
<1>6. Actor(Opened(f)) \in Seats
  BY <1>3, <1>4, <1>5, FirstAfterFacts
<1>7. QED
  BY <1>1, <1>2, <1>6, HandRulesAssumption DEF Seats

(***************************************************************************)
(* The opening batch.                                                      *)
(***************************************************************************)
LEMMA OpeningIsOK ==
    ASSUME NEW se \in Session, Sound(se), se.active # NoHand,
           NEW c \in OpenCommand, c.expected = 0, NEW n \in Nat,
           NEW order \in [1 .. n -> se.active.seats],
           \A i, j \in 1 .. n : i < j => order[i] < order[j]
    PROVE  LET es == EventsFor(c, OpeningPayloads(se, c.seed, order))
           IN  HandOK(es) /\ Facts(es) = OpeningFacts(se) /\ ~HasCompleted(es)
<1> DEFINE pay == OpeningPayloads(se, c.seed, order)
           es == EventsFor(c, pay)
           f == OpeningFacts(se)
           hole(i) == [kind |-> "hole_cards_recorded", seat |-> order[i], seed |-> c.seed]
           holes == [i \in 1 .. Len(order) |-> hole(i)]
           start == [kind |-> "hand_started", facts |-> f, seed |-> c.seed]
<1>1. c \in Command /\ c.seed \in Seeds /\ c.id \in Ids
  BY DEF Command, OpenCommand
<1>2. order \in Seq(se.active.seats) /\ Len(order) = n
  BY FunctionIsSeq
<1>3. /\ Len(pay) = n + 1 /\ pay[1] = start
      /\ \A i \in 2 .. n + 1 : pay[i] = hole(i - 1)
  <2> HIDE DEF hole, start
  <2>1. holes \in Seq({hole(i) : i \in 1 .. n}) /\ Len(holes) = n
    <3>1. holes \in [1 .. n -> {hole(i) : i \in 1 .. n}]
      BY <1>2
    <3> HIDE DEF holes
    <3>2. QED
      BY <3>1, FunctionIsSeq
  <2>2. \A i \in 1 .. n : holes[i] = hole(i)
    BY <1>2
  <2>3. pay = <<start>> \o holes
    BY DEF OpeningPayloads, hole, start
  <2> HIDE DEF holes, pay
  <2>4. QED
    BY <2>1, <2>2, <2>3
<1>4. pay \in Seq(Payload)
  BY <1>1, OpeningPayloadsType
<1>5. /\ es \in Seq(Event) /\ Len(es) = n + 1
      /\ \A i \in 1 .. n + 1 : /\ es[i].sequence = i /\ es[i].cause = c.id /\ es[i].offset = i
                               /\ es[i].payload = pay[i]
  <2> HIDE DEF pay
  <2>1. /\ es \in Seq(Event) /\ Len(es) = Len(pay)
        /\ \A i \in 1 .. Len(pay) :
              /\ es[i].sequence = c.expected + i /\ es[i].cause = c.id
              /\ es[i].offset = i /\ es[i].payload = pay[i]
    BY <1>1, <1>4, EventsForType
  <2> HIDE DEF es
  <2>2. QED
    BY <1>3, <2>1
<1> HIDE DEF es, pay
<1>6. /\ es[1].payload = start
      /\ \A i \in 2 .. n + 1 : /\ i \in 1 .. n + 1 /\ i - 1 \in 1 .. n
                               /\ es[i].payload = hole(i - 1)
  BY <1>3, <1>5
<1>7. Facts(es) = f /\ SeedOf(es) = c.seed
  BY <1>6 DEF Facts, SeedOf
<1>8. /\ IsKind(es[1], "hand_started")
      /\ \A i \in 2 .. n + 1 : /\ IsKind(es[i], "hole_cards_recorded")
                               /\ es[i].payload.seat = order[i - 1]
                               /\ es[i].payload.seed = c.seed
  <2>1. IsKind(es[1], "hand_started")
    BY <1>6 DEF IsKind
  <2>2. ASSUME NEW i \in 2 .. n + 1
        PROVE  /\ IsKind(es[i], "hole_cards_recorded")
               /\ es[i].payload.seat = order[i - 1]
               /\ es[i].payload.seed = c.seed
    <3>1. es[i].payload = hole(i - 1)
      BY <1>6
    <3>2. hole(i - 1).kind = "hole_cards_recorded" /\ hole(i - 1).seat = order[i - 1]
          /\ hole(i - 1).seed = c.seed
      OBVIOUS
    <3> HIDE DEF hole
    <3>3. QED
      BY <3>1, <3>2 DEF IsKind
  <2>3. QED
    BY <2>1, <2>2
<1>9. \A i \in 1 .. n + 1 : i = 1 \/ i \in 2 .. n + 1
  OBVIOUS
<1> HIDE DEF f, start, hole, holes
<1>10. /\ \A i \in 1 .. n + 1 : /\ es[i].payload.kind \in {"hand_started", "hole_cards_recorded"}
                                /\ IsKind(es[i], "hand_started") <=> i = 1
       /\ ~HasCompleted(es)
  BY <1>5, <1>8, <1>9 DEF IsKind, HasCompleted
<1>11. ValidStream(es)
  <2>1. es # <<>>
    BY <1>5
  <2>2. \A i, j \in 1 .. n + 1 : i # j => EventId(es[i]) # EventId(es[j])
    BY <1>5 DEF EventId
  <2>3. ASSUME NEW i \in 1 .. n + 1, IsKind(es[i], "hole_cards_recorded")
        PROVE  /\ es[i].payload.seat \in f.active
               /\ \A j \in 1 .. i - 1 : IsKind(es[j], "hole_cards_recorded")
                                          => es[j].payload.seat # es[i].payload.seat
    <3>1. i # 1 /\ i \in 2 .. n + 1 /\ i - 1 \in 1 .. n
      BY <1>8, <2>3 DEF IsKind
    <3>2. es[i].payload.seat = order[i - 1] /\ order[i - 1] \in se.active.seats
      BY <1>8, <3>1
    <3>3. ASSUME NEW j \in 1 .. i - 1, IsKind(es[j], "hole_cards_recorded")
          PROVE  es[j].payload.seat # es[i].payload.seat
      <4>1. j # 1
        BY <1>8, <3>3 DEF IsKind
      <4>2. j \in 2 .. n + 1 /\ j - 1 \in 1 .. n /\ j - 1 < i - 1
        BY <3>1, <4>1
      <4>3. es[j].payload.seat = order[j - 1] /\ order[j - 1] < order[i - 1]
        BY <1>8, <3>1, <4>2
      <4>4. order[j - 1] \in Int /\ order[i - 1] \in Int
        <5>1. se.active.seats \subseteq Seats
          BY DEF Session, ActiveHand
        <5>2. QED
          BY <3>1, <4>2, <5>1 DEF Seats
      <4>5. QED
        BY <3>2, <4>3, <4>4
    <3>4. QED
      BY <3>2, <3>3 DEF f, OpeningFacts
  <2>4. ASSUME NEW i \in 1 .. n + 1
        PROVE  /\ ~IsKind(es[i], "action_taken") /\ ~IsKind(es[i], "board_dealt")
               /\ ~IsKind(es[i], "hand_completed")
    <3>1. es[i].payload.kind \in {"hand_started", "hole_cards_recorded"}
      BY <1>10
    <3>2. QED
      BY <3>1 DEF IsKind
  <2>5. \A i \in 1 .. n + 1 : es[i].sequence = i /\ (IsKind(es[i], "hand_started") <=> i = 1)
    BY <1>5, <1>10
  <2>6. QED
    BY <1>5, <1>7, <2>1, <2>2, <2>3, <2>4, <2>5 DEF ValidStream
<1>12. Replayable(es)
  BY <1>10, <1>11 DEF Replayable
<1>13. SeedProvenance(es)
  BY <1>5, <1>7, <1>8, <1>9, <1>10 DEF SeedProvenance, IsKind
<1>14. StepsLegal(es)
  BY <1>5, <1>8 DEF StepsLegal, StepLegal, IsKind
<1>15. StateOf(es) = Opened(f)
  <2> DEFINE A == {m \in Nat : m + 1 \in 1 .. n + 1 => Trace(es)[m + 1] = Opened(f)}
  <2>1. 0 \in A
    <3>1. Trace(es)[1] = After(es, Trace(es), 1)
      BY <1>5, TraceFacts
    <3>2. Trace(es)[1] = Opened(f)
      BY <1>7, <3>1 DEF After
    <3>3. QED
      BY <3>2
  <2>2. ASSUME NEW m \in Nat, m \in A PROVE m + 1 \in A
    <3>1. SUFFICES ASSUME m + 1 + 1 \in 1 .. n + 1 PROVE Trace(es)[m + 1 + 1] = Opened(f)
      OBVIOUS
    <3>2. m + 1 \in 1 .. n + 1 /\ m + 1 + 1 \in 2 .. n + 1 /\ (m + 1 + 1) - 1 = m + 1 /\ m + 1 + 1 # 1
      BY <3>1
    <3>3. Trace(es)[m + 1] = Opened(f)
      BY <2>2, <3>2
    <3>4. Trace(es)[m + 1 + 1] = After(es, Trace(es), m + 1 + 1)
      BY <1>5, <3>1, TraceFacts
    <3>5. Applied(Opened(f), es[m + 1 + 1].payload) = Opened(f)
      BY <1>8, <3>2 DEF Applied, IsKind
    <3>6. QED
      BY <3>2, <3>3, <3>4, <3>5 DEF After
  <2>3. n \in A
    <3> HIDE DEF A
    <3>1. Nat \subseteq A
      BY <2>1, <2>2, NumbersFrom
    <3>2. QED
      BY <3>1
  <2>4. Trace(es)[n + 1] = Opened(f)
    BY <2>3
  <2>5. QED
    BY <1>5, <2>4, StateIsTraced
<1>16. FactsOK(f)
  BY OpeningFactsOK DEF f
<1>17. HandInv(f, Opened(f)) /\ Actor(Opened(f)) # NoSeat
  BY <1>16, OpenedWaits
<1>18. EndsWell(es)
  BY <1>10, <1>15, <1>17 DEF EndsWell
<1>19. QED
  BY <1>7, <1>10, <1>12, <1>13, <1>14, <1>15, <1>17, <1>18 DEF HandOK, f, es, pay

(***************************************************************************)
(* The batch of an action.                                                 *)
(***************************************************************************)
LEMMA ActionPayloadsAre ==
    ASSUME NEW es \in Seq(Event), NEW intent
    PROVE  LET n == DealsDue(Acted(StateOf(es), intent))
               pay == ActionPayloads(es, intent)
           IN  /\ n \in 0 .. River /\ Len(pay) = n + 1
               /\ pay[1] = [kind |-> "action_taken", intent |-> intent]
               /\ \A k \in 1 .. n : pay[k + 1] = [kind |-> "board_dealt",
                                                street |-> BoardsDealt(es) + k, seed |-> SeedOf(es)]
<1> DEFINE n == DealsDue(Acted(StateOf(es), intent))
           act == [kind |-> "action_taken", intent |-> intent]
           board(k) == [kind |-> "board_dealt", street |-> BoardsDealt(es) + k, seed |-> SeedOf(es)]
           boards == [k \in 1 .. n |-> board(k)]
<1>1. n \in 0 .. River
  BY DealsDueFacts
<1>2. n \in Nat
  BY <1>1 DEF River
<1>3. ActionPayloads(es, intent) = <<act>> \o boards
  BY DEF ActionPayloads
<1> HIDE DEF n, act, board
<1>4. boards \in Seq({board(k) : k \in 1 .. n}) /\ Len(boards) = n
  <2>1. boards \in [1 .. n -> {board(k) : k \in 1 .. n}]
    OBVIOUS
  <2> HIDE DEF boards
  <2>2. QED
    BY <1>2, <2>1, FunctionIsSeq
<1>5. \A k \in 1 .. n : boards[k] = board(k)
  OBVIOUS
<1> HIDE DEF boards
<1>6. /\ Len(<<act>> \o boards) = n + 1 /\ (<<act>> \o boards)[1] = act
      /\ \A k \in 1 .. n : (<<act>> \o boards)[k + 1] = boards[k]
  BY <1>2, <1>4
<1>7. QED
  BY <1>1, <1>3, <1>5, <1>6 DEF n, act, board

LEMMA ActionBatchIs ==
    ASSUME NEW es \in Seq(Event), es # <<>>, IsKind(es[1], "hand_started"),
           NEW c \in ActCommand
    PROVE  LET n == DealsDue(Acted(StateOf(es), c.intent))
               pay == ActionPayloads(es, c.intent)
               played == EventsFor(c, pay)
               b == ActionBatch(es, c)
           IN  /\ played \in Seq(Event) /\ Len(played) = n + 1
               /\ b \in Seq(Event) /\ Len(b) \in Nat /\ Len(b) >= n + 1
               /\ \A i \in 1 .. n + 1 : played[i].payload = pay[i] /\ b[i].payload = pay[i]
               /\ IF InProgress(StateOf(es \o played))
                  THEN b = played
                  ELSE Len(b) = n + 2 /\ IsKind(b[n + 2], "hand_completed")
<1> DEFINE n == DealsDue(Acted(StateOf(es), c.intent))
           pay == ActionPayloads(es, c.intent)
           played == EventsFor(c, pay)
           over == [kind |-> "hand_completed", winners |-> Winners(es \o played)]
           b == ActionBatch(es, c)
<1>1. c \in Command /\ c.intent \in Intent /\ SeedOf(es) \in Seeds /\ Facts(es) \in OpeningFact
  BY StartedFactsType DEF Command, ActCommand
<1>2. n \in Nat /\ Len(pay) = n + 1
  <2>1. n \in 0 .. River /\ Len(pay) = n + 1
    BY ActionPayloadsAre, Zenon
  <2>2. QED
    BY <2>1 DEF River
<1>3. pay \in Seq(Payload)
  BY <1>1, ActionPayloadsType
<1>4. b \in Seq(Event)
  BY ActionBatchType
<1>5. b = IF InProgress(StateOf(es \o played)) THEN played ELSE EventsFor(c, Append(pay, over))
  BY DEF ActionBatch
<1> HIDE DEF n, pay, b
<1>6. /\ played \in Seq(Event) /\ Len(played) = n + 1
      /\ \A i \in 1 .. n + 1 : played[i].payload = pay[i]
  BY <1>1, <1>2, <1>3, EventsForType
<1> HIDE DEF played
<1>7. over \in Payload
  <2>1. Facts(es \o played) = Facts(es)
    <3>1. Len(es) \in Nat /\ Len(es) >= 1
      OBVIOUS
    <3>2. (es \o played)[1] = es[1]
      BY <1>6, <3>1
    <3>3. QED
      BY <3>2 DEF Facts
  <2>2. Winners(es \o played) \subseteq Seats
    BY <1>1, <2>1, WinnersPlayed DEF OpeningFact
  <2>3. QED
    BY <2>2 DEF Payload
<1> HIDE DEF over
<1> DEFINE more == Append(pay, over)
<1>8. /\ more \in Seq(Payload) /\ Len(more) = n + 2
      /\ \A i \in 1 .. n + 1 : more[i] = pay[i]
      /\ more[n + 2] = over
  BY <1>2, <1>3, <1>7
<1>9. /\ Len(EventsFor(c, more)) = n + 2
      /\ \A i \in 1 .. n + 2 : EventsFor(c, more)[i].payload = more[i]
  <2> HIDE DEF more
  <2>1. QED
    BY <1>1, <1>8, EventsForType
<1>10. CASE InProgress(StateOf(es \o played))
  BY <1>2, <1>4, <1>5, <1>6, <1>10 DEF n, pay, played, b
<1>11. CASE ~InProgress(StateOf(es \o played))
  <2>1. b = EventsFor(c, more)
    BY <1>5, <1>11
  <2> HIDE DEF more
  <2>2. /\ Len(b) = n + 2 /\ b[n + 2].payload = over
        /\ \A i \in 1 .. n + 1 : b[i].payload = pay[i]
    BY <1>2, <1>8, <1>9, <2>1
  <2>3. IsKind(b[n + 2], "hand_completed")
    BY <2>2 DEF IsKind, over
  <2>4. QED
    BY <1>2, <1>4, <1>6, <1>11, <2>2, <2>3 DEF n, pay, played, b
<1>12. QED
  BY <1>10, <1>11

\* What the replay of the hand goes through once the batch is appended.
LEMMA ActedTrace ==
    ASSUME NEW es \in Seq(Event), es # <<>>, NEW intent,
           NEW E \in Seq(Event), NEW n, n = DealsDue(Acted(StateOf(es), intent)),
           Len(E) >= Len(es) + 1 + n,
           \A i \in 1 .. Len(es) : E[i] = es[i],
           E[Len(es) + 1].payload = [kind |-> "action_taken", intent |-> intent],
           \A k \in 1 .. n : IsKind(E[Len(es) + 1 + k], "board_dealt")
    PROVE  /\ Trace(E)[Len(es)] = StateOf(es)
           /\ \A k \in 0 .. n : Trace(E)[Len(es) + 1 + k] = AfterDeals(Acted(StateOf(es), intent))[k]
<1> DEFINE L == Len(es)
           st == Acted(StateOf(es), intent)
           D == AfterDeals(st)
<1>1. L \in Nat /\ L >= 1 /\ Len(E) \in Nat /\ n \in 0 .. River /\ n \in Nat /\ L <= Len(E)
  BY DealsDueFacts DEF River
<1>2. Trace(E)[L] = StateOf(es)
  <2>1. \A i \in 1 .. L : Trace(E)[i] = Trace(es)[i]
    BY <1>1, TraceOfBeginning
  <2>2. L \in 1 .. L
    BY <1>1
  <2>3. Trace(E)[L] = Trace(es)[L]
    BY <2>1, <2>2
  <2>4. StateOf(es) = Trace(es)[L]
    BY StateIsTraced
  <2>5. QED
    BY <2>3, <2>4
<1>3. Trace(E)[L + 1] = st
  <2>1. L + 1 \in 1 .. Len(E) /\ L + 1 # 1 /\ (L + 1) - 1 = L
    BY <1>1
  <2>2. Trace(E)[L + 1] = Applied(Trace(E)[L], E[L + 1].payload)
    BY <1>1, <2>1, TraceFacts DEF After
  <2>3. QED
    BY <1>2, <2>2 DEF Applied
<1>4. D[0] = st /\ \A k \in 0 .. River - 1 : D[k + 1] = Dealt(D[k])
  BY AfterDealsFacts
<1>5. ASSUME NEW k \in Nat, k < n, Trace(E)[L + 1 + k] = D[k]
      PROVE  Trace(E)[L + 1 + (k + 1)] = D[k + 1]
  <2>1. /\ L + 1 + (k + 1) \in 1 .. Len(E) /\ L + 1 + (k + 1) # 1
        /\ (L + 1 + (k + 1)) - 1 = L + 1 + k /\ k + 1 \in 1 .. n
    BY <1>1, <1>5
  <2>2. Trace(E)[L + 1 + (k + 1)] = Applied(Trace(E)[L + 1 + k], E[L + 1 + (k + 1)].payload)
    BY <1>1, <2>1, TraceFacts DEF After
  <2>3. E[L + 1 + (k + 1)].payload.kind = "board_dealt"
    BY <2>1 DEF IsKind
  <2>4. Trace(E)[L + 1 + (k + 1)] = Dealt(Trace(E)[L + 1 + k])
    BY <2>2, <2>3 DEF Applied
  <2>5. k \in 0 .. River - 1
    BY <1>1, <1>5 DEF River
  <2>6. QED
    BY <1>4, <1>5, <2>4, <2>5
<1> DEFINE A == {k \in Nat : k <= n => Trace(E)[L + 1 + k] = D[k]}
<1>6. 0 \in A
  <2>1. L + 1 + 0 = L + 1
    BY <1>1
  <2>2. QED
    BY <1>3, <1>4, <2>1
<1> HIDE DEF D, st, L
<1>7. ASSUME NEW k \in Nat, k \in A PROVE k + 1 \in A
  BY <1>1, <1>5, <1>7
<1>8. Nat \subseteq A
  <2> HIDE DEF A
  <2>1. QED
    BY <1>6, <1>7, NumbersFrom
<1>9. QED
  BY <1>1, <1>2, <1>8 DEF L, st, D

LEMMA ActedIsOK ==
    ASSUME NEW es \in Seq(Event), es # <<>>, HandOK(es), ~HasCompleted(es), NEW c \in ActCommand,
           Actor(StateOf(es)) = c.intent.seat, Legal(StateOf(es), c.intent),
           Replayable(es \o ActionBatch(es, c))
    PROVE  HandOK(es \o ActionBatch(es, c)) /\ Facts(es \o ActionBatch(es, c)) = Facts(es)
<1> DEFINE n == DealsDue(Acted(StateOf(es), c.intent))
           pay == ActionPayloads(es, c.intent)
           played == EventsFor(c, pay)
           b == ActionBatch(es, c)
           E == es \o b
           L == Len(es)
           f == Facts(es)
           st == Acted(StateOf(es), c.intent)
           final == AfterDeals(st)[n]
<1>1. /\ L \in Nat /\ L >= 1 /\ IsKind(es[1], "hand_started")
      /\ \A i \in 1 .. L : ~IsKind(es[i], "hand_completed")
      /\ Replayable(es) /\ SeedProvenance(es) /\ StepsLegal(es)
      /\ HandInv(f, StateOf(es))
  BY ReplayableStarts DEF HandOK, HasCompleted
<1>2. /\ n \in Nat /\ n \in 0 .. River /\ Len(pay) = n + 1
      /\ pay[1] = [kind |-> "action_taken", intent |-> c.intent]
      /\ \A k \in 1 .. n : pay[k + 1] = [kind |-> "board_dealt",
                                       street |-> BoardsDealt(es) + k, seed |-> SeedOf(es)]
  <2>1. /\ n \in 0 .. River /\ Len(pay) = n + 1
        /\ pay[1] = [kind |-> "action_taken", intent |-> c.intent]
        /\ \A k \in 1 .. n : pay[k + 1] = [kind |-> "board_dealt",
                                         street |-> BoardsDealt(es) + k, seed |-> SeedOf(es)]
    BY ActionPayloadsAre, Zenon
  <2> HIDE DEF n, pay
  <2>2. n \in Nat
    BY <2>1 DEF River
  <2>3. QED
    BY <2>1, <2>2
<1>3. /\ played \in Seq(Event) /\ Len(played) = n + 1
      /\ b \in Seq(Event) /\ Len(b) \in Nat /\ Len(b) >= n + 1
      /\ \A i \in 1 .. n + 1 : played[i].payload = pay[i] /\ b[i].payload = pay[i]
      /\ IF InProgress(StateOf(es \o played))
         THEN b = played
         ELSE Len(b) = n + 2 /\ IsKind(b[n + 2], "hand_completed")
  BY <1>1, ActionBatchIs, Zenon
<1> HIDE DEF n, pay, played, b
<1>4. /\ E \in Seq(Event) /\ Len(E) = L + Len(b)
      /\ \A i \in 1 .. L : E[i] = es[i]
      /\ \A j \in 1 .. Len(b) : E[L + j] = b[j]
  BY <1>1, <1>3
<1>5. /\ es \o played \in Seq(Event) /\ Len(es \o played) = L + n + 1
      /\ \A i \in 1 .. L : (es \o played)[i] = es[i]
      /\ \A j \in 1 .. n + 1 : (es \o played)[L + j] = played[j]
  <2>1. n \in Nat /\ played \in Seq(Event) /\ Len(played) = n + 1
    BY <1>2, <1>3
  <2>2. /\ es \o played \in Seq(Event) /\ Len(es \o played) = L + Len(played)
        /\ \A i \in 1 .. L : (es \o played)[i] = es[i]
        /\ \A j \in 1 .. Len(played) : (es \o played)[L + j] = played[j]
    <3>1. /\ es \o played \in Seq(Event)
          /\ Len(es \o played) = L + Len(played)
          /\ \A i \in 1 .. L : (es \o played)[i] = es[i]
          /\ \A i \in 1 .. L + Len(played) : i > L =>
                i - L \in 1 .. Len(played) /\ (es \o played)[i] = played[i - L]
      BY <2>1, ConcatFacts
    <3>2. ASSUME NEW j \in 1 .. Len(played) PROVE (es \o played)[L + j] = played[j]
      <4>1. L + j \in 1 .. L + Len(played) /\ L + j > L /\ (L + j) - L = j
        BY <1>1, <2>1
      <4>2. QED
        BY <3>1, <4>1
    <3>3. QED
      BY <3>1, <3>2
  <2>3. QED
    BY <1>1, <2>1, <2>2
<1> HIDE DEF E, L, f
<1>6. /\ b[1].payload = [kind |-> "action_taken", intent |-> c.intent]
      /\ \A k \in 1 .. n : /\ k + 1 \in 1 .. n + 1
                           /\ b[k + 1].payload.kind = "board_dealt"
                           /\ b[k + 1].payload.seed = SeedOf(es)
                           /\ played[k + 1].payload.kind = "board_dealt"
      /\ played[1].payload = b[1].payload
  <2>1. n \in Nat /\ 1 \in 1 .. n + 1
    BY <1>2
  <2>2. \A i \in 1 .. n + 1 : played[i].payload = pay[i] /\ b[i].payload = pay[i]
    BY <1>3
  <2>3. ASSUME NEW k \in 1 .. n
        PROVE  /\ k + 1 \in 1 .. n + 1
               /\ pay[k + 1].kind = "board_dealt" /\ pay[k + 1].seed = SeedOf(es)
    <3>1. k + 1 \in 1 .. n + 1
      BY <2>1
    <3>2. pay[k + 1] = [kind |-> "board_dealt", street |-> BoardsDealt(es) + k, seed |-> SeedOf(es)]
      BY <1>2
    <3>3. QED
      BY <3>1, <3>2
  <2>4. pay[1] = [kind |-> "action_taken", intent |-> c.intent]
    BY <1>2
  <2>5. QED
    BY <2>1, <2>2, <2>3, <2>4
<1>7. /\ Trace(E)[L] = StateOf(es)
      /\ \A k \in 0 .. n : Trace(E)[L + 1 + k] = AfterDeals(st)[k]
  <2>1. Len(E) >= L + 1 + n
    BY <1>1, <1>2, <1>3, <1>4
  <2>2. E[L + 1].payload = [kind |-> "action_taken", intent |-> c.intent]
    BY <1>2, <1>3, <1>4, <1>6
  <2>3. \A k \in 1 .. n : IsKind(E[L + 1 + k], "board_dealt")
    <3>1. ASSUME NEW k \in 1 .. n PROVE E[L + 1 + k].payload.kind = "board_dealt"
      <4>1. k + 1 \in 1 .. Len(b) /\ L + (k + 1) = L + 1 + k
        BY <1>1, <1>2, <1>3
      <4>2. QED
        BY <1>4, <1>6, <4>1
    <3>2. QED
      BY <3>1 DEF IsKind
  <2>4. n = DealsDue(Acted(StateOf(es), c.intent))
    BY DEF n
  <2>5. /\ E \in Seq(Event) /\ \A i \in 1 .. L : E[i] = es[i]
    BY <1>4
  <2>6. QED
    BY <2>1, <2>2, <2>3, <2>4, <2>5, ActedTrace DEF L
<1>8. Trace(es \o played)[L + 1 + n] = final
  <2>1. (es \o played)[L + 1].payload = [kind |-> "action_taken", intent |-> c.intent]
    <3>1. 1 \in 1 .. n + 1
      BY <1>2
    <3>2. (es \o played)[L + 1] = played[1]
      BY <1>5, <3>1
    <3>3. QED
      BY <1>6, <3>2
  <2>2. \A k \in 1 .. n : IsKind((es \o played)[L + 1 + k], "board_dealt")
    <3>1. ASSUME NEW k \in 1 .. n PROVE (es \o played)[L + 1 + k].payload.kind = "board_dealt"
      <4>1. k + 1 \in 1 .. n + 1 /\ L + (k + 1) = L + 1 + k
        BY <1>1, <1>2
      <4>2. QED
        BY <1>5, <1>6, <4>1
    <3>2. QED
      BY <3>1 DEF IsKind
  <2>3. Len(es \o played) >= L + 1 + n
    BY <1>1, <1>2, <1>5
  <2> DEFINE F == es \o played
  <2> HIDE DEF F
  <2>4. /\ F \in Seq(Event) /\ Len(F) >= L + 1 + n /\ \A i \in 1 .. L : F[i] = es[i]
        /\ F[L + 1].payload = [kind |-> "action_taken", intent |-> c.intent]
        /\ \A k \in 1 .. n : IsKind(F[L + 1 + k], "board_dealt")
    BY <1>5, <2>1, <2>2, <2>3 DEF F
  <2>5. \A k \in 0 .. n : Trace(F)[L + 1 + k] = AfterDeals(st)[k]
    <3>1. n = DealsDue(Acted(StateOf(es), c.intent))
      BY DEF n
    <3>2. QED
      BY <2>4, <3>1, ActedTrace DEF L
  <2>6. n \in 0 .. n
    BY <1>2
  <2>7. QED
    BY <2>5, <2>6 DEF F
<1>9. StateOf(es \o played) = final
  <2>1. Len(es \o played) = L + 1 + n
    BY <1>1, <1>2, <1>5
  <2>2. QED
    BY <1>8, <2>1, StateIsTraced
<1>10. HandInv(f, st)
  <2>1. IntentOK(c.intent) /\ c.intent.seat # NoSeat
    BY HandRulesAssumption DEF ActCommand, Intent, IntentOK, Seats
  <2>2. QED
    BY <1>1, <2>1, ActedInv
<1>11. /\ HandInv(f, final) /\ (InProgress(final) => Actor(final) # NoSeat)
       /\ \A k \in 0 .. River : k < n => DealDue(AfterDeals(st)[k])
  BY <1>10, DealsEnd, DealsDueFacts DEF n
<1> HIDE DEF st, final
\* the trace and the end of the new stream
<1>12. StateOf(E) = final /\ EndsWell(E)
  <2>1. Trace(E)[L + 1 + n] = final
    <3>1. n \in 0 .. n
      BY <1>2
    <3>2. QED
      BY <1>7, <3>1 DEF final
  <2>2. CASE InProgress(final)
    <3>1. Len(b) = n + 1
      BY <1>3, <1>9, <2>2
    <3>2. Len(E) = L + 1 + n
      BY <1>1, <1>2, <1>4, <3>1
    <3>3. StateOf(E) = final
      BY <2>1, <3>2, StateIsTraced
    <3>4. ~HasCompleted(E)
      <4>1. ASSUME NEW i \in 1 .. Len(E), IsKind(E[i], "hand_completed") PROVE FALSE
        <5>1. i > L
          <6>1. i \in 1 .. L => E[i] = es[i]
            BY <1>4
          <6>2. QED
            BY <1>1, <4>1, <6>1
        <5>2. i - L \in 1 .. n + 1 /\ L + (i - L) = i /\ i - L \in 1 .. Len(b)
          BY <1>1, <1>2, <3>1, <3>2, <5>1
        <5>3. E[i] = b[i - L]
          BY <1>4, <5>2
        <5>4. CASE i - L = 1
          BY <1>6, <4>1, <5>3, <5>4 DEF IsKind
        <5>5. CASE i - L # 1
          <6>1. (i - L) - 1 \in 1 .. n /\ (i - L) - 1 + 1 = i - L
            BY <1>2, <5>2, <5>5
          <6>2. b[i - L].payload.kind = "board_dealt"
            BY <1>6, <6>1
          <6>3. QED
            BY <4>1, <5>3, <6>2 DEF IsKind
        <5>6. QED
          BY <5>4, <5>5
      <4>2. QED
        BY <4>1 DEF HasCompleted
    <3>5. QED
      BY <1>11, <2>2, <3>3, <3>4 DEF EndsWell
  <2>3. CASE ~InProgress(final)
    <3>1. Len(b) = n + 2 /\ IsKind(b[n + 2], "hand_completed")
      BY <1>3, <1>9, <2>3
    <3>2. /\ Len(E) = L + 2 + n /\ L + 2 + n \in 1 .. Len(E) /\ L + 2 + n # 1
          /\ (L + 2 + n) - 1 = L + 1 + n /\ L + (n + 2) = L + 2 + n /\ n + 2 \in 1 .. Len(b)
      <4>1. L \in Nat /\ L >= 1 /\ n \in Nat /\ Len(E) = L + Len(b) /\ Len(b) = n + 2
        BY <1>1, <1>2, <1>4, <3>1
      <4> HIDE DEF L
      <4>2. QED
        BY <4>1
    <3>3. E[L + 2 + n] = b[n + 2]
      BY <1>4, <3>2
    <3>4. HasCompleted(E)
      BY <3>1, <3>2, <3>3 DEF HasCompleted
    <3>5. Trace(E)[L + 2 + n] = Applied(final, E[L + 2 + n].payload)
      <4>1. Trace(E)[L + 2 + n] = After(E, Trace(E), L + 2 + n)
        <5>1. Len(E) \in Nat
          BY <1>4
        <5>2. QED
          BY <3>2, <5>1, TraceFacts
      <4>2. QED
        BY <2>1, <3>2, <4>1 DEF After
    <3>6. Applied(final, E[L + 2 + n].payload) = final
      BY <3>1, <3>3 DEF Applied, IsKind
    <3>7. StateOf(E) = final
      BY <3>2, <3>5, <3>6, StateIsTraced
    <3>8. QED
      BY <2>3, <3>4, <3>7 DEF EndsWell
  <2>4. QED
    BY <2>2, <2>3
<1>13. E[1] = es[1] /\ Facts(E) = f /\ SeedOf(E) = SeedOf(es) /\ IsKind(E[1], "hand_started")
  <2>1. E[1] = es[1]
    BY <1>1, <1>4
  <2>2. QED
    BY <1>1, <2>1 DEF Facts, SeedOf, f
\* where an event of the new stream is
<1>14. ASSUME NEW i \in 1 .. Len(E)
       PROVE  \/ i \in 1 .. L
              \/ i = L + 1 /\ E[i] = b[1]
              \/ \E k \in 1 .. n : i = L + 1 + k /\ E[i] = b[k + 1]
              \/ i = L + 2 + n /\ E[i] = b[n + 2] /\ IsKind(b[n + 2], "hand_completed") /\ ~InProgress(final)
  <2>1. CASE i <= L
    BY <2>1
  <2>2. CASE i = L + 1
    BY <1>1, <1>2, <1>3, <1>4, <2>2
  <2>3. CASE i > L + 1 /\ i <= L + 1 + n
    <3>1. i - (L + 1) \in 1 .. n /\ i = L + 1 + (i - (L + 1)) /\ (i - (L + 1)) + 1 \in 1 .. Len(b)
          /\ L + ((i - (L + 1)) + 1) = i
      BY <1>1, <1>2, <1>3, <2>3
    <3>2. E[i] = b[(i - (L + 1)) + 1]
      BY <1>4, <3>1
    <3>3. QED
      BY <3>1, <3>2
  <2>4. CASE i > L + 1 + n
    <3>1. Len(b) # n + 1
      BY <1>1, <1>2, <1>4, <2>4
    <3>2. ~InProgress(final) /\ Len(b) = n + 2 /\ IsKind(b[n + 2], "hand_completed")
      BY <1>3, <1>9, <3>1
    <3>3. i = L + 2 + n /\ n + 2 \in 1 .. Len(b) /\ L + (n + 2) = i
      <4>1. L \in Nat /\ n \in Nat /\ Len(E) = L + Len(b) /\ Len(b) = n + 2
            /\ i \in Nat /\ i <= Len(E) /\ i > L + 1 + n
        BY <1>1, <1>2, <1>4, <2>4, <3>2
      <4> HIDE DEF L
      <4>2. QED
        BY <4>1
    <3>4. QED
      BY <1>4, <3>2, <3>3
  <2>5. QED
    BY <1>1, <1>2, <2>1, <2>2, <2>3, <2>4
<1>15. SeedProvenance(E)
  <2>1. ASSUME NEW i \in 1 .. Len(E), E[i].payload.kind \in {"hole_cards_recorded", "board_dealt"}
        PROVE  E[i].payload.seed = SeedOf(es)
    <3>1. CASE i \in 1 .. L
      BY <1>1, <1>4, <2>1, <3>1 DEF SeedProvenance, L
    <3>2. CASE i = L + 1 /\ E[i] = b[1]
      BY <1>6, <2>1, <3>2
    <3>3. CASE \E k \in 1 .. n : i = L + 1 + k /\ E[i] = b[k + 1]
      BY <1>6, <2>1, <3>3
    <3>4. CASE E[i] = b[n + 2] /\ IsKind(b[n + 2], "hand_completed")
      BY <2>1, <3>4 DEF IsKind
    <3>5. QED
      BY <1>14, <3>1, <3>2, <3>3, <3>4
  <2>2. QED
    BY <1>13, <2>1 DEF SeedProvenance
<1>16. StepsLegal(E)
  <2>1. ASSUME NEW i \in 2 .. Len(E) PROVE StepLegal(Trace(E)[i - 1], E[i])
    <3>0. i \in 1 .. Len(E)
      OBVIOUS
    <3>1. CASE i \in 1 .. L
      <4>1. i \in 2 .. L /\ i - 1 \in 1 .. L
        BY <1>1, <3>1
      <4>2. Trace(E)[i - 1] = Trace(es)[i - 1]
        <5>1. Len(E) \in Nat /\ L \in Nat /\ L <= Len(E)
          BY <1>1, <1>3, <1>4
        <5>2. \A j \in 1 .. L : Trace(E)[j] = Trace(es)[j]
          BY <1>4, <5>1, TraceOfBeginning DEF L
        <5>3. QED
          BY <4>1, <5>2
      <4>3. QED
        BY <1>1, <1>4, <4>1, <4>2 DEF StepsLegal, L
    <3>2. CASE i = L + 1 /\ E[i] = b[1]
      <4>1. Trace(E)[i - 1] = StateOf(es)
        <5>1. i - 1 = L
          BY <1>1, <3>2
        <5>2. QED
          BY <1>7, <5>1
      <4>2. QED
        BY <1>6, <3>2, <4>1 DEF StepLegal, IsKind
    <3>3. ASSUME NEW k \in 1 .. n, i = L + 1 + k, E[i] = b[k + 1]
          PROVE  StepLegal(Trace(E)[i - 1], E[i])
      <4>1. k - 1 \in 0 .. n /\ k - 1 \in 0 .. River /\ k - 1 < n /\ i - 1 = L + 1 + (k - 1)
        <5>1. n \in Nat /\ n \in 0 .. River /\ L \in Nat /\ k \in 1 .. n /\ i = L + 1 + k
          BY <1>1, <1>2, <3>3
        <5>2. k \in Nat /\ k >= 1 /\ k <= n
          BY <5>1
        <5>3. i - 1 = L + 1 + (k - 1)
          BY <5>1, <5>2
        <5>4. QED
          BY <5>1, <5>2, <5>3 DEF River
      <4>2. Trace(E)[i - 1] = AfterDeals(st)[k - 1]
        BY <1>7, <4>1
      <4>3. DealDue(Trace(E)[i - 1])
        BY <1>11, <4>1, <4>2
      <4>4. E[i].payload.kind = "board_dealt"
        BY <1>6, <3>3
      <4>5. QED
        BY <4>3, <4>4 DEF StepLegal, IsKind, DealDue
    <3>4. CASE i = L + 2 + n /\ E[i] = b[n + 2] /\ IsKind(b[n + 2], "hand_completed") /\ ~InProgress(final)
      <4>1. i - 1 = L + 1 + n /\ n \in 0 .. n
        BY <1>1, <1>2, <3>4
      <4>2. Trace(E)[i - 1] = final
        BY <1>7, <4>1 DEF final
      <4>3. QED
        BY <3>4, <4>2 DEF StepLegal, IsKind
    <3>5. QED
      BY <3>0, <1>14, <3>1, <3>2, <3>3, <3>4
  <2>2. QED
    BY <2>1 DEF StepsLegal
<1>17. Replayable(E)
  BY DEF E, b
<1>18. HandOK(E) /\ Facts(E) = f
  BY <1>11, <1>12, <1>13, <1>15, <1>16, <1>17 DEF HandOK
<1>19. QED
  BY <1>18 DEF E, b, f

(***************************************************************************)
(* Every step keeps the histories.                                         *)
(***************************************************************************)
LogsOK == \A h \in Hands : log[h] # <<>> => HandOK(log[h])
AppendsOK == \A p \in Procs : pc[p] = "append" => HandOK(durable[p] \o batch[p])
HInv == LogsOK /\ AppendsOK

\* A step that appends nothing, of a process that is not about to append after it.
LEMMA LogsStay ==
    ASSUME TypeOK, HInv, log' = log, NEW p \in Procs, NEW place, place # "append",
           pc' = [pc EXCEPT ![p] = place],
           \E x : durable' = [durable EXCEPT ![p] = x],
           \E x : batch' = [batch EXCEPT ![p] = x]
    PROVE  HInv'
<1>1. LogsOK'
  BY DEF HInv, LogsOK
<1>2. ASSUME NEW q \in Procs, pc'[q] = "append" PROVE HandOK(durable'[q] \o batch'[q])
  <2>1. q # p
    BY <1>2 DEF TypeOK
  <2>2. pc'[q] = pc[q] /\ durable'[q] = durable[q] /\ batch'[q] = batch[q]
    BY <2>1 DEF TypeOK
  <2>3. QED
    BY <1>2, <2>2 DEF HInv, AppendsOK
<1>3. QED
  BY <1>1, <1>2 DEF HInv, AppendsOK

LEMMA AppendPrepared ==
    ASSUME TypeOK, HInv, log' = log, NEW p \in Procs, NEW c, NEW es, NEW b, NEW t,
           ToAppend(p, c, es, b, t), HandOK(es \o b)
    PROVE  HInv'
<1>1. LogsOK'
  BY DEF HInv, LogsOK
<1>2. ASSUME NEW q \in Procs, pc'[q] = "append" PROVE HandOK(durable'[q] \o batch'[q])
  <2>1. CASE q = p
    <3>1. durable'[q] = es /\ batch'[q] = b
      BY <2>1 DEF TypeOK, ToAppend
    <3>2. QED
      BY <3>1
  <2>2. CASE q # p
    <3>1. pc'[q] = pc[q] /\ durable'[q] = durable[q] /\ batch'[q] = batch[q]
      BY <2>2 DEF TypeOK, ToAppend
    <3>2. QED
      BY <1>2, <3>1 DEF HInv, AppendsOK
  <2>3. QED
    BY <2>1, <2>2
<1>3. QED
  BY <1>1, <1>2 DEF HInv, AppendsOK

\* What is appended is what was decided on: nothing else is durable.
LEMMA AppendedIsOK ==
    ASSUME IInv, HInv, NEW p \in Procs, pc[p] = "append", Len(log[cmd[p].hand]) = cmd[p].expected,
           log' = [log EXCEPT ![cmd[p].hand] = @ \o batch[p]],
           ToSave(p, cmd[p], next[p])
    PROVE  HInv'
<1> DEFINE h == cmd[p].hand
           s == log[h]
<1>1. TypeOK /\ cmd[p] # NoCommand /\ Len(durable[p]) = cmd[p].expected /\ IsBeginning(durable[p], s)
  BY DEF IInv, PendingBatch
<1>2. h \in Hands
  BY <1>1 DEF TypeOK, OpenCommand, ActCommand
<1>3. durable[p] = s
  <2>1. durable[p] \in Seq(Event) /\ s \in Seq(Event)
    BY <1>1, <1>2 DEF TypeOK
  <2>2. Len(durable[p]) = Len(s) /\ \A i \in 1 .. Len(durable[p]) : s[i] = durable[p][i]
    BY <1>1 DEF IsBeginning
  <2>3. QED
    BY <2>1, <2>2, SeqEqual
<1>4. HandOK(s \o batch[p])
  BY <1>3 DEF HInv, AppendsOK
<1>5. log'[h] = s \o batch[p] /\ \A k \in Hands : k # h => log'[k] = log[k]
  BY <1>1, <1>2 DEF TypeOK
<1>6. LogsOK'
  <2> SUFFICES ASSUME NEW k \in Hands, log'[k] # <<>> PROVE HandOK(log'[k])
    BY DEF LogsOK
  <2>1. CASE k = h
    BY <1>4, <1>5, <2>1
  <2>2. CASE k # h
    BY <1>5, <2>2 DEF HInv, LogsOK
  <2>3. QED
    BY <2>1, <2>2
<1>7. ASSUME NEW q \in Procs, pc'[q] = "append" PROVE HandOK(durable'[q] \o batch'[q])
  <2>1. q # p
    BY <1>1, <1>7 DEF TypeOK, ToSave
  <2>2. pc'[q] = pc[q] /\ durable'[q] = durable[q] /\ batch'[q] = batch[q]
    BY <1>1, <2>1 DEF TypeOK, ToSave
  <2>3. QED
    BY <1>7, <2>2 DEF HInv, AppendsOK
<1>8. QED
  BY <1>6, <1>7 DEF HInv, AppendsOK

LEMMA HInvStep ==
    ASSUME IInv, SInv, HInv, [Next]_vars
    PROVE  HInv'
<1>0. TypeOK
  BY DEF IInv
<1>1. ASSUME NEW p \in Procs, log' = log, NEW place \in {"idle", "recover", "ready"}, NEW st,
             Reset(p, place, st)
      PROVE  HInv'
  BY <1>0, <1>1, LogsStay DEF Reset
<1>2. ASSUME NEW p \in Procs, log' = log, Idle(p) PROVE HInv'
  BY <1>1, <1>2 DEF Idle
<1>3. ASSUME NEW p \in Procs, log' = log, NEW c, NEW t, ToSave(p, c, t) PROVE HInv'
  BY <1>0, <1>3, LogsStay DEF ToSave
<1>4. ASSUME NEW p \in Procs, NEW c \in Requests, c.kind = "open", OpenHand(p, c) PROVE HInv'
  <2> DEFINE se == held[p].session
             es == log[c.hand]
  <2>1. log' = log /\ c \in OpenCommand
    BY <1>4 DEF OpenHand, ActCommand
  <2>2. ASSUME OwnsActive(se, c.hand), es = <<>>, c.expected = 0,
               NEW order \in [1 .. Cardinality(se.active.seats) -> se.active.seats],
               \A i, j \in DOMAIN order : i < j => order[i] < order[j],
               ToAppend(p, c, es, EventsFor(c, OpeningPayloads(se, c.seed, order)), se)
        PROVE  HInv'
    <3>1. se \in Session /\ Sound(se) /\ se.active # NoHand
      BY <1>0, <2>2, HeldType DEF OwnsActive, SInv
    <3>2. Cardinality(se.active.seats) \in Nat
      BY <3>1, ActiveSeatsFinite
    <3> DEFINE n == Cardinality(se.active.seats)
               b == EventsFor(c, OpeningPayloads(se, c.seed, order))
    <3>3. \A i, j \in 1 .. n : i < j => order[i] < order[j]
      BY <2>2
    <3>4. HandOK(b)
      BY <2>1, <2>2, <3>1, <3>2, <3>3, OpeningIsOK
    <3>5. b \in Seq(Event)
      BY <2>1, <3>1, <3>2, OpeningPayloadsType, EventsForType DEF Command, OpenCommand
    <3> HIDE DEF b
    <3>6. es \o b = b
      BY <2>2, <3>5
    <3>7. ToAppend(p, c, es, b, se) /\ HandOK(es \o b)
      BY <2>2, <3>4, <3>6 DEF b
    <3> HIDE DEF se, es
    <3>8. QED
      BY <1>0, <2>1, <3>7, AppendPrepared
  <2>3. CASE Idle(p)
    BY <1>2, <2>1, <2>3
  <2>4. CASE \E t : ToSave(p, c, t)
    BY <1>3, <2>1, <2>4
  <2>5. QED
    BY <1>4, <2>2, <2>3, <2>4 DEF OpenHand
<1>5. ASSUME NEW p \in Procs, NEW c \in Requests, c.kind = "act", Execute(p, c) PROVE HInv'
  <2> DEFINE se == held[p].session
             es == log[c.hand]
             b == ActionBatch(es, c)
  <2>1. log' = log /\ c \in ActCommand /\ c.hand \in Hands
    BY <1>5 DEF Execute, OpenCommand, ActCommand
  <2>2. ASSUME es # <<>>, ActionAccepted(se, es, c), Replayable(es \o b), NEW t, ToAppend(p, c, es, b, t)
        PROVE  HInv'
    <3>1. es \in Seq(Event) /\ HandOK(es)
      BY <1>0, <2>1, <2>2, HeldType DEF HInv, LogsOK
    <3>2. HandOK(es \o b)
      BY <2>1, <2>2, <3>1, ActedIsOK DEF ActionAccepted
    <3> HIDE DEF es, b
    <3>3. QED
      BY <1>0, <2>1, <2>2, <3>2, AppendPrepared
  <2>3. CASE Idle(p)
    BY <1>2, <2>1, <2>3
  <2>4. CASE \E t : ToSave(p, c, t)
    BY <1>3, <2>1, <2>4
  <2>5. QED
    BY <1>5, <2>2, <2>3, <2>4 DEF Execute, CanRead
<1>6. ASSUME NEW p \in Procs, AppendBatch(p) PROVE HInv'
  <2>1. CASE Idle(p) /\ UNCHANGED log
    BY <1>2, <2>1
  <2>2. CASE /\ Len(log[cmd[p].hand]) = cmd[p].expected
             /\ log' = [log EXCEPT ![cmd[p].hand] = @ \o batch[p]]
             /\ ToSave(p, cmd[p], next[p])
    BY <1>6, <2>2, AppendedIsOK DEF AppendBatch
  <2>3. CASE /\ pc' = [pc EXCEPT ![p] = "reread"]
             /\ batch' = [batch EXCEPT ![p] = <<>>]
             /\ durable' = [durable EXCEPT ![p] = <<>>]
             /\ UNCHANGED <<log, held, cmd, next>>
    BY <1>0, <2>3, LogsStay
  <2>4. QED
    BY <1>6, <2>1, <2>2, <2>3 DEF AppendBatch
<1>7. ASSUME NEW p \in Procs, Load(p) \/ Save(p) \/ Finish(p) \/ Crash(p) PROVE HInv'
  BY <1>1, <1>2, <1>7 DEF Load, Save, Finish, Crash
<1>8. ASSUME NEW p \in Procs, Recover(p) \/ StartNextHand(p) PROVE HInv'
  BY <1>1, <1>3, <1>8 DEF Recover, StartNextHand
<1>9. ASSUME NEW p \in Procs, Reconcile(p) PROVE HInv'
  BY <1>2, <1>3, <1>9 DEF Reconcile
<1>10. CASE UNCHANGED vars
  BY <1>10 DEF vars, procVars, HInv, LogsOK, AppendsOK
<1>11. QED
  BY <1>4, <1>5, <1>6, <1>7, <1>8, <1>9, <1>10 DEF Next, Step

LEMMA HInvGives == TypeOK /\ HInv => HistoriesReplay
<1> SUFFICES ASSUME TypeOK, HInv, NEW h \in Hands, log[h] # <<>>
             PROVE  Replayable(log[h]) /\ LegalPlay(log[h])
  BY DEF HistoriesReplay, StreamsReplay, LogsAreLegalPlay
<1>1. log[h] \in Seq(Event) /\ HandOK(log[h])
  BY DEF TypeOK, HInv, LogsOK
<1>2. QED
  BY <1>1, PlayIsTraced DEF HandOK

LEMMA HInvAlways == ASSUME 0 \notin SittingOut PROVE Spec => [](IInv /\ SInv /\ HInv)
<1>1. Init => IInv /\ SInv /\ HInv
  <2>1. Init => HInv
    BY DEF Init, HInv, LogsOK, AppendsOK
  <2>2. QED
    BY <2>1, InitIInv, InitSInv
<1>2. IInv /\ SInv /\ HInv /\ [Next]_vars => (IInv /\ SInv /\ HInv)'
  BY IInvStep, SInvStep, HInvStep DEF IInv
<1>3. QED
  BY <1>1, <1>2, PTL DEF Spec

\* However commands race, are retried and die, every durable hand is one legal play
\* of the rules with no step half done, and replays: read -> replay_hand, which
\* every caller does first, never raises.
THEOREM HistoriesAlwaysReplay == ASSUME 0 \notin SittingOut PROVE Spec => []HistoriesReplay
<1>1. IInv /\ SInv /\ HInv => HistoriesReplay
  BY HInvGives DEF IInv
<1>2. QED
  BY <1>1, HInvAlways, PTL

(***************************************************************************)
(* The session and the logs.  Told(lg)[k] is the session after the first k *)
(* hands of the logs, settled one after the other.                         *)
(***************************************************************************)
Settling(se, k, es) == Pick(CompletedBy(Pick(StartedNext(se)), k, EndingStacks(es)))
Telling(lg, g, k) == IF k = 0 THEN Created(0) ELSE Settling(g[k - 1], k, lg[k])
IsTold(lg, n, g) == g = [k \in 0 .. n |-> Telling(lg, g, k)]
Told(lg) == CHOOSE g : IsTold(lg, MaxHands, g)

LEMMA ToldExists ==
    ASSUME NEW lg, NEW n \in Nat
    PROVE  \E g : IsTold(lg, n, g)
<1> DEFINE A == {k \in Nat : \E g : IsTold(lg, k, g)}
<1>1. 0 \in A
  <2> DEFINE g == [k \in 0 .. 0 |-> Created(0)]
  <2>1. g = [k \in 0 .. 0 |-> Telling(lg, g, k)]
    <3>1. \A k \in 0 .. 0 : k = 0
      OBVIOUS
    <3>2. \A k \in 0 .. 0 : Telling(lg, g, k) = Created(0)
      BY <3>1 DEF Telling
    <3>3. QED
      BY <3>2
  <2> HIDE DEF g
  <2>2. IsTold(lg, 0, g)
    BY <2>1 DEF IsTold
  <2>3. QED
    BY <2>2
<1>2. ASSUME NEW k \in Nat, k \in A PROVE k + 1 \in A
  <2>1. PICK g : IsTold(lg, k, g)
    BY <1>2
  <2> DEFINE h == [i \in 0 .. k + 1 |-> IF i = k + 1 THEN Telling(lg, g, i) ELSE g[i]]
  <2>2. ASSUME NEW i \in 0 .. k + 1 PROVE h[i] = Telling(lg, g, i)
    <3>1. CASE i = k + 1
      BY <3>1
    <3>2. CASE i # k + 1
      <4>1. i \in 0 .. k /\ h[i] = g[i]
        BY <3>2
      <4>2. g[i] = Telling(lg, g, i)
        BY <2>1, <4>1 DEF IsTold
      <4>3. QED
        BY <4>1, <4>2
    <3>3. QED
      BY <3>1, <3>2
  <2>3. ASSUME NEW i \in 0 .. k + 1 PROVE Telling(lg, g, i) = Telling(lg, h, i)
    <3>1. CASE i = 0
      BY <3>1 DEF Telling
    <3>2. CASE i # 0
      <4>1. i - 1 \in 0 .. k + 1 /\ i - 1 # k + 1
        BY <3>2
      <4>2. h[i - 1] = g[i - 1]
        BY <4>1
      <4> HIDE DEF h
      <4>3. QED
        BY <3>2, <4>2 DEF Telling
    <3>3. QED
      BY <3>1, <3>2
  <2>4. h = [i \in 0 .. k + 1 |-> h[i]]
    OBVIOUS
  <2> HIDE DEF h
  <2>5. IsTold(lg, k + 1, h)
    BY <2>2, <2>3, <2>4 DEF IsTold
  <2>6. QED
    BY <2>5
<1>3. n \in A
  <2> HIDE DEF A
  <2>1. Nat \subseteq A
    BY <1>1, <1>2, NumbersFrom
  <2>2. QED
    BY <2>1
<1>4. QED
  BY <1>3

LEMMA ToldFacts ==
    ASSUME NEW lg
    PROVE  /\ Told(lg)[0] = Created(0)
           /\ \A k \in 0 .. MaxHands - 1 : Told(lg)[k + 1] = Settling(Told(lg)[k], k + 1, lg[k + 1])
<1>1. IsTold(lg, MaxHands, Told(lg))
  <2>1. \E g : IsTold(lg, MaxHands, g)
    BY ToldExists
  <2>2. QED
    BY <2>1 DEF Told
<1>2. \A k \in 0 .. MaxHands : Told(lg)[k] = Telling(lg, Told(lg), k)
  BY <1>1 DEF IsTold
<1>3. 0 \in 0 .. MaxHands
  OBVIOUS
<1>4. ASSUME NEW k \in 0 .. MaxHands - 1
      PROVE  Told(lg)[k + 1] = Settling(Told(lg)[k], k + 1, lg[k + 1])
  <2>1. k + 1 \in 0 .. MaxHands /\ k + 1 # 0 /\ (k + 1) - 1 = k
    OBVIOUS
  <2>2. Told(lg)[k + 1] = Telling(lg, Told(lg), k + 1)
    BY <1>2, <2>1
  <2>3. QED
    BY <2>1, <2>2 DEF Telling
<1>5. QED
  BY <1>2, <1>3, <1>4 DEF Telling

\* What was told of the first hands does not depend on the later ones.
LEMMA ToldSame ==
    ASSUME NEW lg, NEW lg2, NEW m \in 0 .. MaxHands, \A k \in 1 .. m : lg2[k] = lg[k]
    PROVE  \A k \in 0 .. m : Told(lg2)[k] = Told(lg)[k]
<1> DEFINE A == {k \in Nat : k <= m => Told(lg2)[k] = Told(lg)[k]}
<1>1. 0 \in A
  BY ToldFacts
<1>2. ASSUME NEW k \in Nat, k \in A PROVE k + 1 \in A
  <2>1. SUFFICES ASSUME k + 1 <= m PROVE Told(lg2)[k + 1] = Told(lg)[k + 1]
    OBVIOUS
  <2>2. k <= m /\ k + 1 \in 1 .. m /\ k \in 0 .. MaxHands - 1
    BY <2>1
  <2>3. Told(lg2)[k] = Told(lg)[k] /\ lg2[k + 1] = lg[k + 1]
    BY <1>2, <2>2
  <2>4. QED
    BY <2>2, <2>3, ToldFacts
<1>3. Nat \subseteq A
  <2> HIDE DEF A
  <2>1. QED
    BY <1>1, <1>2, NumbersFrom
<1>4. QED
  BY <1>3

(***************************************************************************)
(* The transitions have one result at most.                                *)
(***************************************************************************)
LEMMA PickOnly == ASSUME NEW S, NEW t \in S, \A u \in S : u = t PROVE Pick(S) = t
  BY DEF Pick

RebuysPast(se) == se.active # NoHand => \A r \in se.rebuys : r.hand <= se.handSequence

LEMMA StartedIs ==
    ASSUME NEW se \in Session, Sound(se), NEW t \in StartedNext(se)
    PROVE  /\ Pick(StartedNext(se)) = t /\ se.active = NoHand /\ t.active # NoHand
           /\ t.completed = se.completed /\ t.handSequence = se.handSequence + 1
           /\ RebuysPast(t)
<1> DEFINE stacks == Refilled(se.stacks)
           hand == [hand |-> se.handSequence + 1, button |-> se.button, seats |-> Participating(stacks)]
           new == [button |-> se.button, stacks |-> stacks, handSequence |-> hand.hand,
                   completed |-> se.completed, active |-> hand,
                   rebuys |-> se.rebuys \cup AutoRebuys(se, se.stacks)]
<1>1. t = new /\ MayStart(se) /\ \A u \in StartedNext(se) : u = new
  BY DEF StartedNext
<1>2. Pick(StartedNext(se)) = t
  BY <1>1, PickOnly
<1>3. t \in Session
  BY StartedType
<1>4. t.active = hand /\ t.completed = se.completed /\ t.handSequence = se.handSequence + 1
      /\ t.rebuys = se.rebuys \cup AutoRebuys(se, se.stacks)
  BY <1>1
<1>5. hand # NoHand
  <2>1. hand \in ActiveHand
    <3>1. Participating(stacks) \subseteq Seats
      BY DEF Participating
    <3>2. QED
      BY <3>1 DEF ActiveHand, Session
  <2>2. QED
    BY <2>1
<1>6. \A r \in t.rebuys : r.hand <= t.handSequence
  <2>1. \A r \in se.rebuys : r.hand <= se.handSequence + 1
    BY DEF Sound, ValidSession
  <2>2. \A r \in AutoRebuys(se, se.stacks) : r.hand = se.handSequence + 1
    BY DEF AutoRebuys
  <2>3. se.handSequence + 1 \in Nat
    BY DEF Session
  <2>4. QED
    BY <1>4, <2>1, <2>2, <2>3
<1>7. QED
  BY <1>1, <1>2, <1>4, <1>5, <1>6 DEF MayStart, RebuysPast

LEMMA CompletedIs ==
    ASSUME NEW se \in Session, NEW h, NEW ending, NEW t \in CompletedBy(se, h, ending)
    PROVE  /\ Pick(CompletedBy(se, h, ending)) = t
           /\ se.active # NoHand /\ se.active.hand = h /\ t.active = NoHand
           /\ t.completed = Append(se.completed, h) /\ t.handSequence = se.handSequence
           /\ RebuysPast(t)
<1> DEFINE new(b) == [button |-> b, stacks |-> SettledStacks(se, ending), handSequence |-> se.handSequence,
                      completed |-> Append(se.completed, se.active.hand), active |-> NoHand,
                      rebuys |-> se.rebuys \cup AutoRebuys(se, Settled(se, ending))]
           first == FirstAfter(se.button, Participating(SettledStacks(se, ending)))
<1>1. \A u \in CompletedBy(se, h, ending) : u = new(first) /\ se.active # NoHand /\ se.active.hand = h
  BY DEF CompletedBy, NextButtons
<1>2. Pick(CompletedBy(se, h, ending)) = t
  BY <1>1, PickOnly
<1>3. t = new(first) /\ se.active # NoHand /\ se.active.hand = h
  BY <1>1
<1> HIDE DEF first
<1>4. t.active = NoHand /\ t.completed = Append(se.completed, se.active.hand) /\ t.handSequence = se.handSequence
  BY <1>3
<1>5. QED
  BY <1>2, <1>3, <1>4 DEF RebuysPast

(***************************************************************************)
(* A session that the logs explain.                                        *)
(***************************************************************************)
Tells(lg, se) ==
    LET n == Len(se.completed) IN
    /\ RebuysPast(se)
    /\ n \in 0 .. MaxHands
    /\ \A k \in 1 .. n : lg[k] # <<>> /\ HasCompleted(lg[k])
    /\ IF se.active = NoHand
       THEN se = Told(lg)[n]
       ELSE n < MaxHands /\ se \in StartedNext(Told(lg)[n]) /\ se = Pick(StartedNext(Told(lg)[n]))

LEMMA SessionCounts ==
    ASSUME NEW se \in Session, Sound(se)
    PROVE  /\ Len(se.completed) \in Nat /\ se.handSequence \in Nat
           /\ se.active = NoHand => se.handSequence = Len(se.completed)
           /\ se.active # NoHand => /\ se.handSequence = Len(se.completed) + 1
                                    /\ se.active.hand = se.handSequence
           /\ \A h : h \in Range(se.completed) <=> h \in 1 .. Len(se.completed)
<1>1. se.completed \in Seq(Nat) /\ se.handSequence \in Nat
  BY DEF Session
<1>2. /\ se.completed = [i \in 1 .. Len(se.completed) |-> i]
      /\ se.handSequence = Len(se.completed) + IF se.active = NoHand THEN 0 ELSE 1
      /\ se.active # NoHand => se.active.hand = se.handSequence
  BY DEF Sound, ValidSession
<1>3. ASSUME NEW h PROVE h \in Range(se.completed) <=> h \in 1 .. Len(se.completed)
  <2> DEFINE n == Len(se.completed)
  <2>1. DOMAIN se.completed = 1 .. n /\ \A i \in 1 .. n : se.completed[i] = i
    <3> HIDE DEF n
    <3>1. se.completed = [i \in 1 .. n |-> i]
      BY <1>2 DEF n
    <3>2. QED
      BY <3>1
  <2> HIDE DEF n
  <2>2. QED
    BY <2>1 DEF Range, n
<1>4. /\ se.active = NoHand => se.handSequence = Len(se.completed)
      /\ se.active # NoHand => /\ se.handSequence = Len(se.completed) + 1
                               /\ se.active.hand = se.handSequence
  <2> DEFINE n == Len(se.completed)
  <2>1. n \in Nat /\ se.handSequence = n + IF se.active = NoHand THEN 0 ELSE 1
    BY <1>1, <1>2
  <2> HIDE DEF n
  <2>2. /\ se.active = NoHand => se.handSequence = n
        /\ se.active # NoHand => se.handSequence = n + 1
    BY <2>1
  <2>3. se.active # NoHand => se.active.hand = se.handSequence
    BY <1>2
  <2>4. QED
    BY <2>2, <2>3 DEF n
<1>5. Len(se.completed) \in Nat
  BY <1>1
<1>6. QED
  BY <1>1, <1>3, <1>4, <1>5, Zenon

LEMMA TellsCreated == ASSUME NEW lg PROVE Tells(lg, Created(0)) /\ Created(0).handSequence = 0
<1>1. /\ Created(0).completed = <<>> /\ Created(0).active = NoHand /\ Created(0).handSequence = 0
  BY DEF Created
<1>2. Len(Created(0).completed) = 0
  BY <1>1
<1>3. QED
  BY <1>1, <1>2, ToldFacts DEF Tells, RebuysPast

\* A session and what a transition can make of it: itself, its next hand begun, or
\* its hand settled.
Follows(se, t) ==
    \/ t = se
    \/ /\ se.active = NoHand /\ t.active # NoHand
       /\ t.handSequence = se.handSequence + 1 /\ Len(t.completed) = Len(se.completed)
    \/ /\ se.active # NoHand /\ t.active = NoHand
       /\ t.handSequence = se.handSequence /\ Len(t.completed) = Len(se.completed) + 1

\* A session stays explained when hands grow that were not completed.
LEMMA TellsStays ==
    ASSUME NEW se, NEW lg, NEW lg2, Tells(lg, se),
           \A k \in Hands : HasCompleted(lg[k]) => lg2[k] = lg[k]
    PROVE  Tells(lg2, se)
<1> DEFINE n == Len(se.completed)
<1>1. n \in 0 .. MaxHands /\ \A k \in 1 .. n : lg[k] # <<>> /\ HasCompleted(lg[k])
  BY DEF Tells
<1>2. \A k \in 1 .. n : lg2[k] = lg[k]
  BY <1>1 DEF Hands
<1> HIDE DEF n
<1>3. \A k \in 0 .. n : Told(lg2)[k] = Told(lg)[k]
  BY <1>1, <1>2, ToldSame
<1>4. Told(lg2)[n] = Told(lg)[n]
  BY <1>1, <1>3
<1>5. QED
  BY <1>1, <1>2, <1>4 DEF Tells, n

LEMMA TellsStarted ==
    ASSUME NEW lg, NEW se \in Session, Sound(se), Tells(lg, se), se.handSequence < MaxHands,
           NEW t \in StartedNext(se)
    PROVE  Tells(lg, t) /\ se.handSequence <= t.handSequence /\ Follows(se, t)
<1>1. /\ Pick(StartedNext(se)) = t /\ se.active = NoHand /\ t.active # NoHand
      /\ t.completed = se.completed /\ t.handSequence = se.handSequence + 1
      /\ RebuysPast(t)
  BY StartedIs
<1>2. se.handSequence = Len(se.completed) /\ se.handSequence \in Nat
  BY <1>1, SessionCounts
<1>3. se = Told(lg)[Len(se.completed)]
  BY <1>1 DEF Tells
<1>4. t \in StartedNext(Told(lg)[Len(t.completed)]) /\ t = Pick(StartedNext(Told(lg)[Len(t.completed)]))
  BY <1>1, <1>3
<1>5. Follows(se, t)
  BY <1>1 DEF Follows
<1>6. QED
  BY <1>1, <1>2, <1>4, <1>5 DEF Tells

LEMMA TellsCompleted ==
    ASSUME NEW lg, NEW se \in Session, Sound(se), Tells(lg, se), NEW h,
           lg[h] # <<>>, HasCompleted(lg[h]), NEW t \in CompletedBy(se, h, EndingStacks(lg[h]))
    PROVE  Tells(lg, t) /\ se.handSequence <= t.handSequence /\ Follows(se, t)
<1> DEFINE n == Len(se.completed)
<1>1. /\ Pick(CompletedBy(se, h, EndingStacks(lg[h]))) = t
      /\ se.active # NoHand /\ se.active.hand = h /\ t.active = NoHand
      /\ t.completed = Append(se.completed, h) /\ t.handSequence = se.handSequence
      /\ RebuysPast(t)
  BY CompletedIs
<1>2. n \in Nat /\ h = n + 1 /\ se.handSequence \in Nat
  BY <1>1, SessionCounts
<1>3. n < MaxHands /\ n \in 0 .. MaxHands - 1 /\ se = Pick(StartedNext(Told(lg)[n]))
  BY <1>1, <1>2 DEF Tells
<1>4. Told(lg)[n + 1] = t
  BY <1>1, <1>2, <1>3, ToldFacts DEF Settling
<1>5. Len(t.completed) = n + 1
  BY <1>1 DEF Session
<1>6. \A k \in 1 .. n + 1 : lg[k] # <<>> /\ HasCompleted(lg[k])
  <2>1. \A k \in 1 .. n : lg[k] # <<>> /\ HasCompleted(lg[k])
    BY DEF Tells
  <2>2. \A k \in 1 .. n + 1 : k \in 1 .. n \/ k = h
    BY <1>2
  <2>3. QED
    BY <2>1, <2>2
<1>7. Follows(se, t)
  BY <1>1, <1>5 DEF Follows
<1> HIDE DEF n
<1>8. n + 1 \in 0 .. MaxHands
  BY <1>3
<1>9. QED
  BY <1>1, <1>2, <1>4, <1>5, <1>6, <1>7, <1>8 DEF Tells

\* A hand that is over is completed, and one that is not goes on.
LEMMA OverIsCompleted ==
    ASSUME NEW es, HandOK(es)
    PROVE  InProgress(StateOf(es)) <=> ~HasCompleted(es)
  BY DEF HandOK, EndsWell, Actor

LEMMA TellsSuccessor ==
    ASSUME NEW lg, NEW se \in Session, Sound(se), Tells(lg, se), NEW h,
           lg[h] # <<>>, HandOK(lg[h]), NEW t \in SuccessorForReplay(se, h, lg[h])
    PROVE  Tells(lg, t) /\ se.handSequence <= t.handSequence /\ Follows(se, t)
<1>1. CASE InProgress(StateOf(lg[h])) \/ se.active = NoHand
  <2>1. t = se
    BY <1>1 DEF SuccessorForReplay
  <2>2. se.handSequence \in Nat
    BY DEF Session
  <2>3. QED
    BY <2>1, <2>2 DEF Follows
<1>2. CASE ~(InProgress(StateOf(lg[h])) \/ se.active = NoHand)
  <2>1. t \in CompletedBy(se, h, EndingStacks(lg[h])) /\ HasCompleted(lg[h])
    BY <1>2, OverIsCompleted DEF SuccessorForReplay
  <2>2. QED
    BY <2>1, TellsCompleted
<1>3. QED
  BY <1>1, <1>2

\* A hand opened by the session and played out can be settled into it.
LEMMA SettlesInto ==
    ASSUME NEW se \in Session, Sound(se), RebuysPast(se), se.active # NoHand,
           NEW es \in Seq(Event), HandOK(es), Facts(es) = OpeningFacts(se)
    PROVE  CompletedBy(se, se.active.hand, EndingStacks(es)) # {}
<1> DEFINE f == Facts(es)
           ending == EndingStacks(es)
           seats == se.active.seats
           after == Settled(se, ending)
           full == SettledStacks(se, ending)
           first == FirstAfter(se.button, Participating(full))
<1>1. SeedOf(es) \in Seeds /\ HandInv(f, StateOf(es))
  BY ReplayableStarts DEF HandOK
<1>2. ending = SettledFrom(f, StateOf(es), SeedOf(es)).stacks
  BY DEF EndingStacks, Settlement
<1>3. /\ SumFunction(ending) = SumFunctionOnSet(f.stacks, f.active)
      /\ ending \in [f.active -> Nat]
  BY <1>1, <1>2, InvSettles, SettledConserves
<1>4. f.stacks = se.stacks /\ f.active = seats
  BY DEF OpeningFacts
<1> HIDE DEF f, ending
<1>5. /\ DOMAIN ending = seats /\ \A s \in DOMAIN ending : ending[s] \in Nat
      /\ SumFunction(ending) = SumFunctionOnSet(se.stacks, seats)
  BY <1>3, <1>4
<1>6. seats = Seats \ SittingOut /\ se.button \in Seats /\ se.stacks \in [Seats -> Nat]
  BY DEF Sound, Session
<1>7. after \in [Seats -> Nat]
  <2>1. ASSUME NEW s \in Seats PROVE (IF s \in DOMAIN ending THEN ending[s] ELSE se.stacks[s]) \in Nat
    BY <1>5, <1>6
  <2>2. QED
    BY <2>1 DEF Settled
<1> HIDE DEF after
<1>8. NewRebuys(se, after)
  <2>1. se.handSequence \in Nat /\ \A r \in se.rebuys : r.hand \in Nat
    BY DEF Session, Rebuy
  <2>2. \A r \in se.rebuys : r.hand <= se.handSequence
    BY DEF RebuysPast
  <2>3. \A m \in AutoRebuys(se, after) : m.hand = se.handSequence + 1
    BY DEF AutoRebuys
  <2>4. QED
    BY <2>1, <2>2, <2>3 DEF NewRebuys
<1>9. Participating(full) = Seats \ SittingOut
  <2>1. full = Refilled(after)
    BY DEF SettledStacks, after
  <2> HIDE DEF full
  <2>2. full \in [Seats -> Nat] /\ Funded(full)
    BY <1>7, <2>1, RefilledType, RefilledFunds
  <2>3. QED
    BY <2>2, FundedTakesPart
<1>10. first \in NextButtons(se, full)
  <2>1. Participating(full) # {} /\ Participating(full) \subseteq Seats
    <3>1. Seats \ SittingOut # {}
      <4>1. Cardinality({}) = 0 /\ Cardinality(Seats \ SittingOut) >= 2
        BY FS_EmptySet
      <4>2. ASSUME Seats \ SittingOut = {} PROVE FALSE
        <5>1. Cardinality(Seats \ SittingOut) = Cardinality({})
          BY <4>2
        <5>2. QED
          BY <4>1, <5>1
      <4>3. QED
        BY <4>2
    <3>2. QED
      BY <1>9, <3>1
  <2> HIDE DEF full
  <2>2. first \in Participating(full)
    BY <1>6, <2>1, FirstAfterFacts
  <2>3. QED
    BY <2>2 DEF NextButtons
<1> HIDE DEF first
<1>11. first \in {b \in NextButtons(se, SettledStacks(se, ending)) :
                 /\ se.active # NoHand
                 /\ se.active.hand = se.active.hand
                 /\ DOMAIN ending = se.active.seats
                 /\ \A s \in DOMAIN ending : ending[s] \in Nat
                 /\ SumFunction(ending) = SumFunctionOnSet(se.stacks, se.active.seats)
                 /\ NewRebuys(se, Settled(se, ending))}
  BY <1>5, <1>8, <1>10 DEF after
<1>12. QED
  BY <1>11 DEF CompletedBy, ending

(***************************************************************************)
(* What holds of the stores and of every process.                          *)
(***************************************************************************)
LogTells(lg, n) ==
    \A h \in Hands : lg[h] # <<>> =>
        h <= n /\ Facts(lg[h]) = OpeningFacts(Pick(StartedNext(Told(lg)[h - 1])))
LocalTells(lg, n, place, c, d, b, se, t) ==
    /\ Tells(lg, se) /\ se.handSequence <= n
    /\ place = "save" => Tells(lg, t) /\ se.handSequence <= t.handSequence /\ Follows(se, t)
    /\ place = "append" => /\ OwnsActive(se, c.hand) /\ ~HasCompleted(d)
                           /\ Facts(d \o b) = OpeningFacts(se)
                           /\ t \in SuccessorForReplay(se, c.hand, d \o b)
EInv ==
    /\ Tells(log, stored.session)
    /\ LogTells(log, stored.session.handSequence)
    /\ \A p \in Procs : LocalTells(log, stored.session.handSequence,
                                   pc[p], cmd[p], durable[p], batch[p], held[p].session, next[p])

LEMMA LocalStays ==
    ASSUME NEW lg, NEW lg2, NEW n \in Nat, NEW n2 \in Nat, NEW place, NEW c, NEW d, NEW b,
           NEW se \in Session, NEW t,
           LocalTells(lg, n, place, c, d, b, se, t), n <= n2,
           \A k \in Hands : HasCompleted(lg[k]) => lg2[k] = lg[k]
    PROVE  LocalTells(lg2, n2, place, c, d, b, se, t)
<1>1. Tells(lg, se) /\ se.handSequence <= n /\ se.handSequence \in Nat
  BY DEF LocalTells, Session
<1>2. Tells(lg2, se)
  BY <1>1, TellsStays
<1>3. place = "save" => Tells(lg2, t)
  BY TellsStays DEF LocalTells
<1>4. se.handSequence <= n2
  BY <1>1
<1>5. QED
  BY <1>2, <1>3, <1>4 DEF LocalTells

\* The hands of the log when one that was not completed grows.
LEMMA LogTellsGrown ==
    ASSUME NEW lg, NEW lg2, NEW se \in Session, Sound(se), Tells(lg, se), LogTells(lg, se.handSequence),
           NEW h \in Hands, ~HasCompleted(lg[h]), \A k \in Hands : k # h => lg2[k] = lg[k],
           NEW mine \in Session, Sound(mine), Tells(lg, mine), OwnsActive(mine, h),
           mine.handSequence <= se.handSequence, Facts(lg2[h]) = OpeningFacts(mine)
    PROVE  LogTells(lg2, se.handSequence)
<1>1. \A k \in Hands : HasCompleted(lg[k]) => lg2[k] = lg[k]
  OBVIOUS
<1>2. ASSUME NEW k \in Hands, lg2[k] # <<>>
      PROVE  k <= se.handSequence /\ Facts(lg2[k]) = OpeningFacts(Pick(StartedNext(Told(lg2)[k - 1])))
  <2>1. CASE k = h
    <3>1. Tells(lg2, mine)
      BY <1>1, TellsStays
    <3>2. mine.handSequence = h /\ Len(mine.completed) = h - 1 /\ mine.active # NoHand
      BY SessionCounts DEF OwnsActive
    <3>3. mine = Pick(StartedNext(Told(lg2)[h - 1]))
      BY <3>1, <3>2 DEF Tells
    <3>4. QED
      BY <2>1, <3>2, <3>3
  <2>2. CASE k # h
    <3>1. lg2[k] = lg[k] /\ k <= se.handSequence
          /\ Facts(lg[k]) = OpeningFacts(Pick(StartedNext(Told(lg)[k - 1])))
      BY <1>2, <2>2 DEF LogTells
    <3>2. k - 1 \in 0 .. MaxHands /\ k - 1 <= Len(se.completed)
      BY <3>1, SessionCounts DEF Hands
    <3>3. ASSUME NEW j \in 1 .. k - 1 PROVE lg2[j] = lg[j]
      <4>1. j \in 1 .. Len(se.completed) /\ j \in Hands
        BY <3>2, SessionCounts DEF Hands
      <4>2. HasCompleted(lg[j])
        BY <4>1 DEF Tells
      <4>3. QED
        BY <1>1, <4>1, <4>2
    <3>4. \A j \in 0 .. k - 1 : Told(lg2)[j] = Told(lg)[j]
      BY <3>2, <3>3, ToldSame
    <3>5. Told(lg2)[k - 1] = Told(lg)[k - 1]
      <4>1. k - 1 \in 0 .. k - 1
        BY <3>2
      <4>2. QED
        BY <3>4, <4>1
    <3>6. QED
      BY <3>1, <3>5
  <2>3. QED
    BY <2>1, <2>2
<1>3. QED
  BY <1>2 DEF LogTells

LEMMA EInvTyped ==
    ASSUME TypeOK, SInv, NEW p \in Procs
    PROVE  /\ stored.session \in Session /\ Sound(stored.session) /\ stored.session.handSequence \in Nat
           /\ held[p].session \in Session /\ Sound(held[p].session)
           /\ held[p].session.handSequence \in Nat
           /\ next[p] \in Session /\ Sound(next[p])
           /\ \A h \in Hands : log[h] \in Seq(Event)
  BY DEF TypeOK, SInv, StoredSession, Session

\* A step of one process that leaves the stores alone.
LEMMA LocalTellsStep ==
    ASSUME TypeOK, EInv, log' = log, stored' = stored, NEW p \in Procs,
           NEW place, NEW st, NEW c, NEW d, NEW b, NEW t,
           pc' = [pc EXCEPT ![p] = place], held' = [held EXCEPT ![p] = st], cmd' = [cmd EXCEPT ![p] = c],
           durable' = [durable EXCEPT ![p] = d], batch' = [batch EXCEPT ![p] = b],
           next' = [next EXCEPT ![p] = t],
           LocalTells(log, stored.session.handSequence, place, c, d, b, st.session, t)
    PROVE  EInv'
<1> DEFINE n == stored.session.handSequence
<1>1. ASSUME NEW q \in Procs
      PROVE  LocalTells(log', n', pc'[q], cmd'[q], durable'[q], batch'[q], held'[q].session, next'[q])
  <2>1. CASE q = p
    <3>1. pc'[q] = place /\ held'[q] = st /\ cmd'[q] = c /\ durable'[q] = d /\ batch'[q] = b /\ next'[q] = t
      BY <2>1 DEF TypeOK
    <3>2. QED
      BY <3>1
  <2>2. CASE q # p
    <3>1. /\ pc'[q] = pc[q] /\ held'[q] = held[q] /\ cmd'[q] = cmd[q] /\ durable'[q] = durable[q]
          /\ batch'[q] = batch[q] /\ next'[q] = next[q]
      BY <2>2 DEF TypeOK
    <3>2. LocalTells(log, n, pc[q], cmd[q], durable[q], batch[q], held[q].session, next[q])
      BY DEF EInv
    <3>3. QED
      BY <3>1, <3>2
  <2>3. QED
    BY <2>1, <2>2
<1>2. Tells(log', stored'.session) /\ LogTells(log', n')
  BY DEF EInv
<1>3. QED
  BY <1>1, <1>2 DEF EInv

LEMMA ResetTells ==
    ASSUME TypeOK, EInv, log' = log, stored' = stored, NEW p \in Procs,
           NEW place \in {"idle", "recover", "ready"}, NEW st, Reset(p, place, st),
           Tells(log, st.session), st.session.handSequence <= stored.session.handSequence
    PROVE  EInv'
  BY LocalTellsStep DEF Reset, LocalTells

LEMMA IdleTells ==
    ASSUME TypeOK, EInv, log' = log, stored' = stored, NEW p \in Procs, Idle(p)
    PROVE  EInv'
<1>1. Tells(log, NoStored.session) /\ NoStored.session.handSequence = 0
  BY TellsCreated DEF NoStored
<1>2. 0 <= stored.session.handSequence
  BY DEF TypeOK, StoredSession, Session
<1>3. QED
  BY <1>1, <1>2, ResetTells DEF Idle

LEMMA ToSaveTells ==
    ASSUME TypeOK, EInv, log' = log, stored' = stored, NEW p \in Procs, NEW c, NEW t, ToSave(p, c, t),
           Tells(log, t), held[p].session.handSequence <= t.handSequence, Follows(held[p].session, t)
    PROVE  EInv'
<1>1. held' = [held EXCEPT ![p] = held[p]]
  BY DEF ToSave, TypeOK
<1>2. Tells(log, held[p].session) /\ held[p].session.handSequence <= stored.session.handSequence
  BY DEF EInv, LocalTells
<1>3. LocalTells(log, stored.session.handSequence, "save", c, <<>>, <<>>, held[p].session, t)
  BY <1>2 DEF LocalTells
<1>4. QED
  BY <1>1, <1>3, LocalTellsStep DEF ToSave

LEMMA ToAppendTells ==
    ASSUME TypeOK, EInv, log' = log, stored' = stored, NEW p \in Procs, NEW c, NEW es, NEW b, NEW t,
           ToAppend(p, c, es, b, t),
           OwnsActive(held[p].session, c.hand), ~HasCompleted(es),
           Facts(es \o b) = OpeningFacts(held[p].session),
           t \in SuccessorForReplay(held[p].session, c.hand, es \o b)
    PROVE  EInv'
<1>1. held' = [held EXCEPT ![p] = held[p]]
  BY DEF ToAppend, TypeOK
<1>2. Tells(log, held[p].session) /\ held[p].session.handSequence <= stored.session.handSequence
  BY DEF EInv, LocalTells
<1>3. LocalTells(log, stored.session.handSequence, "append", c, es, b, held[p].session, t)
  BY <1>2 DEF LocalTells
<1>4. QED
  BY <1>1, <1>3, LocalTellsStep DEF ToAppend

(***************************************************************************)
(* The two stores.                                                         *)
(***************************************************************************)
LEMMA AppendTells ==
    ASSUME IInv, SInv, HInv, EInv, NEW p \in Procs, pc[p] = "append",
           Len(log[cmd[p].hand]) = cmd[p].expected, stored' = stored,
           log' = [log EXCEPT ![cmd[p].hand] = @ \o batch[p]],
           ToSave(p, cmd[p], next[p])
    PROVE  EInv'
<1> DEFINE h == cmd[p].hand
           s == log[h]
           E == s \o batch[p]
           mine == held[p].session
           n == stored.session.handSequence
<1>1. TypeOK /\ cmd[p] # NoCommand /\ Len(durable[p]) = cmd[p].expected /\ IsBeginning(durable[p], s)
  BY DEF IInv, PendingBatch
<1>2. h \in Hands
  BY <1>1 DEF TypeOK, OpenCommand, ActCommand
<1>3. durable[p] = s
  <2>1. durable[p] \in Seq(Event) /\ s \in Seq(Event)
    BY <1>1, <1>2 DEF TypeOK
  <2>2. Len(durable[p]) = Len(s) /\ \A i \in 1 .. Len(durable[p]) : s[i] = durable[p][i]
    BY <1>1 DEF IsBeginning
  <2>3. QED
    BY <2>1, <2>2, SeqEqual
<1>4. /\ Tells(log, mine) /\ mine.handSequence <= n /\ OwnsActive(mine, h) /\ ~HasCompleted(s)
      /\ Facts(E) = OpeningFacts(mine) /\ next[p] \in SuccessorForReplay(mine, h, E)
  BY <1>3 DEF EInv, LocalTells
<1>5. HandOK(E)
  BY <1>3 DEF HInv, AppendsOK
<1>6. log'[h] = E /\ \A k \in Hands : k # h => log'[k] = log[k]
  BY <1>1, <1>2 DEF TypeOK
<1>7. \A k \in Hands : HasCompleted(log[k]) => log'[k] = log[k]
  BY <1>4, <1>6
<1>8. /\ stored.session \in Session /\ Sound(stored.session) /\ n \in Nat
      /\ mine \in Session /\ Sound(mine)
  BY <1>1, EInvTyped
<1> HIDE DEF h, s, E, mine, n
<1>9. Tells(log', stored'.session)
  BY <1>7, TellsStays DEF EInv
<1>10. LogTells(log', n)
  <2>1. Facts(log'[h]) = OpeningFacts(mine) /\ ~HasCompleted(log[h])
    BY <1>4, <1>6 DEF s
  <2>2. Tells(log, stored.session) /\ LogTells(log, n)
    BY DEF EInv, n
  <2>3. QED
    BY <1>2, <1>4, <1>6, <1>8, <2>1, <2>2, LogTellsGrown DEF n
<1>11. ASSUME NEW q \in Procs
       PROVE  LocalTells(log', n, pc'[q], cmd'[q], durable'[q], batch'[q], held'[q].session, next'[q])
  <2>1. CASE q = p
    <3>1. /\ pc'[q] = "save" /\ held'[q] = held[p] /\ next'[q] = next[p]
      BY <1>1, <2>1 DEF TypeOK, ToSave
    <3>2. Tells(log', mine)
      BY <1>4, <1>7, TellsStays
    <3>3. E # <<>>
      BY <1>5 DEF HandOK, Replayable, ValidStream
    <3>4. Tells(log', next[p]) /\ mine.handSequence <= next[p].handSequence /\ Follows(mine, next[p])
      BY <1>4, <1>5, <1>6, <1>8, <3>2, <3>3, TellsSuccessor
    <3>5. QED
      BY <1>4, <3>1, <3>2, <3>4 DEF LocalTells, mine
  <2>2. CASE q # p
    <3>1. /\ pc'[q] = pc[q] /\ held'[q] = held[q] /\ cmd'[q] = cmd[q] /\ durable'[q] = durable[q]
          /\ batch'[q] = batch[q] /\ next'[q] = next[q]
      BY <1>1, <2>2 DEF TypeOK, ToSave
    <3>2. LocalTells(log, n, pc[q], cmd[q], durable[q], batch[q], held[q].session, next[q])
      BY DEF EInv, n
    <3>3. held[q].session \in Session /\ n <= n
      BY <1>1, <1>8, EInvTyped
    <3>4. LocalTells(log', n, pc[q], cmd[q], durable[q], batch[q], held[q].session, next[q])
      BY <1>7, <1>8, <3>2, <3>3, LocalStays
    <3>5. QED
      BY <3>1, <3>4
  <2>3. QED
    BY <2>1, <2>2
<1>12. n' = n
  BY DEF n
<1>13. QED
  BY <1>9, <1>10, <1>11, <1>12 DEF EInv, n

\* A save that passes the compare-and-set replaces the session it was made from.
LEMMA SavedTells ==
    ASSUME TypeOK, SInv, RInv, EInv, log' = log, NEW p \in Procs, pc[p] = "save",
           held[p].revision = stored.revision,
           stored' = [revision |-> stored.revision + 1, session |-> next[p]],
           Reset(p, "ready", [revision |-> stored.revision + 1, session |-> next[p]])
    PROVE  EInv'
<1> DEFINE n == stored.session.handSequence
           m == next[p].handSequence
<1>1. held[p].session = stored.session
  BY DEF RInv, RevisionPinsSession
<1>2. Tells(log, next[p]) /\ n <= m
  BY <1>1 DEF EInv, LocalTells
<1>3. n \in Nat /\ m \in Nat
  BY EInvTyped DEF Session
<1>4. stored'.session = next[p]
  OBVIOUS
<1> HIDE DEF n, m
<1>5. LogTells(log, m)
  <2>1. LogTells(log, n)
    BY DEF EInv, n
  <2>2. QED
    BY <1>2, <1>3, <2>1 DEF LogTells, Hands
<1>6. ASSUME NEW q \in Procs
      PROVE  LocalTells(log', m, pc'[q], cmd'[q], durable'[q], batch'[q], held'[q].session, next'[q])
  <2>1. CASE q = p
    <3>1. pc'[q] = "ready" /\ held'[q].session = next[p]
      BY <2>1 DEF TypeOK, Reset
    <3>2. QED
      BY <1>2, <1>3, <3>1 DEF LocalTells, m
  <2>2. CASE q # p
    <3>1. /\ pc'[q] = pc[q] /\ held'[q] = held[q] /\ cmd'[q] = cmd[q] /\ durable'[q] = durable[q]
          /\ batch'[q] = batch[q] /\ next'[q] = next[q]
      BY <2>2 DEF TypeOK, Reset
    <3>2. LocalTells(log, n, pc[q], cmd[q], durable[q], batch[q], held[q].session, next[q])
      BY DEF EInv, n
    <3>3. held[q].session \in Session
      BY EInvTyped
    <3>4. LocalTells(log, m, pc[q], cmd[q], durable[q], batch[q], held[q].session, next[q])
      BY <1>2, <1>3, <3>2, <3>3, LocalStays
    <3>5. QED
      BY <3>1, <3>4
  <2>3. QED
    BY <2>1, <2>2
<1>7. QED
  BY <1>2, <1>4, <1>5, <1>6 DEF EInv, m

LEMMA EInvStep ==
    ASSUME IInv, SInv, HInv, RInv, EInv, [Next]_vars
    PROVE  EInv'
<1>0. /\ TypeOK
      /\ \A p \in Procs : /\ held[p].session \in Session /\ Sound(held[p].session)
                          /\ Tells(log, held[p].session)
                          /\ held[p].session.handSequence <= stored.session.handSequence
      /\ Tells(log, stored.session) /\ stored.session.handSequence \in Nat
      /\ \A h \in Hands : log[h] \in Seq(Event) /\ (log[h] # <<>> => HandOK(log[h]))
  <2>1. TypeOK
    BY DEF IInv
  <2>2. stored.session.handSequence \in Nat /\ \A h \in Hands : log[h] \in Seq(Event)
    BY <2>1 DEF TypeOK, StoredSession, Session
  <2>3. ASSUME NEW p \in Procs
        PROVE  /\ held[p].session \in Session /\ Sound(held[p].session)
               /\ Tells(log, held[p].session)
               /\ held[p].session.handSequence <= stored.session.handSequence
    BY <2>1, EInvTyped DEF EInv, LocalTells
  <2>4. Tells(log, stored.session) /\ \A h \in Hands : log[h] # <<>> => HandOK(log[h])
    BY DEF EInv, HInv, LogsOK
  <2>5. QED
    BY <2>1, <2>2, <2>3, <2>4
<1>1. ASSUME NEW p \in Procs, log' = log, stored' = stored, Idle(p) PROVE EInv'
  BY <1>0, <1>1, IdleTells
<1>2. ASSUME NEW p \in Procs, log' = log, stored' = stored, NEW c, NEW h \in Hands, log[h] # <<>>,
             NEW t \in SuccessorForReplay(held[p].session, h, log[h]), ToSave(p, c, t)
      PROVE  EInv'
  <2>1. Tells(log, t) /\ held[p].session.handSequence <= t.handSequence /\ Follows(held[p].session, t)
    BY <1>0, <1>2, TellsSuccessor
  <2>2. QED
    BY <1>0, <1>2, <2>1, ToSaveTells
<1>3. ASSUME NEW p \in Procs, Load(p) PROVE EInv'
  <2>1. stored.session.handSequence <= stored.session.handSequence
    BY <1>0
  <2>2. QED
    BY <1>0, <1>3, <2>1, ResetTells DEF Load
<1>4. ASSUME NEW p \in Procs, Recover(p) PROVE EInv'
  <2> DEFINE se == held[p].session
             es == IF se.active = NoHand THEN <<>> ELSE log[se.active.hand]
  <2>1. log' = log /\ stored' = stored
    BY <1>4 DEF Recover
  <2>2. ASSUME es # <<>>, HasCompleted(es), NEW t \in CompletedBy(se, se.active.hand, EndingStacks(es)),
               ToSave(p, NoCommand, t)
        PROVE  EInv'
    <3>1. se.active # NoHand /\ es = log[se.active.hand]
      BY <2>2
    <3> HIDE DEF es
    <3>2. Tells(log, t) /\ se.handSequence <= t.handSequence /\ Follows(se, t)
      BY <1>0, <2>2, <3>1, TellsCompleted
    <3>3. QED
      BY <1>0, <2>1, <2>2, <3>2, ToSaveTells
  <2>3. CASE Reset(p, "ready", held[p])
    BY <1>0, <2>1, <2>3, ResetTells
  <2>4. QED
    BY <1>4, <2>2, <2>3 DEF Recover
<1>5. ASSUME NEW p \in Procs, StartNextHand(p) PROVE EInv'
  <2>1. PICK t \in StartedNext(held[p].session) : ToSave(p, NoCommand, t)
    BY <1>5 DEF StartNextHand
  <2>2. log' = log /\ stored' = stored /\ held[p].session.handSequence < MaxHands
    BY <1>5 DEF StartNextHand
  <2>3. Tells(log, t) /\ held[p].session.handSequence <= t.handSequence /\ Follows(held[p].session, t)
    BY <1>0, <2>1, <2>2, TellsStarted
  <2>4. QED
    BY <1>0, <2>1, <2>2, <2>3, ToSaveTells
<1>6. ASSUME NEW p \in Procs, NEW c \in Requests, c.kind = "open", OpenHand(p, c) PROVE EInv'
  <2> DEFINE se == held[p].session
             es == log[c.hand]
  <2>1. log' = log /\ stored' = stored /\ c \in OpenCommand /\ c.hand \in Hands
    BY <1>6 DEF OpenHand, OpenCommand, ActCommand
  <2>2. ASSUME OwnsActive(se, c.hand), es = <<>>, c.expected = 0,
               NEW order \in [1 .. Cardinality(se.active.seats) -> se.active.seats],
               \A i, j \in DOMAIN order : i < j => order[i] < order[j],
               ToAppend(p, c, es, EventsFor(c, OpeningPayloads(se, c.seed, order)), se)
        PROVE  EInv'
    <3>1. se \in Session /\ Sound(se) /\ se.active # NoHand
      BY <1>0, <2>2 DEF OwnsActive
    <3> DEFINE m == Cardinality(se.active.seats)
               b == EventsFor(c, OpeningPayloads(se, c.seed, order))
    <3>2. m \in Nat
      BY <3>1, ActiveSeatsFinite
    <3>3. \A i, j \in 1 .. m : i < j => order[i] < order[j]
      BY <2>2
    <3>4. HandOK(b) /\ Facts(b) = OpeningFacts(se) /\ ~HasCompleted(b)
      BY <2>1, <2>2, <3>1, <3>2, <3>3, OpeningIsOK
    <3>5. b \in Seq(Event)
      BY <2>1, <3>1, <3>2, OpeningPayloadsType, EventsForType DEF Command, OpenCommand
    <3> HIDE DEF b
    <3>6. es \o b = b
      BY <2>2, <3>5
    <3>7. se \in SuccessorForReplay(se, c.hand, es \o b)
      BY <3>4, <3>6, OverIsCompleted DEF SuccessorForReplay
    <3>8. ToAppend(p, c, es, b, se) /\ Facts(es \o b) = OpeningFacts(se) /\ ~HasCompleted(es)
      BY <2>2, <3>4, <3>6 DEF b, HasCompleted
    <3> HIDE DEF es
    <3>9. QED
      BY <1>0, <2>1, <2>2, <3>7, <3>8, ToAppendTells
  <2>3. CASE Idle(p)
    BY <1>1, <2>1, <2>3
  <2>4. CASE OpeningRepeated(se, es, c) /\ \E t \in SuccessorForReplay(se, c.hand, es) : ToSave(p, c, t)
    BY <1>2, <2>1, <2>4 DEF OpeningRepeated
  <2>5. QED
    BY <1>6, <2>2, <2>3, <2>4 DEF OpenHand
<1>7. ASSUME NEW p \in Procs, NEW c \in Requests, c.kind = "act", Execute(p, c) PROVE EInv'
  <2> DEFINE se == held[p].session
             es == log[c.hand]
             b == ActionBatch(es, c)
  <2>1. log' = log /\ stored' = stored /\ c \in ActCommand /\ c.hand \in Hands
    BY <1>7 DEF Execute, OpenCommand, ActCommand
  <2>2. ASSUME CanRead(se, c.hand, es), ActionAccepted(se, es, c), Replayable(es \o b),
               NEW t \in SuccessorForReplay(se, c.hand, es \o b), ToAppend(p, c, es, b, t)
        PROVE  EInv'
    <3>1. es # <<>> /\ HandOK(es) /\ ~HasCompleted(es) /\ se.active # NoHand
      BY <1>0, <2>1, <2>2 DEF CanRead, ActionAccepted
    <3>2. OwnsActive(se, c.hand)
      <4>1. c.hand \notin Range(se.completed)
        <5>1. ASSUME c.hand \in Range(se.completed) PROVE FALSE
          <6>1. c.hand \in 1 .. Len(se.completed)
            BY <1>0, <5>1, SessionCounts
          <6>2. HasCompleted(log[c.hand])
            BY <1>0, <6>1 DEF Tells
          <6>3. QED
            BY <3>1, <6>2
        <5>2. QED
          BY <5>1
      <4>2. QED
        BY <2>2, <4>1 DEF CanRead, OwnsHand
    <3>3. Facts(es) = OpeningFacts(se)
      BY <2>2, <3>1 DEF CanRead, OpeningFactsMatch
    <3>4. Facts(es \o b) = Facts(es)
      BY <1>0, <2>1, <2>2, <3>1, ActedIsOK DEF ActionAccepted
    <3> HIDE DEF es, b
    <3>5. QED
      BY <1>0, <2>1, <2>2, <3>1, <3>2, <3>3, <3>4, ToAppendTells
  <2>3. CASE Idle(p)
    BY <1>1, <2>1, <2>3
  <2>4. CASE CanRead(se, c.hand, es) /\ \E t \in SuccessorForReplay(se, c.hand, es) : ToSave(p, c, t)
    BY <1>2, <2>1, <2>4 DEF CanRead
  <2>5. QED
    BY <1>7, <2>2, <2>3, <2>4 DEF Execute
<1>8. ASSUME NEW p \in Procs, AppendBatch(p) PROVE EInv'
  <2>0. stored' = stored /\ pc[p] = "append"
    BY <1>8 DEF AppendBatch
  <2>1. CASE Idle(p) /\ UNCHANGED log
    BY <1>1, <2>0, <2>1
  <2>2. CASE /\ Len(log[cmd[p].hand]) = cmd[p].expected
             /\ log' = [log EXCEPT ![cmd[p].hand] = @ \o batch[p]]
             /\ ToSave(p, cmd[p], next[p])
    BY <2>0, <2>2, AppendTells
  <2>3. CASE /\ pc' = [pc EXCEPT ![p] = "reread"]
             /\ batch' = [batch EXCEPT ![p] = <<>>]
             /\ durable' = [durable EXCEPT ![p] = <<>>]
             /\ UNCHANGED <<log, held, cmd, next>>
    <3>1. /\ held' = [held EXCEPT ![p] = held[p]] /\ cmd' = [cmd EXCEPT ![p] = cmd[p]]
          /\ next' = [next EXCEPT ![p] = next[p]]
      BY <1>0, <2>3 DEF TypeOK
    <3>2. LocalTells(log, stored.session.handSequence, "reread", cmd[p], <<>>, <<>>, held[p].session, next[p])
      BY <1>0 DEF LocalTells
    <3>3. QED
      BY <1>0, <2>0, <2>3, <3>1, <3>2, LocalTellsStep
  <2>4. QED
    BY <1>8, <2>1, <2>2, <2>3 DEF AppendBatch
<1>9. ASSUME NEW p \in Procs, Reconcile(p) PROVE EInv'
  <2> DEFINE c == cmd[p]
             es == log[c.hand]
  <2>1. log' = log /\ stored' = stored /\ c.hand \in Hands
    BY <1>0, <1>9 DEF Reconcile, IInv, PendingBatch, TypeOK, OpenCommand, ActCommand
  <2>2. CASE Idle(p)
    BY <1>1, <2>1, <2>2
  <2>3. CASE Replayable(es) /\ \E t \in SuccessorForReplay(held[p].session, c.hand, es) : ToSave(p, c, t)
    <3>1. es # <<>>
      BY <2>3 DEF Replayable, ValidStream
    <3>2. QED
      BY <1>2, <2>1, <2>3, <3>1
  <2>4. QED
    BY <1>9, <2>2, <2>3 DEF Reconcile, AlreadyCommitted
<1>10. ASSUME NEW p \in Procs, Save(p) PROVE EInv'
  <2>0. log' = log /\ pc[p] = "save"
    BY <1>10 DEF Save
  <2>1. CASE stored' = stored /\ Reset(p, "ready", stored)
    <3>1. stored.session.handSequence <= stored.session.handSequence
      BY <1>0
    <3>2. QED
      BY <1>0, <2>0, <2>1, <3>1, ResetTells
  <2>2. CASE /\ held[p].revision = stored.revision
             /\ stored' = [revision |-> stored.revision + 1, session |-> next[p]]
             /\ Reset(p, "ready", [revision |-> stored.revision + 1, session |-> next[p]])
    BY <1>0, <2>0, <2>2, SavedTells
  <2>3. CASE Idle(p) /\ stored' = stored
    BY <1>1, <2>0, <2>3
  <2>4. QED
    BY <1>10, <2>1, <2>2, <2>3 DEF Save
<1>11. ASSUME NEW p \in Procs, Finish(p) \/ Crash(p) PROVE EInv'
  BY <1>1, <1>11 DEF Finish, Crash
<1>12. CASE UNCHANGED vars
  BY <1>12 DEF vars, procVars, EInv
<1>13. QED
  BY <1>3, <1>4, <1>5, <1>6, <1>7, <1>8, <1>9, <1>10, <1>11, <1>12 DEF Next, Step

LEMMA InitEInv == ASSUME 0 \notin SittingOut PROVE Init => EInv
<1> SUFFICES ASSUME Init PROVE EInv
  OBVIOUS
<1>1. Created(0) \in Session /\ Sound(Created(0)) /\ Tells(log, Created(0)) /\ Created(0).handSequence = 0
  BY FirstButton, CreatedType, CreatedSound, TellsCreated
<1>2. PICK s \in StartedNext(Created(0)) : stored = [revision |-> 1, session |-> s]
  BY DEF Init
<1>3. Tells(log, s) /\ Created(0).handSequence <= s.handSequence
  BY <1>1, <1>2, TellsStarted
<1>4. LogTells(log, s.handSequence)
  BY DEF LogTells, Init
<1>5. ASSUME NEW p \in Procs
      PROVE  LocalTells(log, s.handSequence, pc[p], cmd[p], durable[p], batch[p], held[p].session, next[p])
  <2>1. pc[p] = "idle" /\ held[p].session = Created(0)
    BY DEF Init, NoStored
  <2>2. QED
    BY <1>1, <1>3, <2>1 DEF LocalTells
<1>6. QED
  BY <1>2, <1>3, <1>4, <1>5 DEF EInv

LEMMA EInvAlways == ASSUME 0 \notin SittingOut PROVE Spec => [](IInv /\ SInv /\ HInv /\ RInv /\ EInv)
<1>1. Init => IInv /\ SInv /\ HInv /\ RInv /\ EInv
  <2>1. Init => HInv
    BY DEF Init, HInv, LogsOK, AppendsOK
  <2>2. QED
    BY <2>1, InitIInv, InitSInv, InitRInv, InitEInv
<1>2. IInv /\ SInv /\ HInv /\ RInv /\ EInv /\ [Next]_vars => (IInv /\ SInv /\ HInv /\ RInv /\ EInv)'
  BY IInvStep, SInvStep, HInvStep, RInvStep, EInvStep DEF IInv
<1>3. QED
  BY <1>1, <1>2, PTL DEF Spec

(***************************************************************************)
(* What the invariant gives.                                               *)
(***************************************************************************)
LEMMA ExplainedIs ==
    Explained <=>
      LET settled == Len(stored.session.completed)
      IN  /\ \A k \in 1 .. settled : log[k] # <<>> /\ HasCompleted(log[k])
          /\ stored.session = IF stored.session.active = NoHand THEN Told(log)[settled]
                              ELSE Pick(StartedNext(Told(log)[settled]))
          /\ LogTells(log, stored.session.handSequence)
<1> DEFINE The(S) == CHOOSE t \in S : TRUE
           after[k \in 0 .. MaxHands] ==
              IF k = 0 THEN Created(0)
              ELSE The(CompletedBy(The(StartedNext(after[k - 1])), k, EndingStacks(log[k])))
           settled == Len(stored.session.completed)
<1>1. after = Told(log)
  BY Zenon DEF Told, IsTold, Telling, Settling, Pick
<1>2. Explained <=>
        /\ \A k \in 1 .. settled : log[k] # <<>> /\ HasCompleted(log[k])
        /\ stored.session = IF stored.session.active = NoHand THEN after[settled]
                            ELSE The(StartedNext(after[settled]))
        /\ \A h \in Hands : log[h] # <<>> =>
              /\ h <= stored.session.handSequence
              /\ Facts(log[h]) = OpeningFacts(The(StartedNext(after[h - 1])))
  BY Zenon DEF Explained
<1>3. \A S : The(S) = Pick(S)
  BY DEF Pick
<1> HIDE DEF after, The
<1>4. QED
  BY <1>1, <1>2, <1>3, Zenon DEF LogTells

LEMMA EInvExplains == EInv => Explained
  BY ExplainedIs DEF EInv, Tells

\* The hand a session is playing can be read, and a session of its end exists.
LEMMA RetryAnswered == IInv /\ SInv /\ HInv /\ EInv => RetryOfCurrentIsAnswered
<1> SUFFICES ASSUME IInv, SInv, HInv, EInv, NEW p \in Procs, NEW h \in Hands,
                    log[h] # <<>>, OwnsHand(held[p].session, h),
                    OwnsActive(held[p].session, h) \/ held[p].session.active = NoHand
             PROVE  /\ CanRead(held[p].session, h, log[h])
                    /\ SuccessorForReplay(held[p].session, h, log[h]) # {}
  BY DEF RetryOfCurrentIsAnswered
<1> DEFINE se == held[p].session
           es == log[h]
<1>1. /\ TypeOK /\ se \in Session /\ Sound(se) /\ Tells(log, se) /\ RebuysPast(se)
      /\ es \in Seq(Event) /\ HandOK(es)
  BY EInvTyped DEF IInv, EInv, LocalTells, Tells, HInv, LogsOK
<1>2. SeedProvenance(es)
  BY <1>1 DEF HandOK
<1>3. CASE se.active = NoHand
  BY <1>2, <1>3 DEF CanRead, SuccessorForReplay
<1>4. CASE se.active # NoHand
  <2>1. OwnsActive(se, h) /\ se.active.hand = h
    BY <1>4 DEF OwnsActive
  <2>2. Len(se.completed) = h - 1 /\ h = se.handSequence
    BY <1>1, <1>4, <2>1, SessionCounts
  <2>3. se = Pick(StartedNext(Told(log)[h - 1]))
    BY <1>1, <1>4, <2>2 DEF Tells
  <2>4. Facts(es) = OpeningFacts(se)
    BY <2>3 DEF EInv, LogTells
  <2>5. IsKind(es[1], "hand_started")
    BY <1>2 DEF SeedProvenance
  <2>6. CanRead(se, h, es)
    BY <1>2, <2>4, <2>5 DEF CanRead, OpeningFactsMatch
  <2>7. CompletedBy(se, h, EndingStacks(es)) # {}
    BY <1>1, <1>4, <2>1, <2>4, SettlesInto
  <2>8. QED
    BY <2>6, <2>7 DEF SuccessorForReplay
<1>5. QED
  BY <1>3, <1>4

\* Whatever the callers did, the stored session is what the event logs say: the
\* completed hands settled one after the other, each opened with the facts that
\* predicts; it passes its validator, and the retry of a command of its hand can be
\* read and answered.
THEOREM SessionIsWhatTheLogsSay == ASSUME 0 \notin SittingOut PROVE Spec => []SessionsExplained
<1>1. IInv /\ SInv /\ HInv /\ EInv => SessionsExplained
  <2> SUFFICES ASSUME IInv, SInv, HInv, EInv PROVE SessionsExplained
    OBVIOUS
  <2>1. SessionsValid
    BY DEF SessionsValid, SInv, Sound
  <2>2. TypeOK
    BY DEF IInv
  <2>3. QED
    BY <2>1, <2>2, EInvExplains, RetryAnswered DEF SessionsExplained
<1>2. QED
  BY <1>1, EInvAlways, PTL

(***************************************************************************)
(* The refinement of HandLedger.  AcceptedUpTo(es)[i] are the acceptances  *)
(* of the first i events of a hand.                                        *)
(***************************************************************************)
AcceptanceOf(e) == [id |-> e.cause, expected |-> e.sequence - 1]
Accepting(es, g, i) ==
    IF i = 0 THEN <<>>
    ELSE IF es[i].offset = 1 THEN Append(g[i - 1], AcceptanceOf(es[i])) ELSE g[i - 1]
IsAccepting(es, n, g) == g = [i \in 0 .. n |-> Accepting(es, g, i)]
AcceptedUpTo(es) == CHOOSE g : IsAccepting(es, Len(es), g)

LEMMA AcceptingExists ==
    ASSUME NEW es, NEW n \in Nat
    PROVE  \E g : IsAccepting(es, n, g)
<1> DEFINE A == {k \in Nat : \E g : IsAccepting(es, k, g)}
<1>1. 0 \in A
  <2> DEFINE g == [k \in 0 .. 0 |-> <<>>]
  <2>1. \A k \in 0 .. 0 : Accepting(es, g, k) = <<>>
    BY DEF Accepting
  <2>2. g = [k \in 0 .. 0 |-> Accepting(es, g, k)]
    BY <2>1
  <2> HIDE DEF g
  <2>3. IsAccepting(es, 0, g)
    BY <2>2 DEF IsAccepting
  <2>4. QED
    BY <1>1, <2>3
<1>2. ASSUME NEW k \in Nat, k \in A PROVE k + 1 \in A
  <2>1. PICK g : IsAccepting(es, k, g)
    BY <1>2
  <2> DEFINE h == [i \in 0 .. k + 1 |-> IF i = k + 1 THEN Accepting(es, g, i) ELSE g[i]]
  <2>2. ASSUME NEW i \in 0 .. k + 1 PROVE h[i] = Accepting(es, g, i)
    <3>1. CASE i = k + 1
      BY <3>1
    <3>2. CASE i # k + 1
      <4>1. i \in 0 .. k /\ h[i] = g[i]
        BY <3>2
      <4>2. g[i] = Accepting(es, g, i)
        BY <2>1, <4>1 DEF IsAccepting
      <4>3. QED
        BY <4>1, <4>2
    <3>3. QED
      BY <3>1, <3>2
  <2>3. ASSUME NEW i \in 0 .. k + 1 PROVE Accepting(es, g, i) = Accepting(es, h, i)
    <3>1. CASE i = 0
      BY <3>1 DEF Accepting
    <3>2. CASE i # 0
      <4>1. i - 1 \in 0 .. k + 1 /\ i - 1 # k + 1
        BY <3>2
      <4>2. h[i - 1] = g[i - 1]
        BY <4>1
      <4> HIDE DEF h
      <4>3. QED
        BY <3>2, <4>2 DEF Accepting
    <3>3. QED
      BY <3>1, <3>2
  <2>4. h = [i \in 0 .. k + 1 |-> h[i]]
    OBVIOUS
  <2> HIDE DEF h
  <2>5. IsAccepting(es, k + 1, h)
    BY <2>2, <2>3, <2>4 DEF IsAccepting
  <2>6. QED
    BY <2>5
<1>3. n \in A
  <2> HIDE DEF A
  <2>1. Nat \subseteq A
    BY <1>1, <1>2, NumbersFrom
  <2>2. QED
    BY <2>1
<1>4. QED
  BY <1>3

LEMMA AcceptedFacts ==
    ASSUME NEW es, Len(es) \in Nat
    PROVE  /\ Accepted(es) = AcceptedUpTo(es)[Len(es)] /\ AcceptedUpTo(es)[0] = <<>>
           /\ \A k \in 0 .. Len(es) - 1 :
                 AcceptedUpTo(es)[k + 1] =
                    IF es[k + 1].offset = 1 THEN Append(AcceptedUpTo(es)[k], AcceptanceOf(es[k + 1]))
                    ELSE AcceptedUpTo(es)[k]
<1> DEFINE n == Len(es)
           g == AcceptedUpTo(es)
<1>1. IsAccepting(es, n, g)
  <2>1. \E f : IsAccepting(es, n, f)
    BY AcceptingExists
  <2>2. QED
    BY <2>1 DEF AcceptedUpTo
<1>2. Accepted(es) = AcceptedUpTo(es)[Len(es)]
  BY Zenon DEF Accepted, AcceptedUpTo, IsAccepting, Accepting, AcceptanceOf
<1> HIDE DEF n, g
<1>3. \A k \in 0 .. n : g[k] = Accepting(es, g, k)
  BY <1>1 DEF IsAccepting
<1>4. g[0] = <<>>
  <2>1. 0 \in 0 .. n
    BY DEF n
  <2>2. QED
    BY <1>3, <2>1 DEF Accepting
<1>5. ASSUME NEW k \in 0 .. n - 1
      PROVE  g[k + 1] = IF es[k + 1].offset = 1 THEN Append(g[k], AcceptanceOf(es[k + 1])) ELSE g[k]
  <2>1. k + 1 \in 0 .. n /\ k + 1 # 0 /\ (k + 1) - 1 = k
    BY DEF n
  <2>2. g[k + 1] = Accepting(es, g, k + 1)
    BY <1>3, <2>1
  <2>3. QED
    BY <2>1, <2>2 DEF Accepting
<1>6. QED
  BY <1>2, <1>4, <1>5 DEF n, g

\* A command in the ledger caused an event of the hand.
Caused(es, s) == \A i \in 1 .. Len(s) : \E j \in 1 .. Len(es) : s[i].id = es[j].cause
Acceptances == Seq([id : Ids, expected : Int])

LEMMA AcceptedType ==
    ASSUME NEW es \in Seq(Event)
    PROVE  Accepted(es) \in Acceptances /\ Caused(es, Accepted(es))
<1> DEFINE n == Len(es)
           g == AcceptedUpTo(es)
           A == {k \in Nat : k <= n => g[k] \in Acceptances /\ Caused(es, g[k])}
<1>1. n \in Nat
  OBVIOUS
<1>2. /\ Accepted(es) = g[n] /\ g[0] = <<>>
      /\ \A k \in 0 .. n - 1 :
            g[k + 1] = IF es[k + 1].offset = 1 THEN Append(g[k], AcceptanceOf(es[k + 1])) ELSE g[k]
  BY <1>1, AcceptedFacts
<1>3. \A k \in 1 .. n : es[k] \in Event
  OBVIOUS
<1> HIDE DEF n, g
<1>4. 0 \in A
  <2>1. <<>> \in Acceptances
    BY DEF Acceptances
  <2>2. Caused(es, <<>>)
    BY DEF Caused
  <2>3. QED
    BY <1>2, <2>1, <2>2
<1>5. ASSUME NEW k \in Nat, k \in A PROVE k + 1 \in A
  <2> SUFFICES ASSUME k + 1 <= n PROVE g[k + 1] \in Acceptances /\ Caused(es, g[k + 1])
    OBVIOUS
  <2>1. k \in 0 .. n - 1 /\ k <= n /\ k + 1 \in 1 .. n
    BY <1>1
  <2>2. g[k] \in Acceptances /\ Caused(es, g[k])
    BY <1>5, <2>1
  <2>3. CASE es[k + 1].offset # 1
    BY <1>2, <2>1, <2>2, <2>3
  <2>4. CASE es[k + 1].offset = 1
    <3> DEFINE a == AcceptanceOf(es[k + 1])
               s == g[k]
    <3>1. a \in [id : Ids, expected : Int] /\ a.id = es[k + 1].cause
      BY <1>3, <2>1 DEF AcceptanceOf, Event
    <3>2. g[k + 1] = Append(s, a)
      BY <1>2, <2>1, <2>4
    <3>3. s \in Acceptances /\ Caused(es, s)
      BY <2>2
    <3> HIDE DEF a, s
    <3>4. Append(s, a) \in Acceptances
      BY <3>1, <3>3 DEF Acceptances
    <3>5. Caused(es, Append(s, a))
      <4>1. /\ Len(s) \in Nat /\ Len(Append(s, a)) = Len(s) + 1
            /\ \A i \in 1 .. Len(s) : Append(s, a)[i] = s[i]
            /\ Append(s, a)[Len(s) + 1] = a
        BY <3>1, <3>3 DEF Acceptances
      <4>2. ASSUME NEW i \in 1 .. Len(Append(s, a))
            PROVE  \E j \in 1 .. Len(es) : Append(s, a)[i].id = es[j].cause
        <5>1. CASE i \in 1 .. Len(s)
          BY <3>3, <4>1, <5>1 DEF Caused
        <5>2. CASE i = Len(s) + 1
          BY <2>1, <3>1, <4>1, <5>2 DEF n
        <5>3. QED
          BY <4>1, <5>1, <5>2
      <4>3. QED
        BY <4>2 DEF Caused
    <3>6. QED
      BY <3>2, <3>4, <3>5
  <2>5. QED
    BY <2>3, <2>4
<1>6. Nat \subseteq A
  <2> HIDE DEF A
  <2>1. QED
    BY <1>4, <1>5, NumbersFrom
<1>7. QED
  BY <1>1, <1>2, <1>6

\* A batch is one acceptance.
LEMMA AcceptedBatch ==
    ASSUME NEW es \in Seq(Event), NEW b \in Seq(Event), Len(b) >= 1,
           \A j \in 1 .. Len(b) : b[j].offset = j
    PROVE  Accepted(es \o b) = Append(Accepted(es), AcceptanceOf(b[1]))
<1> DEFINE E == es \o b
           n == Len(es)
           m == Len(b)
           g == AcceptedUpTo(es)
           f == AcceptedUpTo(E)
           A == {k \in Nat : k <= n => f[k] = g[k]}
           B == {k \in Nat : k + 1 <= m => f[n + 1 + k] = Append(g[n], AcceptanceOf(b[1]))}
<1>1. /\ n \in Nat /\ m \in Nat /\ m >= 1 /\ Len(E) = n + m
      /\ \A i \in 1 .. n : E[i] = es[i]
  BY ConcatFacts
<1>2. ASSUME NEW j \in 1 .. m PROVE E[n + j] = b[j]
  BY ConcatFacts
<1>3. \A j \in 1 .. m : b[j].offset = j
  OBVIOUS
<1>4. /\ Accepted(es) = g[n] /\ g[0] = <<>>
      /\ \A k \in 0 .. n - 1 :
            g[k + 1] = IF es[k + 1].offset = 1 THEN Append(g[k], AcceptanceOf(es[k + 1])) ELSE g[k]
  BY <1>1, AcceptedFacts
<1>5. /\ Accepted(E) = f[n + m] /\ f[0] = <<>>
      /\ \A k \in 0 .. n + m - 1 :
            f[k + 1] = IF E[k + 1].offset = 1 THEN Append(f[k], AcceptanceOf(E[k + 1])) ELSE f[k]
  <2>1. Len(E) \in Nat /\ Len(E) = n + m
    BY <1>1
  <2> HIDE DEF E, n, m
  <2>2. /\ Accepted(E) = f[Len(E)] /\ f[0] = <<>>
        /\ \A k \in 0 .. Len(E) - 1 :
              f[k + 1] = IF E[k + 1].offset = 1 THEN Append(f[k], AcceptanceOf(E[k + 1])) ELSE f[k]
    BY <2>1, AcceptedFacts, Zenon
  <2> DEFINE L == Len(E)
             step(k) == f[k + 1] = IF E[k + 1].offset = 1
                                   THEN Append(f[k], AcceptanceOf(E[k + 1])) ELSE f[k]
  <2>3. L = n + m /\ Accepted(E) = f[L] /\ f[0] = <<>> /\ \A k \in 0 .. L - 1 : step(k)
    BY <2>1, <2>2, Zenon
  <2> HIDE DEF f, L, step
  <2>4. Accepted(E) = f[n + m] /\ f[0] = <<>> /\ \A k \in 0 .. n + m - 1 : step(k)
    BY <1>1, <2>3
  <2>5. QED
    BY <2>4, Zenon DEF step
<1> HIDE DEF E, n, m, g, f
<1>6. f[n] = g[n]
  <2>1. 0 \in A
    BY <1>4, <1>5
  <2>2. ASSUME NEW k \in Nat, k \in A PROVE k + 1 \in A
    <3> SUFFICES ASSUME k + 1 <= n PROVE f[k + 1] = g[k + 1]
      OBVIOUS
    <3>1. k \in 0 .. n - 1 /\ k \in 0 .. n + m - 1 /\ k <= n /\ k + 1 \in 1 .. n
      BY <1>1
    <3>2. f[k] = g[k] /\ E[k + 1] = es[k + 1]
      BY <1>1, <2>2, <3>1
    <3>3. QED
      BY <1>4, <1>5, <3>1, <3>2
  <2>3. n \in A
    <3> HIDE DEF A
    <3>1. QED
      BY <1>1, <2>1, <2>2, NumbersFrom
  <2>4. QED
    BY <1>1, <2>3
<1>7. f[n + 1] = Append(g[n], AcceptanceOf(b[1]))
  <2>1. n \in 0 .. n + m - 1 /\ 1 \in 1 .. m
    BY <1>1
  <2>2. E[n + 1] = b[1] /\ b[1].offset = 1
    BY <1>2, <1>3, <2>1
  <2>3. QED
    BY <1>5, <1>6, <2>1, <2>2
<1>8. f[n + m] = Append(g[n], AcceptanceOf(b[1]))
  <2>1. 0 \in B
    BY <1>1, <1>7
  <2>2. ASSUME NEW k \in Nat, k \in B PROVE k + 1 \in B
    <3> SUFFICES ASSUME (k + 1) + 1 <= m PROVE f[n + 1 + (k + 1)] = Append(g[n], AcceptanceOf(b[1]))
      OBVIOUS
    <3>1. /\ n + 1 + k \in 0 .. n + m - 1 /\ k + 1 <= m /\ k + 2 \in 1 .. m /\ k + 2 # 1
          /\ n + 1 + (k + 1) = (n + 1 + k) + 1 /\ (n + 1 + k) + 1 = n + (k + 2)
      BY <1>1
    <3>2. f[n + 1 + k] = Append(g[n], AcceptanceOf(b[1]))
      BY <2>2, <3>1
    <3>3. E[n + (k + 2)] = b[k + 2] /\ b[k + 2].offset # 1
      BY <1>2, <1>3, <3>1
    <3>4. f[(n + 1 + k) + 1] = f[n + 1 + k]
      BY <1>5, <3>1, <3>3
    <3>5. QED
      BY <3>1, <3>2, <3>4
  <2>3. m - 1 \in B
    <3> HIDE DEF B
    <3>1. m - 1 \in Nat
      BY <1>1
    <3>2. QED
      BY <2>1, <2>2, <3>1, NumbersFrom
  <2>4. n + 1 + (m - 1) = n + m /\ (m - 1) + 1 <= m
    BY <1>1
  <2>5. QED
    BY <2>3, <2>4
<1>9. QED
  BY <1>4, <1>5, <1>8 DEF E

(***************************************************************************)
(* The two steps that move the ledger, and the others that leave it alone. *)
(***************************************************************************)
\* A session that gives way to another begins its next hand or settles its own.
LEMMA LedgerSaves ==
    ASSUME TypeOK, SInv, RInv, EInv, log' = log, NEW p \in Procs, pc[p] = "save",
           held[p].revision = stored.revision, next[p] # stored.session,
           stored'.session = next[p]
    PROVE  Ledger!Settle \/ Ledger!Begin
<1> DEFINE se == stored.session
           t == next[p]
           c == se.handSequence
           n == Len(se.completed)
           d == t.handSequence
           m == Len(t.completed)
<1>1. held[p].session = se
  BY DEF RInv, RevisionPinsSession
<1>2. Tells(log, t) /\ Follows(se, t)
  BY <1>1 DEF EInv, LocalTells
<1>3. se \in Session /\ Sound(se) /\ t \in Session /\ Sound(t)
  BY EInvTyped
<1>4. /\ c \in Nat /\ n \in Nat
      /\ se.active = NoHand => c = n
      /\ se.active # NoHand => c = n + 1
  BY <1>3, SessionCounts
<1>5. /\ m \in 0 .. MaxHands /\ \A k \in 1 .. m : HasCompleted(log[k])
      /\ t.active # NoHand => m < MaxHands
  BY <1>2 DEF Tells
<1>6. \/ se.active = NoHand /\ t.active # NoHand /\ d = c + 1 /\ m = n
      \/ se.active # NoHand /\ t.active = NoHand /\ d = c /\ m = n + 1
  BY <1>2 DEF Follows
<1>7. stored'.session.handSequence = d /\ Len(stored'.session.completed) = m
  OBVIOUS
<1> HIDE DEF se, t, c, n, d, m
<1>8. UNCHANGED <<[h \in Hands |-> Accepted(log[h])], [h \in Hands |-> Len(log[h])],
                  [h \in Hands |-> HasCompleted(log[h])]>>
  OBVIOUS
<1>9. CASE se.active = NoHand
  <2>1. n = c /\ c < MaxHands /\ d = c + 1 /\ m = n
    BY <1>4, <1>5, <1>6, <1>9
  <2>2. QED
    BY <1>7, <1>8, <2>1 DEF Ledger!Begin, se, c, n
<1>10. CASE se.active # NoHand
  <2>1. n < c /\ c \in 1 .. m /\ d = c /\ m = n + 1 /\ c \in Hands
    BY <1>4, <1>5, <1>6, <1>10 DEF Hands
  <2>2. [h \in Hands |-> HasCompleted(log[h])][c]
    BY <1>5, <2>1
  <2>3. QED
    BY <1>7, <1>8, <2>1, <2>2 DEF Ledger!Settle, se, c, n
<1>11. QED
  BY <1>9, <1>10

\* An append that finds the head it expects is an acceptance of its command.
LEMMA LedgerAppends ==
    ASSUME IInv, SInv, EInv, NEW p \in Procs, pc[p] = "append",
           Len(log[cmd[p].hand]) = cmd[p].expected, stored' = stored,
           log' = [log EXCEPT ![cmd[p].hand] = @ \o batch[p]]
    PROVE  \E id \in Ids : Ledger!Accept(id)
<1> DEFINE h == cmd[p].hand
           id == cmd[p].id
           s == log[h]
           b == batch[p]
           mine == held[p].session
           c == stored.session.handSequence
           n == Len(stored.session.completed)
<1>1. TypeOK /\ cmd[p] # NoCommand /\ Len(durable[p]) = cmd[p].expected /\ IsBeginning(durable[p], s)
      /\ CausedBy(durable[p], id) = {} /\ IsBatchOf(b, cmd[p])
  BY DEF IInv, PendingBatch
<1>2. h \in Hands /\ id \in Ids
  BY <1>1 DEF TypeOK, OpenCommand, ActCommand
<1>3. durable[p] \in Seq(Event) /\ s \in Seq(Event) /\ b \in Seq(Event)
  BY <1>1, <1>2 DEF TypeOK
<1>4. durable[p] = s
  <2>1. Len(durable[p]) = Len(s) /\ \A i \in 1 .. Len(durable[p]) : s[i] = durable[p][i]
    BY <1>1 DEF IsBeginning
  <2>2. QED
    BY <1>3, <2>1, SeqEqual
<1>5. Tells(log, mine) /\ mine.handSequence <= c /\ OwnsActive(mine, h) /\ ~HasCompleted(s)
  BY <1>4 DEF EInv, LocalTells
<1>6. /\ stored.session \in Session /\ Sound(stored.session) /\ mine \in Session /\ Sound(mine)
  BY <1>1, EInvTyped
<1>7. c \in Nat /\ n \in Nat /\ (c = n \/ c = n + 1)
  BY <1>6, SessionCounts
<1>8. h <= c
  BY <1>5, <1>6, SessionCounts DEF OwnsActive
<1>9. ~(h \in 1 .. n)
  <2>1. \A k \in 1 .. n : HasCompleted(log[k])
    BY DEF EInv, Tells
  <2>2. QED
    BY <1>5, <2>1
<1>10. log'[h] = s \o b /\ \A k \in Hands : k # h => log'[k] = log[k]
  BY <1>1, <1>2 DEF TypeOK
<1>11. /\ Len(b) >= 1 /\ b[1].cause = id /\ b[1].sequence = Len(s) + 1
       /\ \A j \in 1 .. Len(b) : b[j].offset = j
  <2>1. \A j \in 1 .. Len(b) : b[j].sequence = Len(s) + j /\ b[j].cause = id /\ b[j].offset = j
    BY <1>1 DEF IsBatchOf
  <2>2. Len(b) >= 1 /\ Len(b) \in Nat
    BY <1>1, <1>3 DEF IsBatchOf
  <2>3. 1 \in 1 .. Len(b)
    BY <2>2
  <2>4. QED
    BY <2>1, <2>2, <2>3
<1>12. Len(s) \in Nat /\ Len(s \o b) > Len(s)
  <2> HIDE DEF s, b
  <2>1. Len(b) \in Nat /\ Len(s) \in Nat /\ Len(s \o b) = Len(s) + Len(b)
    BY <1>3, ConcatFacts
  <2>2. QED
    BY <1>11, <2>1
<1>13. Accepted(s \o b) = Append(Accepted(s), [id |-> id, expected |-> Len(s)])
  <2>1. Accepted(s \o b) = Append(Accepted(s), AcceptanceOf(b[1]))
    BY <1>3, <1>11, AcceptedBatch
  <2>2. AcceptanceOf(b[1]) = [id |-> id, expected |-> Len(s)]
    <3>1. (Len(s) + 1) - 1 = Len(s)
      BY <1>12
    <3>2. QED
      BY <1>11, <3>1 DEF AcceptanceOf
  <2>3. QED
    BY <2>1, <2>2
<1>14. \A i \in 1 .. Len(Accepted(s)) : Accepted(s)[i].id # id
  <2>1. \A j \in 1 .. Len(s) : s[j].cause # id
    BY <1>1, <1>4 DEF CausedBy
  <2>2. Caused(s, Accepted(s))
    BY <1>3, AcceptedType
  <2> DEFINE t == Accepted(s)
  <2> HIDE DEF t, s
  <2>3. \A i \in 1 .. Len(t) : \E j \in 1 .. Len(s) : t[i].id = s[j].cause
    BY <2>2 DEF Caused, t
  <2>4. \A i \in 1 .. Len(t) : t[i].id # id
    BY <2>1, <2>3
  <2>5. QED
    BY <2>4 DEF t
<1> HIDE DEF h, id, s, b, mine, c, n
<1>15. c = h /\ n < c
  BY <1>2, <1>7, <1>8, <1>9 DEF Hands
<1> DEFINE acc == [k \in Hands |-> Accepted(log[k])]
           acc2 == [k \in Hands |-> Accepted(log'[k])]
           hd == [k \in Hands |-> Len(log[k])]
           hd2 == [k \in Hands |-> Len(log'[k])]
           cl == [k \in Hands |-> HasCompleted(log[k])]
           cl2 == [k \in Hands |-> HasCompleted(log'[k])]
<1>16. acc2 = [acc EXCEPT ![c] = Append(@, [id |-> id, expected |-> hd[c]])]
  <2>1. acc[h] = Accepted(s) /\ hd[h] = Len(s)
    BY <1>2 DEF s
  <2>2. ASSUME NEW k \in Hands
        PROVE  Accepted(log'[k]) = IF k = h THEN Append(Accepted(s), [id |-> id, expected |-> Len(s)])
                                   ELSE acc[k]
    <3>1. CASE k = h
      BY <1>10, <1>13, <3>1
    <3>2. CASE k # h
      BY <1>10, <3>2
    <3>3. QED
      BY <3>1, <3>2
  <2> HIDE DEF hd
  <2>3. acc2 = [acc EXCEPT ![h] = Append(Accepted(s), [id |-> id, expected |-> Len(s)])]
    BY <1>2, <2>2
  <2>4. QED
    BY <1>15, <2>1, <2>3
<1>17. hd2[c] > hd[c] /\ hd2 = [hd EXCEPT ![c] = hd2[c]]
  <2>1. hd[h] = Len(s) /\ hd2[h] = Len(s \o b)
    BY <1>2, <1>10 DEF s
  <2>2. hd2 = [hd EXCEPT ![h] = hd2[h]]
    <3>1. \A k \in Hands : k # h => Len(log'[k]) = Len(log[k])
      BY <1>10
    <3>2. \A k \in Hands : k # h => hd2[k] = hd[k]
      BY <3>1
    <3>3. hd2 = [k \in Hands |-> hd2[k]] /\ hd = [k \in Hands |-> hd[k]]
      OBVIOUS
    <3> HIDE DEF hd, hd2
    <3>4. QED
      BY <1>2, <3>2, <3>3
  <2>3. QED
    BY <1>12, <1>15, <2>1, <2>2
<1>18. ~cl[c] /\ cl2 = [cl EXCEPT ![c] = cl2[c]] /\ cl2[c] \in BOOLEAN
  <2>1. cl[h] = HasCompleted(s) /\ cl2[h] = HasCompleted(log'[h])
    BY <1>2 DEF s
  <2>2. cl2 = [cl EXCEPT ![h] = cl2[h]]
    <3>1. \A k \in Hands : k # h => HasCompleted(log'[k]) = HasCompleted(log[k])
      BY <1>10
    <3>2. \A k \in Hands : k # h => cl2[k] = cl[k]
      BY <3>1
    <3>3. cl2 = [k \in Hands |-> cl2[k]] /\ cl = [k \in Hands |-> cl[k]]
      OBVIOUS
    <3> HIDE DEF cl, cl2
    <3>4. QED
      BY <1>2, <3>2, <3>3
  <2>3. cl2[h] \in BOOLEAN
    BY <2>1 DEF HasCompleted
  <2>4. QED
    BY <1>5, <1>15, <2>1, <2>2, <2>3
<1>19. \A i \in 1 .. Len(acc[c]) : acc[c][i].id # id
  <2>1. acc[h] = Accepted(s)
    BY <1>2 DEF s
  <2> HIDE DEF acc
  <2>2. QED
    BY <1>14, <1>15, <2>1
<1>20. stored.session.handSequence = c /\ Len(stored.session.completed) = n
  BY DEF c, n
<1>21. /\ n < stored.session.handSequence /\ ~cl[stored.session.handSequence]
       /\ \A i \in 1 .. Len(acc[stored.session.handSequence]) : acc[stored.session.handSequence][i].id # id
       /\ acc2 = [acc EXCEPT ![stored.session.handSequence] =
                     Append(@, [id |-> id, expected |-> hd[stored.session.handSequence]])]
       /\ hd2[stored.session.handSequence] > hd[stored.session.handSequence]
       /\ hd2 = [hd EXCEPT ![stored.session.handSequence] = hd2[stored.session.handSequence]]
       /\ \E closes \in BOOLEAN : cl2 = [cl EXCEPT ![stored.session.handSequence] = closes]
  <2> HIDE DEF acc, acc2, hd, hd2, cl, cl2
  <2>1. QED
    BY <1>15, <1>16, <1>17, <1>18, <1>19, <1>20, Zenon
<1>22. ASSUME NEW i \in Ids, i = id PROVE Ledger!Accept(i)
  BY <1>20, <1>21, <1>22, Zenon DEF Ledger!Accept, acc, acc2, hd, hd2, cl, cl2, n
<1>23. QED
  BY <1>2, <1>22

LEMMA LedgerInit == Init => Ledger!Init
<1> SUFFICES ASSUME Init PROVE Ledger!Init
  OBVIOUS
<1>1. \A h \in Hands : log[h] = <<>> /\ Len(log[h]) = 0 /\ ~HasCompleted(log[h])
  BY DEF Init, HasCompleted
<1>2. \A h \in Hands : Accepted(log[h]) = <<>>
  <2>1. Len(<<>>) = 0 /\ Accepted(<<>>) = <<>>
    BY AcceptedFacts
  <2>2. QED
    BY <1>1, <2>1
<1>3. PICK t \in StartedNext(Created(0)) : stored = [revision |-> 1, session |-> t]
  BY DEF Init
<1>4. stored.session.handSequence = 1 /\ stored.session.completed = <<>>
  BY <1>3 DEF StartedNext, Created
<1>5. Len(stored.session.completed) = 0
  BY <1>4
<1>6. /\ [h \in Hands |-> Accepted(log[h])] = [h \in 1 .. MaxHands |-> <<>>]
      /\ [h \in Hands |-> Len(log[h])] = [h \in 1 .. MaxHands |-> 0]
      /\ [h \in Hands |-> HasCompleted(log[h])] = [h \in 1 .. MaxHands |-> FALSE]
  <2>1. [h \in Hands |-> Accepted(log[h])] = [h \in 1 .. MaxHands |-> <<>>]
    BY <1>2 DEF Hands
  <2>2. [h \in Hands |-> Len(log[h])] = [h \in 1 .. MaxHands |-> 0]
    BY <1>1 DEF Hands
  <2>3. \A h \in Hands : HasCompleted(log[h]) = FALSE
    BY <1>1
  <2>4. [h \in Hands |-> HasCompleted(log[h])] = [h \in 1 .. MaxHands |-> FALSE]
    BY <2>3, Zenon DEF Hands
  <2>5. QED
    BY <2>1, <2>2, <2>4
<1>7. QED
  BY <1>4, <1>5, <1>6, Zenon DEF Ledger!Init

\* A step of the callers is one of the ledger or leaves it alone.
LEMMA LedgerStep ==
    ASSUME IInv, SInv, HInv, RInv, EInv, [Next]_vars
    PROVE  [Ledger!Next]_Ledger!ledger
<1>1. CASE UNCHANGED <<log, stored>>
  BY <1>1 DEF Ledger!ledger
<1>2. ASSUME NEW p \in Procs, AppendBatch(p) PROVE [Ledger!Next]_Ledger!ledger
  <2>1. CASE UNCHANGED log
    BY <1>1, <1>2, <2>1 DEF AppendBatch
  <2>2. CASE ~UNCHANGED log
    <3>1. /\ pc[p] = "append" /\ Len(log[cmd[p].hand]) = cmd[p].expected /\ stored' = stored
          /\ log' = [log EXCEPT ![cmd[p].hand] = @ \o batch[p]]
      BY <1>2, <2>2 DEF AppendBatch
    <3>2. \E id \in Ids : Ledger!Accept(id)
      BY <3>1, LedgerAppends, Zenon
    <3>3. QED
      BY <3>2 DEF Ledger!Next
  <2>3. QED
    BY <2>1, <2>2
<1>3. ASSUME NEW p \in Procs, Save(p) PROVE [Ledger!Next]_Ledger!ledger
  <2>1. CASE UNCHANGED stored
    BY <1>1, <1>3, <2>1 DEF Save
  <2>2. CASE ~UNCHANGED stored
    <3>1. /\ pc[p] = "save" /\ held[p].revision = stored.revision /\ next[p] # stored.session
          /\ stored'.session = next[p] /\ log' = log /\ TypeOK
      BY <1>3, <2>2 DEF Save, IInv
    <3>2. QED
      BY <3>1, LedgerSaves DEF Ledger!Next
  <2>3. QED
    BY <2>1, <2>2
<1>4. CASE /\ [Next]_vars /\ \A p \in Procs : ~AppendBatch(p) /\ ~Save(p)
  <2>1. UNCHANGED <<log, stored>>
    BY <1>4 DEF Next, Step, Load, Recover, StartNextHand, OpenHand, Execute, Reconcile, Finish, Crash,
                vars, procVars
  <2>2. QED
    BY <1>1, <2>1
<1>5. QED
  BY <1>2, <1>3, <1>4

\* However the callers' store transactions interleave, fail and repeat, the two
\* stores play the hand ledger: a command is accepted in one step, at the head it
\* expected, once per hand and before the hand is closed; a hand is settled once,
\* after it closed and before the next begins.
THEOREM StoresImplementLedger == ASSUME 0 \notin SittingOut PROVE Spec => ImplementsLedger
<1>1. IInv /\ SInv /\ HInv /\ RInv /\ EInv /\ [Next]_vars => [Ledger!Next]_Ledger!ledger
  BY LedgerStep
<1>2. QED
  BY <1>1, LedgerInit, EInvAlways, PTL DEF Spec, ImplementsLedger, Ledger!Spec

=============================================================================
