----------------------- MODULE ContinuousTableProofs -----------------------
(***************************************************************************)
(* Proofs about ContinuousTable for any number of workers, requests, hands *)
(* and deaths, about TableReads for any hands and menus, and about         *)
(* BotRuntime for any menus and situations.  The row only moves to later   *)
(* revisions and the logs only grow, so what a worker read stays true of   *)
(* what was there when it read, and each place of a request says what it   *)
(* may still rely on.                                                      *)
(***************************************************************************)
EXTENDS ContinuousTable, TableReads, BotRuntime, FiniteSetTheorems, SequenceTheorems, TLAPS

Places == {"idle", "load", "create", "insert", "recover", "project", "turn", "execute", "save",
           "start", "record", "open", "opened", "advance", "settle", "review", "bot",
           "decision", "played", "answer", "answered"}
\* where a request has been recorded, and where a worker holds a stored session
AfterRecord == {"open", "opened", "advance", "settle", "review", "bot", "decision", "played",
                "answer", "answered"}
WithoutSession == {"idle", "load", "create", "recover", "answer"}
Opens(q) == q.kind \in {"create", "next"}

Shapes ==
    /\ row \in Session /\ row.hand \in 0 .. MaxHands /\ meta \in BOOLEAN
    /\ logs \in [0 .. MaxHands -> Seq(Batch)]
    /\ sent \subseteq Request /\ commands \subseteq sent /\ answered \subseteq commands
    /\ decisions \subseteq (0 .. MaxHands) \X (Nat \ {0})
    /\ pc \in [Workers -> Places] /\ req \in [Workers -> Request]
    /\ held \in [Workers -> Session] /\ seen \in [Workers -> Nat]

RowKept == IF row.rev = 0 THEN row = NoSession ELSE row.hand \in Hands

\* A client asks for the next hand at a revision at which there is one.
SentInTime(q) ==
    /\ q.kind # "bot" /\ q.id \in Ids
    /\ q.kind = "hero" => q.hand \in 0 .. MaxHands
    /\ q.kind = "next" => /\ q.rev < (row.rev + 1) * SequenceRange
                          /\ q.rev >= row.rev * SequenceRange => row.hand < MaxHands

\* The log of a hand: bounded, each cause once, a hero's action in its own hand.
LogKept(h, es) ==
    /\ Len(es) <= MaxBatches /\ (~Over(es) => Len(es) < MaxBatches)
    /\ \A i, j \in 1 .. Len(es) : Cause(es[i].by) = Cause(es[j].by) => i = j
    /\ \A i \in 1 .. Len(es) : /\ es[i].by.kind # "bot" => es[i].by \in sent
                               /\ es[i].by.kind = "hero" => es[i].by.hand = h

\* Who opens a hand was recorded before, by one worker, which no longer is to open it.
OpenedOnce ==
    /\ \A h \in 0 .. MaxHands : \A i \in 1 .. Len(logs[h]) :
          Opens(logs[h][i].by) => /\ logs[h][i].by \in commands
                                  /\ \A w \in Workers : pc[w] = "open" => req[w] # logs[h][i].by
    /\ \A h, k \in 0 .. MaxHands : \A i \in 1 .. Len(logs[h]), j \in 1 .. Len(logs[k]) :
          Opens(logs[h][i].by) /\ logs[h][i].by = logs[k][j].by => h = k
OneOpens == \A v, w \in Workers : pc[v] = "open" /\ pc[w] = "open" /\ req[v] = req[w] => v = w

InLog(q) == CausedAt(logs[q.hand], q) # {}
CommandsKept == /\ ~meta => commands = {}
                /\ \A q \in commands : q.kind = "hero" => InLog(q)

\* What a worker at a place holds is a session of the row's past or present.
HeldFits(place, se) ==
    /\ place # "create" => se.hand <= row.hand
    /\ se.rev <= row.rev /\ (se.rev > 0 => se.hand \in Hands)
    /\ se.rev > 0 /\ se.rev = row.rev => se.hand = row.hand
    /\ se.rev > 0 /\ ~se.active => Over(logs[se.hand])
    /\ place \notin WithoutSession => se.rev > 0
    /\ place = "create" => se = [rev |-> 0, hand |-> 1, active |-> TRUE]

RequestFits(place, q) ==
    /\ place # "idle" => q \in sent
    /\ place \in {"load", "create", "insert"} => q.kind = "create"
    /\ place \in {"recover", "project"} => q.kind # "create"
    /\ place = "start" => q.kind = "next"
    /\ place = "open" => Opens(q)
    /\ place \in {"turn", "execute", "save"} => q.kind = "hero"
    /\ place \in AfterRecord => q \in commands

PlaceFits(place, q, se, n) ==
    /\ place \in {"turn", "execute", "save", "start", "record"} => meta
    /\ place \in {"turn", "execute"} => se.hand = q.hand
    /\ place \in {"save", "record"} /\ q.kind = "hero" => InLog(q)
    /\ place = "start" => /\ ~se.active
                          /\ se.rev = row.rev => row.hand < MaxHands
    /\ place = "settle" => Over(logs[se.hand])
    /\ place = "decision" => /\ n + 1 <= Len(logs[se.hand])
                             /\ logs[se.hand][n + 1].by.kind = "bot"

Fits(place, q, se, n) ==
    HeldFits(place, se) /\ RequestFits(place, q) /\ PlaceFits(place, q, se, n)
WorkerFits(w) == Fits(pc[w], req[w], held[w], seen[w])
WorkersFit == \A w \in Workers : WorkerFits(w)

IInv ==
    /\ Shapes /\ RowKept /\ (\A q \in sent : SentInTime(q))
    /\ (\A h \in 0 .. MaxHands : LogKept(h, logs[h]))
    /\ HandsInTurn /\ OpenedOnce /\ OneOpens /\ CommandsKept /\ DecisionsExplainActions
    /\ WorkersFit

-----------------------------------------------------------------------------
(***************************************************************************)
(* What a step leaves alone.  A step moves one worker; rows are replaced   *)
(* by later ones, logs that are not over may grow.                         *)
(***************************************************************************)
Alone(w) == \A v \in Workers \ {w} : /\ pc'[v] = pc[v] /\ req'[v] = req[v]
                                     /\ held'[v] = held[v] /\ seen'[v] = seen[v]

LogsGrow == \A h \in 0 .. MaxHands :
    \/ logs'[h] = logs[h]
    \/ ~Over(logs[h]) /\ \E b \in Batch : logs'[h] = Append(logs[h], b)
RowMoves == row' = row \/ (row'.rev = row.rev + 1 /\ row'.hand >= row.hand)
Onward == /\ RowMoves /\ LogsGrow /\ (meta => meta')
          /\ commands \subseteq commands' /\ sent \subseteq sent'

LEMMA SessionParts ==
  ASSUME NEW se \in Session
  PROVE  se.rev \in Nat /\ se.hand \in Nat /\ se.active \in BOOLEAN
         /\ se = [rev |-> se.rev, hand |-> se.hand, active |-> se.active]
BY DEF Session

LEMMA LogsStay ==
  ASSUME Shapes, LogsGrow, NEW h \in 0 .. MaxHands
  PROVE  /\ Over(logs[h]) => logs'[h] = logs[h]
         /\ Len(logs[h]) <= Len(logs'[h])
         /\ \A i \in 1 .. Len(logs[h]) : logs'[h][i] = logs[h][i]
<1> logs[h] \in Seq(Batch)
  BY DEF Shapes
<1> QED
  BY DEF LogsGrow

LEMMA InLogStays ==
  ASSUME Shapes, LogsGrow, NEW q, q.hand \in 0 .. MaxHands, InLog(q)
  PROVE  CausedAt(logs'[q.hand], q) # {}
<1>1. PICK i \in 1 .. Len(logs[q.hand]) : Cause(logs[q.hand][i].by) = Cause(q)
  BY DEF InLog, CausedAt
<1>2. /\ Len(logs[q.hand]) <= Len(logs'[q.hand]) /\ logs'[q.hand][i] = logs[q.hand][i]
      /\ Len(logs[q.hand]) \in Nat
  BY LogsStay DEF Shapes
<1>3. Len(logs'[q.hand]) \in Nat
  BY DEF Shapes, LogsGrow
<1>4. i \in CausedAt(logs'[q.hand], q)
  BY <1>1, <1>2, <1>3 DEF CausedAt
<1> QED
  BY <1>4

\* Where a worker is and what it holds still fits once others have moved on.
LEMMA FitsOn ==
  ASSUME TableAssumption, Shapes, Shapes', Onward, \A q \in sent : SentInTime(q),
         NEW place \in Places, NEW q \in Request, NEW se \in Session, NEW n \in Nat,
         Fits(place, q, se, n)
  PROVE  Fits(place, q, se, n)'
<1>1. HeldFits(place, se)'
  <2>1. CASE place = "create"
    BY <2>1 DEF HeldFits, Fits, Onward, RowMoves, Shapes, Session, WithoutSession
  <2>2. CASE place # "create"
    <3>1. /\ se.hand \in 0 .. MaxHands /\ se.rev \in Nat /\ row.rev \in Nat
          /\ row.hand \in Nat /\ row'.hand \in Nat
      <4>1. row.rev \in Nat /\ row.hand \in 0 .. MaxHands /\ row'.hand \in 0 .. MaxHands
        BY SessionParts DEF Shapes
      <4>2. se.hand <= row.hand /\ se.rev \in Nat /\ se.hand \in Nat
        BY <2>2, SessionParts DEF HeldFits, Fits
      <4> QED
        BY <4>1, <4>2 DEF TableAssumption
    <3>2. Over(logs[se.hand]) => Over(logs'[se.hand])
      BY <3>1, LogsStay DEF Onward
    <3> QED
      BY <2>2, <3>1, <3>2 DEF HeldFits, Fits, Onward, RowMoves
  <2> QED
    BY <2>1, <2>2
<1>2. RequestFits(place, q)'
  BY DEF RequestFits, Fits, Onward, Opens
<1>3. PlaceFits(place, q, se, n)'
  <2>0. place \in {"turn", "execute", "save", "start", "record"} => meta'
    BY DEF PlaceFits, Fits, Onward
  <2>1. CASE place \in {"save", "record"} /\ q.kind = "hero"
    <3>1. q.hand \in 0 .. MaxHands
      BY <2>1 DEF RequestFits, Fits, SentInTime
    <3>2. InLog(q)'
      BY <2>1, <3>1, InLogStays DEF PlaceFits, Fits, Onward, InLog
    <3> QED
      BY <2>0, <2>1, <3>2 DEF PlaceFits
  <2>2. CASE place \in {"start", "settle", "decision"}
    <3>1. /\ se.hand \in 0 .. MaxHands /\ se.rev \in Nat /\ se.rev <= row.rev
          /\ row.rev \in Nat /\ row.hand \in Nat /\ row'.hand \in Nat
      <4>1. row.rev \in Nat /\ row.hand \in 0 .. MaxHands /\ row'.hand \in 0 .. MaxHands
        BY SessionParts DEF Shapes
      <4>2. se.hand <= row.hand /\ se.rev <= row.rev /\ se.rev \in Nat /\ se.hand \in Nat
        BY <2>2, SessionParts DEF HeldFits, Fits
      <4> QED
        BY <4>1, <4>2 DEF TableAssumption
    <3>2. /\ Over(logs[se.hand]) => Over(logs'[se.hand])
          /\ Len(logs[se.hand]) <= Len(logs'[se.hand])
          /\ \A i \in 1 .. Len(logs[se.hand]) : logs'[se.hand][i] = logs[se.hand][i]
      BY <3>1, LogsStay DEF Onward
    <3>3. Len(logs[se.hand]) \in Nat /\ Len(logs'[se.hand]) \in Nat
      BY <3>1 DEF Shapes
    <3>4. CASE place = "start"
      BY <2>0, <3>1, <3>4 DEF PlaceFits, Fits, Onward, RowMoves
    <3>5. CASE place = "settle"
      BY <3>2, <3>5 DEF PlaceFits, Fits
    <3>6. CASE place = "decision"
      BY <3>2, <3>3, <3>6 DEF PlaceFits, Fits
    <3> QED
      BY <2>2, <3>4, <3>5, <3>6
  <2>3. CASE place \in {"turn", "execute"}
    BY <2>3 DEF PlaceFits, Fits, Onward
  <2> QED
    BY <2>0, <2>1, <2>2, <2>3 DEF PlaceFits
<1> QED
  BY <1>1, <1>2, <1>3 DEF Fits

\* All but the acting worker.
LEMMA OthersFit ==
  ASSUME TableAssumption, IInv, Shapes', Onward, NEW w \in Workers, Alone(w), WorkerFits(w)'
  PROVE  WorkersFit'
<1> SUFFICES ASSUME NEW v \in Workers PROVE WorkerFits(v)'
  BY DEF WorkersFit
<1>1. Shapes /\ (\A r \in sent : SentInTime(r)) /\ Fits(pc[v], req[v], held[v], seen[v])
  BY DEF IInv, WorkersFit, WorkerFits
<1>2. CASE v = w
  BY <1>2
<1>3. CASE v # w
  <2>1. /\ pc'[v] = pc[v] /\ req'[v] = req[v] /\ held'[v] = held[v] /\ seen'[v] = seen[v]
    BY <1>3 DEF Alone
  <2>2. PICK p \in Places, r \in Request, s \in Session, m \in Nat :
             p = pc[v] /\ r = req[v] /\ s = held[v] /\ m = seen[v]
    BY <1>1 DEF Shapes
  <2>3. Fits(p, r, s, m)
    BY <1>1, <2>2
  <2>4. Fits(p, r, s, m)'
    BY <1>1, <2>3, FitsOn
  <2>5. pc'[v] = p /\ req'[v] = r /\ held'[v] = s /\ seen'[v] = m
    BY <2>1, <2>2
  <2> QED
    BY <2>4, <2>5 DEF WorkerFits
<1> QED
  BY <1>2, <1>3

\* The worker that acts goes anywhere but to the opening of a hand.
LEMMA OpenersKept ==
  ASSUME IInv, NEW w \in Workers, Alone(w), pc'[w] # "open", logs' = logs,
         commands \subseteq commands'
  PROVE  OpenedOnce' /\ OneOpens'
<1>1. OpenedOnce /\ OneOpens
  BY DEF IInv
<1>2. \A v \in Workers : pc'[v] = "open" => pc[v] = "open" /\ req'[v] = req[v]
  BY DEF Alone
<1> QED
  BY <1>1, <1>2 DEF OpenedOnce, OneOpens, Opens

\* A step that moves a worker and may add to what was sent or decided.
LEMMA LocalStep ==
  ASSUME TableAssumption, IInv, NEW w \in Workers, Alone(w), pc'[w] # "open",
         row' = row, logs' = logs, meta' = meta, commands' = commands,
         sent \subseteq sent', \A q \in sent' : SentInTime(q)',
         Shapes', DecisionsExplainActions', WorkerFits(w)'
  PROVE  IInv'
<1>1. /\ Shapes /\ RowKept /\ (\A h \in 0 .. MaxHands : LogKept(h, logs[h]))
      /\ HandsInTurn /\ CommandsKept
  BY DEF IInv
<1>2. WorkersFit'
  <2>1. Onward
    BY DEF Onward, RowMoves, LogsGrow
  <2> QED
    BY <2>1, OthersFit
<1>3. RowKept' /\ HandsInTurn' /\ CommandsKept'
  BY <1>1 DEF RowKept, HandsInTurn, CommandsKept, InLog
<1>4. \A h \in 0 .. MaxHands : LogKept(h, logs[h])'
  BY <1>1 DEF LogKept
<1>5. OpenedOnce' /\ OneOpens'
  BY OpenersKept
<1> QED
  BY <1>2, <1>3, <1>4, <1>5 DEF IInv

\* The end of a request fits wherever it comes.
LEMMA EndedFits ==
  ASSUME TableAssumption, Shapes, NEW w \in Workers, Ends(w)
  PROVE  /\ Alone(w) /\ pc'[w] = "idle"
         /\ pc' \in [Workers -> Places] /\ req' \in [Workers -> Request]
         /\ held' \in [Workers -> Session] /\ seen' \in [Workers -> Nat]
         /\ row'.hand \in Nat /\ row'.rev \in Nat => WorkerFits(w)'
<1>1. NoRequest \in Request /\ NoSession \in Session
  BY DEF NoRequest, NoSession, Request, Session, Kinds
<1>2. /\ pc' \in [Workers -> Places] /\ req' \in [Workers -> Request]
      /\ held' \in [Workers -> Session] /\ seen' \in [Workers -> Nat]
      /\ pc'[w] = "idle" /\ held'[w] = NoSession /\ Alone(w)
  BY <1>1 DEF Shapes, Ends, Goes, Alone, Places
<1>3. ASSUME row'.hand \in Nat, row'.rev \in Nat PROVE WorkerFits(w)'
  BY <1>2, <1>3 DEF WorkerFits, Fits, HeldFits, RequestFits, PlaceFits, NoSession, WithoutSession, AfterRecord
<1> QED
  BY <1>2, <1>3

LEMMA Ending ==
  ASSUME TableAssumption, IInv, NEW w \in Workers, Ends(w), UNCHANGED <<durable, sent>>,
         answered' \subseteq commands
  PROVE  IInv'
<1>1. Shapes /\ \A q \in sent : SentInTime(q)
  BY DEF IInv
<1>2. /\ row' = row /\ logs' = logs /\ meta' = meta /\ commands' = commands
      /\ decisions' = decisions /\ sent' = sent
  BY DEF durable
<1>3. Alone(w) /\ pc'[w] = "idle" /\ WorkerFits(w)' /\ Shapes'
  <2>1. row'.hand \in Nat /\ row'.rev \in Nat
    BY <1>1, <1>2, SessionParts DEF Shapes
  <2> QED
    BY <1>1, <1>2, <2>1, EndedFits DEF Shapes
<1>4. (\A q \in sent' : SentInTime(q)') /\ DecisionsExplainActions'
  BY <1>1, <1>2 DEF SentInTime, DecisionsExplainActions, IInv
<1> QED
  BY <1>2, <1>3, <1>4, LocalStep

LEMMA Refusing ==
  ASSUME TableAssumption, IInv, NEW w \in Workers, Refuses(w)
  PROVE  IInv'
BY Ending DEF Refuses, IInv, Shapes

LEMMA Wedging ==
  ASSUME TableAssumption, IInv, NEW w \in Workers, Wedges(w)
  PROVE  IInv'
BY Ending DEF Wedges, IInv, Shapes

-----------------------------------------------------------------------------
(***************************************************************************)
(* Saving a session.                                                       *)
(***************************************************************************)
\* What a request may try to save: the first session, one of the row's hand, or
\* the opening of the next hand where the row's is over and not the last.
Saving(se) ==
    /\ se \in Session /\ se.rev <= row.rev
    /\ row.rev = 0 => se = [rev |-> 0, hand |-> 1, active |-> TRUE]
    /\ row.rev > 0 /\ se.rev = row.rev =>
          \/ se.hand = row.hand
          \/ se.hand = row.hand + 1 /\ row.hand < MaxHands /\ Over(logs[row.hand]) /\ se.active
    /\ row.rev > 0 /\ se.rev = row.rev /\ ~se.active => Over(logs[se.hand])

LEMMA RowSaved ==
  ASSUME TableAssumption, IInv, NEW se, Saving(se), Savable(se), row' = Stored(se), logs' = logs
  PROVE  /\ row' \in Session /\ row'.hand \in 0 .. MaxHands /\ row'.rev > 0
         /\ RowMoves /\ HandsInTurn' /\ RowKept' /\ row'.hand \in Hands
         /\ ~row'.active => Over(logs[row'.hand])
<1>1. /\ row \in Session /\ row.hand \in 0 .. MaxHands /\ RowKept /\ HandsInTurn
      /\ row.rev \in Nat /\ row.active \in BOOLEAN
  BY SessionParts DEF IInv, Shapes
<1>2. MaxHands \in Nat \ {0} /\ Hands = 1 .. MaxHands
  BY DEF TableAssumption, Hands
<1>3. se \in Session /\ se.rev \in Nat /\ se.hand \in Nat /\ se.active \in BOOLEAN
  BY SessionParts DEF Saving
<1>4. CASE row' = row /\ row.rev > 0
  BY <1>1, <1>2, <1>4 DEF RowMoves, HandsInTurn, RowKept
<1>5. CASE row.rev = 0
  <2>1. row = NoSession /\ se = [rev |-> 0, hand |-> 1, active |-> TRUE]
    BY <1>1, <1>5 DEF RowKept, Saving
  <2>2. row.hand = 0 /\ se.hand = 1
    BY <2>1 DEF NoSession
  <2>3. row' = [se EXCEPT !.rev = row.rev + 1]
    BY <2>2 DEF Stored
  <2>4. se.active
    BY <2>1
  <2>5. row'.rev = row.rev + 1 /\ row'.hand = 1 /\ row'.active /\ row' \in Session
    BY <1>1, <1>3, <2>2, <2>3, <2>4 DEF Session
  <2> QED
    BY <1>1, <1>2, <1>5, <2>5, <2>2 DEF RowMoves, HandsInTurn, RowKept, Session
<1>6. CASE row' # row /\ row.rev > 0
  <2>1. row' = [se EXCEPT !.rev = row.rev + 1] /\ ~(row.hand = se.hand /\ row.active = se.active)
    BY <1>6 DEF Stored
  <2>2. row'.rev = row.rev + 1 /\ row'.hand = se.hand /\ row'.active = se.active /\ row' \in Session
    BY <1>1, <1>3, <2>1 DEF Session
  <2>3. se.rev = row.rev
    BY <1>6, <2>1 DEF Savable
  <2>4. \/ se.hand = row.hand
        \/ se.hand = row.hand + 1 /\ row.hand < MaxHands /\ Over(logs[row.hand]) /\ se.active
    BY <1>6, <2>3 DEF Saving
  <2>5. ~se.active => Over(logs[se.hand])
    BY <1>6, <2>3 DEF Saving
  <2>6. row.hand \in 1 .. MaxHands /\ se.hand \in 1 .. MaxHands
    BY <1>1, <1>2, <1>6, <2>4 DEF RowKept
  <2>7. RowMoves /\ RowKept'
    BY <1>1, <1>2, <2>2, <2>4, <2>6 DEF RowMoves, RowKept
  <2>8. HandsInTurn'
    BY <1>1, <1>2, <2>2, <2>4, <2>5, <2>6 DEF HandsInTurn
  <2> QED
    BY <1>2, <1>1, <2>2, <2>5, <2>6, <2>7, <2>8
<1> QED
  BY <1>1, <1>3, <1>4, <1>5, <1>6

\* What a client asked for in time it asked for in time.
LEMMA SentStays ==
  ASSUME TableAssumption, Shapes, RowMoves, row' \in Session, NEW q \in Request, SentInTime(q)
  PROVE  SentInTime(q)'
<1>1. /\ row.rev \in Nat /\ row'.rev \in Nat /\ q.rev \in Nat /\ SequenceRange \in Nat
  BY SessionParts DEF Shapes, Request, TableAssumption
<1>2. CASE row' = row
  BY <1>2 DEF SentInTime
<1>3. CASE row'.rev = row.rev + 1
  <2> DEFINE r == row.rev * SequenceRange
             s == (row.rev + 1) * SequenceRange
             t == (row.rev + 2) * SequenceRange
  <2>1. r \in Nat /\ s \in Nat /\ t \in Nat /\ s <= t
    BY <1>1
  <2>2. CASE q.kind = "next"
    <3>1. q.rev < s
      BY <2>2 DEF SentInTime
    <3>2. (row'.rev + 1) * SequenceRange = t /\ row'.rev * SequenceRange = s
      BY <1>1, <1>3
    <3> HIDE DEF r, s, t
    <3>3. q.rev < t /\ ~(q.rev >= s)
      BY <1>1, <2>1, <3>1
    <3>4. q.rev < (row'.rev + 1) * SequenceRange /\ ~(q.rev >= row'.rev * SequenceRange)
      BY <3>2, <3>3
    <3>5. q.kind # "bot" /\ q.id \in Ids
      BY DEF SentInTime
    <3> QED
      BY <2>2, <3>4, <3>5 DEF SentInTime
  <2> QED
    BY <2>2 DEF SentInTime
<1> QED
  BY <1>2, <1>3 DEF RowMoves

LEMMA SaveStep ==
  ASSUME TableAssumption, IInv, NEW w \in Workers, NEW se, Saving(se),
         NEW place \in {"insert", "project", "record", "advance", "review", "answered"},
         RequestFits(place, req[w]), place = "record" => meta /\ (req[w].kind = "hero" => InLog(req[w])),
         Saves(w, se, place)
  PROVE  IInv'
<1>1. CASE ~(Writable /\ Savable(se))
  BY <1>1, Refusing DEF Saves
<1>2. CASE Writable /\ Savable(se)
  <2>1. /\ row' = Stored(se) /\ held' = [held EXCEPT ![w] = Stored(se)]
        /\ pc' = [pc EXCEPT ![w] = place] /\ req' = req /\ seen' = seen
        /\ logs' = logs /\ meta' = meta /\ commands' = commands /\ decisions' = decisions
        /\ sent' = sent /\ answered' = answered
    BY <1>2 DEF Saves, Goes
  <2>2. /\ Shapes /\ RowKept /\ (\A q \in sent : SentInTime(q))
        /\ (\A h \in 0 .. MaxHands : LogKept(h, logs[h]))
        /\ HandsInTurn /\ OpenedOnce /\ OneOpens /\ CommandsKept /\ DecisionsExplainActions
    BY DEF IInv
  <2>3. /\ row' \in Session /\ row'.hand \in 0 .. MaxHands /\ row'.rev > 0
        /\ RowMoves /\ HandsInTurn' /\ RowKept' /\ row'.hand \in Hands /\ (~row'.active => Over(logs[row'.hand]))
    BY <1>2, <2>1, RowSaved
  <2>4. held'[w] = row' /\ pc'[w] = place /\ req'[w] = req[w] /\ seen'[w] = seen[w]
    BY <2>1, <2>2 DEF Shapes
  <2>5. Shapes'
    BY <2>1, <2>2, <2>3 DEF Shapes, Places
  <2>6. Alone(w)
    BY <2>1, <2>2 DEF Alone, Shapes
  <2>7. WorkerFits(w)'
    <3>2. PICK p, q, s, n : p = pc'[w] /\ q = req'[w] /\ s = held'[w] /\ n = seen'[w]
      OBVIOUS
    <3>3. HeldFits(p, s)'
      BY <2>1, <2>3, <2>4, <3>2, SessionParts DEF HeldFits, WithoutSession
    <3>4. RequestFits(p, q)'
      BY <2>1, <2>4, <3>2 DEF RequestFits, Opens
    <3>5. PlaceFits(p, q, s, n)'
      BY <2>1, <2>4, <3>2 DEF PlaceFits, InLog
    <3> QED
      BY <3>2, <3>3, <3>4, <3>5 DEF WorkerFits, Fits
  <2>8. WorkersFit'
    BY <2>1, <2>3, <2>5, <2>6, <2>7, OthersFit DEF Onward, LogsGrow
  <2>9. \A q \in sent' : SentInTime(q)'
    BY <2>1, <2>2, <2>3, SentStays DEF Shapes
  <2>10. OpenedOnce' /\ OneOpens'
    BY <2>1, <2>4, <2>6, OpenersKept
  <2>11. /\ (\A h \in 0 .. MaxHands : LogKept(h, logs[h])') /\ CommandsKept'
         /\ DecisionsExplainActions'
    BY <2>1, <2>2 DEF LogKept, CommandsKept, InLog, DecisionsExplainActions
  <2> QED
    BY <2>3, <2>5, <2>8, <2>9, <2>10, <2>11 DEF IInv
<1> QED
  BY <1>1, <1>2

-----------------------------------------------------------------------------
(***************************************************************************)
(* Appending to a log.                                                     *)
(***************************************************************************)
LEMMA LogAppended ==
  ASSUME TableAssumption, NEW h \in 0 .. MaxHands, NEW es \in Seq(Batch), LogKept(h, es),
         NEW q \in Request, NEW n \in Nat, Accepts(es, q, n), NEW t \in NextTurns(es),
         q.kind # "bot" => q \in sent, q.kind = "hero" => q.hand = h
  PROVE  LET grown == Append(es, [by |-> q, turn |-> t])
         IN  /\ [by |-> q, turn |-> t] \in Batch /\ grown \in Seq(Batch)
             /\ LogKept(h, grown) /\ CausedAt(grown, q) # {}
             /\ Len(grown) = n + 1 /\ grown[n + 1].by = q
             /\ \A i \in 1 .. n : grown[i] = es[i]
<1> DEFINE b == [by |-> q, turn |-> t]  grown == Append(es, b)
<1>1. t \in Turns /\ ~Over(es) /\ Len(es) = n /\ CausedAt(es, q) = {}
      /\ (t # "over" => n + 1 < MaxBatches) /\ n < MaxBatches
  <2>1. ~Over(es) /\ Len(es) = n /\ CausedAt(es, q) = {} /\ Len(es) < MaxBatches
    BY DEF Accepts, LogKept
  <2>2. t \in Turns /\ (t # "over" => n + 1 < MaxBatches)
    <3>1. CASE es = <<>>
      BY <2>1, <3>1 DEF NextTurns, Turns, TableAssumption
    <3>2. CASE es # <<>>
      BY <2>1, <3>2 DEF NextTurns, Turns
    <3> QED
      BY <3>1, <3>2
  <2> QED
    BY <2>1, <2>2
<1>2. b \in Batch /\ b.by = q /\ b.turn = t
  BY <1>1 DEF Batch
<1>3. /\ grown \in Seq(Batch) /\ Len(grown) = n + 1 /\ grown[n + 1] = b
      /\ \A i \in 1 .. n : grown[i] = es[i]
  BY <1>1, <1>2
<1> HIDE DEF b, grown
<1>4. Over(grown) <=> t = "over"
  <2>1. grown # <<>>
    BY <1>3
  <2>2. Turn(grown) = t
    BY <1>2, <1>3 DEF Turn
  <2> QED
    BY <2>1, <2>2 DEF Over
<1>5. Len(grown) <= MaxBatches /\ (~Over(grown) => Len(grown) < MaxBatches)
  BY <1>1, <1>3, <1>4 DEF TableAssumption
<1>6. \A i \in 1 .. n : Cause(es[i].by) # Cause(q)
  BY <1>1 DEF CausedAt
<1>7. \A i, j \in 1 .. Len(grown) : Cause(grown[i].by) = Cause(grown[j].by) => i = j
  <2> SUFFICES ASSUME NEW i \in 1 .. n + 1, NEW j \in 1 .. n + 1,
                      Cause(grown[i].by) = Cause(grown[j].by)
               PROVE  i = j
    BY <1>3
  <2>1. CASE i = n + 1 \/ j = n + 1
    BY <1>2, <1>3, <1>6, <2>1
  <2>2. CASE i \in 1 .. n /\ j \in 1 .. n
    BY <1>1, <1>3, <2>2 DEF LogKept
  <2> QED
    BY <2>1, <2>2
<1>8. \A i \in 1 .. Len(grown) : /\ grown[i].by.kind # "bot" => grown[i].by \in sent
                                 /\ grown[i].by.kind = "hero" => grown[i].by.hand = h
  <2> SUFFICES ASSUME NEW i \in 1 .. n + 1
               PROVE  /\ grown[i].by.kind # "bot" => grown[i].by \in sent
                      /\ grown[i].by.kind = "hero" => grown[i].by.hand = h
    BY <1>3
  <2>1. CASE i = n + 1
    BY <1>2, <1>3, <2>1
  <2>2. CASE i \in 1 .. n
    BY <1>1, <1>3, <2>2 DEF LogKept
  <2> QED
    BY <2>1, <2>2
<1>9. n + 1 \in CausedAt(grown, q)
  BY <1>2, <1>3 DEF CausedAt
<1> QED
  BY <1>2, <1>3, <1>5, <1>7, <1>8, <1>9 DEF LogKept, b, grown

\* Worker w appends a batch of command q to the log of hand h, expecting n batches.
Appends(w, h, q, n, t) ==
    /\ h <= row.hand /\ row.rev > 0 /\ Accepts(logs[h], q, n) /\ t \in NextTurns(logs[h])
    /\ q.kind # "bot" => q \in sent
    /\ q.kind = "hero" => q.hand = h
    /\ Opens(q) => q \in commands /\ pc[w] = "open" /\ req[w] = q
    /\ logs' = [logs EXCEPT ![h] = Append(logs[h], [by |-> q, turn |-> t])]
    /\ Alone(w) /\ pc'[w] # "open" /\ UNCHANGED <<row, meta, commands, decisions, sent>>

\* Everything but the workers, after that.
Appended(h, q, n) ==
    /\ logs' \in [0 .. MaxHands -> Seq(Batch)] /\ LogsGrow
    /\ \A k \in 0 .. MaxHands : LogKept(k, logs[k])'
    /\ HandsInTurn' /\ OpenedOnce' /\ OneOpens' /\ CommandsKept' /\ DecisionsExplainActions'
    /\ CausedAt(logs'[h], q) # {} /\ Len(logs'[h]) = n + 1 /\ logs'[h][n + 1].by = q

LEMMA LogsAppended ==
  ASSUME TableAssumption, IInv, NEW w \in Workers, NEW h \in Hands, NEW q \in Request, NEW n \in Nat,
         NEW t, Appends(w, h, q, n, t)
  PROVE  Appended(h, q, n)
<1> USE DEF Appends
<1> DEFINE grown == Append(logs[h], [by |-> q, turn |-> t])
<1>0. h \in 0 .. MaxHands
  BY DEF Hands, TableAssumption
<1>1. /\ Shapes /\ (\A k \in 0 .. MaxHands : LogKept(k, logs[k])) /\ (\A r \in sent : SentInTime(r))
      /\ HandsInTurn /\ OpenedOnce /\ OneOpens /\ CommandsKept /\ DecisionsExplainActions
  BY DEF IInv
<1>2. logs \in [0 .. MaxHands -> Seq(Batch)] /\ row.hand \in 0 .. MaxHands /\ MaxHands \in Nat
      /\ Hands = 1 .. MaxHands
  BY <1>1 DEF Shapes, TableAssumption, Hands
<1>3. /\ [by |-> q, turn |-> t] \in Batch /\ grown \in Seq(Batch)
      /\ LogKept(h, grown) /\ CausedAt(grown, q) # {}
      /\ Len(grown) = n + 1 /\ grown[n + 1].by = q
      /\ \A i \in 1 .. n : grown[i] = logs[h][i]
  <2>1. LogKept(h, logs[h]) /\ logs[h] \in Seq(Batch)
    BY <1>0, <1>1, <1>2
  <2>2. /\ Accepts(logs[h], q, n) /\ t \in NextTurns(logs[h])
        /\ q.kind # "bot" => q \in sent
        /\ q.kind = "hero" => q.hand = h
    OBVIOUS
  <2> HIDE DEF Appends
  <2> QED
    BY <1>0, <2>1, <2>2, LogAppended
<1>4. ~Over(logs[h]) /\ Len(logs[h]) = n
  BY DEF Accepts
<1>5. logs'[h] = grown /\ \A k \in (0 .. MaxHands) \ {h} : logs'[k] = logs[k]
  BY <1>0, <1>2
<1>6. logs' \in [0 .. MaxHands -> Seq(Batch)]
  BY <1>0, <1>2, <1>3
<1>7. LogsGrow
  BY <1>3, <1>4, <1>5 DEF LogsGrow
<1> HIDE DEF grown
<1>8. \A k \in 0 .. MaxHands : LogKept(k, logs[k])'
  <2> SUFFICES ASSUME NEW k \in 0 .. MaxHands PROVE LogKept(k, logs[k])'
    OBVIOUS
  <2>1. CASE k = h
    <3>1. logs'[k] = grown /\ sent' = sent
      BY <1>5, <2>1
    <3>2. LogKept(k, logs'[k])
      BY <1>3, <2>1, <3>1
    <3> QED
      BY <3>1, <3>2 DEF LogKept
  <2>2. CASE k # h
    <3>1. logs'[k] = logs[k] /\ sent' = sent
      BY <1>5, <2>2
    <3>2. LogKept(k, logs[k])
      BY <1>1
    <3> QED
      BY <3>1, <3>2 DEF LogKept
  <2> QED
    BY <2>1, <2>2
<1>9. HandsInTurn'
  <2>1. h = row.hand
    <3>1. ~(h < row.hand)
      BY <1>1, <1>4 DEF HandsInTurn
    <3>2. h \in Int /\ row.hand \in Int /\ h <= row.hand
      BY <1>0, <1>2
    <3> QED
      BY <3>1, <3>2
  <2>2. row.active
    BY <1>1, <1>4, <2>1 DEF HandsInTurn
  <2> QED
    BY <1>1, <1>2, <1>5, <2>1, <2>2 DEF HandsInTurn
<1>10. CommandsKept'
  <2> SUFFICES ASSUME NEW r \in commands, r.kind = "hero" PROVE CausedAt(logs'[r.hand], r) # {}
    BY <1>1 DEF CommandsKept, InLog
  <2>1. r.hand \in 0 .. MaxHands /\ InLog(r)
    BY <1>1 DEF CommandsKept, Shapes, SentInTime
  <2> QED
    BY <1>1, <1>7, <2>1, InLogStays
<1>11. DecisionsExplainActions'
  <2> SUFFICES ASSUME NEW d \in decisions
               PROVE  d[2] <= Len(logs'[d[1]]) /\ logs'[d[1]][d[2]].by.kind = "bot"
    BY DEF DecisionsExplainActions
  <2>1. PICK k \in 0 .. MaxHands, i \in Nat \ {0} : k = d[1] /\ i = d[2]
    BY <1>1 DEF Shapes
  <2>2. i <= Len(logs[k]) /\ logs[k][i].by.kind = "bot" /\ Len(logs[k]) \in Nat
    BY <1>1, <1>2, <2>1 DEF DecisionsExplainActions
  <2>3. Len(logs[k]) <= Len(logs'[k]) /\ logs'[k][i] = logs[k][i] /\ Len(logs'[k]) \in Nat
    BY <1>1, <1>6, <1>7, <2>2, LogsStay
  <2> QED
    BY <2>1, <2>2, <2>3
<1>12. OpenedOnce'
  <2>1. \A v \in Workers : pc'[v] = "open" => v # w /\ pc[v] = "open" /\ req'[v] = req[v]
    BY DEF Alone
  <2>2. \A v \in Workers : Opens(q) /\ pc'[v] = "open" => req'[v] # q
    BY <1>1, <2>1 DEF OneOpens
  <2>3. \A k \in 0 .. MaxHands : \A i \in 1 .. Len(logs[k]) : Opens(q) => logs[k][i].by # q
    BY <1>1 DEF OpenedOnce
  <2>4. \A k \in 0 .. MaxHands : \A i \in 1 .. Len(logs'[k]) :
           \/ i \in 1 .. Len(logs[k]) /\ logs'[k][i] = logs[k][i]
           \/ k = h /\ logs'[k][i].by = q
    BY <1>2, <1>3, <1>4, <1>5
  <2>5. \A k \in 0 .. MaxHands : \A i \in 1 .. Len(logs'[k]) :
           Opens(logs'[k][i].by) => /\ logs'[k][i].by \in commands
                                    /\ \A v \in Workers : pc'[v] = "open" => req'[v] # logs'[k][i].by
    BY <1>1, <2>1, <2>2, <2>4 DEF OpenedOnce
  <2>6. \A k, l \in 0 .. MaxHands : \A i \in 1 .. Len(logs'[k]), j \in 1 .. Len(logs'[l]) :
           Opens(logs'[k][i].by) /\ logs'[k][i].by = logs'[l][j].by => k = l
    <3> SUFFICES ASSUME NEW k \in 0 .. MaxHands, NEW l \in 0 .. MaxHands,
                        NEW i \in 1 .. Len(logs'[k]), NEW j \in 1 .. Len(logs'[l]),
                        Opens(logs'[k][i].by), logs'[k][i].by = logs'[l][j].by
                 PROVE  k = l
      OBVIOUS
    <3>1. CASE i \in 1 .. Len(logs[k]) /\ logs'[k][i] = logs[k][i]
      <4>1. CASE j \in 1 .. Len(logs[l]) /\ logs'[l][j] = logs[l][j]
        BY <1>1, <3>1, <4>1 DEF OpenedOnce
      <4>2. CASE l = h /\ logs'[l][j].by = q
        BY <2>3, <3>1, <4>2
      <4> QED
        BY <2>4, <4>1, <4>2
    <3>2. CASE k = h /\ logs'[k][i].by = q
      <4>1. CASE j \in 1 .. Len(logs[l]) /\ logs'[l][j] = logs[l][j]
        BY <2>3, <3>2, <4>1
      <4>2. CASE l = h /\ logs'[l][j].by = q
        BY <3>2, <4>2
      <4> QED
        BY <2>4, <4>1, <4>2
    <3> QED
      BY <2>4, <3>1, <3>2
  <2>7. OpenedOnce' <=>
          /\ \A k \in 0 .. MaxHands : \A i \in 1 .. Len(logs'[k]) :
                Opens(logs'[k][i].by) =>
                    /\ logs'[k][i].by \in commands'
                    /\ \A v \in Workers : pc'[v] = "open" => req'[v] # logs'[k][i].by
          /\ \A k, l \in 0 .. MaxHands : \A i \in 1 .. Len(logs'[k]), j \in 1 .. Len(logs'[l]) :
                Opens(logs'[k][i].by) /\ logs'[k][i].by = logs'[l][j].by => k = l
    BY DEF OpenedOnce, Opens
  <2> QED
    BY <2>5, <2>6, <2>7
<1>13. OneOpens'
  BY <1>1 DEF OneOpens, Alone
<1> QED
  BY <1>3, <1>5, <1>6, <1>7, <1>8, <1>9, <1>10, <1>11, <1>12, <1>13 DEF Appended

-----------------------------------------------------------------------------
(***************************************************************************)
(* Executing a command on the hand a worker holds.                         *)
(***************************************************************************)
LEMMA AfterSession ==
  ASSUME NEW se \in Session, NEW es
  PROVE  /\ After(se, es) \in Session
         /\ After(se, es).rev = se.rev /\ After(se, es).hand = se.hand
         /\ ~After(se, es).active => ~se.active \/ Over(es)
BY DEF After, Session, Over

LEMMA ExecuteStep ==
  ASSUME TableAssumption, IInv, NEW w \in Workers, NEW q \in Request,
         NEW place \in {"save", "opened", "decision"},
         pc[w] \in {"execute", "open", "bot"},
         q.kind # "bot" => q = req[w],
         q.kind = "hero" => q.hand = held[w].hand,
         q.kind = "bot" => q.id = NoId,
         Opens(q) => pc[w] = "open",
         place = "save" => q.kind = "hero" /\ pc[w] = "execute",
         place # "save" => pc[w] # "execute",
         place = "decision" => q.kind = "bot",
         Executes(w, q, place)
  PROVE  IInv'
<1>1. /\ Shapes /\ RowKept /\ (\A r \in sent : SentInTime(r))
      /\ (\A k \in 0 .. MaxHands : LogKept(k, logs[k]))
      /\ HandsInTurn /\ OpenedOnce /\ OneOpens /\ CommandsKept /\ DecisionsExplainActions
      /\ Fits(pc[w], req[w], held[w], seen[w])
  BY DEF IInv, WorkersFit, WorkerFits
<1>2. PICK r \in Request, se \in Session, n \in Nat, p \in Places :
           r = req[w] /\ se = held[w] /\ n = seen[w] /\ p = pc[w]
  BY <1>1 DEF Shapes
<1>3. PICK h \in Hands : h = se.hand
  BY <1>1, <1>2, SessionParts DEF Fits, HeldFits, WithoutSession
<1>4. /\ se.rev > 0 /\ h <= row.hand /\ se.rev <= row.rev /\ row.rev > 0 /\ h \in 0 .. MaxHands
      /\ (se.rev = row.rev => h = row.hand) /\ (~se.active => Over(logs[h]))
  <2>1. /\ se.rev > 0 /\ h <= row.hand /\ se.rev <= row.rev /\ (se.rev = row.rev => h = row.hand)
        /\ (~se.active => Over(logs[h]))
    BY <1>1, <1>2, <1>3 DEF Fits, HeldFits, WithoutSession
  <2>2. row.rev \in Nat /\ se.rev \in Nat
    BY <1>1, SessionParts DEF Shapes
  <2> QED
    BY <1>3, <2>1, <2>2 DEF Hands, TableAssumption
<1>5. /\ r \in sent /\ (p # "execute" => r \in commands)
  BY <1>1, <1>2 DEF Fits, RequestFits, AfterRecord
<1>6. ASSUME NEW s \in Session, s.rev = se.rev, s.hand = h,
             ~s.active => Over(logs'[h]),
             row' = row, meta' = meta, commands' = commands, sent' = sent, LogsGrow,
             pc'[w] = place, req'[w] = r, held'[w] = s, seen'[w] = n,
             place = "save" => CausedAt(logs'[h], q) # {},
             place = "decision" => n + 1 <= Len(logs'[h]) /\ logs'[h][n + 1].by.kind = "bot"
      PROVE  WorkerFits(w)'
  <2>1. HeldFits(place, s)'
    BY <1>4, <1>6 DEF HeldFits
  <2>2. RequestFits(place, r)'
    <3>1. place \in AfterRecord => r \in commands
      BY <1>2, <1>5, <1>6 DEF AfterRecord
    <3>2. place = "save" => r.kind = "hero"
      BY <1>2
    <3> QED
      BY <1>5, <1>6, <3>1, <3>2 DEF RequestFits
  <2>3. PlaceFits(place, r, s, n)'
    <3>1. place = "save" => q = r /\ r.hand = h
      BY <1>2, <1>3
    <3>2. place = "save" => CausedAt(logs'[r.hand], r) # {}
      BY <1>6, <3>1
    <3>3. place = "save" => meta
      BY <1>1, <1>2, <1>6 DEF Fits, PlaceFits, RequestFits, Opens
    <3> QED
      BY <1>6, <3>2, <3>3 DEF PlaceFits, InLog
  <2> QED
    BY <1>6, <2>1, <2>2, <2>3 DEF WorkerFits, Fits
<1>7. CASE Writable /\ Accepts(logs[h], q, n) /\ ~Refuses(w) /\ logs' # logs
  <2>1. PICK t \in NextTurns(logs[h]) :
            LET grown == Append(logs[h], [by |-> q, turn |-> t])
            IN  /\ logs' = [logs EXCEPT ![h] = grown]
                /\ held' = [held EXCEPT ![w] = After(se, grown)]
                /\ pc' = [pc EXCEPT ![w] = place]
                /\ UNCHANGED <<row, meta, commands, decisions, req, seen, sent, answered>>
    BY <1>2, <1>3, <1>7 DEF Executes, Goes, durable
  <2> DEFINE s == After(se, Append(logs[h], [by |-> q, turn |-> t]))
  <2>2. /\ logs' = [logs EXCEPT ![h] = Append(logs[h], [by |-> q, turn |-> t])]
        /\ held' = [held EXCEPT ![w] = s] /\ pc' = [pc EXCEPT ![w] = place]
        /\ row' = row /\ meta' = meta /\ commands' = commands /\ decisions' = decisions
        /\ req' = req /\ seen' = seen /\ sent' = sent /\ answered' = answered
    BY <2>1
  <2> HIDE DEF s
  <2>3. logs'[h] = Append(logs[h], [by |-> q, turn |-> t])
    BY <1>1, <1>4, <2>2 DEF Shapes
  <2>4. s \in Session /\ s.rev = se.rev /\ s.hand = h /\ (~s.active => ~se.active \/ Over(logs'[h]))
    BY <1>3, <2>3, AfterSession DEF s
  <2>5. ~Over(logs[h])
    BY <1>7 DEF Accepts
  <2>6. Alone(w) /\ pc'[w] = place /\ held'[w] = s /\ req'[w] = r /\ seen'[w] = n
    BY <1>1, <1>2, <2>2 DEF Alone, Shapes
  <2>7. /\ logs' \in [0 .. MaxHands -> Seq(Batch)] /\ LogsGrow
        /\ (\A k \in 0 .. MaxHands : LogKept(k, logs[k])')
        /\ HandsInTurn' /\ OpenedOnce' /\ OneOpens' /\ CommandsKept' /\ DecisionsExplainActions'
        /\ CausedAt(logs'[h], q) # {} /\ Len(logs'[h]) = n + 1 /\ logs'[h][n + 1].by = q
    <3>1. q.kind # "bot" => q \in sent
      BY <1>2, <1>5
    <3>2. Opens(q) => q \in commands /\ pc[w] = "open" /\ req[w] = q
      BY <1>2, <1>5 DEF Opens
    <3>3. q.kind = "hero" => q.hand = h
      BY <1>2, <1>3
    <3>4. pc'[w] # "open" /\ UNCHANGED <<row, meta, commands, decisions, sent>>
      BY <2>2, <2>6
    <3>5. Accepts(logs[h], q, n) /\ h <= row.hand /\ row.rev > 0 /\ Alone(w)
      BY <1>4, <1>7, <2>6
    <3>6. logs' = [logs EXCEPT ![h] = Append(logs[h], [by |-> q, turn |-> t])]
      BY <2>2
    <3> QED
      <4>1. Appends(w, h, q, n, t)
        BY <3>1, <3>2, <3>3, <3>4, <3>5, <3>6 DEF Appends
      <4>2. Appended(h, q, n)
        BY <4>1, LogsAppended
      <4> QED
        BY <4>2 DEF Appended
  <2>8. Shapes'
    <3>1. pc' \in [Workers -> Places]
      BY <1>1, <2>2 DEF Shapes, Places
    <3>2. held' \in [Workers -> Session]
      BY <1>1, <2>2, <2>4 DEF Shapes
    <3> QED
      BY <1>1, <2>2, <2>7, <3>1, <3>2 DEF Shapes
  <2>9. WorkerFits(w)'
    <3>1. ~s.active => Over(logs'[h])
      BY <1>4, <2>4, <2>5
    <3> QED
      BY <1>6, <2>2, <2>4, <2>6, <2>7, <3>1
  <2>10. WorkersFit'
    BY <2>2, <2>6, <2>7, <2>8, <2>9, OthersFit DEF Onward, RowMoves
  <2>11. RowKept' /\ \A z \in sent' : SentInTime(z)'
    BY <1>1, <2>2 DEF RowKept, SentInTime
  <2> QED
    BY <2>7, <2>8, <2>10, <2>11 DEF IInv
<1>8. CASE Repeats(logs[h], q, n) /\ ~Refuses(w) /\ logs' = logs
  <2> DEFINE s == After(se, logs[h])
  <2>1. /\ held' = [held EXCEPT ![w] = s] /\ pc' = [pc EXCEPT ![w] = place]
        /\ row' = row /\ logs' = logs /\ meta' = meta /\ commands' = commands
        /\ decisions' = decisions /\ req' = req /\ seen' = seen /\ sent' = sent
        /\ answered' = answered
    <3>1. CASE Accepts(logs[h], q, n)
      <4>1. CausedAt(logs[h], q) = {}
        BY <3>1 DEF Accepts
      <4> QED
        BY <1>8, <4>1 DEF Repeats
    <3>2. CASE ~Accepts(logs[h], q, n)
      BY <1>2, <1>3, <1>8, <3>2 DEF Executes, Goes, durable
    <3> QED
      BY <3>1, <3>2
  <2> HIDE DEF s
  <2>2. s \in Session /\ s.rev = se.rev /\ s.hand = h /\ (~s.active => Over(logs'[h]))
    BY <1>3, <1>4, <2>1, AfterSession DEF s
  <2>3. Alone(w) /\ pc'[w] = place /\ held'[w] = s /\ req'[w] = r /\ seen'[w] = n
    BY <1>1, <1>2, <2>1 DEF Alone, Shapes
  <2>4. n + 1 \in 1 .. Len(logs[h]) /\ Cause(logs[h][n + 1].by) = Cause(q)
    BY <1>8 DEF Repeats, CausedAt
  <2>5. ASSUME q.kind = "bot" PROVE logs[h][n + 1].by.kind = "bot"
    <3>1. logs[h][n + 1].by.id = NoId
      BY <2>4, <2>5 DEF Cause
    <3>2. logs[h][n + 1].by.kind # "bot" => logs[h][n + 1].by \in sent
      BY <1>1, <1>4, <2>4 DEF LogKept
    <3> QED
      BY <1>1, <3>1, <3>2 DEF SentInTime, TableAssumption
  <2>6. CausedAt(logs[h], q) # {}
    BY <1>8 DEF Repeats
  <2>7. Shapes'
    <3>1. pc' \in [Workers -> Places]
      BY <1>1, <2>1 DEF Shapes, Places
    <3>2. held' \in [Workers -> Session]
      BY <1>1, <2>1, <2>2 DEF Shapes
    <3> QED
      BY <1>1, <2>1, <3>1, <3>2 DEF Shapes
  <2>8. WorkerFits(w)'
    BY <1>6, <2>1, <2>2, <2>3, <2>4, <2>5, <2>6 DEF LogsGrow
  <2>9. (\A z \in sent' : SentInTime(z)') /\ DecisionsExplainActions'
    BY <1>1, <2>1 DEF SentInTime, DecisionsExplainActions
  <2> QED
    BY <2>1, <2>3, <2>7, <2>8, <2>9, LocalStep
<1>9. CASE Refuses(w)
  BY <1>9, Refusing
<1>10. \/ Refuses(w)
       \/ Writable /\ Accepts(logs[h], q, n) /\ logs' # logs
       \/ Repeats(logs[h], q, n) /\ logs' = logs
  <2>1. CASE Writable /\ Accepts(logs[h], q, n)
    <3>1. CausedAt(logs[h], q) = {}
      BY <2>1 DEF Accepts
    <3>2. ~Repeats(logs[h], q, n)
      BY <3>1 DEF Repeats
    <3>3. PICK t \in NextTurns(logs[h]) :
              logs' = [logs EXCEPT ![h] = Append(logs[h], [by |-> q, turn |-> t])]
      BY <1>2, <1>3, <2>1, <3>2 DEF Executes
    <3>4. logs[h] \in Seq(Batch) /\ logs'[h] = Append(logs[h], [by |-> q, turn |-> t])
      BY <1>1, <1>4, <3>3 DEF Shapes
    <3>5. Len(logs'[h]) # Len(logs[h])
      BY <3>4
    <3> QED
      BY <2>1, <3>5
  <2>2. CASE ~(Writable /\ Accepts(logs[h], q, n))
    BY <1>2, <1>3, <2>2 DEF Executes, durable
  <2> QED
    BY <2>1, <2>2
<1> QED
  BY <1>7, <1>8, <1>9, <1>10

-----------------------------------------------------------------------------
(***************************************************************************)
(* The steps that write nothing of the table, and those that save.         *)
(***************************************************************************)
Sets(g, f, w, x) == g = [f EXCEPT ![w] = x] \/ (g = f /\ f[w] = x)

LEMMA Moving ==
  ASSUME TableAssumption, IInv, NEW w \in Workers, NEW place \in Places, place # "open",
         NEW q \in Request, NEW se \in Session, NEW n \in Nat,
         Sets(pc', pc, w, place), Sets(req', req, w, q), Sets(held', held, w, se),
         Sets(seen', seen, w, n),
         UNCHANGED <<row, logs, meta, commands, decisions, sent, answered>>,
         Fits(place, q, se, n)
  PROVE  IInv'
<1>1. Shapes /\ (\A r \in sent : SentInTime(r)) /\ DecisionsExplainActions
  BY DEF IInv
<1>2. /\ pc'[w] = place /\ req'[w] = q /\ held'[w] = se /\ seen'[w] = n /\ Alone(w)
      /\ pc' \in [Workers -> Places] /\ req' \in [Workers -> Request]
      /\ held' \in [Workers -> Session] /\ seen' \in [Workers -> Nat]
  BY <1>1 DEF Sets, Shapes, Alone
<1>3. Shapes'
  BY <1>1, <1>2 DEF Shapes
<1>4. (\A r \in sent' : SentInTime(r)') /\ DecisionsExplainActions'
  BY <1>1 DEF SentInTime, DecisionsExplainActions
<1>5. WorkerFits(w)'
  <2>1. Onward
    BY DEF Onward, RowMoves, LogsGrow
  <2>2. Fits(place, q, se, n)'
    BY <1>1, <1>3, <2>1, FitsOn
  <2> QED
    BY <1>2, <2>2 DEF WorkerFits
<1> QED
  BY <1>2, <1>3, <1>4, <1>5, LocalStep

\* What a worker has at hand, under names of its own.
LEMMA AtHand ==
  ASSUME IInv, NEW w \in Workers
  PROVE  \E place \in Places, q \in Request, se \in Session, n \in Nat :
             /\ place = pc[w] /\ q = req[w] /\ se = held[w] /\ n = seen[w]
             /\ Fits(place, q, se, n)
             /\ se.rev \in Nat /\ se.hand \in Nat /\ se.active \in BOOLEAN
             /\ row.rev \in Nat /\ row.hand \in Nat
<1>1. Shapes /\ Fits(pc[w], req[w], held[w], seen[w])
  BY DEF IInv, WorkersFit, WorkerFits
<1>2. /\ pc[w] \in Places /\ req[w] \in Request /\ held[w] \in Session /\ seen[w] \in Nat
  BY <1>1 DEF Shapes
<1>3. row.rev \in Nat /\ row.hand \in Nat
  BY <1>1, SessionParts DEF Shapes
<1> QED
  BY <1>1, <1>2, <1>3, SessionParts

LEMMA LoadNothingKeeps ==
  ASSUME TableAssumption, IInv, NEW w \in Workers, LoadNothing(w)
  PROVE  IInv'
<1>1. PICK place \in Places, q \in Request, se \in Session, n \in Nat :
           /\ place = pc[w] /\ q = req[w] /\ se = held[w] /\ n = seen[w]
           /\ Fits(place, q, se, n) /\ row.rev \in Nat /\ row.hand \in Nat
  BY AtHand
<1>2. CASE row.rev > 0
  BY <1>2, Refusing DEF LoadNothing
<1>3. CASE ~(row.rev > 0)
  <2> DEFINE first == [rev |-> 0, hand |-> 1, active |-> TRUE]
  <2>1. first \in Session /\ first.rev = 0 /\ first.hand = 1
    BY DEF Session
  <2>2. /\ held' = [held EXCEPT ![w] = first] /\ pc' = [pc EXCEPT ![w] = "create"]
        /\ UNCHANGED <<row, logs, meta, commands, decisions, sent, answered, req, seen>>
    BY <1>3 DEF LoadNothing, Goes, durable
  <2>3. q \in sent /\ q.kind = "create"
    BY <1>1 DEF Fits, RequestFits, LoadNothing
  <2>4. Fits("create", q, first, n)
    BY <1>1, <2>1, <2>3 DEF Fits, HeldFits, RequestFits, PlaceFits, WithoutSession, AfterRecord
  <2>5. /\ Sets(pc', pc, w, "create") /\ Sets(req', req, w, q) /\ Sets(held', held, w, first)
        /\ Sets(seen', seen, w, n)
    BY <1>1, <2>2 DEF Sets
  <2> QED
    BY <2>1, <2>2, <2>4, <2>5, Moving DEF Places
<1> QED
  BY <1>2, <1>3

LEMMA SaveCreatedKeeps ==
  ASSUME TableAssumption, IInv, NEW w \in Workers, SaveCreated(w)
  PROVE  IInv'
<1>1. PICK place \in Places, q \in Request, se \in Session, n \in Nat :
           /\ place = pc[w] /\ q = req[w] /\ se = held[w] /\ n = seen[w]
           /\ Fits(place, q, se, n) /\ row.rev \in Nat /\ row.hand \in Nat
  BY AtHand
<1>2. se = [rev |-> 0, hand |-> 1, active |-> TRUE] /\ q \in sent /\ q.kind = "create"
  BY <1>1 DEF Fits, HeldFits, RequestFits, SaveCreated
<1>3. se.rev = 0
  BY <1>2
<1>4. Saving(se)
  BY <1>1, <1>2, <1>3 DEF Saving
<1>5. RequestFits("insert", q)
  BY <1>2 DEF RequestFits, AfterRecord
<1> QED
  BY <1>1, <1>4, <1>5, SaveStep DEF SaveCreated

LEMMA RecoverKeeps ==
  ASSUME TableAssumption, IInv, NEW w \in Workers, RecoverTable(w) \/ Recovering(w)
  PROVE  IInv'
<1>1. PICK place \in Places, q \in Request, se \in Session, n \in Nat :
           /\ place = pc[w] /\ q = req[w] /\ se = held[w] /\ n = seen[w]
           /\ Fits(place, q, se, n) /\ row.rev \in Nat /\ row.hand \in Nat
  BY AtHand
<1>2. CASE row.rev = 0
  BY <1>2, Refusing DEF RecoverTable, Recovering, Recover
<1>3. CASE row.rev # 0
  <2>1. PICK s : s = After(row, logs[row.hand])
    OBVIOUS
  <2>2. s \in Session /\ s.rev = row.rev /\ s.hand = row.hand
        /\ (~s.active => ~row.active \/ Over(logs[row.hand]))
    BY <2>1, AfterSession DEF IInv, Shapes
  <2>3. Saving(s)
    BY <1>1, <1>3, <2>2 DEF Saving, IInv, HandsInTurn
  <2>4. CASE RecoverTable(w)
    <3>1. RequestFits("project", q)
      BY <1>1, <2>4 DEF Fits, RequestFits, AfterRecord, RecoverTable, Recover
    <3> QED
      BY <1>1, <1>3, <2>1, <2>3, <2>4, <3>1, SaveStep DEF RecoverTable, Recover
  <2>5. CASE Recovering(w)
    <3>1. RequestFits("answered", q)
      BY <1>1, <2>5 DEF Fits, RequestFits, AfterRecord, Recovering, Recover
    <3> QED
      BY <1>1, <1>3, <2>1, <2>3, <2>5, <3>1, SaveStep DEF Recovering, Recover
  <2> QED
    BY <2>4, <2>5
<1> QED
  BY <1>2, <1>3

\* A stored session a worker holds may be saved where it is.
LEMMA HeldSaves ==
  ASSUME IInv, NEW place, NEW se \in Session, HeldFits(place, se), place \notin WithoutSession
  PROVE  Saving(se)
<1>1. se.rev > 0 /\ se.rev <= row.rev /\ (se.rev = row.rev => se.hand = row.hand)
      /\ (~se.active => Over(logs[se.hand]))
  BY DEF HeldFits
<1>2. se.rev \in Nat /\ row.rev \in Nat
  BY SessionParts DEF IInv, Shapes
<1> QED
  BY <1>1, <1>2 DEF Saving

LEMMA SaveHeldKeeps ==
  ASSUME TableAssumption, IInv, NEW w \in Workers,
         SaveHero(w) \/ SaveOpened(w) \/ SavePlayed(w)
  PROVE  IInv'
<1>1. PICK place \in Places, q \in Request, se \in Session, n \in Nat :
           /\ place = pc[w] /\ q = req[w] /\ se = held[w] /\ n = seen[w]
           /\ Fits(place, q, se, n) /\ row.rev \in Nat /\ row.hand \in Nat
  BY AtHand
<1>2. place \in {"save", "opened", "played"}
  BY <1>1 DEF SaveHero, SaveOpened, SavePlayed
<1>3. Saving(se)
  BY <1>1, <1>2, HeldSaves DEF Fits, WithoutSession
<1>4. CASE SaveHero(w)
  <2>1. q \in sent /\ q.kind = "hero" /\ InLog(q) /\ meta
    BY <1>1, <1>4 DEF Fits, RequestFits, PlaceFits, SaveHero
  <2>2. RequestFits("record", q)
    BY <2>1 DEF RequestFits, AfterRecord
  <2> QED
    BY <1>1, <1>3, <1>4, <2>1, <2>2, SaveStep DEF SaveHero
<1>5. CASE SaveOpened(w) \/ SavePlayed(w)
  <2>1. q \in sent /\ q \in commands
    BY <1>1, <1>5 DEF Fits, RequestFits, AfterRecord, SaveOpened, SavePlayed
  <2>2. RequestFits("advance", q)
    BY <2>1 DEF RequestFits
  <2> QED
    BY <1>1, <1>3, <1>5, <2>2, SaveStep DEF SaveOpened, SavePlayed
<1> QED
  BY <1>4, <1>5

LEMMA NextHandSession ==
  ASSUME NEW se \in Session, NEW s, s = [se EXCEPT !.hand = @ + 1, !.active = TRUE]
  PROVE  s \in Session /\ s.rev = se.rev /\ s.hand = se.hand + 1 /\ s.active
<1> DEFINE t == [se EXCEPT !.hand = se.hand + 1]
<1>1. t \in Session /\ t.rev = se.rev /\ t.hand = se.hand + 1
  BY SessionParts DEF Session
<1>2. s = [t EXCEPT !.active = TRUE]
  OBVIOUS
<1> HIDE DEF t
<1> QED
  BY <1>1, <1>2 DEF Session

LEMMA StartNextKeeps ==
  ASSUME TableAssumption, IInv, NEW w \in Workers, StartNext(w)
  PROVE  IInv'
<1>1. PICK place \in Places, q \in Request, se \in Session, n \in Nat :
           /\ place = pc[w] /\ q = req[w] /\ se = held[w] /\ n = seen[w]
           /\ Fits(place, q, se, n) /\ row.rev \in Nat /\ row.hand \in Nat
           /\ se.rev \in Nat /\ se.hand \in Nat
  BY AtHand
<1>2. place = "start"
  BY <1>1 DEF StartNext
<1>3. PICK s : s = [se EXCEPT !.hand = @ + 1, !.active = TRUE]
  OBVIOUS
<1>4. s \in Session /\ s.rev = se.rev /\ s.hand = se.hand + 1 /\ s.active
  BY <1>3, NextHandSession
<1>5. /\ se.rev > 0 /\ se.rev <= row.rev /\ ~se.active /\ Over(logs[se.hand])
      /\ (se.rev = row.rev => se.hand = row.hand /\ row.hand < MaxHands) /\ meta
  BY <1>1, <1>2 DEF Fits, HeldFits, PlaceFits, WithoutSession
<1>6. Saving(s)
  BY <1>1, <1>4, <1>5 DEF Saving
<1>7. RequestFits("record", q) /\ q.kind = "next"
  BY <1>1, <1>2 DEF Fits, RequestFits, AfterRecord
<1> QED
  BY <1>1, <1>3, <1>5, <1>6, <1>7, SaveStep DEF StartNext

LEMMA SettleKeeps ==
  ASSUME TableAssumption, IInv, NEW w \in Workers, Settle(w)
  PROVE  IInv'
<1>1. PICK place \in Places, q \in Request, se \in Session, n \in Nat :
           /\ place = pc[w] /\ q = req[w] /\ se = held[w] /\ n = seen[w]
           /\ Fits(place, q, se, n) /\ row.rev \in Nat /\ row.hand \in Nat
           /\ se.rev \in Nat /\ se.hand \in Nat
  BY AtHand
<1>2. place = "settle"
  BY <1>1 DEF Settle
<1>3. PICK s : s = [se EXCEPT !.active = FALSE]
  OBVIOUS
<1>4. s \in Session /\ s.rev = se.rev /\ s.hand = se.hand
  BY <1>1, <1>3 DEF Session
<1>5. /\ se.rev > 0 /\ se.rev <= row.rev /\ Over(logs[se.hand])
      /\ (se.rev = row.rev => se.hand = row.hand)
  BY <1>1, <1>2 DEF Fits, HeldFits, PlaceFits, WithoutSession
<1>6. Saving(s)
  BY <1>1, <1>4, <1>5 DEF Saving
<1>7. RequestFits("review", q)
  BY <1>1, <1>2 DEF Fits, RequestFits, AfterRecord
<1> QED
  BY <1>1, <1>3, <1>6, <1>7, SaveStep DEF Settle

LEMMA ProjectKeeps ==
  ASSUME TableAssumption, IInv, NEW w \in Workers, Project(w)
  PROVE  IInv'
<1>1. PICK place \in Places, q \in Request, se \in Session, n \in Nat :
           /\ place = pc[w] /\ q = req[w] /\ se = held[w] /\ n = seen[w]
           /\ Fits(place, q, se, n) /\ row.rev \in Nat /\ row.hand \in Nat
           /\ se.rev \in Nat /\ se.hand \in Nat
  BY AtHand
<1>2. CASE ~(meta /\ RequireRevision(q, se) /\ MayTake(q, se))
  BY <1>1, <1>2, Refusing DEF Project
<1>3. CASE meta /\ RequireRevision(q, se) /\ MayTake(q, se)
  <2> DEFINE next == IF q.kind = "hero" THEN "turn" ELSE "start"
  <2>1. /\ pc' = [pc EXCEPT ![w] = next] /\ pc[w] = "project"
        /\ UNCHANGED <<row, logs, meta, commands, decisions, sent, answered, req, held, seen>>
    BY <1>1, <1>3 DEF Project, Goes, durable
  <2>2. /\ Sets(pc', pc, w, next) /\ Sets(req', req, w, q) /\ Sets(held', held, w, se)
        /\ Sets(seen', seen, w, n)
    BY <1>1, <2>1 DEF Sets
  <2>3. q \in sent /\ SentInTime(q) /\ q.kind # "create" /\ HeldFits("project", se)
    BY <1>1, <2>1 DEF IInv, Fits, RequestFits
  <2>4. q.kind # "hero" => q.kind = "next"
    BY <2>3 DEF SentInTime, Request, Kinds
  <2>5. ASSUME q.kind = "next", se.rev = row.rev PROVE row.hand < MaxHands
    <3>1. q.rev = se.rev * SequenceRange + Len(logs[se.hand])
      BY <1>3 DEF RequireRevision, Revision
    <3>2. se.hand \in 0 .. MaxHands
      <4>1. se.hand <= row.hand
        BY <2>3 DEF HeldFits
      <4>2. row.hand \in 0 .. MaxHands
        BY DEF IInv, Shapes
      <4> QED
        BY <1>1, <4>1, <4>2 DEF TableAssumption
    <3>3. Len(logs[se.hand]) \in Nat
      BY <3>2 DEF IInv, Shapes
    <3>4. row.rev * SequenceRange \in Nat
      BY <1>1 DEF TableAssumption
    <3>5. q.rev >= row.rev * SequenceRange
      BY <2>5, <3>1, <3>3, <3>4
    <3> QED
      BY <2>3, <2>5, <3>5 DEF SentInTime
  <2>6. HeldFits(next, se)
    BY <2>3 DEF HeldFits, WithoutSession
  <2>7. RequestFits(next, q)
    BY <2>3, <2>4 DEF RequestFits, AfterRecord
  <2>8. PlaceFits(next, q, se, n)
    BY <1>3, <2>4, <2>5 DEF PlaceFits, MayTake
  <2>9. next \in Places /\ next # "open"
    BY DEF Places
  <2> QED
    BY <2>1, <2>2, <2>6, <2>7, <2>8, <2>9, Moving DEF Fits
<1> QED
  BY <1>2, <1>3

LEMMA TakeTurnKeeps ==
  ASSUME TableAssumption, IInv, NEW w \in Workers, TakeTurn(w)
  PROVE  IInv'
<1>1. PICK place \in Places, q \in Request, se \in Session, n \in Nat :
           /\ place = pc[w] /\ q = req[w] /\ se = held[w] /\ n = seen[w]
           /\ Fits(place, q, se, n) /\ row.rev \in Nat /\ row.hand \in Nat
           /\ se.rev \in Nat /\ se.hand \in Nat
  BY AtHand
<1>2. HeldFits("turn", se) /\ RequestFits("turn", q) /\ PlaceFits("turn", q, se, n)
  BY <1>1 DEF Fits, TakeTurn
<1>3. PICK m : m = Len(logs[se.hand])
  OBVIOUS
<1>4. m \in Nat
  BY <1>1, <1>2, <1>3 DEF HeldFits, IInv, Shapes
<1>5. CASE Refuses(w)
  BY <1>5, Refusing
<1>6. CASE ~Refuses(w)
  <2>1. /\ pc' = [pc EXCEPT ![w] = "execute"] /\ seen' = [seen EXCEPT ![w] = m]
        /\ UNCHANGED <<row, logs, meta, commands, decisions, sent, answered, req, held>>
    BY <1>1, <1>3, <1>6 DEF TakeTurn, Goes, durable
  <2>2. /\ Sets(pc', pc, w, "execute") /\ Sets(req', req, w, q) /\ Sets(held', held, w, se)
        /\ Sets(seen', seen, w, m)
    BY <1>1, <2>1 DEF Sets
  <2>3. Fits("execute", q, se, m)
    BY <1>2 DEF Fits, HeldFits, RequestFits, PlaceFits, WithoutSession, AfterRecord
  <2> QED
    BY <1>4, <2>1, <2>2, <2>3, Moving DEF Places
<1> QED
  BY <1>5, <1>6

LEMMA AdvanceKeeps ==
  ASSUME TableAssumption, IInv, NEW w \in Workers, Advance(w)
  PROVE  IInv'
<1>1. PICK place \in Places, q \in Request, se \in Session, n \in Nat :
           /\ place = pc[w] /\ q = req[w] /\ se = held[w] /\ n = seen[w]
           /\ Fits(place, q, se, n) /\ row.rev \in Nat /\ row.hand \in Nat
           /\ se.rev \in Nat /\ se.hand \in Nat
  BY AtHand
<1>2. HeldFits("advance", se) /\ q \in sent /\ q \in commands
  BY <1>1 DEF Fits, RequestFits, AfterRecord, Advance
<1>3. PICK m : m = Len(logs[se.hand])
  OBVIOUS
<1>4. m \in Nat
  BY <1>1, <1>2, <1>3 DEF HeldFits, IInv, Shapes
<1>5. PICK next \in {"answer", "settle", "bot"} :
           /\ pc' = [pc EXCEPT ![w] = next]
           /\ next = "settle" => Over(logs[se.hand])
  <2> DEFINE es == logs[held[w].hand]
             stops == ~held[w].active \/ (~Over(es) /\ StopsAt(es))
  <2>1. pc' = [pc EXCEPT ![w] = CASE stops -> "answer" [] ~stops /\ Over(es) -> "settle" [] OTHER -> "bot"]
    BY DEF Advance, Goes
  <2>2. CASE stops
    BY <2>1, <2>2
  <2>3. CASE ~stops /\ Over(es)
    BY <1>1, <2>1, <2>3
  <2>4. CASE ~stops /\ ~Over(es)
    BY <2>1, <2>4
  <2> QED
    BY <2>2, <2>3, <2>4
<1>6. /\ seen' = [seen EXCEPT ![w] = m]
      /\ UNCHANGED <<row, logs, meta, commands, decisions, sent, answered, req, held>>
  BY <1>1, <1>3 DEF Advance, durable
<1>7. /\ Sets(pc', pc, w, next) /\ Sets(req', req, w, q) /\ Sets(held', held, w, se)
      /\ Sets(seen', seen, w, m)
  BY <1>1, <1>5, <1>6 DEF Sets
<1>8. Fits(next, q, se, m)
  BY <1>2, <1>5 DEF Fits, HeldFits, RequestFits, PlaceFits, WithoutSession
<1> QED
  BY <1>4, <1>6, <1>7, <1>8, Moving DEF Places

LEMMA ReviewKeeps ==
  ASSUME TableAssumption, IInv, NEW w \in Workers, Review(w)
  PROVE  IInv'
<1>1. PICK place \in Places, q \in Request, se \in Session, n \in Nat :
           /\ place = pc[w] /\ q = req[w] /\ se = held[w] /\ n = seen[w]
           /\ Fits(place, q, se, n) /\ row.rev \in Nat /\ row.hand \in Nat
  BY AtHand
<1>2. CASE Refuses(w)
  BY <1>2, Refusing
<1>3. CASE ~Refuses(w)
  <2>1. /\ pc' = [pc EXCEPT ![w] = "answer"]
        /\ UNCHANGED <<row, logs, meta, commands, decisions, sent, answered, req, held, seen>>
    BY <1>3 DEF Review, Goes
  <2>2. HeldFits("review", se) /\ q \in sent /\ q \in commands
    BY <1>1 DEF Fits, RequestFits, AfterRecord, Review
  <2>3. /\ Sets(pc', pc, w, "answer") /\ Sets(req', req, w, q) /\ Sets(held', held, w, se)
        /\ Sets(seen', seen, w, n)
    BY <1>1, <2>1 DEF Sets
  <2>4. Fits("answer", q, se, n)
    BY <2>2 DEF Fits, HeldFits, RequestFits, PlaceFits, WithoutSession
  <2> QED
    BY <2>1, <2>3, <2>4, Moving DEF Places
<1> QED
  BY <1>2, <1>3

LEMMA ExecuteHeroKeeps ==
  ASSUME TableAssumption, IInv, NEW w \in Workers, ExecuteHero(w)
  PROVE  IInv'
<1>1. CASE Refuses(w)
  BY <1>1, Refusing
<1>2. CASE Executes(w, req[w], "save")
  <2>1. PICK place \in Places, q \in Request, se \in Session, n \in Nat :
             /\ place = pc[w] /\ q = req[w] /\ se = held[w] /\ n = seen[w]
             /\ Fits(place, q, se, n)
    BY AtHand
  <2>2. place = "execute" /\ q.kind = "hero" /\ se.hand = q.hand
    BY <2>1 DEF ExecuteHero, Fits, RequestFits, PlaceFits
  <2>3. Executes(w, q, "save")
    BY <1>2, <2>1
  <2>4. ~Opens(q)
    BY <2>2 DEF Opens
  <2> QED
    BY <2>1, <2>2, <2>3, <2>4, ExecuteStep
<1> QED
  BY <1>1, <1>2 DEF ExecuteHero

LEMMA OpenHandKeeps ==
  ASSUME TableAssumption, IInv, NEW w \in Workers, OpenHand(w)
  PROVE  IInv'
<1>1. PICK place \in Places, q \in Request, se \in Session, n \in Nat :
           /\ place = pc[w] /\ q = req[w] /\ se = held[w] /\ n = seen[w]
           /\ Fits(place, q, se, n)
  BY AtHand
<1>2. place = "open" /\ q.kind # "hero" /\ q.kind # "bot"
  BY <1>1 DEF OpenHand, Fits, RequestFits, Opens
<1>3. Executes(w, q, "opened")
  BY <1>1 DEF OpenHand
<1> QED
  BY <1>1, <1>2, <1>3, ExecuteStep

LEMMA ExecuteBotKeeps ==
  ASSUME TableAssumption, IInv, NEW w \in Workers, ExecuteBot(w)
  PROVE  IInv'
<1>1. PICK place \in Places, q \in Request, se \in Session, n \in Nat :
           /\ place = pc[w] /\ q = req[w] /\ se = held[w] /\ n = seen[w]
           /\ Fits(place, q, se, n) /\ se.hand \in Nat
  BY AtHand
<1>2. PICK b : b = BotCommand(w)
  OBVIOUS
<1>3. b \in Request /\ b.kind = "bot" /\ b.id = NoId /\ ~Opens(b)
  BY <1>1, <1>2 DEF BotCommand, Request, Kinds, Opens
<1>4. Executes(w, b, "decision") /\ place = "bot"
  BY <1>1, <1>2 DEF ExecuteBot
<1> QED
  BY <1>1, <1>3, <1>4, ExecuteStep

LEMMA RecordDecisionKeeps ==
  ASSUME TableAssumption, IInv, NEW w \in Workers, RecordDecision(w)
  PROVE  IInv'
<1>1. PICK place \in Places, q \in Request, se \in Session, n \in Nat :
           /\ place = pc[w] /\ q = req[w] /\ se = held[w] /\ n = seen[w]
           /\ Fits(place, q, se, n) /\ row.hand \in Nat /\ se.hand \in Nat
  BY AtHand
<1>2. CASE Refuses(w)
  BY <1>2, Refusing
<1>3. CASE ~Refuses(w)
  <2>1. /\ decisions' = decisions \cup {<<se.hand, n + 1>>}
        /\ pc' = [pc EXCEPT ![w] = "played"]
        /\ UNCHANGED <<row, logs, meta, commands, sent, answered, req, held, seen>>
    BY <1>1, <1>3 DEF RecordDecision, DecisionKey, Goes
  <2>2. /\ HeldFits("decision", se) /\ q \in sent /\ q \in commands
        /\ n + 1 <= Len(logs[se.hand]) /\ logs[se.hand][n + 1].by.kind = "bot"
    BY <1>1 DEF Fits, RequestFits, PlaceFits, AfterRecord, RecordDecision
  <2>3. Shapes /\ DecisionsExplainActions /\ \A r \in sent : SentInTime(r)
    BY DEF IInv
  <2>4. se.hand \in 0 .. MaxHands
    <3>1. se.hand <= row.hand
      BY <2>2 DEF HeldFits
    <3>2. row.hand \in 0 .. MaxHands
      BY <2>3 DEF Shapes
    <3> QED
      BY <1>1, <3>1, <3>2 DEF TableAssumption
  <2>5. Shapes'
    BY <1>1, <2>1, <2>3, <2>4 DEF Shapes, Places
  <2>6. DecisionsExplainActions'
    BY <2>1, <2>2, <2>3 DEF DecisionsExplainActions
  <2>7. Alone(w) /\ pc'[w] = "played" /\ req'[w] = q /\ held'[w] = se /\ seen'[w] = n
    BY <1>1, <2>1, <2>3 DEF Alone, Shapes
  <2>8. WorkerFits(w)'
    <3>1. Fits("played", q, se, n)
      BY <2>2 DEF Fits, HeldFits, RequestFits, PlaceFits, WithoutSession
    <3>2. Fits("played", q, se, n)'
      BY <2>1, <2>3, <2>5, <3>1, FitsOn DEF Onward, RowMoves, LogsGrow, Places
    <3> QED
      BY <2>7, <3>2 DEF WorkerFits
  <2>9. \A r \in sent' : SentInTime(r)'
    BY <2>1, <2>3 DEF SentInTime
  <2> QED
    BY <2>1, <2>5, <2>6, <2>7, <2>8, <2>9, LocalStep
<1> QED
  BY <1>2, <1>3

LEMMA EndKeeps ==
  ASSUME TableAssumption, IInv, NEW w \in Workers, Answer(w) \/ Die(w)
  PROVE  IInv'
<1>1. Shapes
  BY DEF IInv
<1>2. CASE Die(w)
  BY <1>1, <1>2, Ending DEF Die, Shapes
<1>3. CASE Answer(w)
  <2>1. PICK place \in Places, q \in Request, se \in Session, n \in Nat :
             /\ place = pc[w] /\ q = req[w] /\ se = held[w] /\ n = seen[w]
             /\ Fits(place, q, se, n)
    BY AtHand
  <2>2. q \in commands
    BY <1>3, <2>1 DEF Answer, Fits, RequestFits, AfterRecord
  <2>3. CASE Refuses(w)
    BY <2>3, Refusing
  <2>4. CASE ~Refuses(w)
    BY <1>1, <1>3, <2>1, <2>2, <2>4, Ending DEF Answer, Shapes
  <2> QED
    BY <2>3, <2>4
<1> QED
  BY <1>2, <1>3

LEMMA ReceiveKeeps ==
  ASSUME TableAssumption, IInv, NEW w \in Workers, NEW q \in Sendable, Receive(w, q)
  PROVE  IInv'
<1>1. PICK place \in Places, old \in Request, se \in Session, n \in Nat :
           /\ place = pc[w] /\ old = req[w] /\ se = held[w] /\ n = seen[w]
           /\ Fits(place, old, se, n) /\ row.rev \in Nat /\ row.hand \in Nat
  BY AtHand
<1>2. /\ Shapes /\ (\A r \in sent : SentInTime(r)) /\ DecisionsExplainActions
      /\ (\A k \in 0 .. MaxHands : LogKept(k, logs[k])) /\ place = "idle"
  BY <1>1 DEF IInv, Receive
<1>3. /\ sent' = sent \cup {q}
      /\ UNCHANGED <<row, logs, meta, commands, decisions, held, seen, answered>>
  BY DEF Receive, durable
<1>4. Len(logs[row.hand]) \in Nat /\ Len(logs[row.hand]) < SequenceRange
      /\ row.hand \in 0 .. MaxHands /\ row.rev * SequenceRange \in Nat /\ SequenceRange \in Nat
  <2>1. row.hand \in 0 .. MaxHands
    BY <1>2 DEF Shapes
  <2>2. logs[row.hand] \in Seq(Batch) /\ LogKept(row.hand, logs[row.hand])
    BY <1>2, <2>1 DEF Shapes
  <2>3. Len(logs[row.hand]) \in Nat /\ Len(logs[row.hand]) <= MaxBatches
    BY <2>2 DEF LogKept
  <2>4. MaxBatches \in Nat /\ SequenceRange \in Nat /\ MaxBatches < SequenceRange
    BY DEF TableAssumption
  <2>5. row.rev * SequenceRange \in Nat
    BY <1>1, <2>4
  <2> QED
    BY <2>1, <2>3, <2>4, <2>5
<1>5. q \in Request /\ SentInTime(q)
  <2>1. CASE q \in sent
    BY <1>2, <2>1 DEF Shapes
  <2>2. CASE q \notin sent
    <3>1. PICK i \in Ids :
              \/ q = [kind |-> "create", id |-> i, hand |-> 0, rev |-> 0]
              \/ q = [kind |-> "hero", id |-> i, hand |-> row.hand, rev |-> CurrentRevision]
              \/ q = [kind |-> "next", id |-> i, hand |-> 0, rev |-> CurrentRevision]
                 /\ row.hand < MaxHands
      BY <2>2 DEF Sendable
    <3>2. CurrentRevision \in Nat /\ CurrentRevision < (row.rev + 1) * SequenceRange
      <4>1. PICK r \in Nat : r = row.rev * SequenceRange
        BY <1>4
      <4>2. (row.rev + 1) * SequenceRange = r + SequenceRange
        BY <1>1, <1>4, <4>1
      <4>3. CurrentRevision = r + Len(logs[row.hand])
        BY <4>1 DEF CurrentRevision, Revision
      <4> QED
        BY <1>4, <4>2, <4>3
    <3>3. PICK r \in Nat : r = CurrentRevision
      BY <3>2
    <3>4. CASE q = [kind |-> "create", id |-> i, hand |-> 0, rev |-> 0]
      BY <3>4 DEF Request, Kinds, SentInTime
    <3>5. CASE q = [kind |-> "hero", id |-> i, hand |-> row.hand, rev |-> r]
      BY <1>1, <1>4, <3>5 DEF Request, Kinds, SentInTime
    <3>6. CASE q = [kind |-> "next", id |-> i, hand |-> 0, rev |-> r] /\ row.hand < MaxHands
      <4>1. q \in Request
        BY <3>6 DEF Request, Kinds
      <4> QED
        BY <3>2, <3>3, <3>6, <4>1 DEF SentInTime
    <3> QED
      BY <3>1, <3>3, <3>4, <3>5, <3>6
  <2> QED
    BY <2>1, <2>2
<1>6. \A r \in sent' : SentInTime(r)'
  BY <1>2, <1>3, <1>5 DEF SentInTime
<1>7. PICK next \in {"idle", "load", "recover", "answer"}, new \in Request :
           /\ Sets(pc', pc, w, next) /\ Sets(req', req, w, new)
           /\ next # "idle" => new = q
           /\ next = "load" => q.kind = "create"
           /\ next = "recover" => q.kind # "create"
           /\ next = "answer" => q \in commands
  <2>1. CASE Recorded(q) = {}
    <3>1. CASE q.kind = "create"
      BY <1>5, <2>1, <3>1 DEF Receive, Goes, Sets
    <3>2. CASE q.kind # "create"
      BY <1>5, <2>1, <3>2 DEF Receive, Goes, Sets
    <3> QED
      BY <3>1, <3>2
  <2>2. CASE Recorded(q) # {} /\ SameRequest(q)
    <3>1. q \in commands
      BY <2>2 DEF SameRequest, Recorded
    <3>2. pc' = [pc EXCEPT ![w] = "answer"] /\ req' = [req EXCEPT ![w] = q]
      BY <2>2 DEF Receive, Goes
    <3> QED
      BY <1>5, <3>1, <3>2 DEF Sets
  <2>3. CASE Recorded(q) # {} /\ ~SameRequest(q)
    BY <1>1, <1>2, <2>3 DEF Receive, Sets
  <2> QED
    BY <2>1, <2>2, <2>3
<1>8. /\ pc'[w] = next /\ req'[w] = new /\ held'[w] = se /\ seen'[w] = n /\ Alone(w)
      /\ pc' \in [Workers -> Places] /\ req' \in [Workers -> Request]
  <2>1. pc \in [Workers -> Places] /\ req \in [Workers -> Request] /\ next \in Places
    BY <1>2 DEF Shapes, Places
  <2>2. pc' \in [Workers -> Places] /\ pc'[w] = next /\ \A v \in Workers \ {w} : pc'[v] = pc[v]
    BY <1>7, <2>1 DEF Sets
  <2>3. req' \in [Workers -> Request] /\ req'[w] = new /\ \A v \in Workers \ {w} : req'[v] = req[v]
    BY <1>7, <2>1 DEF Sets
  <2> QED
    BY <1>1, <1>3, <2>2, <2>3 DEF Alone
<1>9. Shapes'
  BY <1>2, <1>3, <1>5, <1>8 DEF Shapes
<1>10. WorkerFits(w)'
  <2>1. HeldFits(next, se)'
    BY <1>1, <1>2, <1>3, <1>7 DEF Fits, HeldFits, WithoutSession
  <2>2. RequestFits(next, new)'
    BY <1>3, <1>7 DEF RequestFits, AfterRecord
  <2>3. PlaceFits(next, new, se, n)'
    BY <1>7 DEF PlaceFits
  <2> QED
    BY <1>8, <2>1, <2>2, <2>3 DEF WorkerFits, Fits
<1>11. DecisionsExplainActions'
  BY <1>2, <1>3 DEF DecisionsExplainActions
<1> QED
  BY <1>3, <1>6, <1>8, <1>9, <1>10, <1>11, LocalStep

-----------------------------------------------------------------------------
(***************************************************************************)
(* Recording a request.                                                    *)
(***************************************************************************)
LEMMA Recording ==
  ASSUME TableAssumption, IInv, NEW w \in Workers, pc[w] \in {"insert", "record"},
         \A c \in commands : c.id # req[w].id,
         commands' = commands \cup {req[w]}, meta' = TRUE, seen' = [seen EXCEPT ![w] = 0],
         NEW next \in {"open", "advance"}, pc' = [pc EXCEPT ![w] = next],
         next = "open" <=> req[w].kind # "hero",
         UNCHANGED <<row, logs, decisions, sent, answered, req, held>>
  PROVE  IInv'
<1>1. PICK place \in Places, q \in Request, se \in Session, n \in Nat :
           /\ place = pc[w] /\ q = req[w] /\ se = held[w] /\ n = seen[w]
           /\ Fits(place, q, se, n)
  BY AtHand
<1>2. /\ Shapes /\ RowKept /\ (\A r \in sent : SentInTime(r))
      /\ (\A k \in 0 .. MaxHands : LogKept(k, logs[k]))
      /\ HandsInTurn /\ OpenedOnce /\ OneOpens /\ CommandsKept /\ DecisionsExplainActions /\ WorkersFit
  BY DEF IInv
<1>3. /\ q \in sent /\ (q.kind = "hero" => InLog(q)) /\ (next = "open" => Opens(q))
      /\ HeldFits(place, se) /\ place \notin WithoutSession /\ place # "create"
  <2>1. q \in sent /\ HeldFits(place, se) /\ (q.kind = "hero" => InLog(q))
    BY <1>1 DEF Fits, RequestFits, PlaceFits
  <2>2. q.kind # "bot"
    BY <1>2, <2>1 DEF SentInTime
  <2>3. next = "open" => Opens(q)
    BY <1>1, <2>2 DEF Opens, Request, Kinds
  <2> QED
    BY <1>1, <2>1, <2>3 DEF WithoutSession
<1>4. q \notin commands /\ q \in commands'
  BY <1>1
<1>5. /\ Alone(w) /\ pc'[w] = next /\ req'[w] = q /\ held'[w] = se /\ seen'[w] = 0
  BY <1>1, <1>2 DEF Alone, Shapes
<1>6. Shapes'
  BY <1>1, <1>2, <1>3 DEF Shapes, Places
<1>7. WorkerFits(w)'
  <2>1. HeldFits(next, se)'
    BY <1>3 DEF HeldFits, WithoutSession
  <2>2. RequestFits(next, q)'
    BY <1>3, <1>4 DEF RequestFits, Opens
  <2>3. PlaceFits(next, q, se, 0)'
    BY DEF PlaceFits
  <2> QED
    BY <1>5, <2>1, <2>2, <2>3 DEF WorkerFits, Fits
<1>8. WorkersFit'
  BY <1>5, <1>6, <1>7, OthersFit DEF Onward, RowMoves, LogsGrow
<1>9. /\ RowKept' /\ (\A r \in sent' : SentInTime(r)') /\ HandsInTurn' /\ DecisionsExplainActions'
  BY <1>2 DEF RowKept, SentInTime, HandsInTurn, DecisionsExplainActions
<1>10. \A k \in 0 .. MaxHands : LogKept(k, logs[k])'
  BY <1>2 DEF LogKept
<1>11. CommandsKept'
  BY <1>1, <1>2, <1>3 DEF CommandsKept, InLog
<1>12. \A v \in Workers \ {w} : pc'[v] = "open" => pc[v] = "open" /\ req'[v] = req[v] /\ req[v] \in commands
  BY <1>2, <1>5 DEF Alone, WorkersFit, WorkerFits, Fits, RequestFits, AfterRecord
<1>13. OneOpens'
  BY <1>2, <1>4, <1>5, <1>12 DEF OneOpens
<1>14. OpenedOnce'
  <2>1. \A h \in 0 .. MaxHands : \A i \in 1 .. Len(logs[h]) :
           Opens(logs[h][i].by) => /\ logs[h][i].by \in commands
                                   /\ \A v \in Workers : pc[v] = "open" => req[v] # logs[h][i].by
    BY <1>2 DEF OpenedOnce
  <2>2. ASSUME NEW h \in 0 .. MaxHands, NEW i \in 1 .. Len(logs[h]), Opens(logs[h][i].by)
        PROVE  /\ logs[h][i].by \in commands'
               /\ \A v \in Workers : pc'[v] = "open" => req'[v] # logs[h][i].by
    <3>1. /\ logs[h][i].by \in commands
          /\ \A v \in Workers : pc[v] = "open" => req[v] # logs[h][i].by
      BY <2>1, <2>2
    <3>2. ASSUME NEW v \in Workers, pc'[v] = "open" PROVE req'[v] # logs[h][i].by
      <4>1. CASE v = w
        BY <1>4, <1>5, <3>1, <4>1
      <4>2. CASE v # w
        BY <1>12, <3>1, <3>2, <4>2
      <4> QED
        BY <4>1, <4>2
    <3> QED
      BY <3>1, <3>2
  <2> QED
    BY <1>2, <2>2 DEF OpenedOnce, Opens
<1> QED
  BY <1>6, <1>8, <1>9, <1>10, <1>11, <1>13, <1>14 DEF IInv

LEMMA InsertMetadataKeeps ==
  ASSUME TableAssumption, IInv, NEW w \in Workers, InsertMetadata(w)
  PROVE  IInv'
<1>1. CASE Wedges(w) \/ Refuses(w)
  BY <1>1, Wedging, Refusing
<1>2. CASE ~Wedges(w) /\ ~Refuses(w)
  <2>1. PICK place \in Places, q \in Request, se \in Session, n \in Nat :
             /\ place = pc[w] /\ q = req[w] /\ se = held[w] /\ n = seen[w]
             /\ Fits(place, q, se, n)
    BY AtHand
  <2>2. /\ ~meta /\ meta' = TRUE /\ commands' = commands \cup {req[w]}
        /\ seen' = [seen EXCEPT ![w] = 0] /\ pc' = [pc EXCEPT ![w] = "open"]
        /\ pc[w] = "insert"
        /\ UNCHANGED <<row, logs, decisions, sent, answered, req, held>>
    BY <1>2 DEF InsertMetadata, Goes
  <2>3. commands = {} /\ req[w].kind = "create"
    BY <2>1, <2>2 DEF IInv, CommandsKept, Fits, RequestFits
  <2> QED
    BY <2>2, <2>3, Recording
<1> QED
  BY <1>1, <1>2

LEMMA RecordCommandKeeps ==
  ASSUME TableAssumption, IInv, NEW w \in Workers, RecordCommand(w)
  PROVE  IInv'
<1>1. CASE Wedges(w) \/ Refuses(w)
  BY <1>1, Wedging, Refusing
<1>2. CASE ~Wedges(w) /\ ~Refuses(w)
  <2>1. PICK place \in Places, q \in Request, se \in Session, n \in Nat :
             /\ place = pc[w] /\ q = req[w] /\ se = held[w] /\ n = seen[w]
             /\ Fits(place, q, se, n)
    BY AtHand
  <2>2. /\ \A c \in commands : c.id # req[w].id
        /\ meta' = meta /\ commands' = commands \cup {req[w]}
        /\ seen' = [seen EXCEPT ![w] = 0]
        /\ pc' = [pc EXCEPT ![w] = IF req[w].kind = "hero" THEN "advance" ELSE "open"]
        /\ pc[w] = "record"
        /\ UNCHANGED <<row, logs, decisions, sent, answered, req, held>>
    BY <1>2 DEF RecordCommand, Goes
  <2>3. meta' = TRUE
    BY <2>1, <2>2 DEF IInv, Shapes, Fits, PlaceFits
  <2>4. CASE req[w].kind = "hero"
    BY <2>2, <2>3, <2>4, Recording
  <2>5. CASE req[w].kind # "hero"
    BY <2>2, <2>3, <2>5, Recording
  <2> QED
    BY <2>4, <2>5
<1> QED
  BY <1>1, <1>2

-----------------------------------------------------------------------------
(***************************************************************************)
(* The invariant holds.                                                    *)
(***************************************************************************)
LEMMA InitHolds == ASSUME TableAssumption, Init PROVE IInv
<1>1. /\ row.rev = 0 /\ row.hand = 0 /\ row \in Session /\ row = NoSession
      /\ NoRequest \in Request /\ NoSession \in Session
  BY DEF Init, NoSession, NoRequest, Session, Request, Kinds
<1>2. logs \in [0 .. MaxHands -> Seq(Batch)] /\ \A h \in 0 .. MaxHands : logs[h] = <<>>
  BY DEF Init
<1>3. MaxHands \in Nat \ {0} /\ MaxBatches \in Nat \ {0}
  BY DEF TableAssumption
<1>4. Shapes
  <2>1. row \in Session /\ row.hand \in 0 .. MaxHands /\ meta \in BOOLEAN
    <3>1. row.hand \in 0 .. MaxHands
      BY <1>1, <1>3
    <3>2. meta = FALSE
      BY DEF Init
    <3> QED
      BY <1>1, <3>1, <3>2
  <2>3. /\ sent \subseteq Request /\ commands \subseteq sent /\ answered \subseteq commands
        /\ decisions \subseteq (0 .. MaxHands) \X (Nat \ {0})
    <3>1. sent = {} /\ commands = {} /\ answered = {} /\ decisions = {}
      BY DEF Init
    <3> QED
      BY <3>1
  <2>2. /\ pc \in [Workers -> Places] /\ req \in [Workers -> Request]
        /\ held \in [Workers -> Session] /\ seen \in [Workers -> Nat]
    BY <1>1 DEF Init, Places
  <2> QED
    BY <1>2, <2>1, <2>2, <2>3 DEF Shapes
<1>5. ~Over(<<>>) /\ Len(<<>>) = 0
  BY DEF Over
<1>6. \A h \in 0 .. MaxHands : LogKept(h, logs[h])
  BY <1>2, <1>3, <1>5 DEF LogKept
<1>7. HandsInTurn
  BY <1>1, <1>2, <1>3 DEF HandsInTurn, Hands
<1>8. OpenedOnce
  <2>1. \A h \in 0 .. MaxHands : 1 .. Len(logs[h]) = {}
    BY <1>2, <1>5
  <2> QED
    BY <2>1 DEF OpenedOnce
<1>9. OneOpens /\ CommandsKept /\ DecisionsExplainActions /\ RowKept /\ \A q \in sent : SentInTime(q)
  BY <1>1 DEF Init, OneOpens, CommandsKept, DecisionsExplainActions, RowKept
<1>10. WorkersFit
  BY <1>1 DEF Init, WorkersFit, WorkerFits, Fits, HeldFits, RequestFits, PlaceFits,
              WithoutSession, AfterRecord, NoSession
<1> QED
  BY <1>4, <1>6, <1>7, <1>8, <1>9, <1>10 DEF IInv

LEMMA StepKeeps == ASSUME TableAssumption, IInv, [Next]_vars PROVE IInv'
<1>1. CASE UNCHANGED vars
  <2>1. /\ UNCHANGED <<row, logs, meta, commands, decisions, sent, answered, pc, req, held, seen>>
    BY <1>1 DEF vars, durable, local
  <2>2. Shapes' /\ RowKept' /\ (\A q \in sent' : SentInTime(q)')
    BY <2>1 DEF IInv, Shapes, RowKept, SentInTime
  <2>3. \A h \in 0 .. MaxHands : LogKept(h, logs[h])'
    BY <2>1 DEF IInv, LogKept
  <2>4. HandsInTurn' /\ CommandsKept' /\ DecisionsExplainActions'
    BY <2>1 DEF IInv, HandsInTurn, CommandsKept, InLog, DecisionsExplainActions
  <2>5. OpenedOnce' /\ OneOpens'
    BY <2>1 DEF IInv, OpenedOnce, OneOpens, Opens
  <2>6. WorkersFit'
    BY <2>1 DEF IInv, WorkersFit, WorkerFits, Fits, HeldFits, RequestFits, PlaceFits, InLog, Opens
  <2> QED
    BY <2>2, <2>3, <2>4, <2>5, <2>6 DEF IInv
<1>2. CASE Next
  <2>1. PICK w \in Workers : Work(w) \/ Die(w) \/ \E q \in Sendable : Receive(w, q)
    BY <1>2 DEF Next
  <2>2. CASE Die(w)
    BY <2>2, EndKeeps
  <2>3. CASE \E q \in Sendable : Receive(w, q)
    BY <2>3, ReceiveKeeps
  <2>4. CASE Work(w)
    <3>1. CASE LoadNothing(w) \/ SaveCreated(w) \/ InsertMetadata(w)
      BY <3>1, LoadNothingKeeps, SaveCreatedKeeps, InsertMetadataKeeps
    <3>2. CASE RecoverTable(w) \/ Recovering(w)
      BY <3>2, RecoverKeeps
    <3>3. CASE Project(w) \/ TakeTurn(w) \/ ExecuteHero(w)
      BY <3>3, ProjectKeeps, TakeTurnKeeps, ExecuteHeroKeeps
    <3>4. CASE SaveHero(w) \/ SaveOpened(w) \/ SavePlayed(w)
      BY <3>4, SaveHeldKeeps
    <3>5. CASE StartNext(w) \/ RecordCommand(w) \/ OpenHand(w)
      BY <3>5, StartNextKeeps, RecordCommandKeeps, OpenHandKeeps
    <3>6. CASE Advance(w) \/ Settle(w) \/ Review(w)
      BY <3>6, AdvanceKeeps, SettleKeeps, ReviewKeeps
    <3>7. CASE ExecuteBot(w) \/ RecordDecision(w) \/ Answer(w)
      BY <3>7, ExecuteBotKeeps, RecordDecisionKeeps, EndKeeps
    <3> QED
      BY <2>4, <3>1, <3>2, <3>3, <3>4, <3>5, <3>6, <3>7 DEF Work
  <2> QED
    BY <2>1, <2>2, <2>3, <2>4
<1> QED
  BY <1>1, <1>2

-----------------------------------------------------------------------------
(***************************************************************************)
(* Requests.                                                               *)
(***************************************************************************)
LEMMA AtMostOne ==
  ASSUME NEW S, \A x, y \in S : x = y
  PROVE  Cardinality(S) <= 1 /\ (S # {} => Cardinality(S) = 1)
<1>1. CASE S = {}
  BY <1>1, FS_EmptySet
<1>2. CASE S # {}
  <2>1. PICK x : S = {x}
    BY <1>2
  <2>2. Cardinality(S) = 1
    BY <2>1, FS_Singleton
  <2> QED
    BY <1>2, <2>2
<1> QED
  BY <1>1, <1>2

LEMMA OneBatch ==
  ASSUME TableAssumption, IInv, NEW q \in sent
  PROVE  Cardinality(BatchesOf(q)) <= 1 /\ (BatchesOf(q) # {} => Cardinality(BatchesOf(q)) = 1)
<1>1. Shapes /\ SentInTime(q) /\ OpenedOnce /\ \A h \in 0 .. MaxHands : LogKept(h, logs[h])
  BY DEF IInv
<1>2. q.kind = "hero" \/ Opens(q)
  BY <1>1 DEF Shapes, SentInTime, Opens, Request, Kinds
<1>3. ASSUME NEW x \in BatchesOf(q), NEW y \in BatchesOf(q) PROVE x = y
  <2>1. PICK h \in Hands, i \in 1 .. MaxBatches : x = <<h, i>> /\ i <= Len(logs[h]) /\ logs[h][i].by = q
    BY DEF BatchesOf
  <2>2. PICK k \in Hands, j \in 1 .. MaxBatches : y = <<k, j>> /\ j <= Len(logs[k]) /\ logs[k][j].by = q
    BY DEF BatchesOf
  <2>3. h \in 0 .. MaxHands /\ k \in 0 .. MaxHands
    BY DEF Hands, TableAssumption
  <2>4. i \in 1 .. Len(logs[h]) /\ j \in 1 .. Len(logs[k])
    <3>1. Len(logs[h]) \in Nat /\ Len(logs[k]) \in Nat
      BY <1>1, <2>3 DEF Shapes
    <3> QED
      BY <2>1, <2>2, <3>1 DEF TableAssumption
  <2>5. CASE q.kind = "hero"
    <3>1. LogKept(h, logs[h]) /\ LogKept(k, logs[k])
      BY <1>1, <2>3
    <3>2. h = q.hand /\ k = q.hand
      BY <2>1, <2>2, <2>4, <2>5, <3>1 DEF LogKept
    <3> QED
      BY <2>1, <2>2, <2>4, <3>1, <3>2 DEF LogKept
  <2>6. CASE Opens(q)
    <3>1. h = k
      BY <1>1, <2>1, <2>2, <2>3, <2>4, <2>6 DEF OpenedOnce
    <3> QED
      BY <1>1, <2>1, <2>2, <2>3, <2>4, <3>1 DEF LogKept
  <2> QED
    BY <1>2, <2>5, <2>6
<1> QED
  BY <1>3, AtMostOne

LEMMA InvariantSuffices == ASSUME TableAssumption, IInv PROVE RequestsHold
<1>1. /\ Shapes /\ (\A q \in sent : SentInTime(q)) /\ CommandsKept
      /\ HandsInTurn /\ DecisionsExplainActions /\ \A h \in 0 .. MaxHands : LogKept(h, logs[h])
  BY DEF IInv
<1>2. TypeOK
  <2>1. \A h \in 0 .. MaxHands : /\ Len(logs[h]) <= MaxBatches
                                 /\ \A i \in 1 .. Len(logs[h]) : logs[h][i] \in Batch
    <3>1. ASSUME NEW h \in 0 .. MaxHands PROVE logs[h] \in Seq(Batch) /\ Len(logs[h]) <= MaxBatches
      BY <1>1 DEF Shapes, LogKept
    <3> QED
      BY <3>1
  <2>2. row.hand <= MaxHands
    BY <1>1 DEF Shapes, TableAssumption
  <2> QED
    BY <1>1, <2>1, <2>2 DEF Shapes, TypeOK
<1>3. OncePerRequest
  BY OneBatch DEF OncePerRequest
<1>4. AnsweredTookEffect
  <2> SUFFICES ASSUME NEW q \in answered \cup commands, q.kind = "hero"
               PROVE  Cardinality(CausedAt(logs[q.hand], q)) = 1
    BY DEF AnsweredTookEffect
  <2>1. q \in commands /\ q \in sent
    BY <1>1 DEF Shapes
  <2>2. q.hand \in 0 .. MaxHands /\ InLog(q)
    BY <1>1, <2>1 DEF CommandsKept, SentInTime
  <2>3. \A i, j \in CausedAt(logs[q.hand], q) : i = j
    BY <1>1, <2>2 DEF CausedAt, LogKept
  <2> QED
    BY <2>2, <2>3, AtMostOne DEF InLog
<1> QED
  BY <1>1, <1>2, <1>3, <1>4 DEF RequestsHold

LEMMA AlwaysIInv == ASSUME TableAssumption PROVE Spec => []IInv
<1>1. Init => IInv
  BY InitHolds
<1>2. IInv /\ [Next]_vars => IInv'
  BY StepKeeps
<1> QED
  BY <1>1, <1>2, PTL DEF Spec

\* On any number of workers, with any number of deaths and failed transactions
\* between the transactions of a request: each request takes effect at most
\* once, what was answered or recorded is in its log, hands follow each other
\* without gaps, and stored decisions explain actions of bots (create,
\* submit_hero_action and start_next_hand).
THEOREM RequestsAlwaysHold == ASSUME TableAssumption PROVE Spec => []RequestsHold
<1>1. IInv => RequestsHold
  BY InvariantSuffices
<1> QED
  BY <1>1, AlwaysIInv, PTL

-----------------------------------------------------------------------------
(***************************************************************************)
(* Revisions.                                                              *)
(***************************************************************************)
\* What a step may do to the table: save a later row, or append to its hand.
TableMoves ==
    \/ row' = row /\ logs' = logs
    \/ row'.rev = row.rev + 1 /\ row'.hand \in 0 .. MaxHands /\ logs' = logs
    \/ row' = row /\ \E b : logs' = [logs EXCEPT ![row.hand] = Append(logs[row.hand], b)]

LEMMA SavesMove ==
  ASSUME IInv, IInv', NEW w, NEW se \in Session, NEW place, Saves(w, se, place)
  PROVE  TableMoves
<1>1. row'.hand \in 0 .. MaxHands /\ row.rev \in Nat
  BY SessionParts DEF IInv, Shapes
<1>2. CASE Refuses(w)
  BY <1>2 DEF Refuses, durable, TableMoves
<1>3. CASE ~Refuses(w)
  <2>1. row' = Stored(se) /\ logs' = logs
    BY <1>3 DEF Saves
  <2>2. row' = row \/ row' = [se EXCEPT !.rev = row.rev + 1]
    BY <2>1 DEF Stored
  <2>3. [se EXCEPT !.rev = row.rev + 1].rev = row.rev + 1
    BY DEF Session
  <2> QED
    BY <1>1, <2>1, <2>2, <2>3 DEF TableMoves
<1> QED
  BY <1>2, <1>3

LEMMA ExecutesMove ==
  ASSUME TableAssumption, IInv, NEW w \in Workers, NEW q, NEW place,
         pc[w] \in {"execute", "open", "bot"}, Executes(w, q, place)
  PROVE  TableMoves
<1>1. PICK p \in Places, r \in Request, se \in Session, n \in Nat :
           /\ p = pc[w] /\ r = req[w] /\ se = held[w] /\ n = seen[w]
           /\ Fits(p, r, se, n) /\ row.rev \in Nat /\ row.hand \in Nat
           /\ se.rev \in Nat /\ se.hand \in Nat
  BY AtHand
<1>2. se.hand \in Hands /\ se.hand <= row.hand
  BY <1>1 DEF Fits, HeldFits, WithoutSession
<1>3. CASE row' = row /\ logs' = logs
  BY <1>3 DEF TableMoves
<1>4. CASE ~(row' = row /\ logs' = logs)
  <2>1. Accepts(logs[se.hand], q, n)
    BY <1>1, <1>4 DEF Executes, Refuses, durable
  <2>2. \E b : logs' = [logs EXCEPT ![se.hand] = Append(logs[se.hand], b)] /\ row' = row
    BY <1>1, <1>4 DEF Executes, Refuses, durable
  <2>3. ~Over(logs[se.hand])
    BY <2>1 DEF Accepts
  <2>4. ~(se.hand < row.hand)
    BY <1>2, <2>3 DEF IInv, HandsInTurn
  <2>5. se.hand = row.hand
    BY <1>1, <1>2, <2>4
  <2> QED
    BY <2>2, <2>5 DEF TableMoves
<1> QED
  BY <1>3, <1>4

LEMMA StepMoves == ASSUME TableAssumption, IInv, IInv', [Next]_vars PROVE TableMoves
<1>1. CASE UNCHANGED <<row, logs>>
  BY <1>1 DEF TableMoves
<1>2. CASE ~UNCHANGED <<row, logs>>
  <2>1. PICK w \in Workers : Work(w) \/ Die(w) \/ \E q \in Sendable : Receive(w, q)
    BY <1>2 DEF Next, vars, durable
  <2>2. ~Die(w) /\ ~(\E q \in Sendable : Receive(w, q)) /\ ~Refuses(w) /\ ~Wedges(w)
    BY <1>2 DEF Die, Receive, Refuses, Wedges, durable
  <2>3. held[w] \in Session /\ row \in Session
    BY DEF IInv, Shapes
  <2>4. ~(LoadNothing(w) \/ InsertMetadata(w) \/ Project(w) \/ TakeTurn(w) \/ RecordCommand(w))
    BY <1>2, <2>2 DEF LoadNothing, InsertMetadata, Project, TakeTurn, RecordCommand, durable
  <2>5. ~(Advance(w) \/ Review(w) \/ RecordDecision(w) \/ Answer(w))
    BY <1>2, <2>2 DEF Advance, Review, RecordDecision, Answer, durable
  <2>6. CASE SaveCreated(w) \/ SaveHero(w) \/ SaveOpened(w) \/ SavePlayed(w)
    BY <2>3, <2>6, SavesMove DEF SaveCreated, SaveHero, SaveOpened, SavePlayed
  <2>7. CASE StartNext(w) \/ Settle(w)
    <3>1. [held[w] EXCEPT !.hand = @ + 1, !.active = TRUE] \in Session
      BY <2>3, NextHandSession
    <3>2. [held[w] EXCEPT !.active = FALSE] \in Session
      BY <2>3 DEF Session
    <3> QED
      BY <2>7, <3>1, <3>2, SavesMove DEF StartNext, Settle
  <2>8. CASE RecoverTable(w) \/ Recovering(w)
    <3>1. After(row, logs[row.hand]) \in Session
      BY <2>3, AfterSession
    <3> QED
      BY <2>2, <2>8, <3>1, SavesMove DEF RecoverTable, Recovering, Recover
  <2>9. CASE ExecuteHero(w) \/ OpenHand(w) \/ ExecuteBot(w)
    BY <2>2, <2>9, ExecutesMove DEF ExecuteHero, OpenHand, ExecuteBot
  <2> QED
    BY <2>1, <2>2, <2>4, <2>5, <2>6, <2>7, <2>8, <2>9 DEF Work
<1> QED
  BY <1>1, <1>2

LEMMA PastTheRange ==
  ASSUME NEW r \in Nat, NEW n \in Nat, NEW m \in Nat, NEW range \in Nat, n < range
  PROVE  r + n < r + range + m
OBVIOUS

\* The revision is the row's times SequenceRange plus the batches of its hand.
LEMMA MovesGrow ==
  ASSUME TableAssumption, IInv, IInv', TableMoves, <<row, logs>>' # <<row, logs>>
  PROVE  CurrentRevision' > CurrentRevision
<1>1. /\ row.hand \in 0 .. MaxHands /\ row.rev \in Nat /\ row'.hand \in 0 .. MaxHands
      /\ SequenceRange \in Nat /\ MaxBatches \in Nat /\ MaxBatches < SequenceRange
  <2>1. row \in Session /\ row.hand \in 0 .. MaxHands /\ row'.hand \in 0 .. MaxHands
    BY DEF IInv, Shapes
  <2>2. SequenceRange \in Nat /\ MaxBatches \in Nat /\ MaxBatches < SequenceRange
    BY DEF TableAssumption
  <2> QED
    BY <2>1, <2>2, SessionParts
<1>2. /\ logs[row.hand] \in Seq(Batch) /\ Len(logs[row.hand]) \in Nat
      /\ Len(logs[row.hand]) <= MaxBatches /\ Len(logs'[row'.hand]) \in Nat
  BY <1>1 DEF IInv, Shapes, LogKept
<1>3. PICK r \in Nat : r = row.rev * SequenceRange
  BY <1>1
<1>4. CurrentRevision = r + Len(logs[row.hand])
  BY <1>3 DEF CurrentRevision, Revision
<1>5. CurrentRevision' = row'.rev * SequenceRange + Len(logs'[row'.hand])
  BY DEF CurrentRevision, Revision
<1>6. CASE row'.rev = row.rev + 1
  <2>1. row'.rev * SequenceRange = r + SequenceRange
    BY <1>1, <1>3, <1>6
  <2>2. PICK n, m \in Nat : n = Len(logs[row.hand]) /\ m = Len(logs'[row'.hand])
    BY <1>2
  <2>3. n < SequenceRange
    <3>1. n <= MaxBatches
      BY <1>2, <2>2
    <3> QED
      BY <1>1, <2>2, <3>1
  <2>4. r + n < r + SequenceRange + m
    <3>1. SequenceRange \in Nat
      BY <1>1
    <3> QED
      BY <2>2, <2>3, <3>1, PastTheRange
  <2> QED
    BY <1>4, <1>5, <2>1, <2>2, <2>4
<1>7. CASE row' = row
  <2>1. PICK b : logs' = [logs EXCEPT ![row.hand] = Append(logs[row.hand], b)]
    BY <1>1, <1>7 DEF TableMoves
  <2>2. logs'[row'.hand] = Append(logs[row.hand], b)
    BY <1>1, <1>7, <2>1 DEF IInv, Shapes
  <2>3. Len(logs'[row'.hand]) = Len(logs[row.hand]) + 1
    <3>1. logs'[row'.hand] \in Seq(Batch)
      BY <1>1 DEF IInv, Shapes
    <3> QED
      BY <1>2, <2>2, <3>1
  <2>4. row'.rev * SequenceRange = r
    BY <1>3, <1>7
  <2> QED
    BY <1>2, <1>3, <1>4, <1>5, <2>3, <2>4
<1> QED
  BY <1>6, <1>7 DEF TableMoves

\* Whatever changes the session or its log, the revision a projection shows
\* afterwards is larger: no two states of a table share one, on any number of
\* workers (_projection's session.revision * 1_000_000 + sequence).
THEOREM RevisionsGrow == ASSUME TableAssumption PROVE Spec => RevisionGrows
<1>1. IInv /\ IInv' /\ [Next]_vars =>
          [row.rev > 0 /\ <<row, logs>>' # <<row, logs>> => CurrentRevision' > CurrentRevision]_vars
  BY StepMoves, MovesGrow
<1> QED
  BY <1>1, AlwaysIInv, PTL DEF Spec, RevisionGrows

-----------------------------------------------------------------------------
(***************************************************************************)
(* Requests one at a time.                                                 *)
(***************************************************************************)
\* The table before its creation, in a hand, in one whose end the row knows,
\* before the opening of its hand, and waiting for a request.
Untouched == row = NoSession /\ ~meta /\ commands = {} /\ \A h \in Hands : logs[h] = <<>>
InHand == row.rev > 0 /\ meta /\ logs[row.hand] # <<>>
Settled == InHand /\ row.active = ~Over(logs[row.hand])
Unopened == row.rev > 0 /\ row.active /\ logs[row.hand] = <<>>
Resting == Untouched \/ (Settled /\ (Turn(logs[row.hand]) = "hero" \/ ~row.active))

\* What the one running request finds at its places.
TableAt(place, se, n) ==
    /\ place \notin {"settle", "review"}
    /\ place \in {"idle", "load", "recover", "project", "turn", "execute", "start", "answer", "answered"} => Resting
    /\ place = "create" => Untouched
    /\ place = "insert" => Unopened /\ ~meta /\ commands = {}
    /\ place = "open" => Unopened /\ meta /\ n = 0
    /\ place \in {"project", "turn", "execute", "start", "insert", "record", "open", "advance", "bot"} => row.rev > 0 /\ se = row
    /\ place \in {"save", "opened", "decision", "played"} =>
          InHand /\ row.active /\ se = After(row, logs[row.hand])
    /\ place \in {"advance", "bot"} => Settled
    /\ place = "bot" => row.active /\ Turn(logs[row.hand]) = "bot"
    /\ place \in {"execute", "bot"} => n = Len(logs[row.hand])
    /\ place = "decision" => n + 1 = Len(logs[row.hand])

InTable(q) == \E h \in Hands : \E i \in 1 .. Len(logs[h]) : logs[h][i].by = q
AfterOpening == {"opened", "advance", "bot", "decision", "played", "answer", "answered"}
BeforeRecord == {"recover", "project", "turn", "execute", "save", "start", "record"}

RequestAt(place, q) ==
    /\ place \in {"turn", "execute"} => q.rev = Revision(row, logs[row.hand]) /\ row.active
    /\ place = "record" => meta /\ IF q.kind = "hero" THEN Settled ELSE Unopened
    /\ place \in BeforeRecord => \A c \in commands : c.id # q.id
    /\ place \in AfterOpening /\ Opens(q) => InTable(q)
    /\ \A c \in commands : Opens(c) => InTable(c) \/ (place = "open" /\ c = q)
    /\ \A c \in answered : Opens(c) => InTable(c)

BotsAt(place, se, n) ==
    \A h \in Hands : \A i \in 1 .. Len(logs[h]) : logs[h][i].by.kind = "bot" =>
        /\ logs[h][i].by.rev = i - 1
        /\ <<h, i>> \in decisions \/ (place = "decision" /\ h = se.hand /\ i = n + 1)

Serves(place, q, se, n) ==
    TableAt(place, se, n) /\ RequestAt(place, q) /\ BotsAt(place, se, n) /\ PlayedWhereSeen

WorksAlone == \A v, w \in Workers : pc[v] # "idle" /\ pc[w] # "idle" => v = w
AllIdle == \A w \in Workers : pc[w] = "idle"
ServesAll ==
    /\ wedged = {} /\ WorksAlone
    /\ AllIdle => Serves("idle", NoRequest, NoSession, 0)
    /\ \A w \in Workers : pc[w] # "idle" => Serves(pc[w], req[w], held[w], seen[w])
UInv == crashes \in Nat /\ serial \in BOOLEAN /\ (serial /\ crashes = 0 => ServesAll)

\* What the running request has at hand, under names of its own.
LEMMA AtWork ==
  ASSUME TableAssumption, IInv, ServesAll, NEW w \in Workers, pc[w] # "idle"
  PROVE  \E place \in Places, q \in Request, se \in Session, n \in Nat :
             /\ place = pc[w] /\ q = req[w] /\ se = held[w] /\ n = seen[w]
             /\ Fits(place, q, se, n) /\ Serves(place, q, se, n)
<1>1. Shapes /\ Fits(pc[w], req[w], held[w], seen[w])
  BY DEF IInv, WorkersFit, WorkerFits
<1>2. Serves(pc[w], req[w], held[w], seen[w])
  BY DEF ServesAll
<1> QED
  BY <1>1, <1>2 DEF Shapes

\* The row and the log of its hand.
LEMMA TableShapes ==
  ASSUME TableAssumption, IInv
  PROVE  /\ row \in Session /\ row.rev \in Nat /\ row.hand \in 0 .. MaxHands /\ row.hand \in Nat
         /\ row.active \in BOOLEAN /\ (row.rev > 0 => row.hand \in Hands)
         /\ logs[row.hand] \in Seq(Batch) /\ Len(logs[row.hand]) \in Nat
         /\ \A h \in Hands : h \in 0 .. MaxHands /\ logs[h] \in Seq(Batch) /\ Len(logs[h]) \in Nat
         /\ (row.rev > 0 => HandsInTurn)
<1>1. row \in Session /\ row.rev \in Nat /\ row.hand \in 0 .. MaxHands /\ row.active \in BOOLEAN
  BY SessionParts DEF IInv, Shapes
<1>2. MaxHands \in Nat
  BY DEF TableAssumption
<1> QED
  BY <1>1, <1>2 DEF IInv, Shapes, RowKept, Hands

\* A step of the one running request serves if the place it leads to does.
LEMMA Served ==
  ASSUME IInv, ServesAll, NEW w \in Workers, pc[w] # "idle",
         NEW place \in Places, NEW q, NEW se, NEW n,
         Sets(pc', pc, w, place), Sets(req', req, w, q), Sets(held', held, w, se),
         Sets(seen', seen, w, n), wedged' = {}, Serves(place, q, se, n)'
  PROVE  ServesAll'
<1>1. /\ pc \in [Workers -> Places] /\ req \in [Workers -> Request]
      /\ held \in [Workers -> Session] /\ seen \in [Workers -> Nat]
  BY DEF IInv, Shapes
<1>2. pc'[w] = place /\ req'[w] = q /\ held'[w] = se /\ seen'[w] = n
  BY <1>1 DEF Sets
<1>3. \A v \in Workers \ {w} : pc[v] = "idle" /\ pc'[v] = pc[v]
  BY <1>1 DEF Sets, ServesAll, WorksAlone
<1>4. WorksAlone'
  BY <1>3 DEF WorksAlone
<1>5. ASSUME AllIdle' PROVE Serves("idle", NoRequest, NoSession, 0)'
  <2>1. place = "idle"
    BY <1>2, <1>5 DEF AllIdle
  <2> QED
    BY <2>1 DEF Serves, TableAt, RequestAt, BotsAt, BeforeRecord, AfterOpening
<1>6. ASSUME NEW v \in Workers, pc'[v] # "idle" PROVE Serves(pc[v], req[v], held[v], seen[v])'
  <2>1. v = w
    BY <1>3, <1>6
  <2> QED
    BY <1>2, <2>1
<1> QED
  BY <1>4, <1>5, <1>6 DEF ServesAll

\* What serves at a place keeps serving there when the table stays as it is.
LEMMA ServesStill ==
  ASSUME NEW place, NEW q, NEW se, NEW n, Serves(place, q, se, n),
         UNCHANGED <<row, logs, meta, commands, decisions>>,
         \A c \in answered' : Opens(c) => InTable(c)
  PROVE  Serves(place, q, se, n)'
<1>1. TableAt(place, se, n)'
  BY DEF Serves, TableAt, Untouched, InHand, Settled, Unopened, Resting, Over, Turn, After
<1>2. (InTable(q) <=> InTable(q)') /\ \A c : InTable(c) <=> InTable(c)'
  BY DEF InTable
<1>3. RequestAt(place, q)'
  BY <1>2 DEF Serves, RequestAt, Settled, InHand, Unopened, Revision, Over, Turn
<1>4. BotsAt(place, se, n)' /\ PlayedWhereSeen'
  BY DEF Serves, BotsAt, PlayedWhereSeen
<1> QED
  BY <1>1, <1>3, <1>4 DEF Serves

\* A request ends where the table rests.
Restful == {"load", "recover", "project", "turn", "execute", "answer", "answered"}

LEMMA EndServes ==
  ASSUME TableAssumption, IInv, ServesAll, NEW w \in Workers, pc[w] \in Restful, Ends(w),
         UNCHANGED <<row, logs, meta, commands, decisions>>, wedged' = {},
         \A c \in answered' : Opens(c) => InTable(c)
  PROVE  ServesAll'
<1>1. pc[w] # "idle"
  BY DEF Restful
<1>2. PICK place \in Places, q \in Request, se \in Session, n \in Nat :
           /\ place = pc[w] /\ q = req[w] /\ se = held[w] /\ n = seen[w]
           /\ Serves(place, q, se, n)
  BY <1>1, AtWork
<1>3. place \in Restful
  BY <1>2
<1>4. Serves("idle", NoRequest, NoSession, 0)
  <2>1. TableAt("idle", NoSession, 0)
    BY <1>2, <1>3 DEF Serves, TableAt, Restful
  <2>2. RequestAt("idle", NoRequest)
    BY <1>2, <1>3 DEF Serves, RequestAt, BeforeRecord, AfterOpening, Restful
  <2>3. BotsAt("idle", NoSession, 0)
    BY <1>2, <1>3 DEF Serves, BotsAt, Restful
  <2> QED
    BY <1>2, <2>1, <2>2, <2>3 DEF Serves
<1>5. Serves("idle", NoRequest, NoSession, 0)'
  BY <1>4, ServesStill
<1>6. /\ Sets(pc', pc, w, "idle") /\ Sets(req', req, w, NoRequest)
      /\ Sets(held', held, w, NoSession) /\ Sets(seen', seen, w, 0)
  BY DEF Ends, Goes, Sets
<1> QED
  BY <1>1, <1>5, <1>6, Served DEF Places

LEMMA RefuseServes ==
  ASSUME TableAssumption, IInv, ServesAll, NEW w \in Workers, pc[w] \in Restful, Refuses(w)
  PROVE  ServesAll'
<1>1. PICK place \in Places, q \in Request, se \in Session, n \in Nat : Serves(place, q, se, n)
  BY AtWork DEF Restful
<1>2. UNCHANGED <<row, logs, meta, commands, decisions, wedged, answered>> /\ Ends(w) /\ wedged = {}
  BY DEF Refuses, durable, ServesAll
<1>3. \A c \in answered' : Opens(c) => InTable(c)
  BY <1>1, <1>2 DEF Serves, RequestAt
<1> QED
  BY <1>2, <1>3, EndServes

\* A step that only moves the worker.
LEMMA MoveServes ==
  ASSUME TableAssumption, IInv, ServesAll, NEW w \in Workers, pc[w] # "idle", NEW place \in Places,
         NEW q, NEW se, NEW n, Sets(pc', pc, w, place), Sets(req', req, w, q),
         Sets(held', held, w, se), Sets(seen', seen, w, n),
         UNCHANGED <<row, logs, meta, commands, decisions, wedged, answered>>,
         Serves(place, q, se, n)
  PROVE  ServesAll'
<1>1. Serves(place, q, se, n)'
  <2>1. \A c \in answered' : Opens(c) => InTable(c)
    BY DEF Serves, RequestAt
  <2> QED
    BY <2>1, ServesStill
<1>2. wedged' = {}
  BY DEF ServesAll
<1> QED
  BY <1>1, <1>2, Served

LEMMA LoadServes ==
  ASSUME TableAssumption, IInv, ServesAll, NEW w \in Workers, LoadNothing(w)
  PROVE  ServesAll'
<1>1. pc[w] = "load" /\ pc[w] # "idle"
  BY DEF LoadNothing
<1>2. PICK place \in Places, q \in Request, se \in Session, n \in Nat :
           /\ place = pc[w] /\ q = req[w] /\ se = held[w] /\ n = seen[w]
           /\ Serves(place, q, se, n)
  BY <1>1, AtWork
<1>3. CASE row.rev > 0
  BY <1>1, <1>3, RefuseServes DEF LoadNothing, Restful
<1>4. CASE ~(row.rev > 0)
  <2> DEFINE first == [rev |-> 0, hand |-> 1, active |-> TRUE]
  <2>1. /\ held' = [held EXCEPT ![w] = first] /\ pc' = [pc EXCEPT ![w] = "create"]
        /\ UNCHANGED <<row, logs, meta, commands, decisions, wedged, answered, req, seen>>
    BY <1>4 DEF LoadNothing, Goes, durable
  <2>2. /\ Sets(pc', pc, w, "create") /\ Sets(req', req, w, q) /\ Sets(held', held, w, first)
        /\ Sets(seen', seen, w, n)
    BY <1>2, <2>1 DEF Sets
  <2>3. TableAt("create", first, n)
    BY <1>1, <1>2, <1>4 DEF Serves, TableAt, Resting, Settled, InHand
  <2>4. RequestAt("create", q)
    BY <1>1, <1>2 DEF Serves, RequestAt, BeforeRecord, AfterOpening
  <2>5. BotsAt("create", first, n)
    BY <1>1, <1>2 DEF Serves, BotsAt
  <2>6. Serves("create", q, first, n)
    BY <1>2, <2>3, <2>4, <2>5 DEF Serves
  <2> QED
    BY <1>1, <2>1, <2>2, <2>6, MoveServes DEF Places
<1> QED
  BY <1>3, <1>4

LEMMA StoredParts ==
  ASSUME NEW se \in Session
  PROVE  /\ row.hand = se.hand /\ row.active = se.active => Stored(se) = row
         /\ ~(row.hand = se.hand /\ row.active = se.active) =>
               Stored(se) = [rev |-> row.rev + 1, hand |-> se.hand, active |-> se.active]
<1> DEFINE s == [se EXCEPT !.rev = row.rev + 1]
<1>1. s = [rev |-> row.rev + 1, hand |-> se.hand, active |-> se.active]
  BY DEF Session
<1> QED
  BY <1>1 DEF Stored

\* A save with nobody in the way leads to a place that serves if the row does.
LEMMA SaveServes ==
  ASSUME TableAssumption, IInv, ServesAll, NEW w \in Workers, pc[w] # "idle",
         pc[w] \notin {"open", "decision"}, NEW se, NEW t, t = Stored(se), Savable(se),
         NEW place \in {"project", "insert", "advance", "record", "answered"}, Saves(w, se, place),
         row' = t => TableAt(place, t, seen[w])',
         row' = t => (place = "record" => meta /\ IF req[w].kind = "hero" THEN Settled' ELSE Unopened'),
         place \in BeforeRecord => pc[w] \in BeforeRecord,
         place \in AfterOpening => pc[w] \in AfterOpening
  PROVE  ServesAll'
<1>1. PICK p \in Places, q \in Request, s \in Session, n \in Nat :
           /\ p = pc[w] /\ q = req[w] /\ s = held[w] /\ n = seen[w]
           /\ Serves(p, q, s, n)
  BY AtWork
<1>2. /\ row' = t /\ pc' = [pc EXCEPT ![w] = place] /\ held' = [held EXCEPT ![w] = t]
      /\ UNCHANGED <<logs, meta, commands, decisions, wedged, req, seen, answered>>
  BY DEF Saves, ServesAll, Writable, Goes
<1>3. /\ Sets(pc', pc, w, place) /\ Sets(held', held, w, t)
      /\ Sets(req', req, w, q) /\ Sets(seen', seen, w, n) /\ wedged' = {}
  BY <1>1, <1>2 DEF Sets, ServesAll
<1>4. \A c : InTable(c) <=> InTable(c)'
  BY <1>2 DEF InTable
<1>5. TableAt(place, t, n)'
  BY <1>1, <1>2
<1>6. RequestAt(place, q)'
  <2>1. place = "record" => meta' /\ IF q.kind = "hero" THEN Settled' ELSE Unopened'
    BY <1>1, <1>2
  <2>2. p \notin {"open", "decision"} /\ place \notin {"turn", "execute", "open"}
    BY <1>1
  <2>3. /\ \A c \in commands' : Opens(c) => InTable(c)'
        /\ \A c \in answered' : Opens(c) => InTable(c)'
    BY <1>1, <1>2, <1>4, <2>2 DEF Serves, RequestAt
  <2>4. place \in BeforeRecord => \A c \in commands' : c.id # q.id
    BY <1>1, <1>2 DEF Serves, RequestAt
  <2>5. place \in AfterOpening /\ Opens(q) => InTable(q)'
    BY <1>1, <1>4 DEF Serves, RequestAt
  <2> QED
    BY <2>1, <2>2, <2>3, <2>4, <2>5 DEF RequestAt
<1>7. BotsAt(place, t, n)' /\ PlayedWhereSeen'
  BY <1>1, <1>2 DEF Serves, BotsAt, PlayedWhereSeen
<1>8. Serves(place, q, t, n)'
  BY <1>5, <1>6, <1>7 DEF Serves
<1>9. place \in Places
  BY DEF Places
<1> QED
  BY <1>3, <1>8, <1>9, Served

LEMMA CreateServes ==
  ASSUME TableAssumption, IInv, ServesAll, NEW w \in Workers, SaveCreated(w)
  PROVE  ServesAll'
<1>1. pc[w] = "create" /\ pc[w] # "idle"
  BY DEF SaveCreated
<1>2. PICK place \in Places, q \in Request, se \in Session, n \in Nat :
           /\ place = pc[w] /\ q = req[w] /\ se = held[w] /\ n = seen[w]
           /\ Fits(place, q, se, n) /\ Serves(place, q, se, n)
  BY <1>1, AtWork
<1>3. se = [rev |-> 0, hand |-> 1, active |-> TRUE] /\ Untouched
  BY <1>1, <1>2 DEF Fits, HeldFits, Serves, TableAt
<1>4. PICK t : t = Stored(se)
  OBVIOUS
<1>5. t = [rev |-> 1, hand |-> 1, active |-> TRUE] /\ Savable(se)
  <2>1. se.rev = 0 /\ se.hand = 1 /\ se.active /\ row.rev = 0 /\ row.hand = 0
    BY <1>3 DEF Untouched, NoSession
  <2>2. ~(row.hand = se.hand /\ row.active = se.active) /\ row.rev + 1 = 1 /\ se.active = TRUE
    BY <1>3, <2>1
  <2>3. t = [rev |-> row.rev + 1, hand |-> se.hand, active |-> se.active]
    BY <1>4, <2>2, StoredParts
  <2> QED
    BY <2>1, <2>2, <2>3 DEF Savable
<1>6. row' = t => TableAt("insert", t, seen[w])'
  <2>1. 1 \in Hands
    BY DEF Hands, TableAssumption
  <2>2. UNCHANGED <<logs, meta, commands>>
    BY <1>1, <1>2, <1>3, <1>5 DEF SaveCreated, Saves, ServesAll, Writable
  <2>3. row' = t => Unopened' /\ ~meta' /\ commands' = {} /\ row'.rev > 0
    BY <1>3, <1>5, <2>1, <2>2 DEF Untouched, Unopened
  <2> QED
    BY <2>3 DEF TableAt
<1> QED
  BY <1>1, <1>2, <1>4, <1>5, <1>6, SaveServes DEF SaveCreated, BeforeRecord, AfterOpening

\* A table that rests is recovered as it is.
LEMMA RecoverServes ==
  ASSUME TableAssumption, IInv, ServesAll, NEW w \in Workers, RecoverTable(w) \/ Recovering(w)
  PROVE  ServesAll'
<1>1. pc[w] \in {"recover", "answer"} /\ pc[w] # "idle"
  BY DEF RecoverTable, Recovering, Recover
<1>2. PICK place \in Places, q \in Request, se \in Session, n \in Nat :
           /\ place = pc[w] /\ q = req[w] /\ se = held[w] /\ n = seen[w]
           /\ Serves(place, q, se, n)
  BY <1>1, AtWork
<1>3. Resting
  BY <1>1, <1>2 DEF Serves, TableAt
<1>4. CASE row.rev = 0
  BY <1>1, <1>4, RefuseServes DEF RecoverTable, Recovering, Recover, Restful
<1>5. CASE row.rev # 0
  <2>1. Settled /\ row.rev > 0
    BY <1>3, <1>5 DEF Resting, Untouched, NoSession, Settled, InHand
  <2>2. row \in Session /\ row.active \in BOOLEAN
    BY TableShapes
  <2>3. PICK s : s = After(row, logs[row.hand])
    OBVIOUS
  <2>4. s = row
    BY <2>1, <2>2, <2>3 DEF After, Settled, Session
  <2>5. PICK t : t = Stored(s)
    OBVIOUS
  <2>6. t = row /\ Savable(s)
    BY <2>1, <2>4, <2>5 DEF Stored, Savable
  <2>7. PICK to \in {"project", "answered"} :
             /\ Saves(w, s, to)
             /\ to = "project" => pc[w] = "recover"
             /\ to = "answered" => pc[w] = "answer"
    BY <1>5, <2>3 DEF RecoverTable, Recovering, Recover
  <2>8. row' = t => TableAt(to, t, seen[w])'
    <3>1. UNCHANGED <<logs, meta, commands>>
      BY <2>6, <2>7 DEF Saves, ServesAll, Writable
    <3>2. row' = t => Resting' /\ row'.rev > 0
      BY <1>3, <2>1, <2>6, <3>1 DEF Resting, Untouched, Settled, InHand, Over, Turn
    <3> QED
      BY <3>2 DEF TableAt
  <2> QED
    BY <1>1, <2>5, <2>6, <2>7, <2>8, SaveServes DEF BeforeRecord, AfterOpening
<1> QED
  BY <1>4, <1>5

\* What was played is saved as it was found.
LEMMA SavePlayedServes ==
  ASSUME TableAssumption, IInv, ServesAll, NEW w \in Workers,
         SaveHero(w) \/ SaveOpened(w) \/ SavePlayed(w)
  PROVE  ServesAll'
<1>1. pc[w] \in {"save", "opened", "played"} /\ pc[w] # "idle"
  BY DEF SaveHero, SaveOpened, SavePlayed
<1>2. PICK place \in Places, q \in Request, se \in Session, n \in Nat :
           /\ place = pc[w] /\ q = req[w] /\ se = held[w] /\ n = seen[w]
           /\ Fits(place, q, se, n) /\ Serves(place, q, se, n)
  BY <1>1, AtWork
<1>3. InHand /\ row.active /\ se = After(row, logs[row.hand])
  BY <1>1, <1>2 DEF Serves, TableAt
<1>4. row \in Session /\ row.rev \in Nat /\ row.active \in BOOLEAN
  BY TableShapes
<1>5. se.rev = row.rev /\ se.hand = row.hand /\ se.active = ~Over(logs[row.hand])
  BY <1>3, <1>4 DEF After, Session
<1>6. PICK t : t = Stored(se)
  OBVIOUS
<1>7. t.hand = row.hand /\ t.active = ~Over(logs[row.hand]) /\ t.rev > 0 /\ Savable(se)
  <2>1. Savable(se)
    BY <1>3, <1>5 DEF Savable, InHand
  <2>2. CASE row.active = se.active
    <3>1. t = row
      BY <1>5, <1>6, <2>2, StoredParts
    <3> QED
      BY <1>3, <1>5, <2>1, <2>2, <3>1 DEF InHand
  <2>3. CASE row.active # se.active
    <3>1. t = [rev |-> row.rev + 1, hand |-> se.hand, active |-> se.active]
      BY <1>5, <1>6, <2>3, StoredParts
    <3> QED
      BY <1>4, <1>5, <2>1, <3>1
  <2> QED
    BY <2>2, <2>3
<1>8. PICK to \in {"record", "advance"} :
           /\ Saves(w, se, to)
           /\ to = "record" => pc[w] = "save"
           /\ to = "advance" => pc[w] \in {"opened", "played"}
  BY <1>2 DEF SaveHero, SaveOpened, SavePlayed
<1>9. UNCHANGED <<logs, meta, commands>>
  BY <1>7, <1>8 DEF Saves, ServesAll, Writable
<1>10. row' = t => Settled' /\ row'.rev > 0
  BY <1>3, <1>7, <1>9 DEF Settled, InHand, Over, Turn
<1>11. row' = t => TableAt(to, t, seen[w])'
  BY <1>10 DEF TableAt
<1>12. row' = t => (to = "record" => meta /\ IF req[w].kind = "hero" THEN Settled' ELSE Unopened')
  BY <1>1, <1>2, <1>3, <1>8, <1>10 DEF InHand, Fits, RequestFits
<1> QED
  BY <1>1, <1>6, <1>7, <1>8, <1>11, <1>12, SaveServes DEF BeforeRecord, AfterOpening

LEMMA StartServes ==
  ASSUME TableAssumption, IInv, ServesAll, NEW w \in Workers, StartNext(w)
  PROVE  ServesAll'
<1>1. pc[w] = "start" /\ pc[w] # "idle"
  BY DEF StartNext
<1>2. PICK place \in Places, q \in Request, se \in Session, n \in Nat :
           /\ place = pc[w] /\ q = req[w] /\ se = held[w] /\ n = seen[w]
           /\ Fits(place, q, se, n) /\ Serves(place, q, se, n)
  BY <1>1, AtWork
<1>3. Resting /\ row.rev > 0 /\ se = row /\ ~row.active /\ row.hand < MaxHands /\ q.kind = "next"
  BY <1>1, <1>2 DEF Serves, TableAt, Fits, PlaceFits, RequestFits
<1>4. row \in Session /\ row.rev \in Nat /\ row.hand \in Nat /\ MaxHands \in Nat /\ HandsInTurn
  BY <1>3, TableShapes DEF TableAssumption
<1>5. PICK s : s = [se EXCEPT !.hand = @ + 1, !.active = TRUE]
  OBVIOUS
<1>6. s.rev = row.rev /\ s.hand = row.hand + 1 /\ s.active /\ s \in Session
  BY <1>3, <1>4, <1>5, NextHandSession
<1>7. PICK t : t = Stored(s)
  OBVIOUS
<1>8. t.hand = row.hand + 1 /\ t.active /\ t.rev > 0 /\ Savable(s)
  <2>1. Savable(s)
    BY <1>3, <1>6 DEF Savable
  <2>2. t = [rev |-> row.rev + 1, hand |-> s.hand, active |-> s.active]
    BY <1>4, <1>6, <1>7, StoredParts
  <2> QED
    BY <1>4, <1>6, <2>1, <2>2
<1>9. Saves(w, s, "record")
  BY <1>2, <1>5 DEF StartNext
<1>10. UNCHANGED <<logs, meta, commands>>
  BY <1>8, <1>9 DEF Saves, ServesAll, Writable
<1>11. logs[row.hand + 1] = <<>>
  BY <1>3, <1>4 DEF HandsInTurn, Hands
<1>12. row' = t => Unopened' /\ row'.rev > 0
  BY <1>8, <1>10, <1>11 DEF Unopened
<1>13. row' = t => TableAt("record", t, seen[w])'
  BY <1>12 DEF TableAt
<1>14. meta
  BY <1>3 DEF Resting, Untouched, NoSession, Settled, InHand
<1> QED
  BY <1>1, <1>2, <1>3, <1>7, <1>8, <1>9, <1>12, <1>13, <1>14, SaveServes DEF BeforeRecord, AfterOpening

LEMMA ProjectServes ==
  ASSUME TableAssumption, IInv, ServesAll, NEW w \in Workers, Project(w)
  PROVE  ServesAll'
<1>1. pc[w] = "project" /\ pc[w] # "idle"
  BY DEF Project
<1>2. PICK place \in Places, q \in Request, se \in Session, n \in Nat :
           /\ place = pc[w] /\ q = req[w] /\ se = held[w] /\ n = seen[w]
           /\ Serves(place, q, se, n)
  BY <1>1, AtWork
<1>3. CASE Refuses(w)
  BY <1>1, <1>3, RefuseServes DEF Restful
<1>4. CASE ~Refuses(w)
  <2>1. /\ RequireRevision(q, se) /\ MayTake(q, se)
        /\ pc' = [pc EXCEPT ![w] = IF q.kind = "hero" THEN "turn" ELSE "start"]
        /\ UNCHANGED <<row, logs, meta, commands, decisions, wedged, answered, req, held, seen>>
    BY <1>2, <1>4 DEF Project, Goes, durable
  <2>2. PICK to \in {"turn", "start"} : to = IF q.kind = "hero" THEN "turn" ELSE "start"
    OBVIOUS
  <2>3. /\ Sets(pc', pc, w, to) /\ Sets(req', req, w, q) /\ Sets(held', held, w, se)
        /\ Sets(seen', seen, w, n)
    BY <1>2, <2>1, <2>2 DEF Sets
  <2>4. TableAt(to, se, n)
    BY <1>1, <1>2 DEF Serves, TableAt
  <2>5. se = row
    BY <1>1, <1>2 DEF Serves, TableAt
  <2>6. to = "turn" => q.rev = Revision(row, logs[row.hand]) /\ row.active
    BY <2>1, <2>2, <2>5 DEF RequireRevision, MayTake
  <2>7. RequestAt(to, q)
    BY <1>1, <1>2, <2>6 DEF Serves, RequestAt, BeforeRecord, AfterOpening
  <2>8. BotsAt(to, se, n)
    BY <1>1, <1>2 DEF Serves, BotsAt
  <2>9. Serves(to, q, se, n)
    BY <1>2, <2>4, <2>7, <2>8 DEF Serves
  <2> QED
    BY <1>1, <2>1, <2>3, <2>9, MoveServes DEF Places
<1> QED
  BY <1>3, <1>4

LEMMA TakeTurnServes ==
  ASSUME TableAssumption, IInv, ServesAll, NEW w \in Workers, TakeTurn(w)
  PROVE  ServesAll'
<1>1. pc[w] = "turn" /\ pc[w] # "idle"
  BY DEF TakeTurn
<1>2. PICK place \in Places, q \in Request, se \in Session, n \in Nat :
           /\ place = pc[w] /\ q = req[w] /\ se = held[w] /\ n = seen[w]
           /\ Serves(place, q, se, n)
  BY <1>1, AtWork
<1>3. CASE Refuses(w)
  BY <1>1, <1>3, RefuseServes DEF Restful
<1>4. CASE ~Refuses(w)
  <2>1. se = row
    BY <1>1, <1>2 DEF Serves, TableAt
  <2>2. PICK m : m = Len(logs[row.hand])
    OBVIOUS
  <2>3. /\ pc' = [pc EXCEPT ![w] = "execute"] /\ seen' = [seen EXCEPT ![w] = m]
        /\ UNCHANGED <<row, logs, meta, commands, decisions, wedged, answered, req, held>>
    BY <1>2, <1>4, <2>1, <2>2 DEF TakeTurn, Goes, durable
  <2>4. /\ Sets(pc', pc, w, "execute") /\ Sets(req', req, w, q) /\ Sets(held', held, w, se)
        /\ Sets(seen', seen, w, m)
    BY <1>2, <2>3 DEF Sets
  <2>5. TableAt("execute", se, m)
    BY <1>1, <1>2, <2>2 DEF Serves, TableAt
  <2>6. RequestAt("execute", q)
    BY <1>1, <1>2 DEF Serves, RequestAt, BeforeRecord, AfterOpening
  <2>7. BotsAt("execute", se, m)
    BY <1>1, <1>2 DEF Serves, BotsAt
  <2>8. Serves("execute", q, se, m)
    BY <1>2, <2>5, <2>6, <2>7 DEF Serves
  <2> QED
    BY <1>1, <2>3, <2>4, <2>8, MoveServes DEF Places
<1> QED
  BY <1>3, <1>4

\* The loop of the bots stops at the hero or behind the end of the hand, whose row
\* is settled already.
LEMMA AdvanceServes ==
  ASSUME TableAssumption, IInv, ServesAll, NEW w \in Workers, Advance(w)
  PROVE  ServesAll'
<1>1. pc[w] = "advance" /\ pc[w] # "idle"
  BY DEF Advance
<1>2. PICK place \in Places, q \in Request, se \in Session, n \in Nat :
           /\ place = pc[w] /\ q = req[w] /\ se = held[w] /\ n = seen[w]
           /\ Serves(place, q, se, n)
  BY <1>1, AtWork
<1>3. Settled /\ se = row /\ row.rev > 0
  BY <1>1, <1>2 DEF Serves, TableAt
<1>4. PICK es : es = logs[row.hand]
  OBVIOUS
<1>5. es \in Seq(Batch) /\ es # <<>> /\ row.active = ~Over(es)
  BY <1>3, <1>4, TableShapes DEF Settled, InHand
<1>6. Turn(es) \in Turns /\ (Over(es) <=> Turn(es) = "over")
  <2>1. Len(es) \in 1 .. Len(es) /\ es[Len(es)] \in Batch
    BY <1>5
  <2> QED
    BY <1>5, <2>1 DEF Turn, Over, Batch
<1>7. PICK m : m = Len(es)
  OBVIOUS
<1>8. PICK to \in {"answer", "bot"} :
           /\ pc' = [pc EXCEPT ![w] = to]
           /\ to = "answer" => ~row.active \/ Turn(es) = "hero"
           /\ to = "bot" => row.active /\ Turn(es) = "bot"
  <2> DEFINE stops == ~row.active \/ (~Over(es) /\ StopsAt(es))
  <2>1. pc' = [pc EXCEPT ![w] = CASE stops -> "answer" [] ~stops /\ Over(es) -> "settle" [] OTHER -> "bot"]
    BY <1>2, <1>3, <1>4 DEF Advance, Goes
  <2>2. ~(~stops /\ Over(es))
    BY <1>5
  <2>3. CASE stops
    BY <2>1, <2>3 DEF StopsAt
  <2>4. CASE ~stops
    <3>1. pc' = [pc EXCEPT ![w] = "bot"]
      BY <2>1, <2>2, <2>4
    <3>2. row.active /\ Turn(es) # "hero" /\ Turn(es) # "over"
      BY <1>5, <1>6, <2>4 DEF StopsAt
    <3> QED
      BY <1>6, <3>1, <3>2 DEF Turns
  <2> QED
    BY <2>3, <2>4
<1>9. /\ seen' = [seen EXCEPT ![w] = m]
      /\ UNCHANGED <<row, logs, meta, commands, decisions, wedged, answered, req, held>>
  BY <1>2, <1>3, <1>4, <1>7 DEF Advance, durable
<1>10. /\ Sets(pc', pc, w, to) /\ Sets(req', req, w, q) /\ Sets(held', held, w, se)
       /\ Sets(seen', seen, w, m)
  BY <1>2, <1>8, <1>9 DEF Sets
<1>11. TableAt(to, se, m)
  BY <1>3, <1>4, <1>7, <1>8 DEF TableAt, Resting
<1>12. RequestAt(to, q)
  BY <1>1, <1>2 DEF Serves, RequestAt, BeforeRecord, AfterOpening
<1>13. BotsAt(to, se, m)
  BY <1>1, <1>2 DEF Serves, BotsAt
<1>14. Serves(to, q, se, m)
  BY <1>2, <1>11, <1>12, <1>13 DEF Serves
<1> QED
  BY <1>1, <1>9, <1>10, <1>14, MoveServes DEF Places

-----------------------------------------------------------------------------
\* What is recorded was done, or is about to open its hand.
LEMMA InsertServes ==
  ASSUME TableAssumption, IInv, ServesAll, NEW w \in Workers, InsertMetadata(w)
  PROVE  ServesAll'
<1>1. pc[w] = "insert" /\ pc[w] # "idle"
  BY DEF InsertMetadata
<1>2. PICK place \in Places, q \in Request, se \in Session, n \in Nat :
           /\ place = pc[w] /\ q = req[w] /\ se = held[w] /\ n = seen[w]
           /\ Serves(place, q, se, n)
  BY <1>1, AtWork
<1>3. Unopened /\ ~meta /\ commands = {} /\ row.rev > 0 /\ se = row /\ Writable
  BY <1>1, <1>2 DEF Serves, TableAt, ServesAll, Writable
<1>4. /\ meta' = TRUE /\ commands' = {q} /\ seen' = [seen EXCEPT ![w] = 0]
      /\ pc' = [pc EXCEPT ![w] = "open"]
      /\ UNCHANGED <<row, logs, decisions, wedged, req, held, answered>>
  BY <1>2, <1>3 DEF InsertMetadata, Goes
<1>5. /\ Sets(pc', pc, w, "open") /\ Sets(req', req, w, q) /\ Sets(held', held, w, se)
      /\ Sets(seen', seen, w, 0) /\ wedged' = {}
  BY <1>2, <1>4 DEF Sets, ServesAll
<1>6. TableAt("open", se, 0)'
  BY <1>3, <1>4 DEF TableAt, Unopened
<1>7. RequestAt("open", q)'
  <2>1. \A c \in answered' : Opens(c) => InTable(c)'
    BY <1>2, <1>4 DEF Serves, RequestAt, InTable
  <2> QED
    BY <1>4, <2>1 DEF RequestAt, BeforeRecord, AfterOpening
<1>8. BotsAt("open", se, 0)' /\ PlayedWhereSeen'
  BY <1>1, <1>2, <1>4 DEF Serves, BotsAt, PlayedWhereSeen
<1>9. Serves("open", q, se, 0)'
  BY <1>6, <1>7, <1>8 DEF Serves
<1> QED
  BY <1>1, <1>5, <1>9, Served DEF Places

LEMMA RecordServes ==
  ASSUME TableAssumption, IInv, ServesAll, NEW w \in Workers, RecordCommand(w)
  PROVE  ServesAll'
<1>1. pc[w] = "record" /\ pc[w] # "idle"
  BY DEF RecordCommand
<1>2. PICK place \in Places, q \in Request, se \in Session, n \in Nat :
           /\ place = pc[w] /\ q = req[w] /\ se = held[w] /\ n = seen[w]
           /\ Serves(place, q, se, n)
  BY <1>1, AtWork
<1>3. /\ meta /\ row.rev > 0 /\ se = row /\ Writable
      /\ (IF q.kind = "hero" THEN Settled ELSE Unopened)
      /\ \A c \in commands : c.id # q.id
  BY <1>1, <1>2 DEF Serves, TableAt, RequestAt, BeforeRecord, ServesAll, Writable
<1>4. PICK to \in {"advance", "open"} : to = IF q.kind = "hero" THEN "advance" ELSE "open"
  OBVIOUS
<1>5. /\ commands' = commands \cup {q} /\ seen' = [seen EXCEPT ![w] = 0]
      /\ pc' = [pc EXCEPT ![w] = to]
      /\ UNCHANGED <<row, logs, meta, decisions, wedged, req, held, answered>>
  BY <1>2, <1>3, <1>4 DEF RecordCommand, Goes
<1>6. /\ Sets(pc', pc, w, to) /\ Sets(req', req, w, q) /\ Sets(held', held, w, se)
      /\ Sets(seen', seen, w, 0) /\ wedged' = {}
  BY <1>2, <1>5 DEF Sets, ServesAll
<1>7. TableAt(to, se, 0)'
  BY <1>3, <1>4, <1>5 DEF TableAt, Unopened, Settled, InHand, Over, Turn
<1>8. RequestAt(to, q)'
  <2>1. \A c : InTable(c) <=> InTable(c)'
    BY <1>5 DEF InTable
  <2>2. to = "advance" => ~Opens(q)
    BY <1>4 DEF Opens
  <2>3. \A c \in commands' : Opens(c) => InTable(c)' \/ (to = "open" /\ c = q)
    BY <1>1, <1>2, <1>4, <1>5, <2>1, <2>2 DEF Serves, RequestAt
  <2>4. \A c \in answered' : Opens(c) => InTable(c)'
    BY <1>2, <1>5, <2>1 DEF Serves, RequestAt
  <2> QED
    BY <2>2, <2>3, <2>4 DEF RequestAt, BeforeRecord, AfterOpening
<1>9. BotsAt(to, se, 0)' /\ PlayedWhereSeen'
  BY <1>1, <1>2, <1>5 DEF Serves, BotsAt, PlayedWhereSeen
<1>10. Serves(to, q, se, 0)'
  BY <1>7, <1>8, <1>9 DEF Serves
<1> QED
  BY <1>1, <1>6, <1>10, Served DEF Places

LEMMA DecisionServes ==
  ASSUME TableAssumption, IInv, ServesAll, NEW w \in Workers, RecordDecision(w)
  PROVE  ServesAll'
<1>1. pc[w] = "decision" /\ pc[w] # "idle"
  BY DEF RecordDecision
<1>2. PICK place \in Places, q \in Request, se \in Session, n \in Nat :
           /\ place = pc[w] /\ q = req[w] /\ se = held[w] /\ n = seen[w]
           /\ Serves(place, q, se, n)
  BY <1>1, AtWork
<1>3. /\ decisions' = decisions \cup {<<se.hand, n + 1>>} /\ pc' = [pc EXCEPT ![w] = "played"]
      /\ UNCHANGED <<row, logs, meta, commands, wedged, req, held, seen, answered>>
  BY <1>2 DEF RecordDecision, DecisionKey, Goes, ServesAll, Writable
<1>4. /\ Sets(pc', pc, w, "played") /\ Sets(req', req, w, q) /\ Sets(held', held, w, se)
      /\ Sets(seen', seen, w, n) /\ wedged' = {}
  BY <1>2, <1>3 DEF Sets, ServesAll
<1>5. TableAt("played", se, n)'
  BY <1>1, <1>2, <1>3 DEF Serves, TableAt, InHand, After, Over, Turn
<1>6. RequestAt("played", q)'
  <2>1. \A c : InTable(c) <=> InTable(c)'
    BY <1>3 DEF InTable
  <2> QED
    BY <1>1, <1>2, <1>3, <2>1 DEF Serves, RequestAt, BeforeRecord, AfterOpening
<1>7. BotsAt("played", se, n)' /\ PlayedWhereSeen'
  BY <1>1, <1>2, <1>3 DEF Serves, BotsAt, PlayedWhereSeen
<1>8. Serves("played", q, se, n)'
  BY <1>5, <1>6, <1>7 DEF Serves
<1> QED
  BY <1>1, <1>4, <1>8, Served DEF Places

LEMMA AnswerServes ==
  ASSUME TableAssumption, IInv, ServesAll, NEW w \in Workers, Answer(w)
  PROVE  ServesAll'
<1>1. pc[w] = "answered" /\ pc[w] # "idle"
  BY DEF Answer
<1>2. PICK place \in Places, q \in Request, se \in Session, n \in Nat :
           /\ place = pc[w] /\ q = req[w] /\ se = held[w] /\ n = seen[w]
           /\ Serves(place, q, se, n)
  BY <1>1, AtWork
<1>3. CASE Refuses(w)
  BY <1>1, <1>3, RefuseServes DEF Restful
<1>4. CASE ~Refuses(w)
  <2>1. /\ Ends(w) /\ answered' = answered \cup {q}
        /\ UNCHANGED <<row, logs, meta, commands, decisions>> /\ wedged' = {}
    BY <1>2, <1>4 DEF Answer, durable, ServesAll
  <2>2. \A c \in answered' : Opens(c) => InTable(c)
    BY <1>1, <1>2, <2>1 DEF Serves, RequestAt, AfterOpening
  <2> QED
    BY <1>1, <2>1, <2>2, EndServes DEF Restful
<1> QED
  BY <1>3, <1>4

-----------------------------------------------------------------------------
LEMMA ModSum ==
  ASSUME NEW r \in Nat, NEW s \in Nat, NEW k \in Nat, k < s
  PROVE  (r * s + k) % s = k
<1> DEFINE x == r * s + k
           d == x \div s
           m == x % s
<1>1. x \in Nat /\ d \in Int /\ m \in 0 .. s - 1 /\ x = s * d + m
  OBVIOUS
<1>2. s * (r - d) = m - k
  BY <1>1
<1>3. d = r
  <2> HIDE DEF d, m, x
  <2> DEFINE e == r - d
  <2>1. e \in Int /\ s * e = m - k /\ m - k < s /\ m - k > -s /\ s > 0
    BY <1>1, <1>2
  <2> HIDE DEF e
  <2>2. CASE e > 0
    <3>1. s * e >= s
      BY <2>1, <2>2
    <3> QED
      BY <1>1, <2>1, <3>1
  <2>3. CASE e < 0
    <3>1. s * e <= -s
      BY <2>1, <2>3
    <3> QED
      BY <1>1, <2>1, <3>1
  <2>4. e = 0
    BY <2>1, <2>2, <2>3
  <2> QED
    BY <1>1, <2>4 DEF e
<1> QED
  BY <1>1, <1>3

\* The batches of the table when b is appended to the n of the current hand.
GrowsBy(n, b) ==
    /\ logs'[row.hand] = Append(logs[row.hand], b) /\ Len(logs'[row.hand]) = n + 1
    /\ logs'[row.hand] # <<>> /\ logs'[row.hand][n + 1] = b /\ n + 1 \in 1 .. Len(logs'[row.hand])
    /\ \A h \in Hands : \A i \in 1 .. Len(logs[h]) :
          i \in 1 .. Len(logs'[h]) /\ logs'[h][i] = logs[h][i]
    /\ \A h \in Hands : \A i \in 1 .. Len(logs'[h]) :
          \/ i \in 1 .. Len(logs[h]) /\ logs'[h][i] = logs[h][i]
          \/ h = row.hand /\ i = n + 1 /\ logs'[h][i] = b

LEMMA GrownBatches ==
  ASSUME TableAssumption, IInv, row.rev > 0, NEW n, n = Len(logs[row.hand]), NEW b \in Batch,
         logs' = [logs EXCEPT ![row.hand] = Append(logs[row.hand], b)]
  PROVE  GrowsBy(n, b)
<1>1. /\ row.hand \in Hands /\ n \in Nat
      /\ \A h \in Hands : h \in 0 .. MaxHands /\ logs[h] \in Seq(Batch) /\ Len(logs[h]) \in Nat
  BY TableShapes
<1>2. DOMAIN logs = 0 .. MaxHands
  BY DEF IInv, Shapes
<1>3. PICK es \in Seq(Batch) : es = logs[row.hand]
  BY <1>1
<1>4. logs'[row.hand] = Append(es, b) /\ \A h \in Hands : h # row.hand => logs'[h] = logs[h]
  BY <1>1, <1>2, <1>3
<1>5. /\ Len(Append(es, b)) = n + 1 /\ Append(es, b) # <<>> /\ Append(es, b)[n + 1] = b
      /\ \A i \in 1 .. n : Append(es, b)[i] = es[i]
  BY <1>1, <1>3
<1>6. ASSUME NEW h \in Hands, NEW i \in 1 .. Len(logs[h])
      PROVE  i \in 1 .. Len(logs'[h]) /\ logs'[h][i] = logs[h][i]
  BY <1>1, <1>3, <1>4, <1>5
<1>7. ASSUME NEW h \in Hands, NEW i \in 1 .. Len(logs'[h])
      PROVE  \/ i \in 1 .. Len(logs[h]) /\ logs'[h][i] = logs[h][i]
             \/ h = row.hand /\ i = n + 1 /\ logs'[h][i] = b
  <2>1. CASE h # row.hand
    BY <1>4, <2>1
  <2>2. CASE h = row.hand
    <3>1. i \in 1 .. n + 1
      BY <1>4, <1>5, <2>2
    <3>2. i \in 1 .. n \/ i = n + 1
      BY <1>1, <3>1
    <3> QED
      BY <1>1, <1>3, <1>4, <1>5, <2>2, <3>2
  <2> QED
    BY <2>1, <2>2
<1> QED
  BY <1>1, <1>3, <1>4, <1>5, <1>6, <1>7 DEF GrowsBy

\* The running request appends command c to the current hand.
LEMMA AppendServes ==
  ASSUME TableAssumption, IInv, ServesAll, NEW w \in Workers, pc[w] \in {"execute", "open", "bot"},
         NEW place \in {"save", "opened", "decision"}, NEW c \in Request, NEW t \in Turns,
         NEW n, n = seen[w], n = Len(logs[row.hand]), NEW grown,
         row.rev > 0, row.active, meta, held[w] = row,
         grown = Append(logs[row.hand], [by |-> c, turn |-> t]),
         logs' = [logs EXCEPT ![row.hand] = grown],
         held' = [held EXCEPT ![w] = After(row, grown)], pc' = [pc EXCEPT ![w] = place],
         UNCHANGED <<row, meta, commands, decisions, wedged, req, seen, answered>>,
         place = "save" <=> pc[w] = "execute", place = "decision" <=> pc[w] = "bot",
         place = "opened" => c = req[w],
         c.kind = "bot" => place = "decision" /\ c.rev = n,
         c.kind = "hero" => c.hand = row.hand /\ c.rev % SequenceRange = n
  PROVE  ServesAll'
<1>1. PICK p \in Places, q \in Request, se \in Session, m \in Nat :
           /\ p = pc[w] /\ q = req[w] /\ se = held[w] /\ m = seen[w]
           /\ Fits(p, q, se, m) /\ Serves(p, q, se, m)
  BY AtWork
<1>2. n \in Nat /\ row \in Session /\ row.hand \in Hands
  BY <1>1, TableShapes
<1>3. PICK b \in Batch : b = [by |-> c, turn |-> t]
  BY DEF Batch
<1>4. /\ logs'[row.hand] = grown /\ Len(logs'[row.hand]) = n + 1
      /\ logs'[row.hand] # <<>> /\ logs'[row.hand][n + 1] = b /\ n + 1 \in 1 .. Len(logs'[row.hand])
      /\ \A h \in Hands : \A i \in 1 .. Len(logs[h]) :
            i \in 1 .. Len(logs'[h]) /\ logs'[h][i] = logs[h][i]
      /\ \A h \in Hands : \A i \in 1 .. Len(logs'[h]) :
            \/ i \in 1 .. Len(logs[h]) /\ logs'[h][i] = logs[h][i]
            \/ h = row.hand /\ i = n + 1 /\ logs'[h][i] = b
  <2>1. logs' = [logs EXCEPT ![row.hand] = Append(logs[row.hand], b)]
    BY <1>3
  <2>2. grown = Append(logs[row.hand], b) /\ row.rev > 0 /\ n = Len(logs[row.hand]) /\ b \in Batch
    BY <1>3
  <2>3. GrowsBy(n, b)
    BY <2>1, <2>2, GrownBatches
  <2> QED
    BY <2>2, <2>3 DEF GrowsBy
<1>5. PICK s : s = After(row, grown)
  OBVIOUS
<1>6. s.hand = row.hand
  BY <1>2, <1>5, AfterSession
<1>7. /\ Sets(pc', pc, w, place) /\ Sets(req', req, w, q) /\ Sets(held', held, w, s)
      /\ Sets(seen', seen, w, n) /\ wedged' = {}
  BY <1>1, <1>5 DEF Sets, ServesAll
<1>8. TableAt(place, s, n)'
  <2>1. InHand' /\ row'.active /\ s = After(row', logs'[row'.hand])
    BY <1>4, <1>5 DEF InHand
  <2> QED
    BY <1>4, <2>1 DEF TableAt
<1>9. RequestAt(place, q)'
  <2>1. ASSUME NEW r, InTable(r) PROVE InTable(r)'
    BY <1>4, <2>1 DEF InTable
  <2>2. InTable(c)'
    BY <1>2, <1>3, <1>4 DEF InTable
  <2>3. place = "opened" <=> p = "open"
    BY <1>1
  <2>4. \A r \in commands' : Opens(r) => InTable(r)'
    BY <1>1, <2>1, <2>2, <2>3 DEF Serves, RequestAt
  <2>5. \A r \in answered' : Opens(r) => InTable(r)'
    BY <1>1, <2>1 DEF Serves, RequestAt
  <2>6. place \in BeforeRecord => \A r \in commands' : r.id # q.id
    BY <1>1 DEF Serves, RequestAt, BeforeRecord
  <2>7. Opens(q) /\ place \in AfterOpening => InTable(q)'
    BY <1>1, <2>1, <2>2, <2>3 DEF Serves, RequestAt, AfterOpening
  <2> QED
    BY <2>4, <2>5, <2>6, <2>7 DEF RequestAt
<1>10. BotsAt(place, s, n)'
  <2> SUFFICES ASSUME NEW h \in Hands, NEW i \in 1 .. Len(logs'[h]), logs'[h][i].by.kind = "bot"
               PROVE  /\ logs'[h][i].by.rev = i - 1
                      /\ <<h, i>> \in decisions' \/ (place = "decision" /\ h = s.hand /\ i = n + 1)
    BY DEF BotsAt
  <2>1. CASE i \in 1 .. Len(logs[h]) /\ logs'[h][i] = logs[h][i]
    BY <1>1, <2>1 DEF Serves, BotsAt
  <2>2. CASE h = row.hand /\ i = n + 1 /\ logs'[h][i] = b
    BY <1>2, <1>3, <1>6, <2>2
  <2> QED
    BY <1>4, <2>1, <2>2
<1>11. PlayedWhereSeen'
  <2> SUFFICES ASSUME NEW h \in Hands, NEW i \in 1 .. Len(logs'[h]), logs'[h][i].by.kind = "hero"
               PROVE  logs'[h][i].by.hand = h /\ logs'[h][i].by.rev % SequenceRange = i - 1
    BY Zenon DEF PlayedWhereSeen
  <2>1. CASE i \in 1 .. Len(logs[h]) /\ logs'[h][i] = logs[h][i]
    <3>1. PlayedWhereSeen /\ logs[h][i].by.kind = "hero"
      BY <1>1, <2>1 DEF Serves
    <3>2. logs[h][i].by.hand = h /\ logs[h][i].by.rev % SequenceRange = i - 1
      BY <2>1, <3>1, Zenon DEF PlayedWhereSeen
    <3> QED
      BY <2>1, <3>2
  <2>2. CASE h = row.hand /\ i = n + 1 /\ logs'[h][i] = b
    BY <1>2, <1>3, <2>2
  <2>3. \/ i \in 1 .. Len(logs[h]) /\ logs'[h][i] = logs[h][i]
        \/ h = row.hand /\ i = n + 1 /\ logs'[h][i] = b
    BY <1>4
  <2> QED
    BY <2>1, <2>2, <2>3
<1>12. Serves(place, q, s, n)'
  BY <1>8, <1>9, <1>10, <1>11 DEF Serves
<1>13. place \in Places /\ pc[w] # "idle"
  BY DEF Places
<1> QED
  BY <1>7, <1>12, <1>13, Served

LEMMA HeroServes ==
  ASSUME TableAssumption, IInv, ServesAll, NEW w \in Workers, ExecuteHero(w)
  PROVE  ServesAll'
<1>1. pc[w] = "execute" /\ pc[w] # "idle"
  BY DEF ExecuteHero
<1>2. PICK place \in Places, q \in Request, se \in Session, n \in Nat :
           /\ place = pc[w] /\ q = req[w] /\ se = held[w] /\ n = seen[w]
           /\ Fits(place, q, se, n) /\ Serves(place, q, se, n)
  BY <1>1, AtWork
<1>3. /\ Resting /\ row.rev > 0 /\ se = row /\ n = Len(logs[row.hand]) /\ row.active
      /\ q.rev = Revision(row, logs[row.hand]) /\ q.kind = "hero" /\ q.hand = row.hand
  BY <1>1, <1>2 DEF Serves, TableAt, RequestAt, Fits, RequestFits, PlaceFits
<1>4. meta
  <2>1. ~Untouched
    BY <1>3 DEF Untouched, NoSession
  <2> QED
    BY <1>3, <2>1 DEF Resting, Settled, InHand
<1>5. CASE Refuses(w)
  BY <1>1, <1>5, RefuseServes DEF Restful
<1>6. CASE ~Refuses(w)
  <2>1. ~Repeats(logs[row.hand], q, n)
    BY <1>2, <1>3 DEF Repeats, CausedAt
  <2>2. Accepts(logs[row.hand], q, n)
    BY <1>2, <1>3, <1>6, <2>1 DEF ExecuteHero, Executes
  <2>3. PICK t \in NextTurns(logs[row.hand]) :
             LET grown == Append(logs[row.hand], [by |-> q, turn |-> t]) IN
             /\ logs' = [logs EXCEPT ![row.hand] = grown]
             /\ held' = [held EXCEPT ![w] = After(row, grown)]
    BY <1>2, <1>3, <1>6, <2>1 DEF ExecuteHero, Executes
  <2>4. /\ pc' = [pc EXCEPT ![w] = "save"]
        /\ UNCHANGED <<row, meta, commands, decisions, wedged, req, seen, answered>>
    BY <1>2, <1>3, <1>6, <2>1 DEF ExecuteHero, Executes, Goes
  <2>5. t \in Turns
    BY <2>3 DEF NextTurns, Turns
  <2>6. q.rev % SequenceRange = n
    <3>1. row.rev \in Nat /\ SequenceRange \in Nat /\ n < SequenceRange
      <4>1. MaxBatches \in Nat /\ MaxBatches < SequenceRange /\ SequenceRange \in Nat
        BY DEF TableAssumption
      <4>2. n <= MaxBatches /\ row.rev \in Nat
        BY <1>3, TableShapes DEF IInv, LogKept
      <4> QED
        BY <1>2, <4>1, <4>2
    <3>2. q.rev = row.rev * SequenceRange + n
      BY <1>3 DEF Revision
    <3> QED
      BY <3>1, <3>2, ModSum
  <2>7. PICK grown : grown = Append(logs[row.hand], [by |-> q, turn |-> t])
    OBVIOUS
  <2>8. /\ n = seen[w] /\ n = Len(logs[row.hand]) /\ row.rev > 0 /\ row.active /\ meta /\ held[w] = row
        /\ q.kind = "hero" /\ q.hand = row.hand
    BY <1>2, <1>3, <1>4
  <2>9. /\ logs' = [logs EXCEPT ![row.hand] = grown]
        /\ held' = [held EXCEPT ![w] = After(row, grown)]
    BY <2>3, <2>7
  <2> QED
    BY <1>1, <2>4, <2>5, <2>6, <2>7, <2>8, <2>9, AppendServes
<1> QED
  BY <1>5, <1>6

LEMMA OpenServes ==
  ASSUME TableAssumption, IInv, ServesAll, NEW w \in Workers, OpenHand(w)
  PROVE  ServesAll'
<1>1. pc[w] = "open" /\ pc[w] # "idle"
  BY DEF OpenHand
<1>2. PICK place \in Places, q \in Request, se \in Session, n \in Nat :
           /\ place = pc[w] /\ q = req[w] /\ se = held[w] /\ n = seen[w]
           /\ Fits(place, q, se, n) /\ Serves(place, q, se, n)
  BY <1>1, AtWork
<1>3. /\ Unopened /\ meta /\ n = 0 /\ row.rev > 0 /\ se = row /\ Opens(q)
  BY <1>1, <1>2 DEF Serves, TableAt, Fits, RequestFits
<1>4. PICK es : es = logs[row.hand]
  OBVIOUS
<1>5. es = <<>> /\ Len(es) = 0 /\ row.active
  BY <1>3, <1>4 DEF Unopened
<1>6. Accepts(es, q, n) /\ ~Repeats(es, q, n)
  BY <1>3, <1>5 DEF Accepts, Repeats, CausedAt, Over
<1>7. PICK t \in NextTurns(es) :
           LET grown == Append(es, [by |-> q, turn |-> t]) IN
           /\ logs' = [logs EXCEPT ![row.hand] = grown]
           /\ held' = [held EXCEPT ![w] = After(row, grown)]
  BY <1>2, <1>3, <1>4, <1>6 DEF OpenHand, Executes, ServesAll, Writable
<1>8. /\ pc' = [pc EXCEPT ![w] = "opened"]
      /\ UNCHANGED <<row, meta, commands, decisions, wedged, req, seen, answered>>
  BY <1>2, <1>3, <1>4, <1>6 DEF OpenHand, Executes, Goes, ServesAll, Writable
<1>9. t \in Turns
  BY <1>7 DEF NextTurns, Turns
<1>10. PICK grown : grown = Append(logs[row.hand], [by |-> q, turn |-> t])
  OBVIOUS
<1>11. q.kind # "bot" /\ q.kind # "hero"
  BY <1>3 DEF Opens
<1> QED
  BY <1>1, <1>2, <1>3, <1>4, <1>5, <1>7, <1>8, <1>9, <1>10, <1>11, AppendServes

\* Every bot acts at a sequence of its own, so its command is new.
LEMMA BotServes ==
  ASSUME TableAssumption, IInv, ServesAll, NEW w \in Workers, ExecuteBot(w)
  PROVE  ServesAll'
<1>1. pc[w] = "bot" /\ pc[w] # "idle"
  BY DEF ExecuteBot
<1>2. PICK place \in Places, q \in Request, se \in Session, n \in Nat :
           /\ place = pc[w] /\ q = req[w] /\ se = held[w] /\ n = seen[w]
           /\ Fits(place, q, se, n) /\ Serves(place, q, se, n)
  BY <1>1, AtWork
<1>3. /\ Settled /\ row.rev > 0 /\ se = row /\ row.active /\ Turn(logs[row.hand]) = "bot"
      /\ n = Len(logs[row.hand]) /\ meta
  BY <1>1, <1>2 DEF Serves, TableAt, Settled, InHand
<1>4. row.hand \in Hands /\ row.hand \in 0 .. MaxHands /\ row.hand \in Nat /\ logs[row.hand] \in Seq(Batch)
  BY <1>3, TableShapes
<1>5. PICK c : c = [kind |-> "bot", id |-> NoId, hand |-> row.hand, rev |-> n]
  OBVIOUS
<1>6. c = BotCommand(w) /\ c \in Request
  BY <1>2, <1>3, <1>4, <1>5 DEF BotCommand, Request, Kinds
<1>7. c.kind = "bot" /\ c.rev = n /\ Cause(c) = <<TRUE, NoId, n>>
  BY <1>5 DEF Cause
<1>8. PICK es \in Seq(Batch) : es = logs[row.hand]
  BY <1>4
<1>9. ASSUME NEW i \in 1 .. Len(es) PROVE Cause(es[i].by) # Cause(c)
  <2>1. es[i].by \in Request /\ i <= n /\ i \in Nat
    <3>1. es[i] \in Batch
      BY <1>8
    <3>2. Len(es) = n /\ n \in Nat
      BY <1>2, <1>3, <1>8
    <3> QED
      BY <3>1, <3>2 DEF Batch
  <2>2. CASE es[i].by.kind = "bot"
    <3>1. es[i].by.rev = i - 1
      BY <1>2, <1>4, <1>8, <2>2 DEF Serves, BotsAt
    <3>2. Cause(es[i].by) = <<TRUE, es[i].by.id, i - 1>>
      BY <2>2, <3>1 DEF Cause
    <3>3. i - 1 # n
      BY <1>2, <2>1
    <3> QED
      BY <1>7, <3>2, <3>3
  <2>3. CASE es[i].by.kind # "bot"
    <3>1. es[i].by \in sent
      BY <1>4, <1>8, <2>3 DEF IInv, LogKept
    <3>2. es[i].by.id # NoId
      BY <3>1 DEF IInv, SentInTime, TableAssumption
    <3>3. Cause(es[i].by)[2] = es[i].by.id /\ Cause(c)[2] = NoId
      BY <1>7 DEF Cause
    <3> QED
      BY <3>2, <3>3
  <2> QED
    BY <2>2, <2>3
<1>10. Accepts(es, c, n) /\ ~Repeats(es, c, n)
  <2>1. CausedAt(es, c) = {}
    BY <1>9 DEF CausedAt
  <2>2. ~Over(es)
    BY <1>3, <1>8 DEF Over
  <2> QED
    BY <1>3, <1>8, <2>1, <2>2 DEF Accepts, Repeats
<1>11. PICK t \in NextTurns(es) :
            LET grown == Append(es, [by |-> c, turn |-> t]) IN
            /\ logs' = [logs EXCEPT ![row.hand] = grown]
            /\ held' = [held EXCEPT ![w] = After(row, grown)]
  BY <1>2, <1>3, <1>6, <1>8, <1>10 DEF ExecuteBot, Executes, ServesAll, Writable
<1>12. /\ pc' = [pc EXCEPT ![w] = "decision"]
       /\ UNCHANGED <<row, meta, commands, decisions, wedged, req, seen, answered>>
  BY <1>2, <1>3, <1>6, <1>8, <1>10 DEF ExecuteBot, Executes, Goes, ServesAll, Writable
<1>13. t \in Turns
  BY <1>11 DEF NextTurns, Turns
<1>14. PICK grown : grown = Append(logs[row.hand], [by |-> c, turn |-> t])
  OBVIOUS
<1> QED
  BY <1>1, <1>2, <1>3, <1>6, <1>7, <1>8, <1>11, <1>12, <1>13, <1>14, AppendServes

-----------------------------------------------------------------------------
\* A request that begins finds every worker idle and the table at rest.
LEMMA ReceiveServes ==
  ASSUME TableAssumption, IInv, ServesAll, AllIdle, NEW w \in Workers, NEW q \in Sendable, Receive(w, q)
  PROVE  ServesAll'
<1>1. Serves("idle", NoRequest, NoSession, 0)
  BY DEF ServesAll
<1>2. Shapes /\ pc[w] = "idle"
  BY DEF IInv, AllIdle
<1>3. UNCHANGED <<row, logs, meta, commands, decisions, wedged, held, seen, answered>>
  BY DEF Receive, durable
<1>4. PICK se, n : se = held[w] /\ n = seen[w]
  OBVIOUS
<1>5. PICK next \in {"idle", "load", "recover", "answer"} :
           /\ Sets(pc', pc, w, next) /\ (next # "idle" => req'[w] = q)
           /\ next = "recover" => \A c \in commands : c.id # q.id
           /\ next = "answer" => q \in commands
  <2>1. CASE Recorded(q) = {}
    <3>1. CASE q.kind = "create"
      BY <1>2, <2>1, <3>1 DEF Receive, Goes, Sets, Shapes
    <3>2. CASE q.kind # "create"
      BY <1>2, <2>1, <3>2 DEF Receive, Goes, Sets, Shapes, Recorded
    <3> QED
      BY <3>1, <3>2
  <2>2. CASE Recorded(q) # {} /\ SameRequest(q)
    <3>1. q \in commands
      BY <2>2 DEF SameRequest, Recorded
    <3>2. pc' = [pc EXCEPT ![w] = "answer"] /\ req' = [req EXCEPT ![w] = q]
      BY <2>2 DEF Receive, Goes
    <3> QED
      BY <1>2, <3>1, <3>2 DEF Sets, Shapes
  <2>3. CASE Recorded(q) # {} /\ ~SameRequest(q)
    BY <1>2, <2>3 DEF Receive, Sets
  <2> QED
    BY <2>1, <2>2, <2>3
<1>6. pc'[w] = next /\ \A v \in Workers \ {w} : pc'[v] = "idle"
  BY <1>2, <1>5 DEF Sets, Shapes, AllIdle
<1>7. WorksAlone' /\ wedged' = {}
  BY <1>3, <1>6 DEF WorksAlone, ServesAll
<1>8. \A c \in answered' : Opens(c) => InTable(c)
  BY <1>1, <1>3 DEF Serves, RequestAt
<1>9. Serves("idle", NoRequest, NoSession, 0)'
  BY <1>1, <1>3, <1>8, ServesStill
<1>10. ASSUME next # "idle" PROVE Serves(next, q, se, n)'
  <2>1. TableAt(next, se, n)
    BY <1>1, <1>10 DEF Serves, TableAt
  <2>2. RequestAt(next, q)
    BY <1>1, <1>5, <1>10 DEF Serves, RequestAt, BeforeRecord, AfterOpening
  <2>3. BotsAt(next, se, n)
    BY <1>1, <1>10 DEF Serves, BotsAt
  <2>4. Serves(next, q, se, n)
    BY <1>1, <2>1, <2>2, <2>3 DEF Serves
  <2> QED
    BY <1>3, <1>8, <2>4, ServesStill
<1>11. ASSUME NEW v \in Workers, pc'[v] # "idle" PROVE Serves(pc[v], req[v], held[v], seen[v])'
  <2>1. v = w /\ next # "idle" /\ pc'[v] = next /\ req'[v] = q /\ held'[v] = se /\ seen'[v] = n
    BY <1>3, <1>4, <1>5, <1>6, <1>11
  <2> QED
    BY <1>10, <2>1
<1> QED
  BY <1>7, <1>9, <1>11 DEF ServesAll

\* No hand is left for another request to settle.
LEMMA NothingToSettle ==
  ASSUME TableAssumption, IInv, ServesAll, NEW w \in Workers
  PROVE  ~Settle(w) /\ ~Review(w)
<1> SUFFICES ASSUME pc[w] \in {"settle", "review"} PROVE FALSE
  BY DEF Settle, Review
<1>1. PICK place \in Places, q \in Request, se \in Session, n \in Nat :
           place = pc[w] /\ Serves(place, q, se, n)
  BY AtWork
<1> QED
  BY <1>1 DEF Serves, TableAt

LEMMA WorkServes ==
  ASSUME TableAssumption, IInv, ServesAll, NEW w \in Workers, Work(w)
  PROVE  ServesAll'
<1>1. CASE LoadNothing(w) \/ SaveCreated(w) \/ InsertMetadata(w)
  BY <1>1, LoadServes, CreateServes, InsertServes
<1>2. CASE RecoverTable(w) \/ Recovering(w)
  BY <1>2, RecoverServes
<1>3. CASE Project(w) \/ TakeTurn(w) \/ ExecuteHero(w)
  BY <1>3, ProjectServes, TakeTurnServes, HeroServes
<1>4. CASE SaveHero(w) \/ SaveOpened(w) \/ SavePlayed(w)
  BY <1>4, SavePlayedServes
<1>5. CASE StartNext(w) \/ RecordCommand(w) \/ OpenHand(w)
  BY <1>5, StartServes, RecordServes, OpenServes
<1>6. CASE Advance(w) \/ Settle(w) \/ Review(w)
  BY <1>6, AdvanceServes, NothingToSettle
<1>7. CASE ExecuteBot(w) \/ RecordDecision(w) \/ Answer(w)
  BY <1>7, BotServes, DecisionServes, AnswerServes
<1> QED
  BY <1>1, <1>2, <1>3, <1>4, <1>5, <1>6, <1>7 DEF Work

LEMMA WorkInTurn ==
  ASSUME NEW w \in Workers, Work(w)
  PROVE  UNCHANGED <<crashes, serial>>
<1>1. CASE LoadNothing(w) \/ SaveCreated(w) \/ InsertMetadata(w)
  BY <1>1 DEF LoadNothing, SaveCreated, InsertMetadata, Saves, Refuses, Wedges
<1>2. CASE RecoverTable(w) \/ Recovering(w)
  BY <1>2 DEF RecoverTable, Recovering, Recover, Saves, Refuses
<1>3. CASE Project(w) \/ TakeTurn(w) \/ ExecuteHero(w)
  BY <1>3 DEF Project, TakeTurn, ExecuteHero, Executes, Refuses
<1>4. CASE SaveHero(w) \/ SaveOpened(w) \/ SavePlayed(w)
  BY <1>4 DEF SaveHero, SaveOpened, SavePlayed, Saves, Refuses
<1>5. CASE StartNext(w) \/ RecordCommand(w) \/ OpenHand(w)
  BY <1>5 DEF StartNext, RecordCommand, OpenHand, Saves, Executes, Refuses, Wedges
<1>6. CASE Advance(w) \/ Settle(w) \/ Review(w)
  BY <1>6 DEF Advance, Settle, Review, Saves, Refuses
<1>7. CASE ExecuteBot(w) \/ RecordDecision(w) \/ Answer(w)
  BY <1>7 DEF ExecuteBot, RecordDecision, Answer, Executes, Refuses
<1> QED
  BY <1>1, <1>2, <1>3, <1>4, <1>5, <1>6, <1>7 DEF Work

LEMMA StandsServes ==
  ASSUME IInv, ServesAll, UNCHANGED vars
  PROVE  ServesAll'
<1>1. UNCHANGED <<row, logs, meta, commands, decisions, wedged, pc, req, held, seen, answered>>
  BY DEF vars, durable, local
<1>2. ASSUME NEW place, NEW q, NEW se, NEW n, Serves(place, q, se, n)
      PROVE  Serves(place, q, se, n)'
  <2>1. \A c \in answered' : Opens(c) => InTable(c)
    BY <1>1, <1>2 DEF Serves, RequestAt
  <2> QED
    BY <1>1, <1>2, <2>1, ServesStill
<1>3. WorksAlone' /\ wedged' = {} /\ (AllIdle' => AllIdle)
  BY <1>1 DEF ServesAll, WorksAlone, AllIdle
<1>4. AllIdle' => Serves("idle", NoRequest, NoSession, 0)'
  BY <1>2, <1>3 DEF ServesAll
<1>5. ASSUME NEW w \in Workers, pc'[w] # "idle" PROVE Serves(pc[w], req[w], held[w], seen[w])'
  <2>1. PICK place, q, se, n : place = pc[w] /\ q = req[w] /\ se = held[w] /\ n = seen[w]
    OBVIOUS
  <2>2. Serves(place, q, se, n)'
    BY <1>1, <1>2, <1>5, <2>1 DEF ServesAll
  <2> QED
    BY <1>1, <2>1, <2>2
<1> QED
  BY <1>3, <1>4, <1>5 DEF ServesAll

LEMMA InitServes == ASSUME TableAssumption, Init PROVE UInv
<1>1. AllIdle /\ WorksAlone /\ wedged = {}
  BY DEF Init, AllIdle, WorksAlone
<1>2. Untouched /\ decisions = {} /\ answered = {}
  <2>1. \A h \in Hands : h \in 0 .. MaxHands
    BY DEF Hands, TableAssumption
  <2> QED
    BY <2>1 DEF Init, Untouched
<1>3. \A h \in Hands : Len(logs[h]) = 0 /\ 1 .. Len(logs[h]) = {}
  BY <1>2 DEF Untouched
<1>4. TableAt("idle", NoSession, 0)
  BY <1>2 DEF TableAt, Resting
<1>5. RequestAt("idle", NoRequest)
  BY <1>2 DEF RequestAt, Untouched, BeforeRecord, AfterOpening
<1>6. BotsAt("idle", NoSession, 0) /\ PlayedWhereSeen
  BY <1>3 DEF BotsAt, PlayedWhereSeen
<1>7. ServesAll
  BY <1>1, <1>4, <1>5, <1>6 DEF ServesAll, Serves, AllIdle
<1> QED
  BY <1>7 DEF UInv, Init

LEMMA StepServes == ASSUME TableAssumption, IInv, UInv, [Next]_vars PROVE UInv'
<1>1. CASE UNCHANGED vars
  <2>1. UNCHANGED <<crashes, serial>>
    BY <1>1 DEF vars
  <2> QED
    BY <1>1, <2>1, StandsServes DEF UInv
<1>2. CASE Next
  <2>1. PICK w \in Workers : Work(w) \/ Die(w) \/ \E q \in Sendable : Receive(w, q)
    BY <1>2 DEF Next
  <2>2. CASE Work(w)
    BY <2>2, WorkServes, WorkInTurn DEF UInv
  <2>3. CASE Die(w)
    BY <2>3 DEF Die, UInv
  <2>4. CASE \E q \in Sendable : Receive(w, q)
    <3>1. crashes' = crashes /\ serial' = (serial /\ AllIdle)
      BY <2>4 DEF Receive, AllIdle
    <3>2. serial' /\ crashes' = 0 => ServesAll'
      BY <2>4, <3>1, ReceiveServes DEF UInv
    <3>3. serial' \in BOOLEAN
      BY <3>1, Zenon
    <3> QED
      BY <3>1, <3>2, <3>3 DEF UInv
  <2> QED
    BY <2>1, <2>2, <2>3, <2>4
<1> QED
  BY <1>1, <1>2

LEMMA ServesSuffices == ASSUME TableAssumption, IInv, UInv PROVE TableServes
<1> SUFFICES ASSUME serial, crashes = 0
             PROVE  AtRest /\ ActionsExplained /\ AnsweredHandsOpen /\ PlayedWhereSeen /\ LockReleased
  BY DEF TableServes
<1>1. ServesAll
  BY DEF UInv
<1>2. PICK place, q, se, n : Serves(place, q, se, n)
  <2>1. CASE AllIdle
    BY <1>1, <2>1 DEF ServesAll
  <2>2. CASE ~AllIdle
    BY <1>1, <2>2 DEF ServesAll, AllIdle
  <2> QED
    BY <2>1, <2>2
<1>3. PlayedWhereSeen /\ LockReleased
  BY <1>1, <1>2 DEF Serves, ServesAll, LockReleased
<1>4. ASSUME AllIdle PROVE Resting /\ BotsAt("idle", NoSession, 0)
  BY <1>1, <1>4 DEF ServesAll, Serves, TableAt
<1>5. AtRest
  BY <1>4 DEF AtRest, AllIdle, Resting, Untouched, NoSession, Settled, InHand
<1>6. ActionsExplained
  BY <1>4 DEF ActionsExplained, AllIdle, BotsAt
<1>7. AnsweredHandsOpen
  <2> SUFFICES ASSUME NEW c \in answered, Opens(c) PROVE Cardinality(BatchesOf(c)) = 1
    BY DEF AnsweredHandsOpen, Opens
  <2>1. InTable(c) /\ c \in sent
    BY <1>2 DEF Serves, RequestAt, IInv, Shapes
  <2>2. PICK h \in Hands : \E i \in 1 .. Len(logs[h]) : logs[h][i].by = c
    BY <2>1 DEF InTable
  <2>3. PICK i \in 1 .. Len(logs[h]) : logs[h][i].by = c
    BY <2>2
  <2>4. Len(logs[h]) \in Nat /\ Len(logs[h]) <= MaxBatches /\ MaxBatches \in Nat
    <3>1. h \in 0 .. MaxHands
      BY TableShapes
    <3> QED
      BY <3>1, TableShapes DEF IInv, LogKept, TableAssumption
  <2>5. <<h, i>> \in BatchesOf(c)
    <3>1. i \in 1 .. MaxBatches /\ i <= Len(logs[h])
      BY <2>4
    <3> QED
      BY <2>3, <3>1 DEF BatchesOf
  <2> QED
    BY <2>1, <2>5, OneBatch
<1> QED
  BY <1>3, <1>5, <1>6, <1>7

\* As long as requests come one at a time, to whichever of any number of
\* workers, and nothing fails, each finishes its work: the table waits for its
\* hero or has settled its hand, every bot action has its decision, every hand
\* answered for is open, actions stand where the projection ended, and no
\* connection keeps the write lock (create, submit_hero_action, start_next_hand
\* and _advance_bots).
THEOREM ServesInTurn == ASSUME TableAssumption PROVE Spec => []TableServes
<1>1. Init => UInv
  BY InitServes
<1>2. IInv /\ UInv /\ [Next]_vars => UInv'
  BY StepServes
<1>3. IInv /\ UInv => TableServes
  BY ServesSuffices
<1> QED
  BY <1>1, <1>2, <1>3, AlwaysIInv, PTL DEF Spec

-----------------------------------------------------------------------------
(***************************************************************************)
(* TableReads: advice and cards are those of one hand.                     *)
(***************************************************************************)
Sessions == [rev : Nat, hand : Dealt, active : BOOLEAN]
Projections == [rev : Nat, hand : Dealt, active : BOOLEAN, seq : Nat]
Answers == [kind : Endpoints \cup {"none"}, about : Projections, seq : Nat, ready : BOOLEAN,
            legal : SUBSET Actions, pick : SUBSET Actions]

ReadShapes ==
    /\ session \in Sessions /\ batches \in [Dealt -> Seq(Situation)]
    /\ at \in {"idle", "recovered", "projected"}
    /\ asked \in [kind : Endpoints \cup {"none"}, about : Projections]
    /\ recovered \in Sessions /\ cur \in Projections /\ answer \in Answers
    /\ shown \in Dealt \X SUBSET Seats /\ raced \in BOOLEAN

\* Two revisions to a hand: what a client may know is of a hand that was dealt.
TwoToAHand(se) == se.rev = 2 * se.hand - (IF se.active THEN 1 ELSE 0)
\* Who is in at the end of a log was in all along.
Narrows(es) == \A i \in 1 .. Len(es) : Last(es).live \subseteq es[i].live
\* A request past its comparison was asked about what it compared with, and only
\* a batch in between makes the second read longer than the first.
ComparedWith(es, about, first, late) ==
    about = first /\ first.seq <= Len(es) /\ (~late => first.seq = Len(es))
\* What an answer says of the hand it is about stays true while that grows.
Stands(es, a, late) ==
    a.ready => /\ a.seq \in 1 .. Len(es) /\ a.about.seq <= a.seq
               /\ ~late => a.seq = a.about.seq
               /\ a.kind # "advisor" \/ a.seq = a.about.seq =>
                     es[a.seq].turn = "hero" /\ a.legal = es[a.seq].legal /\ a.pick \subseteq a.legal
ShownOf(es, cards) ==
    cards # {} => /\ Finished(es) /\ Cardinality(cards) > 1
                  /\ \A i \in 1 .. Len(es) : cards \subseteq es[i].live

RInv ==
    /\ ReadShapes /\ TwoToAHand(session)
    /\ \A h \in Dealt : Narrows(batches[h])
    /\ at = "projected" => ComparedWith(batches[cur.hand], asked.about, cur, raced)
    /\ Stands(batches[answer.about.hand], answer, raced)
    /\ ShownOf(batches[shown[1]], shown[2])

LEMMA ReadsSuffice == RInv => ReadsAgree
<1> SUFFICES ASSUME RInv PROVE ReadsAgree
  OBVIOUS
<1>1. ReadShapes
  BY DEF RInv
<1>2. ReadsTyped
  BY <1>1 DEF ReadsTyped, ReadShapes, Sessions, Answers
<1>3. AdviceIsOfOneDecision
  BY <1>1 DEF RInv, Stands, AdviceIsOfOneDecision, ReadShapes, Answers, Projections
<1>4. CardsShowAtShowdown
  BY DEF RInv, ShownOf, CardsShowAtShowdown
<1>5. ~raced => AdviceIsOfTheFingerprint
  BY DEF RInv, Stands, AdviceIsOfTheFingerprint
<1> QED
  BY <1>2, <1>3, <1>4, <1>5 DEF ReadsAgree

LEMMA ReadsStart == ASSUME ReadsAssumption, ReadsInit PROVE RInv
<1>1. 1 \in Dealt
  BY DEF ReadsAssumption, Dealt
<1>2. ReadShapes
  <2>1. Start \in Projections /\ FirstSession \in Sessions
    BY <1>1 DEF Start, FirstSession, Projections, Sessions
  <2>2. NoAnswer \in Answers
    BY <2>1 DEF NoAnswer, Answers
  <2>3. batches \in [Dealt -> Seq(Situation)]
    BY DEF ReadsInit
  <2>4. shown \in Dealt \X SUBSET Seats
    BY <1>1 DEF ReadsInit
  <2> QED
    BY <2>1, <2>2, <2>3, <2>4 DEF ReadsInit, ReadShapes, NothingAsked
<1>3. TwoToAHand(session)
  BY DEF ReadsInit, FirstSession, TwoToAHand
<1>4. \A h \in Dealt : Narrows(batches[h])
  BY DEF ReadsInit, Narrows
<1>5. Stands(batches[answer.about.hand], answer, raced) /\ ShownOf(batches[shown[1]], shown[2])
  BY DEF ReadsInit, NoAnswer, Stands, ShownOf
<1> QED
  BY <1>2, <1>3, <1>4, <1>5 DEF RInv, ReadsInit

\* A batch at the end of a log that is not over leaves standing what stood.
LEMMA LogGrows ==
  ASSUME NEW es \in Seq(Situation), NEW b \in Situation, b \in Continues(es), ~Finished(es)
  PROVE  /\ Append(es, b) \in Seq(Situation) /\ Len(Append(es, b)) = Len(es) + 1
         /\ Narrows(es) => Narrows(Append(es, b))
         /\ \A a \in Answers, late \in BOOLEAN : Stands(es, a, late) => Stands(Append(es, b), a, late)
         /\ \A cards : ShownOf(es, cards) => ShownOf(Append(es, b), cards)
<1> DEFINE more == Append(es, b)
<1>1. more \in Seq(Situation) /\ Len(more) = Len(es) + 1 /\ Len(es) \in Nat
  BY AppendProperties
<1>2. more[Len(more)] = b /\ \A i \in 1 .. Len(es) : more[i] = es[i]
  BY <1>1, AppendProperties
<1> HIDE DEF more
<1>3. Narrows(es) => Narrows(more)
  <2> SUFFICES ASSUME Narrows(es), NEW i \in 1 .. Len(more) PROVE b.live \subseteq more[i].live
    BY <1>2 DEF Narrows, Last
  <2>1. CASE i = Len(more)
    BY <1>2, <2>1
  <2>2. CASE i # Len(more)
    <3>1. i \in 1 .. Len(es)
      BY <1>1, <2>2
    <3>2. es # <<>>
      BY <1>1, <3>1
    <3>3. b.live \subseteq Last(es).live
      BY <3>2 DEF Continues
    <3> QED
      BY <1>2, <3>1, <3>3 DEF Narrows
  <2> QED
    BY <2>1, <2>2
<1>4. ASSUME NEW a \in Answers, NEW late \in BOOLEAN, Stands(es, a, late) PROVE Stands(more, a, late)
  <2> SUFFICES ASSUME a.ready PROVE Stands(more, a, late)
    BY DEF Stands
  <2>1. a.seq \in 1 .. Len(es)
    BY <1>4 DEF Stands
  <2>2. a.seq \in 1 .. Len(more) /\ more[a.seq] = es[a.seq]
    BY <1>1, <1>2, <2>1
  <2> QED
    BY <1>4, <2>2 DEF Stands
<1>5. ASSUME NEW cards, ShownOf(es, cards) PROVE ShownOf(more, cards)
  BY <1>5 DEF ShownOf
<1> QED
  BY <1>1, <1>3, <1>4, <1>5 DEF more

LEMMA PlayHolds == ASSUME ReadsAssumption, RInv, Play PROVE RInv'
<1> DEFINE h == session.hand
<1>1. ReadShapes
  BY DEF RInv
<1>2. h \in Dealt /\ session.active /\ ~Finished(batches[h]) /\ batches[h] \in Seq(Situation)
  BY <1>1 DEF Play, ReadShapes, Sessions
<1>3. PICK b \in Continues(batches[h]) : batches' = [batches EXCEPT ![h] = Append(@, b)]
  BY DEF Play
<1>4. UNCHANGED <<session, at, asked, recovered, cur, answer, shown>>
  BY DEF Play, requestVars
<1>5. raced' = (raced \/ (at = "projected" /\ cur.hand = h))
  BY DEF Play
<1> DEFINE es == batches[h]
<1>6. b \in Situation
  BY DEF Continues
<1>7. batches'[h] = Append(es, b) /\ \A k \in Dealt : k # h => batches'[k] = batches[k]
  BY <1>1, <1>2, <1>3 DEF ReadShapes
<1> HIDE DEF h, es
<1>8. /\ Append(es, b) \in Seq(Situation) /\ Len(Append(es, b)) = Len(es) + 1 /\ es = batches[h]
      /\ Narrows(es) => Narrows(Append(es, b))
      /\ \A a \in Answers, late \in BOOLEAN : Stands(es, a, late) => Stands(Append(es, b), a, late)
      /\ \A cards : ShownOf(es, cards) => ShownOf(Append(es, b), cards)
  BY <1>2, <1>3, <1>6, LogGrows DEF es
<1>9. raced' \in BOOLEAN /\ (~raced' => ~raced)
  BY <1>1, <1>5 DEF ReadShapes
<1>10. ReadShapes'
  <2>1. batches' \in [Dealt -> Seq(Situation)]
    BY <1>1, <1>2, <1>3, <1>8 DEF ReadShapes, es
  <2> QED
    BY <1>1, <1>4, <1>9, <2>1 DEF ReadShapes
<1>11. \A k \in Dealt : Narrows(batches'[k])
  BY <1>7, <1>8 DEF RInv
<1>12. Stands(batches'[answer.about.hand], answer, raced')
  <2>1. answer \in Answers /\ answer.about.hand \in Dealt /\ raced \in BOOLEAN
    BY <1>1 DEF ReadShapes, Answers, Projections
  <2>2. Stands(batches'[answer.about.hand], answer, raced)
    BY <1>7, <1>8, <2>1 DEF RInv
  <2> QED
    BY <1>9, <2>2 DEF Stands
<1>13. ShownOf(batches'[shown[1]], shown[2])
  BY <1>1, <1>7, <1>8 DEF RInv, ReadShapes
<1>14. ASSUME at = "projected" PROVE ComparedWith(batches'[cur.hand], asked.about, cur, raced')
  <2>1. ComparedWith(batches[cur.hand], asked.about, cur, raced)
    BY <1>14 DEF RInv
  <2>2. CASE cur.hand = h
    <3>1. raced' /\ cur.seq \in Nat
      BY <1>1, <1>5, <1>14, <2>2 DEF ReadShapes, Projections
    <3>2. Len(es) \in Nat
      BY <1>2, <1>8
    <3> QED
      BY <1>7, <1>8, <2>1, <2>2, <3>1, <3>2 DEF ComparedWith
  <2>3. CASE cur.hand # h
    BY <1>1, <1>5, <1>7, <1>14, <2>1, <2>3 DEF ComparedWith, ReadShapes, Projections
  <2> QED
    BY <2>2, <2>3
<1> QED
  BY <1>4, <1>10, <1>11, <1>12, <1>13, <1>14 DEF RInv

\* The session moves while the logs stay.
LEMMA SessionMoves ==
  ASSUME ReadsAssumption, NEW se \in Sessions, TwoToAHand(se), NEW es
  PROVE  /\ Completed(se, es) \in Sessions /\ TwoToAHand(Completed(se, es))
         /\ Completed(se, es).hand = se.hand
         /\ se.hand < MaxDealt /\ ~se.active =>
               LET next == [rev |-> se.rev + 1, hand |-> se.hand + 1, active |-> TRUE]
               IN  next \in Sessions /\ TwoToAHand(next)
<1>1. se.rev \in Nat /\ se.hand \in 1 .. MaxDealt /\ se.active \in BOOLEAN /\ MaxDealt \in Nat
  BY DEF Sessions, Dealt, ReadsAssumption
<1>2. Completed(se, es) \in Sessions /\ Completed(se, es).hand = se.hand
  <2>1. CASE se.active /\ Finished(es)
    <3>1. Completed(se, es) = [rev |-> se.rev + 1, hand |-> se.hand, active |-> FALSE]
      BY <2>1 DEF Completed, Sessions
    <3> QED
      BY <1>1, <3>1 DEF Sessions, Dealt
  <2> QED
    BY <2>1 DEF Completed
<1>3. TwoToAHand(Completed(se, es))
  <2>1. CASE se.active /\ Finished(es)
    <3>1. Completed(se, es).rev = se.rev + 1 /\ ~Completed(se, es).active
      BY <1>1, <2>1 DEF Completed, Sessions
    <3> QED
      BY <1>1, <1>2, <2>1, <3>1 DEF TwoToAHand
  <2> QED
    BY <2>1 DEF Completed
<1>4. ASSUME se.hand < MaxDealt, ~se.active
      PROVE  LET next == [rev |-> se.rev + 1, hand |-> se.hand + 1, active |-> TRUE]
             IN  next \in Sessions /\ TwoToAHand(next)
  BY <1>1, <1>4 DEF Sessions, TwoToAHand, Dealt
<1> QED
  BY <1>2, <1>3, <1>4

\* A fingerprint is of a hand that was dealt.
LEMMA FingerprintsFit ==
  ASSUME ReadsAssumption, ReadShapes, TwoToAHand(session), NEW about \in Fingerprints
  PROVE  about \in Projections
<1>1. PICK r \in 1 .. session.rev : \E n \in 0 .. Len(batches[(r + 1) \div 2]) : about = AtRevision(r, n)
  BY DEF Fingerprints
<1> DEFINE h == (r + 1) \div 2
<1>2. session.rev \in Nat /\ session.hand \in 1 .. MaxDealt /\ MaxDealt \in Nat
  BY DEF ReadShapes, Sessions, Dealt, ReadsAssumption
<1>3. session.rev <= 2 * MaxDealt
  BY <1>2 DEF TwoToAHand
<1>4. r \in Nat /\ 1 <= r /\ r <= 2 * MaxDealt
  BY <1>2, <1>3
<1>5. h \in 1 .. MaxDealt
  BY <1>2, <1>4
<1>6. batches[h] \in Seq(Situation)
  BY <1>5 DEF ReadShapes, Dealt
<1>7. PICK n \in 0 .. Len(batches[h]) : about = AtRevision(r, n)
  BY <1>1
<1>8. n \in Nat
  BY <1>6
<1> QED
  BY <1>4, <1>5, <1>7, <1>8 DEF AtRevision, Projections, Dealt

LEMMA RecoversHolds ==
  ASSUME ReadsAssumption, RInv, NEW kind \in Endpoints, NEW about \in Fingerprints,
         Recovers(kind, about)
  PROVE  RInv'
<1>1. ReadShapes /\ TwoToAHand(session)
  BY DEF RInv
<1>2. about \in Projections
  BY <1>1, FingerprintsFit
<1>3. session' \in Sessions /\ TwoToAHand(session')
  BY <1>1, SessionMoves DEF Recovers, ReadShapes
<1>4. 1 \in Dealt
  BY DEF ReadsAssumption, Dealt
<1>5. ReadShapes'
  BY <1>1, <1>2, <1>3, <1>4 DEF Recovers, ReadShapes, NoAnswer, Start, Answers, Projections
<1>6. Stands(batches'[answer'.about.hand], answer', raced') /\ ShownOf(batches'[shown'[1]], shown'[2])
  BY DEF Recovers, NoAnswer, Stands, ShownOf
<1> QED
  BY <1>3, <1>5, <1>6 DEF RInv, Recovers

LEMMA ProjectsHolds == ASSUME ReadsAssumption, RInv, Projects PROVE RInv'
<1>1. ReadShapes
  BY DEF RInv
<1>2. recovered \in Sessions /\ recovered.hand \in Dealt /\ batches[recovered.hand] \in Seq(Situation)
  BY <1>1 DEF ReadShapes, Sessions
<1>3. Projection(recovered) \in Projections
  BY <1>2 DEF Projection, Projections, Sessions
<1>4. /\ at' = "projected" /\ cur' = Projection(recovered)
      /\ shown' = <<recovered.hand, Revealed(batches[recovered.hand])>>
      /\ UNCHANGED <<session, batches, recovered, answer, raced>>
  BY DEF Projects, tableVars
<1>5. asked'.about = cur' /\ asked' \in [kind : Endpoints \cup {"none"}, about : Projections]
  BY <1>1, <1>3, <1>4 DEF Projects, Compares, Matches, ReadShapes
<1>6. ShownOf(batches[recovered.hand], Revealed(batches[recovered.hand]))
      /\ Revealed(batches[recovered.hand]) \subseteq Seats
  <2> DEFINE es == batches[recovered.hand]
  <2>1. Narrows(es) /\ es \in Seq(Situation)
    BY <1>2 DEF RInv
  <2> HIDE DEF es
  <2>2. CASE ~Finished(es) \/ ~(Cardinality(Last(es).live) >= 2)
    BY <2>2 DEF Revealed, ShownOf, es
  <2>3. CASE Finished(es) /\ Cardinality(Last(es).live) >= 2
    <3>1. Revealed(es) = Last(es).live
      BY <2>3 DEF Revealed
    <3>2. Last(es) \in Situation
      BY <2>1, <2>3 DEF Finished, Last
    <3>3. Last(es).live \subseteq Seats
      BY <3>2 DEF Situation
    <3>4. Cardinality(Last(es).live) \in Nat
      BY <3>3, FS_Subset, FS_CardinalityType DEF ReadsAssumption
    <3>5. Cardinality(Last(es).live) > 1
      BY <2>3, <3>4
    <3> QED
      BY <2>1, <2>3, <3>1, <3>3, <3>5 DEF ShownOf, Narrows, es
  <2> QED
    BY <2>2, <2>3
<1>7. ReadShapes'
  BY <1>1, <1>2, <1>3, <1>4, <1>5, <1>6 DEF ReadShapes
<1>8. ComparedWith(batches'[cur'.hand], asked'.about, cur', raced')
  <2>1. cur'.hand = recovered.hand /\ cur'.seq = Len(batches[recovered.hand])
    BY <1>4 DEF Projection
  <2>2. Len(batches[recovered.hand]) \in Nat
    BY <1>2
  <2> QED
    BY <1>4, <1>5, <2>1, <2>2 DEF ComparedWith
<1> QED
  BY <1>4, <1>6, <1>7, <1>8 DEF RInv

\* A request that ends without an answer, or with this one.
LEMMA RequestEnds ==
  ASSUME ReadsAssumption, RInv, Idle, UNCHANGED <<session, batches, shown, raced>>, answer' \in Answers,
         Stands(batches[answer'.about.hand], answer', raced)
  PROVE  RInv'
<1>1. 1 \in Dealt
  BY DEF ReadsAssumption, Dealt
<1>2. ReadShapes'
  BY <1>1 DEF RInv, ReadShapes, Idle, NothingAsked, Start, FirstSession, Sessions, Projections
<1> QED
  BY <1>2 DEF RInv, Idle

\* The advice of a request past its comparison.
LEMMA AdviceStands ==
  ASSUME ReadsAssumption, RInv, at = "projected", NEW legal \in SUBSET Actions,
         NEW pick \in SUBSET Actions, NEW ready \in BOOLEAN, Given(ready, legal, pick),
         ready => HeroLegal(Observed) # {},
         ready /\ (asked.kind # "advisor" \/ cur.seq = Len(Observed)) =>
            legal = HeroLegal(Observed) /\ pick \subseteq legal
  PROVE  answer' \in Answers /\ Stands(batches[answer'.about.hand], answer', raced)
<1>1. ReadShapes
  BY DEF RInv
<1>2. cur.hand \in Dealt /\ Observed \in Seq(Situation) /\ cur.seq \in Nat
  BY <1>1 DEF ReadShapes, Projections, Observed
<1>3. asked.about = cur /\ cur.seq <= Len(Observed) /\ (~raced => cur.seq = Len(Observed))
  BY DEF RInv, ComparedWith, Observed
<1> DEFINE n == Len(Observed)
<1>4. n \in Nat /\ n = Len(Observed)
  BY <1>2
<1> HIDE DEF n
<1>5. answer' = [kind |-> asked.kind, about |-> cur, seq |-> n, ready |-> ready,
                 legal |-> legal, pick |-> pick]
  BY <1>3, <1>4 DEF Given
<1>6. answer' \in Answers
  BY <1>1, <1>4, <1>5 DEF ReadShapes, Answers
<1>7. batches[answer'.about.hand] = Observed
  BY <1>5 DEF Observed
<1>8. Stands(Observed, answer', raced)
  <2> SUFFICES ASSUME ready PROVE Stands(Observed, answer', raced)
    BY <1>5 DEF Stands
  <2>1. Observed # <<>> /\ Observed[n].turn = "hero" /\ HeroLegal(Observed) = Observed[n].legal
    BY <1>4 DEF HeroLegal, Last
  <2>2. n \in 1 .. n
    BY <1>2, <1>4, <2>1
  <2> QED
    BY <1>3, <1>4, <1>5, <2>1, <2>2 DEF Stands
<1> QED
  BY <1>6, <1>7, <1>8

LEMMA LegalIsOfActions ==
  ASSUME ReadsAssumption, NEW es \in Seq(Situation) PROVE HeroLegal(es) \subseteq Actions
<1>1. CASE es # <<>> /\ Last(es).turn = "hero"
  <2>1. Last(es) \in Situation
    BY <1>1 DEF Last
  <2> QED
    BY <1>1, <2>1 DEF HeroLegal, Situation, ReadsAssumption
<1>2. CASE ~(es # <<>> /\ Last(es).turn = "hero")
  BY <1>2 DEF HeroLegal
<1> QED
  BY <1>1, <1>2

LEMMA AnswersHold ==
  ASSUME ReadsAssumption, RInv, NotReady \/ Advise \/ ObservationFails
  PROVE  RInv'
<1>1. ReadShapes
  BY DEF RInv
<1>2. at = "projected" /\ Idle /\ UNCHANGED <<session, batches, shown, raced>>
  BY DEF NotReady, Advise, ObservationFails, tableVars
<1>3. cur.hand \in Dealt /\ Observed \in Seq(Situation) /\ cur.seq \in Nat
  BY <1>1 DEF ReadShapes, Projections, Observed
<1>4. HeroLegal(Observed) \subseteq Actions
  BY <1>3, LegalIsOfActions
<1>5. CASE NotReady \/ (ObservationFails /\ Given(FALSE, {}, {}))
  BY <1>2, <1>5, AdviceStands, RequestEnds DEF NotReady
<1>6. CASE Advise
  <2>1. PICK a \in HeroLegal(Observed) : Given(TRUE, HeroLegal(Observed), {a})
    BY <1>6 DEF Advise
  <2>2. {a} \subseteq Actions
    BY <1>4
  <2> QED
    BY <1>2, <1>4, <2>1, <2>2, AdviceStands, RequestEnds
<1>7. CASE ObservationFails /\ UNCHANGED answer
  BY <1>1, <1>2, <1>7, RequestEnds DEF RInv, ReadShapes
<1>8. CASE /\ ObservationFails /\ asked.kind = "advisor"
           /\ HeroLegal(SubSeq(Observed, 1, cur.seq)) # {}
           /\ LET legal == HeroLegal(SubSeq(Observed, 1, cur.seq)) IN Given(TRUE, legal, {Preferred(legal)})
  <2> DEFINE es == SubSeq(Observed, 1, cur.seq)
             legal == HeroLegal(es)
  <2>1. cur.seq <= Len(Observed)
    BY <1>2 DEF RInv, ComparedWith, Observed
  <2>2. es \in Seq(Situation)
    BY <1>3, <2>1, SubSeqProperties
  <2>3. cur.seq = Len(Observed) => es = Observed
    BY <1>3
  <2> HIDE DEF es
  <2>4. legal \subseteq Actions /\ legal # {} /\ Given(TRUE, legal, {Preferred(legal)})
    BY <1>8, <2>2, LegalIsOfActions DEF es
  <2>5. cur.seq = Len(Observed) => legal = HeroLegal(Observed)
    BY <2>3
  <2> HIDE DEF legal
  <2>6. Preferred(legal) \in legal
    BY <2>4 DEF Preferred
  <2>7. HeroLegal(Observed) # {} /\ asked.kind = "advisor"
    BY <1>8 DEF ObservationFails
  <2>8. {Preferred(legal)} \in SUBSET Actions /\ {Preferred(legal)} \subseteq legal
    BY <2>4, <2>6
  <2>9. answer' \in Answers /\ Stands(batches[answer'.about.hand], answer', raced)
    BY <1>2, <2>4, <2>5, <2>7, <2>8, AdviceStands
  <2> QED
    BY <1>2, <2>9, RequestEnds
<1> QED
  BY <1>5, <1>6, <1>7, <1>8 DEF ObservationFails

LEMMA ReadsStep == ASSUME ReadsAssumption, RInv, [ReadsNext]_readVars PROVE RInv'
<1>1. CASE Complete \/ NextHand
  <2>1. session' \in Sessions /\ TwoToAHand(session')
    <3>1. session \in Sessions /\ TwoToAHand(session)
      BY DEF RInv, ReadShapes
    <3>2. CASE Complete
      BY <3>1, <3>2, SessionMoves DEF Complete
    <3>3. CASE NextHand
      BY <3>1, <3>3, SessionMoves DEF NextHand
    <3> QED
      BY <1>1, <3>2, <3>3
  <2>2. UNCHANGED <<batches, at, asked, recovered, cur, answer, shown, raced>>
    BY <1>1 DEF Complete, NextHand, requestVars
  <2> QED
    BY <2>1, <2>2 DEF RInv, ReadShapes
<1>2. CASE Refuse
  BY <1>2, RequestEnds DEF Refuse, tableVars, RInv, ReadShapes
<1>3. CASE UNCHANGED readVars
  <2>1. UNCHANGED <<session, batches, at, asked, recovered, cur, answer, shown, raced>>
    BY <1>3 DEF readVars
  <2> QED
    BY <2>1 DEF RInv, ReadShapes
<1> QED
  BY <1>1, <1>2, <1>3, PlayHolds, RecoversHolds, ProjectsHolds, AnswersHold DEF ReadsNext

\* For any hands, menus and seats, however the table plays on while a request
\* reads: the advice given is of one hero decision of the hand that was asked
\* about and names a legal action, it is of the very decision whose fingerprint
\* was sent if no batch came between the request's two reads, and cards are shown
\* of a showdown's seats only (insights, advisor, theory, solver, reconciliation).
THEOREM AdviceAgrees == ASSUME ReadsAssumption PROVE ReadsSpec => []ReadsAgree
<1>1. ReadsInit => RInv
  BY ReadsStart
<1>2. RInv /\ [ReadsNext]_readVars => RInv'
  BY ReadsStep
<1>3. RInv => ReadsAgree
  BY ReadsSuffice
<1> QED
  BY <1>1, <1>2, <1>3, PTL DEF ReadsSpec

-----------------------------------------------------------------------------
(***************************************************************************)
(* BotRuntime: what is legal in a menu, and who chose it.                  *)
(***************************************************************************)
Sources == Providers \cup {"fallback", "emergency"}
Tries == [by : Sources, status : Statuses]
Failed(tries) == \E i \in 1 .. Len(tries) : tries[i].status # "success"

BInv ==
    /\ provider \in Providers /\ menu \in BotMenus /\ attempts \in Seq(Tries)
    /\ stage = "primary" => attempts = <<>>
    /\ stage = "fallback" => provider = "external" /\ Failed(attempts)
    /\ stage # "done" => decision = NoDecision
    /\ BotsSound

\* What every menu offers.
LEMMA MenuParts ==
  ASSUME RuntimeAssumption, NEW m \in BotMenus
  PROVE  /\ DOMAIN m \subseteq BotActions /\ "fold" \in DOMAIN m
         /\ "call" \in DOMAIN m \/ "check" \in DOMAIN m
         /\ \A a \in DOMAIN m : m[a].min \in Nat /\ m[a].max \in Nat /\ m[a].min <= m[a].max
<1>1. PICK passive \in {"check", "call"}, cost \in Nat, g \in {{}, {"bet"}, {"raise"}}, b \in Bounds :
          m = Menu(passive, cost, g, b)
  BY DEF BotMenus, RuntimeAssumption
<1>2. b.min \in Nat /\ b.max \in Nat /\ b.min <= b.max
  BY DEF Bounds, RuntimeAssumption
<1>3. DOMAIN m = {"fold", passive} \cup g
  BY <1>1 DEF Menu
<1>4. ASSUME NEW a \in DOMAIN m PROVE m[a].min \in Nat /\ m[a].max \in Nat /\ m[a].min <= m[a].max
  <2>1. m[a] = CASE a \in g -> b [] a = "call" -> [min |-> cost, max |-> cost] [] OTHER -> Unsized
    BY <1>1, <1>3 DEF Menu
  <2>2. CASE a \in g
    <3>1. a # "call"
      BY <2>2
    <3> QED
      BY <1>2, <2>1, <2>2, <3>1
  <2>3. CASE a \notin g /\ a = "call"
    BY <2>1, <2>3
  <2>4. CASE a \notin g /\ a # "call"
    BY <2>1, <2>4 DEF Unsized
  <2> QED
    BY <2>2, <2>3, <2>4
<1> QED
  BY <1>3, <1>4 DEF BotActions

LEMMA FirstOfIsIn ==
  ASSUME NEW m, NEW order, Len(order) = 5, NEW i \in 1 .. 5, order[i] \in DOMAIN m
  PROVE  FirstOf(m, order) \in DOMAIN m
<1> DEFINE First(k) == order[k] \in DOMAIN m /\ \A j \in 1 .. k - 1 : order[j] \notin DOMAIN m
<1>1. \E k \in 1 .. 5 : First(k)
  <2>1. CASE order[1] \in DOMAIN m
    BY <2>1
  <2>2. CASE order[1] \notin DOMAIN m /\ order[2] \in DOMAIN m
    BY <2>2
  <2>3. CASE order[1] \notin DOMAIN m /\ order[2] \notin DOMAIN m /\ order[3] \in DOMAIN m
    BY <2>3
  <2>4. CASE /\ order[1] \notin DOMAIN m /\ order[2] \notin DOMAIN m /\ order[3] \notin DOMAIN m
             /\ order[4] \in DOMAIN m
    BY <2>4
  <2>5. CASE /\ order[1] \notin DOMAIN m /\ order[2] \notin DOMAIN m /\ order[3] \notin DOMAIN m
             /\ order[4] \notin DOMAIN m
    BY <2>5
  <2> QED
    BY <2>1, <2>2, <2>3, <2>4, <2>5
<1>2. FirstOf(m, order) = order[CHOOSE k \in 1 .. 5 : First(k)]
  BY DEF FirstOf
<1> QED
  BY <1>1, <1>2

LEMMA FixedIsLegal ==
  ASSUME RuntimeAssumption, NEW m \in BotMenus PROVE Admits(m, FixedChoice(m))
<1> DEFINE order == <<"check", "call", "fold", "bet", "raise">>
           a == FirstOf(m, order)
<1>1. a \in DOMAIN m
  <2>1. Len(order) = 5 /\ order[3] = "fold"
    OBVIOUS
  <2>2. "fold" \in DOMAIN m
    BY MenuParts
  <2> HIDE DEF order
  <2> QED
    BY <2>1, <2>2, FirstOfIsIn
<1>2. m[a].min \in Nat /\ m[a].max \in Nat /\ m[a].min <= m[a].max
  BY <1>1, MenuParts
<1>3. FixedChoice(m) = Choice(a, m[a].min)
  BY DEF FixedChoice
<1> HIDE DEF a
<1> QED
  BY <1>1, <1>2, <1>3 DEF Admits, Choice

LEMMA ProfileIsLegal ==
  ASSUME RuntimeAssumption, NEW m \in BotMenus, NEW s, NEW p,
         NEW profile \in {"cautious", "balanced", "aggressive"}
  PROVE  Admits(m, ProfileChoice(profile, m, s, p))
<1> DEFINE a == ProfileAction(profile, m, s, p)
<1>1. "fold" \in DOMAIN m /\ ("call" \in DOMAIN m \/ "check" \in DOMAIN m)
  BY MenuParts
<1>2. a \in DOMAIN m
  <2>1. CASE profile = "balanced"
    <3>1. a = BalancedAction(m, s, p)
      BY <2>1 DEF ProfileAction
    <3> QED
      BY <1>1, <3>1 DEF BalancedAction
  <2>2. CASE profile = "cautious"
    <3> DEFINE order == <<"fold", "check", "call", "bet", "raise">>
    <3>1. a = FirstOf(m, order)
      BY <2>2 DEF ProfileAction
    <3>2. Len(order) = 5 /\ order[1] = "fold"
      OBVIOUS
    <3> HIDE DEF order
    <3> QED
      BY <1>1, <3>1, <3>2, FirstOfIsIn
  <2>3. CASE profile = "aggressive"
    <3> DEFINE order == <<"bet", "raise", "call", "check", "fold">>
    <3>1. a = FirstOf(m, order)
      BY <2>3 DEF ProfileAction
    <3>2. Len(order) = 5 /\ order[5] = "fold"
      OBVIOUS
    <3> HIDE DEF order
    <3> QED
      BY <1>1, <3>1, <3>2, FirstOfIsIn
  <2> QED
    BY <2>1, <2>2, <2>3
<1>3. m[a].min \in Nat /\ m[a].max \in Nat /\ m[a].min <= m[a].max
  BY <1>2, MenuParts
<1>4. ProfileChoice(profile, m, s, p) = Choice(a, ProfileAmount(profile, m[a]))
  BY DEF ProfileChoice
<1> HIDE DEF a
<1>5. ProfileAmount(profile, m[a]) \in m[a].min .. m[a].max
  <2> DEFINE low == m[a].min  high == m[a].max
  <2>1. low \in Nat /\ high \in Nat /\ low <= high
    BY <1>3
  <2>2. ProfileAmount(profile, m[a]) \in {low, (low + high) \div 2, high}
    BY DEF ProfileAmount
  <2> HIDE DEF low, high
  <2>3. (low + high) \div 2 \in low .. high
    BY <2>1
  <2>4. ProfileAmount(profile, m[a]) \in low .. high
    BY <2>1, <2>2, <2>3
  <2> QED
    BY <2>4 DEF low, high
<1> QED
  BY <1>2, <1>4, <1>5 DEF Admits, Choice

\* A draw finds an action with a frequency, or rounds up to a raise.
LEMMA SampleIsOfTheTable ==
  ASSUME NEW sp, NEW o, NEW draw \in 0 .. 20
  PROVE  Sample(Frequencies(sp, o), draw) \in Support(Frequencies(sp, o)) \cup {"raise"}
<1> DEFINE freqs == Frequencies(sp, o)
<1>1. PICK call \in Nat, fold \in Nat, raise \in Nat : freqs = Freqs(call, fold, raise)
  <2>1. freqs \in {Freqs(0, 0, 20), Freqs(0, 9, 11), Freqs(0, 20, 0), Freqs(6, 0, 14),
                   Freqs(8, 6, 6), Freqs(11, 9, 0)}
    BY Zenon DEF Frequencies
  <2> HIDE DEF freqs
  <2> QED
    BY <2>1
<1> HIDE DEF freqs
<1>2. DOMAIN freqs = {"call", "fold", "raise"} /\ freqs["call"] = call /\ freqs["fold"] = fold
  BY <1>1 DEF Freqs
<1>3. CASE draw < call
  BY <1>2, <1>3 DEF Sample, Support, freqs
<1>4. CASE ~(draw < call) /\ draw \in call .. call + fold - 1
  <2>1. fold > 0
    BY <1>4
  <2> QED
    BY <1>2, <1>4, <2>1 DEF Sample, Support, freqs
<1>5. CASE ~(draw < call) /\ draw \notin call .. call + fold - 1
  BY <1>2, <1>5 DEF Sample, freqs
<1> QED
  BY <1>3, <1>4, <1>5

\* A legal choice, with a true account of the attempts before it, is a sound end.
LEMMA ReturnsSoundly ==
  ASSUME RuntimeAssumption, BInv, NEW c, NEW by \in Sources, NEW degraded \in BOOLEAN,
         NEW tries \in Seq(Tries), Returns(c, by, degraded, tries), Admits(menu, c),
         degraded <=> Failed(tries), by # provider => degraded,
         provider = "theory" /\ ~degraded =>
            /\ spot.calls = 0 /\ spot.deep /\ spot.preflop /\ spot.raises \in {<<>>, << 5 >>}
            /\ c.action \in Support(Frequencies(spot, ordinal)) \cup {"raise"}
            /\ c.action = "raise" => c.amount = RaiseTo(spot)
  PROVE  BInv'
<1>1. /\ provider \in Providers /\ menu \in BotMenus
      /\ UNCHANGED <<menu, spot, ordinal, provider>> /\ stage' = "done"
  BY DEF BInv, Returns, given
<1>2. /\ decision' = Decision(c, by, degraded)
      /\ attempts' = Append(tries, Attempt(by, "success"))
  BY DEF Returns
<1>3. /\ decision'.action = c.action /\ decision'.amount = c.amount
      /\ decision'.by = by /\ decision'.degraded = degraded
  BY <1>2 DEF Decision
<1>4. decision' # NoDecision
  BY <1>3 DEF NoDecision, Sources, Providers, Local
<1>5. Attempt(by, "success") \in Tries
  BY DEF Attempt, Tries, Statuses
<1>6. /\ attempts' \in Seq(Tries) /\ Len(attempts') = Len(tries) + 1 /\ Len(tries) \in Nat
      /\ attempts'[Len(attempts')] = Attempt(by, "success")
      /\ \A i \in 1 .. Len(tries) : attempts'[i] = tries[i]
  BY <1>2, <1>5, AppendProperties
<1>7. Failed(attempts') <=> Failed(tries)
  <2>1. Attempt(by, "success").status = "success"
    BY DEF Attempt
  <2> QED
    BY <1>6, <2>1 DEF Failed
<1>8. c.action \in BotActions /\ c.amount \in Nat
  BY <1>1, MenuParts DEF Admits
<1>9. DecisionTyped'
  <2>1. \A i \in 1 .. Len(attempts') : attempts'[i].status \in Statuses
    <3>1. ASSUME NEW i \in 1 .. Len(attempts') PROVE attempts'[i] \in Tries
      BY <1>6
    <3> QED
      BY <3>1 DEF Tries
  <2> QED
    BY <1>1, <1>3, <1>4, <1>8, <2>1 DEF DecisionTyped
<1>10. AlwaysLegal'
  BY <1>1, <1>3 DEF AlwaysLegal, Admits
<1>11. HonestProvenance'
  BY <1>1, <1>3, <1>6, <1>7 DEF HonestProvenance, Failed
<1>12. LocalsNeedNoFallback' /\ PolicyPlaysItsTable'
  BY <1>1, <1>3 DEF LocalsNeedNoFallback, PolicyPlaysItsTable
<1> QED
  BY <1>1, <1>6, <1>9, <1>10, <1>11, <1>12 DEF BInv, BotsSound

\* Only a provider of another kind makes the runtime fall back.
LEMMA FallsBackSoundly ==
  ASSUME BInv, provider = "external", stage = "primary",
         NEW status \in {"timeout", "exception", "invalid_action"},
         FallsBack(<<Attempt(provider, status)>>)
  PROVE  BInv'
<1>1. /\ UNCHANGED <<menu, pot, strength, spot, ordinal, provider, decision>>
      /\ stage' = "fallback" /\ attempts' = <<Attempt(provider, status)>>
  BY DEF FallsBack, given
<1>2. Attempt(provider, status) \in Tries /\ Attempt(provider, status).status = status
  BY DEF Attempt, Tries, Statuses, Sources, Providers
<1>3. attempts' \in Seq(Tries) /\ Len(attempts') = 1 /\ attempts'[1].status = status
  BY <1>1, <1>2
<1>4. Failed(attempts')
  BY <1>3 DEF Failed
<1>5. decision = NoDecision
  BY DEF BInv
<1>6. DecisionTyped'
  BY <1>1, <1>3, <1>5 DEF DecisionTyped, NoDecision, BotActions, Statuses
<1>7. BotsSound'
  BY <1>1, <1>6 DEF BotsSound, AlwaysLegal, HonestProvenance, LocalsNeedNoFallback, Local,
                    PolicyPlaysItsTable
<1> QED
  BY <1>1, <1>3, <1>4, <1>5, <1>7 DEF BInv

LEMMA NoTries == <<>> \in Seq(Tries) /\ ~Failed(<<>>)
  BY DEF Failed

LEMMA LocalsAnswer == ASSUME RuntimeAssumption, BInv, LocalAnswer PROVE BInv'
<1>1. PICK c : Admits(menu, c) /\ Checked(c, FALSE, <<>>)
  BY FixedIsLegal, ProfileIsLegal DEF LocalAnswer, BInv
<1>2. Returns(c, provider, FALSE, <<>>) /\ provider # "theory"
  BY <1>1 DEF Checked, LocalAnswer
<1> QED
  BY <1>1, <1>2, NoTries, ReturnsSoundly DEF BInv, Sources

LEMMA PolicyAnswers == ASSUME RuntimeAssumption, BInv, PolicyAnswer PROVE BInv'
<1> DEFINE c == ProfileChoice("balanced", menu, strength, pot)
           tries == <<Attempt("theory", "policy_fallback")>>
           freqs == Frequencies(spot, ordinal)
<1>1. provider = "theory" /\ provider \in Sources
  BY DEF PolicyAnswer, Sources, Providers, Local
<1>2. CASE Checked(c, TRUE, tries)
  <2>1. Admits(menu, c)
    BY ProfileIsLegal DEF BInv
  <2>2. Attempt("theory", "policy_fallback") \in Tries
    BY <1>1 DEF Attempt, Tries, Statuses
  <2>3. tries \in Seq(Tries) /\ Failed(tries)
    BY <2>2 DEF Failed, Attempt
  <2>4. Returns(c, provider, TRUE, tries)
    BY <1>2, <2>1 DEF Checked
  <2> HIDE DEF c, tries
  <2> QED
    BY <1>1, <2>1, <2>3, <2>4, ReturnsSoundly
<1>3. CASE Covered(spot) /\ \E draw \in 0 .. 20 :
              LET d == PolicyChoice(menu, spot, Sample(freqs, draw))
              IN  Admits(menu, d) /\ Checked(d, FALSE, <<>>)
  <2>1. PICK draw \in 0 .. 20 :
            LET d == PolicyChoice(menu, spot, Sample(freqs, draw))
            IN  Admits(menu, d) /\ Checked(d, FALSE, <<>>)
    BY <1>3
  <2> DEFINE a == Sample(freqs, draw)  d == PolicyChoice(menu, spot, a)
  <2>2. Admits(menu, d) /\ Returns(d, provider, FALSE, <<>>)
    BY <2>1 DEF Checked
  <2>3. a \in Support(freqs) \cup {"raise"}
    BY SampleIsOfTheTable
  <2>4. d.action = a /\ (a = "raise" => d.amount = RaiseTo(spot))
    BY DEF PolicyChoice, Choice
  <2>5. /\ spot.calls = 0 /\ spot.deep /\ spot.preflop /\ spot.raises \in {<<>>, <<5>>}
    BY <1>3 DEF Covered, Nodes, Prefix
  <2> HIDE DEF a, d
  <2> QED
    BY <1>1, <2>2, <2>3, <2>4, <2>5, NoTries, ReturnsSoundly DEF freqs
<1> QED
  BY <1>2, <1>3 DEF PolicyAnswer

LEMMA ExternalAnswers == ASSUME RuntimeAssumption, BInv, ExternalAnswer PROVE BInv'
<1>1. PICK c \in Choices : Checked(c, FALSE, <<>>)
  BY DEF ExternalAnswer
<1>2. provider = "external" /\ provider \in Sources /\ stage = "primary"
  BY DEF ExternalAnswer, Sources, Providers
<1>3. CASE Admits(menu, c)
  <2>1. Returns(c, provider, FALSE, <<>>)
    BY <1>1, <1>3 DEF Checked
  <2> QED
    BY <1>2, <1>3, <2>1, NoTries, ReturnsSoundly
<1>4. CASE ~Admits(menu, c)
  <2>1. FallsBack(<<Attempt(provider, "invalid_action")>>)
    BY <1>1, <1>4 DEF Checked
  <2> QED
    BY <1>2, <2>1, FallsBackSoundly
<1> QED
  BY <1>3, <1>4

LEMMA FallbackEnds == ASSUME RuntimeAssumption, BInv, FallbackAnswers \/ FallbackFails PROVE BInv'
<1>1. /\ provider = "external" /\ attempts \in Seq(Tries) /\ Failed(attempts)
      /\ Admits(menu, FixedChoice(menu))
  BY FixedIsLegal DEF BInv, FallbackAnswers, FallbackFails
<1>2. CASE FallbackAnswers
  BY <1>1, <1>2, ReturnsSoundly DEF FallbackAnswers, Sources
<1>3. CASE FallbackFails
  <2> DEFINE tries == Append(attempts, Attempt("fallback", "exception"))
  <2>1. Attempt("fallback", "exception") \in Tries
    BY DEF Attempt, Tries, Statuses, Sources
  <2>2. tries \in Seq(Tries) /\ Failed(tries)
    BY <1>1, <2>1, AppendProperties DEF Failed
  <2>3. Returns(FixedChoice(menu), "emergency", TRUE, tries)
    BY <1>3 DEF FallbackFails, Emergency
  <2> HIDE DEF tries
  <2> QED
    BY <1>1, <2>2, <2>3, ReturnsSoundly DEF Sources
<1> QED
  BY <1>2, <1>3

LEMMA BotsStep == ASSUME RuntimeAssumption, BInv, [BotNext]_botVars PROVE BInv'
<1>1. CASE UNCHANGED botVars
  <2>1. UNCHANGED <<menu, pot, strength, spot, ordinal, provider, stage, attempts, decision>>
    BY <1>1 DEF botVars, given
  <2> QED
    BY <2>1 DEF BInv, Failed, BotsSound, DecisionTyped, AlwaysLegal, HonestProvenance,
                LocalsNeedNoFallback, PolicyPlaysItsTable
<1>2. CASE ExternalFails
  BY <1>2, FallsBackSoundly DEF ExternalFails
<1>3. CASE Cancel
  <2>1. /\ UNCHANGED <<menu, pot, strength, spot, ordinal, provider, attempts, decision>>
        /\ stage' = "cancelled" /\ provider = "external" /\ stage # "done"
    BY <1>3 DEF Cancel, given
  <2> QED
    BY <2>1 DEF BInv, BotsSound, DecisionTyped, AlwaysLegal, HonestProvenance,
                LocalsNeedNoFallback, PolicyPlaysItsTable
<1> QED
  BY <1>1, <1>2, <1>3, LocalsAnswer, PolicyAnswers, ExternalAnswers, FallbackEnds DEF BotNext

LEMMA BotsStart == ASSUME RuntimeAssumption, BotInit PROVE BInv
<1>1. provider \in Providers /\ menu \in BotMenus /\ stage = "primary" /\ attempts = <<>> /\ decision = NoDecision
  BY DEF BotInit
<1>2. DecisionTyped
  BY <1>1 DEF DecisionTyped, NoDecision, BotActions
<1> QED
  BY <1>1, <1>2 DEF BInv, BotsSound, AlwaysLegal, HonestProvenance, LocalsNeedNoFallback,
                    PolicyPlaysItsTable

\* For any menus, pots, cards and preflop situations: whatever provider is asked, and
\* whether it answers, answers something illegal, raises, is late or is cancelled,
\* the table gets a legal action and a true account of who chose it; the built-in
\* providers never need the fallback, and an undegraded theory bot plays its table
\* (BotRuntime.decide, _finalize).
THEOREM BotsStaySound == ASSUME RuntimeAssumption PROVE BotSpec => []BotsSound
<1>1. BotInit => BInv
  BY BotsStart
<1>2. BInv /\ [BotNext]_botVars => BInv'
  BY BotsStep
<1>3. BInv => BotsSound
  BY DEF BInv
<1> QED
  BY <1>1, <1>2, <1>3, PTL DEF BotSpec

=============================================================================
