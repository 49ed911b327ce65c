---------------------------- MODULE ScenarioProofs ----------------------------
(***************************************************************************)
(* Proofs about ScenarioSpec, for any table, hero, hands, boards and       *)
(* ranges: what validation puts on file passes it again unchanged, reads   *)
(* alike in both forms, and is valid at every earlier decision.  About     *)
(* ScenarioStore, for any number of scenarios, processes, contents,        *)
(* revisions and runs: an id is never handed out twice and revisions only  *)
(* grow, so what a process read of a scenario stays true of it while the   *)
(* scenario is there, and the number an update carries is taken or the     *)
(* next one.  About ApiGate, for any clients, keys, limit and window: a    *)
(* window's last admission counted all the others.  And about              *)
(* PracticeLedger, for any processes, profiles, questions and answers: a   *)
(* question goes for good with its profile, so what was read for an answer *)
(* that can still be saved is of the profile that is there.                *)
(***************************************************************************)
EXTENDS ScenarioSpec, ScenarioStore, ApiGate, PracticeLedger, FiniteSetTheorems,
        SequenceTheorems, NaturalsInduction, WellFoundedInduction, TLAPS

(***************************************************************************)
(* The document: ScenarioSpec.                                             *)
(***************************************************************************)
Legacy == Pairs \cup {Nothing}
Ranges == RangesTried \cup {Nothing}
Documents == [known : [Seats -> Hands \cup {Nothing}], hero : Legacy, villain : Legacy,
              board : Boards \cup {<<>>}, ranges : [Seats -> Ranges],
              heroRange : Ranges, villainRange : Ranges, after : Nat, street : Nat]

LEMMA OpponentIsAnother ==
  ASSUME HeadsUp
  PROVE  Opponent \in Seats /\ Opponent # Hero
<1>1. Seats # {Hero}
  <2>1. Cardinality({Hero}) = 1
    BY FS_Singleton
  <2> QED
    BY <2>1 DEF HeadsUp
<1>2. \E s \in Seats : s # Hero
  BY <1>1, ScenarioSpecAssumption DEF ScenarioSpecAssumption
<1> QED
  BY <1>2 DEF Opponent

LEMMA BoardLength == ASSUME NEW d \in Documents PROVE Len(d.board) \in Nat
<1>1. d.board \in Boards \cup {<<>>}
  BY DEF Documents
<1> QED
  BY <1>1, ScenarioSpecAssumption DEF ScenarioSpecAssumption

LEMMA LegacyCardinality == \A h \in Legacy : Cardinality(h) \in {0, 2}
BY FS_EmptySet DEF Legacy, Pairs, Nothing

LEMMA EditsAreDocuments ==
  ASSUME NEW d \in Documents, NEW e \in Edits(d)
  PROVE  e \in Documents
<1>0. Len(d.board) \in Nat
  BY BoardLength
<1>1. Nothing \in Legacy /\ Nothing \in Ranges /\ Pairs \subseteq Legacy /\ RangesTried \subseteq Ranges
  BY DEF Legacy, Ranges
<1>2. e \in LegacyHands(d) => e \in Documents
  BY <1>1 DEF LegacyHands, Documents, Legacy
<1>3. e \in SeatHands(d) => e \in Documents
  BY DEF SeatHands, Documents
<1>4. e \in OtherBoards(d) => e \in Documents
  BY DEF OtherBoards, Documents
<1>5. e \in LegacyRanges(d) => e \in Documents
  BY <1>1 DEF LegacyRanges, Documents, Ranges
<1>6. e \in SeatRanges(d) => e \in Documents
  BY <1>1 DEF SeatRanges, Documents, Ranges
<1>7. e \in OtherNodes(d) => e \in Documents
  <2>1. ASSUME NEW k \in 0 .. Len(d.board) \cup {Showdown}
        PROVE  /\ [d EXCEPT !.street = k] \in Documents
               /\ [d EXCEPT !.after = k, !.street = k] \in Documents
    BY <1>0, k \in Nat DEF Documents, Showdown
  <2> QED
    BY <2>1 DEF OtherNodes
<1> QED
  BY <1>2, <1>3, <1>4, <1>5, <1>6, <1>7 DEF Edits

\* The seat-based form of a document, in the fields' types.
LEMMA CanonicalForms ==
  ASSUME NEW d \in Documents
  PROVE  /\ KnownCards(d) \in [Seats -> Hands \cup {Nothing}]
         /\ RangesOf(d) \in [Seats -> Ranges]
<1>1. d.hero \in Hands \cup {Nothing} /\ d.villain \in Hands \cup {Nothing}
  BY DEF Documents, Legacy, Pairs
<1>2. \A s \in Seats : LegacyOf(s, d.hero, d.villain) \in Hands \cup {Nothing}
  BY <1>1 DEF LegacyOf
<1>3. \A s \in Seats : LegacyOf(s, d.heroRange, d.villainRange) \in Ranges
  BY DEF LegacyOf, Documents, Ranges
<1> QED
  BY <1>2, <1>3 DEF KnownCards, RangesOf, Canonical, Documents

-----------------------------------------------------------------------------
(***************************************************************************)
(* The validated document says what the one sent said, in both forms.      *)
(***************************************************************************)
LEMMA NormalFields ==
  ASSUME NEW d \in Documents
  PROVE  /\ Normal(d).known = KnownCards(d) /\ Normal(d).ranges = RangesOf(d)
         /\ Normal(d).hero = IF d.known[Hero] # Nothing THEN d.known[Hero] ELSE d.hero
         /\ Normal(d).villain = IF HeadsUp /\ d.known[Opponent] # Nothing
                                THEN d.known[Opponent] ELSE d.villain
         /\ Normal(d).heroRange = IF Given(d.ranges) # {} THEN d.ranges[Hero] ELSE d.heroRange
         /\ Normal(d).villainRange = IF Given(d.ranges) # {} /\ HeadsUp
                                     THEN d.ranges[Opponent] ELSE d.villainRange
         /\ Normal(d).board = d.board /\ Normal(d).after = d.after /\ Normal(d).street = d.street
         /\ DOMAIN Normal(d) = {"known", "hero", "villain", "board", "ranges", "heroRange",
                                "villainRange", "after", "street"}
BY DEF Normal, Documents

LEMMA SeatsOfBothForms ==
  /\ Hero \in Seats
  /\ HeadsUp => Opponent \in Seats /\ Opponent # Hero
BY OpponentIsAnother, ScenarioSpecAssumption DEF ScenarioSpecAssumption

\* The two forms of a document's hands and ranges agree once it is validated.
LEMMA FormsAgree ==
  ASSUME NEW d \in Documents
  PROVE  /\ Normal(d).heroRange = RangesOf(d)[Hero]
         /\ HeadsUp => Normal(d).villainRange = RangesOf(d)[Opponent]
         /\ KnownCards(d)[Hero] # Nothing => Normal(d).hero = KnownCards(d)[Hero]
         /\ HeadsUp /\ KnownCards(d)[Opponent] # Nothing
              => Normal(d).villain = KnownCards(d)[Opponent]
<1> USE SeatsOfBothForms, NormalFields
<1>1. /\ Normal(d).heroRange = RangesOf(d)[Hero]
      /\ HeadsUp => Normal(d).villainRange = RangesOf(d)[Opponent]
  <2>1. CASE Given(d.ranges) # {}
    BY <2>1 DEF RangesOf, Canonical
  <2>2. CASE Given(d.ranges) = {}
    BY <2>2 DEF RangesOf, Canonical, LegacyOf
  <2> QED
    BY <2>1, <2>2
<1>2. /\ KnownCards(d)[Hero] # Nothing => Normal(d).hero = KnownCards(d)[Hero]
      /\ HeadsUp /\ KnownCards(d)[Opponent] # Nothing
           => Normal(d).villain = KnownCards(d)[Opponent]
  <2>1. CASE Given(d.known) # {}
    BY <2>1 DEF KnownCards, Canonical
  <2>2. CASE Given(d.known) = {}
    <3>1. d.known[Hero] = Nothing /\ (HeadsUp => d.known[Opponent] = Nothing)
      BY <2>2 DEF Given
    <3> QED
      BY <2>2, <3>1 DEF KnownCards, Canonical, LegacyOf
  <2> QED
    BY <2>1, <2>2
<1> QED
  BY <1>1, <1>2

\* Nothing is made of nothing: where the seat-based form of a validated document
\* is empty, so is what the two-seat form would fill it with.
LEMMA EmptyStaysEmpty ==
  ASSUME NEW d \in Documents
  PROVE  KnownCards(Normal(d)) = KnownCards(d) /\ RangesOf(Normal(d)) = RangesOf(d)
<1> USE SeatsOfBothForms, NormalFields
<1>1. KnownCards(Normal(d)) = KnownCards(d)
  <2>1. CASE Given(KnownCards(d)) # {}
    BY <2>1 DEF KnownCards, Canonical
  <2>2. CASE Given(KnownCards(d)) = {}
    <3>1. \A s \in Seats : KnownCards(d)[s] = Nothing
      BY <2>2 DEF Given
    <3>2. Given(d.known) = {}
      BY <3>1 DEF KnownCards, Canonical, Given
    <3>3. d.known[Hero] = Nothing /\ (HeadsUp => d.known[Opponent] = Nothing)
      BY <3>2 DEF Given
    <3>4. Normal(d).hero = d.hero /\ Normal(d).villain = d.villain
      BY <3>3
    <3>5. KnownCards(d) = [s \in Seats |-> LegacyOf(s, d.hero, d.villain)]
      BY <3>2 DEF KnownCards, Canonical
    <3>6. KnownCards(Normal(d)) = [s \in Seats |-> LegacyOf(s, d.hero, d.villain)]
      BY <2>2, <3>4 DEF KnownCards, Canonical
    <3> QED
      BY <3>5, <3>6
  <2> QED
    BY <2>1, <2>2
<1>2. RangesOf(Normal(d)) = RangesOf(d)
  <2>1. CASE Given(RangesOf(d)) # {}
    BY <2>1 DEF RangesOf, Canonical
  <2>2. CASE Given(RangesOf(d)) = {}
    <3>1. Given(d.ranges) = {}
      BY <2>2 DEF RangesOf, Canonical
    <3>2. Normal(d).heroRange = d.heroRange /\ Normal(d).villainRange = d.villainRange
      BY <3>1
    <3>3. RangesOf(d) = [s \in Seats |-> LegacyOf(s, d.heroRange, d.villainRange)]
      BY <3>1 DEF RangesOf, Canonical
    <3>4. RangesOf(Normal(d)) = [s \in Seats |-> LegacyOf(s, d.heroRange, d.villainRange)]
      BY <2>2, <3>2 DEF RangesOf, Canonical
    <3> QED
      BY <3>3, <3>4
  <2> QED
    BY <2>1, <2>2
<1> QED
  BY <1>1, <1>2

LEMMA NormalIsDocument ==
  ASSUME NEW d \in Documents, WholeHands(d)
  PROVE  Normal(d) \in Documents
<1> USE SeatsOfBothForms
<1>1. /\ d.known[Hero] # Nothing => d.known[Hero] \in Pairs
      /\ HeadsUp /\ d.known[Opponent] # Nothing => d.known[Opponent] \in Pairs
  BY DEF Documents, WholeHands, Pairs, KnownCards
<1>2. /\ Normal(d).hero \in Legacy /\ Normal(d).villain \in Legacy
  BY <1>1, NormalFields DEF Documents, Legacy
<1>3. Normal(d).heroRange \in Ranges /\ Normal(d).villainRange \in Ranges
  BY NormalFields DEF Documents
<1>4. Normal(d).known \in [Seats -> Hands \cup {Nothing}] /\ Normal(d).ranges \in [Seats -> Ranges]
  BY NormalFields, CanonicalForms
<1>5. Normal(d) = [known |-> KnownCards(d), hero |-> Normal(d).hero,
                   villain |-> Normal(d).villain, board |-> d.board, ranges |-> RangesOf(d),
                   heroRange |-> Normal(d).heroRange, villainRange |-> Normal(d).villainRange,
                   after |-> d.after, street |-> d.street]
  <2> DEFINE n == Normal(d)
  <2>1. n = [x \in DOMAIN n |-> n[x]]
    BY DEF Normal, Documents
  <2>2. /\ DOMAIN n = {"known", "hero", "villain", "board", "ranges", "heroRange",
                       "villainRange", "after", "street"}
        /\ n.known = KnownCards(d) /\ n.ranges = RangesOf(d)
        /\ n.board = d.board /\ n.after = d.after /\ n.street = d.street
    BY NormalFields
  <2> HIDE DEF n
  <2>3. n = [known |-> n.known, hero |-> n.hero, villain |-> n.villain, board |-> n.board,
             ranges |-> n.ranges, heroRange |-> n.heroRange, villainRange |-> n.villainRange,
             after |-> n.after, street |-> n.street]
    BY <2>1, <2>2
  <2> QED
    BY <2>2, <2>3 DEF n
<1> QED
  BY <1>2, <1>3, <1>4, <1>5, NormalFields DEF Documents

\* What is validated once is valid, and validating it again changes nothing.
LEMMA NormalIsStable ==
  ASSUME NEW d \in Documents, Valid(d)
  PROVE  Valid(Normal(d)) /\ Normal(Normal(d)) = Normal(d)
<1> DEFINE n == Normal(d)
<1> USE SeatsOfBothForms
<1>0. n \in Documents
  BY NormalIsDocument DEF Valid
<1>1. KnownCards(n) = KnownCards(d) /\ RangesOf(n) = RangesOf(d)
  BY EmptyStaysEmpty
<1>2. n.board = d.board /\ n.after = d.after /\ n.street = d.street
      /\ n.known = KnownCards(d) /\ n.ranges = RangesOf(d)
  BY NormalFields
<1>3. BoardHasSize(n) /\ NoOverlap(n) /\ RangesLive(n)
  BY <1>1, <1>2 DEF Valid, BoardHasSize, NoOverlap, RangesLive, Blockers, BoardCards, VisibleStreets
<1>4. WholeHands(n)
  <2> SUFFICES ASSUME NEW s \in Seats, KnownCards(d)[s] # Nothing
               PROVE  Cardinality(KnownCards(d)[s]) = 2
    BY <1>2 DEF WholeHands
  <2>1. CASE Given(d.known) # {}
    BY <2>1 DEF KnownCards, Canonical, Valid, WholeHands
  <2>2. CASE Given(d.known) = {}
    <3>1. KnownCards(d)[s] = LegacyOf(s, d.hero, d.villain)
      BY <2>2 DEF KnownCards, Canonical
    <3>2. KnownCards(d)[s] \in Legacy
      BY <3>1 DEF LegacyOf, Documents, Legacy
    <3> QED
      BY <3>2 DEF Legacy, Pairs
  <2> QED
    BY <2>1, <2>2
<1>5. /\ Normal(n).known = n.known /\ Normal(n).ranges = n.ranges
      /\ Normal(n).board = n.board /\ Normal(n).after = n.after /\ Normal(n).street = n.street
  BY <1>0, <1>1, <1>2, NormalFields
<1>6. /\ n.heroRange = n.ranges[Hero] /\ (HeadsUp => n.villainRange = n.ranges[Opponent])
      /\ n.known[Hero] # Nothing => n.hero = n.known[Hero]
      /\ HeadsUp /\ n.known[Opponent] # Nothing => n.villain = n.known[Opponent]
  BY <1>2, FormsAgree
<1>7. /\ Normal(n).hero = n.hero /\ Normal(n).villain = n.villain
      /\ Normal(n).heroRange = n.heroRange /\ Normal(n).villainRange = n.villainRange
  <2> HIDE DEF n
  <2> QED
    BY <1>0, <1>6, NormalFields
<1>8. Normal(n) \in Documents
  BY <1>0, <1>4, NormalIsDocument
<1>9. Normal(n) = n
  <2> HIDE DEF n
  <2> QED
    BY <1>0, <1>5, <1>7, <1>8 DEF Documents
<1> QED
  BY <1>3, <1>4, <1>9 DEF Valid

\* Seen from an earlier decision less of the board blocks: all that held still does.
LEMMA EarlierIsValid ==
  ASSUME NEW d \in Documents, Valid(d), NEW k \in 0 .. VisibleStreets(d)
  PROVE  Valid([d EXCEPT !.after = k, !.street = k])
<1> DEFINE e == [d EXCEPT !.after = k, !.street = k]
<1>1. Len(d.board) \in Nat /\ d.after \in Nat /\ d.street \in Nat
  BY BoardLength DEF Documents
<1>2. VisibleStreets(d) \in Nat /\ VisibleStreets(d) <= Len(d.board)
  BY <1>1 DEF VisibleStreets, Earlier
<1>3. /\ e.board = d.board /\ e.known = d.known /\ e.ranges = d.ranges /\ e.hero = d.hero
      /\ e.villain = d.villain /\ e.heroRange = d.heroRange /\ e.villainRange = d.villainRange
      /\ e.after = k /\ e.street = k
  BY DEF Documents
<1> HIDE DEF e
<1>4. VisibleStreets(e) = k
  BY <1>1, <1>2, <1>3 DEF VisibleStreets, Earlier
<1>5. KnownCards(e) = KnownCards(d) /\ RangesOf(e) = RangesOf(d)
  BY <1>3 DEF KnownCards, RangesOf
<1>6. 1 .. k \subseteq 1 .. VisibleStreets(d)
  BY <1>2
<1>7. BoardCards(e, VisibleStreets(e)) \subseteq BoardCards(d, VisibleStreets(d))
  BY <1>3, <1>4, <1>6 DEF BoardCards
<1>8. \A s \in Seats : Blockers(e, s) \subseteq Blockers(d, s)
  BY <1>5, <1>7 DEF Blockers
<1>9. RangesLive(e)
  BY <1>5, <1>8 DEF Valid, RangesLive
<1>10. NoOverlap(e)
  BY <1>3, <1>5 DEF Valid, NoOverlap, BoardCards
<1>11. WholeHands(e)
  BY <1>3 DEF Valid, WholeHands
<1>12. BoardHasSize(e)
  BY <1>1, <1>2, <1>3 DEF Valid, BoardHasSize, Showdown
<1> QED
  BY <1>9, <1>10, <1>11, <1>12 DEF Valid, e

-----------------------------------------------------------------------------
\* On file is only what validation made of a document it took.
OnFileValid == \E d \in Documents : Valid(d) /\ stored = Normal(d)

LEMMA BlankIsOnFile == DocumentInit => OnFileValid
<1>1. Blank \in Documents
  <2>1. Nothing \in Legacy /\ Nothing \in Ranges
    BY DEF Legacy, Ranges
  <2> QED
    BY <2>1 DEF Blank, Documents
<1>2. \A s \in Seats : KnownCards(Blank)[s] = Nothing /\ RangesOf(Blank)[s] = Nothing
  BY DEF KnownCards, RangesOf, Canonical, LegacyOf, Given, Blank
<1>3. BoardHasSize(Blank)
  BY DEF BoardHasSize, Showdown, Blank
<1>4. Valid(Blank)
  BY <1>2, <1>3 DEF Valid, WholeHands, NoOverlap, RangesLive, Nothing, Blank
<1>5. Normal(Blank) = Blank
  <2>1. KnownCards(Blank) = [s \in Seats |-> Nothing] /\ RangesOf(Blank) = [s \in Seats |-> Nothing]
    BY DEF KnownCards, RangesOf, Canonical, LegacyOf, Given, Blank
  <2>2. Given(Blank.known) = {} /\ Given(Blank.ranges) = {} /\ Hero \in Seats
    BY SeatsOfBothForms DEF Given, Blank
  <2>3. Blank.known[Hero] = Nothing /\ (HeadsUp => Blank.known[Opponent] = Nothing)
    BY SeatsOfBothForms DEF Blank
  <2>4. Normal(Blank) \in Documents
    BY <1>1, <1>4, NormalIsDocument DEF Valid
  <2>5. /\ Normal(Blank).known = Blank.known /\ Normal(Blank).ranges = Blank.ranges
        /\ Normal(Blank).hero = Blank.hero /\ Normal(Blank).villain = Blank.villain
        /\ Normal(Blank).heroRange = Blank.heroRange
        /\ Normal(Blank).villainRange = Blank.villainRange
        /\ Normal(Blank).board = Blank.board /\ Normal(Blank).after = Blank.after
        /\ Normal(Blank).street = Blank.street
    <3>1. Blank.known = [s \in Seats |-> Nothing] /\ Blank.ranges = [s \in Seats |-> Nothing]
      BY DEF Blank
    <3> QED
      BY <1>1, <2>1, <2>2, <2>3, <3>1, NormalFields
  <2> QED
    BY <1>1, <2>4, <2>5 DEF Documents
<1> QED
  BY <1>1, <1>4, <1>5 DEF DocumentInit, OnFileValid

LEMMA SavesAreOnFile == OnFileValid /\ [DocumentNext]_specVars => OnFileValid'
<1> SUFFICES ASSUME OnFileValid, [DocumentNext]_specVars PROVE OnFileValid'
  OBVIOUS
<1>1. stored \in Documents
  BY NormalIsDocument DEF OnFileValid, Valid
<1>2. ASSUME NEW d \in Edits(stored), Save(d) PROVE OnFileValid'
  BY <1>1, <1>2, EditsAreDocuments DEF Save, OnFileValid
<1>3. ASSUME NEW d \in Edits(stored), Refuse(d) PROVE OnFileValid'
  BY <1>3 DEF Refuse, OnFileValid
<1>4. CASE UNCHANGED specVars
  BY <1>4 DEF specVars, OnFileValid
<1> QED
  BY <1>2, <1>3, <1>4 DEF DocumentNext

LEMMA OnFileIsSound == OnFileValid => SpecSound
<1> SUFFICES ASSUME NEW d \in Documents, Valid(d), stored = Normal(d) PROVE SpecSound
  BY DEF OnFileValid
<1> USE SeatsOfBothForms
<1>1. stored \in Documents
  BY NormalIsDocument DEF Valid
<1>2. Valid(stored) /\ Normal(stored) = stored
  BY NormalIsStable
<1>3. stored.known = KnownCards(stored) /\ stored.ranges = RangesOf(stored)
  BY EmptyStaysEmpty, NormalFields
<1>4. SpecOK
  <2>1. DOMAIN stored = DOMAIN Blank
    BY <1>1 DEF Documents, Blank
  <2>2. \A s \in Seats : Cardinality(stored.known[s]) \in {0, 2}
    BY <1>2, FS_EmptySet DEF Valid, WholeHands, Nothing
  <2> QED
    BY <2>1, <2>2 DEF SpecOK
<1>5. RangesReadAlike
  BY FormsAgree, NormalFields DEF RangesReadAlike
<1>6. RangesCanBeDealt
  BY <1>2, <1>3 DEF Valid, RangesLive, Blockers, RangesCanBeDealt
<1>7. EarlierNodesAreValid
  BY <1>1, <1>2, EarlierIsValid DEF EarlierNodesAreValid
<1> QED
  BY <1>2, <1>4, <1>5, <1>6, <1>7 DEF SpecSound, SavedIsStable

\* Whatever a client sends after reading, however often: the document on file passes
\* validation again unchanged, says the same in its two-seat and seat-based form, and
\* is valid at each earlier decision.
THEOREM ScenariosStaySound == DocumentSpec => []SpecSound
BY BlankIsOnFile, SavesAreOnFile, OnFileIsSound, PTL DEF DocumentSpec

(***************************************************************************)
(* The tables: ScenarioStore.                                              *)
(***************************************************************************)
Rows == [content : Contents, title : Titles, favorite : BOOLEAN]
Revisions == [no : 1 .. MaxRevision, content : Contents]
RunRows == [id : Ids, at : 0 .. MaxRevision, analysed : Contents,
            revision : 1 .. MaxRevision, content : Contents]

Tables ==
    /\ row \in [Ids -> Rows \cup {NoRow}] /\ revisions \in [Ids -> SUBSET Revisions]
    /\ runs \subseteq RunRows /\ sessions \subseteq Ids /\ used \subseteq Ids
Shapes == Tables /\ call = [p \in Processes |-> call[p]]

Count(s) == Cardinality(revisions[s])
\* Revision n of scenario s is on file, with content c.
Holds(s, n, c) == [no |-> n, content |-> c] \in revisions[s]

\* The revisions of a scenario on file are numbered, and its row is the last.
Numbered(s) ==
    /\ IsFiniteSet(revisions[s]) /\ Count(s) >= 1
    /\ {r.no : r \in revisions[s]} = 1 .. Count(s)
    /\ \A r, q \in revisions[s] : r.no = q.no => r = q
    /\ Holds(s, Count(s), row[s].content)

OnFile ==
    /\ Saved \subseteq used
    /\ \A s \in Saved : Numbered(s)
    /\ \A s \in Ids \ Saved : revisions[s] = {}

\* What a process read of a scenario holds of it as long as it is there.
Carries(u) ==
    /\ u.op \in {"idle", "copy", "update", "favorite", "delete", "teach", "analyze", "save"}
    /\ u.op = "copy" => u.content \in Contents
    /\ u.op \notin {"idle", "copy"} => u.id \in used
    /\ u.op = "update" =>
          /\ u.content \in Contents /\ u.title \in Titles
          /\ u.next \in 1 .. MaxRevision
          /\ u.id \in Saved => u.next <= Count(u.id) + 1
          /\ u.id \in Saved /\ u.next = Count(u.id) + 1 => u.current = Current(u.id)
    /\ u.op \in {"analyze", "save"} =>
          /\ u.at \in 0 .. MaxRevision /\ u.analysed \in Contents
          /\ u.id \in Saved /\ u.at # 0 => Holds(u.id, u.at, u.analysed)
          /\ u.id \in Saved => \E n \in 1 .. MaxRevision : Holds(u.id, n, u.analysed)
    /\ u.op = "save" =>
          /\ u.revision \in 1 .. MaxRevision /\ u.content \in Contents
          /\ u.id \in Saved => Holds(u.id, u.revision, u.content)
          /\ u.id \in Saved => \E n \in 1 .. u.revision : Holds(u.id, n, u.analysed)
          /\ u.at # 0 => u.revision = u.at /\ u.analysed = u.content
CallsHold == \A p \in Processes : Carries(call[p])

RunFits(a) ==
    /\ a.id \in Saved /\ Holds(a.id, a.revision, a.content)
    /\ a.at # 0 => a.revision = a.at /\ a.analysed = a.content
    /\ \E n \in 1 .. a.revision : Holds(a.id, n, a.analysed)
RunsHold == sessions \subseteq Saved /\ \A a \in runs : RunFits(a)

IInv == Shapes /\ OnFile /\ CallsHold /\ RunsHold

-----------------------------------------------------------------------------
(***************************************************************************)
(* Rows, and the numbers of revisions.                                     *)
(***************************************************************************)
LEMMA RowsOnFile ==
  ASSUME ScenarioStoreAssumption
  PROVE  \A r \in Rows : r # NoRow
BY DEF ScenarioStoreAssumption, Rows, NoRow

LEMMA SavedRow ==
  ASSUME Shapes, NEW s \in Saved
  PROVE  s \in Ids /\ row[s] \in Rows
BY DEF Shapes, Tables, Saved

LEMMA CountInNat ==
  ASSUME NEW s, Numbered(s)
  PROVE  Count(s) \in Nat /\ Count(s) >= 1
BY FS_CardinalityType DEF Numbered, Count

LEMMA LatestIsTheCount ==
  ASSUME NEW s, Numbered(s)
  PROVE  Latest(s) = Count(s)
<1>1. PICK n \in Nat : n = Count(s) /\ n >= 1 /\ {r.no : r \in revisions[s]} = 1 .. n
  BY CountInNat DEF Numbered
<1>2. {r.no : r \in revisions[s]} \cup {1} = 1 .. n
  BY <1>1
<1>3. n \in 1 .. n /\ \A k \in 1 .. n : n >= k
  BY <1>1
<1>4. \A k \in 1 .. n : (\A i \in 1 .. n : k >= i) => k = n
  BY <1>3
<1>5. Max(1 .. n) = n
  BY <1>3, <1>4 DEF Max
<1> QED
  BY <1>1, <1>2, <1>5 DEF Latest

LEMMA ContentOfHeld ==
  ASSUME NEW s, Numbered(s), NEW n, NEW c, Holds(s, n, c)
  PROVE  HasRevision(s, n) /\ ContentOf(s, n) = c
<1>1. PICK r \in revisions[s] : r = [no |-> n, content |-> c]
  BY DEF Holds
<1>2. r.no = n /\ r.content = c
  BY <1>1
<1>3. \A q \in revisions[s] : q.no = n => q = r
  BY <1>2 DEF Numbered
<1>4. (CHOOSE q \in revisions[s] : q.no = n) = r
  BY <1>2, <1>3
<1> QED
  BY <1>2, <1>4 DEF HasRevision, ContentOf

LEMMA HeldContent ==
  ASSUME Shapes, NEW s \in Ids, Numbered(s), NEW n, HasRevision(s, n)
  PROVE  Holds(s, n, ContentOf(s, n)) /\ ContentOf(s, n) \in Contents /\ n \in 1 .. MaxRevision
<1>1. PICK r \in revisions[s] : r.no = n
  BY DEF HasRevision
<1>2. r \in Revisions
  BY <1>1 DEF Shapes, Tables
<1>3. r = [no |-> n, content |-> r.content] /\ r.content \in Contents /\ n \in 1 .. MaxRevision
  BY <1>1, <1>2 DEF Revisions
<1>4. PICK c : c = r.content
  OBVIOUS
<1>5. Holds(s, n, c)
  BY <1>1, <1>3, <1>4 DEF Holds
<1>6. ContentOf(s, n) = c
  BY <1>5, ContentOfHeld
<1> QED
  BY <1>3, <1>4, <1>5, <1>6

LEMMA HeldIsThere ==
  ASSUME Shapes, NEW s \in Ids, NEW n, NEW c, Holds(s, n, c)
  PROVE  n \in 1 .. MaxRevision /\ c \in Contents /\ HasRevision(s, n)
<1>1. PICK r \in revisions[s] : r = [no |-> n, content |-> c]
  BY DEF Holds
<1>2. r \in Revisions /\ r.no = n /\ r.content = c
  BY <1>1 DEF Shapes, Tables
<1> QED
  BY <1>1, <1>2 DEF Revisions, HasRevision

-----------------------------------------------------------------------------
(***************************************************************************)
(* What a step leaves alone: a scenario that is still there has kept its   *)
(* revisions, and its content and title as long as it got no new one.      *)
(***************************************************************************)
Stays(s) ==
    /\ s \in Saved /\ revisions[s] \subseteq revisions'[s]
    /\ Count(s) \in Nat /\ Count(s)' \in Nat /\ Count(s) <= Count(s)'
    /\ Count(s)' = Count(s) => Current(s)' = Current(s)
Onward == used \subseteq used' /\ \A s \in used : s \in Saved' => Stays(s)

LEMMA CarriedOver ==
  ASSUME Onward, NEW u, Carries(u)
  PROVE  Carries(u)'
<1>1. u.op \in {"idle", "copy", "update", "favorite", "delete", "teach", "analyze", "save"}
  BY DEF Carries
<1>2. u.op = "copy" => u.content \in Contents
  BY DEF Carries
<1>3. u.op \notin {"idle", "copy"} => u.id \in used /\ u.id \in used'
  BY DEF Carries, Onward
<1>4. \A s \in used : \A n, c : s \in Saved' => s \in Saved /\ (Holds(s, n, c) => Holds(s, n, c)')
  BY DEF Onward, Stays, Holds
<1>5. ASSUME u.op = "update"
      PROVE  /\ u.content \in Contents /\ u.title \in Titles
             /\ u.next \in 1 .. MaxRevision
             /\ u.id \in Saved' => u.next <= Count(u.id)' + 1
             /\ u.id \in Saved' /\ u.next = Count(u.id)' + 1 => u.current = Current(u.id)'
  <2>1. /\ u.content \in Contents /\ u.title \in Titles
        /\ u.next \in 1 .. MaxRevision
        /\ u.id \in Saved => u.next <= Count(u.id) + 1
        /\ u.id \in Saved /\ u.next = Count(u.id) + 1 => u.current = Current(u.id)
    BY <1>5 DEF Carries
  <2>2. PICK s, n : s = u.id /\ n = u.next
    OBVIOUS
  <2>3. s \in used /\ n \in Int
    BY <1>3, <1>5, <2>1, <2>2
  <2>4. CASE s \in Saved'
    <3>1. /\ s \in Saved /\ Count(s) \in Nat /\ Count(s)' \in Nat /\ Count(s) <= Count(s)'
          /\ Count(s)' = Count(s) => Current(s)' = Current(s)
      BY <2>3, <2>4 DEF Onward, Stays
    <3>2. n <= Count(s) + 1
      BY <2>1, <2>2, <3>1
    <3>3. n <= Count(s)' + 1 /\ (n = Count(s)' + 1 => n = Count(s) + 1 /\ Count(s)' = Count(s))
      BY <2>3, <3>1, <3>2
    <3> QED
      BY <2>1, <2>2, <3>1, <3>3
  <2> QED
    BY <2>1, <2>2, <2>4
<1>6. u.op \in {"analyze", "save"} =>
         /\ u.at \in 0 .. MaxRevision /\ u.analysed \in Contents
         /\ u.id \in Saved' /\ u.at # 0 => Holds(u.id, u.at, u.analysed)'
         /\ u.id \in Saved' => \E n \in 1 .. MaxRevision : Holds(u.id, n, u.analysed)'
  BY <1>3, <1>4 DEF Carries
<1>7. u.op = "save" =>
         /\ u.revision \in 1 .. MaxRevision /\ u.content \in Contents
         /\ u.id \in Saved' => Holds(u.id, u.revision, u.content)'
         /\ u.id \in Saved' => \E n \in 1 .. u.revision : Holds(u.id, n, u.analysed)'
         /\ u.at # 0 => u.revision = u.at /\ u.analysed = u.content
  BY <1>3, <1>4 DEF Carries
<1> QED
  BY <1>1, <1>2, <1>3, <1>5, <1>6, <1>7 DEF Carries

LEMMA IdleCarries == ASSUME NEW u, u = Idle PROVE Carries(u) /\ Carries(u)'
BY DEF Carries, Idle

LEMMA NothingChanges ==
  ASSUME OnFile, UNCHANGED <<row, revisions>>, used' = used
  PROVE  Onward /\ Saved' = Saved
<1>1. Saved' = Saved
  BY DEF Saved
<1>2. \A s \in Saved : Count(s) \in Nat /\ Count(s)' = Count(s)
  BY CountInNat DEF OnFile, Count
<1> QED
  BY <1>1, <1>2 DEF Onward, Stays, Current

LEMMA CallsCarriedOver ==
  ASSUME Shapes, CallsHold, Onward, NEW p \in Processes, NEW u, Carries(u)',
         call' = [call EXCEPT ![p] = u]
  PROVE  CallsHold' /\ call' = [q \in Processes |-> call'[q]]
<1>1. /\ call'[p] = u /\ \A q \in Processes \ {p} : call'[q] = call[q]
      /\ call' = [q \in Processes |-> call'[q]]
  BY DEF Shapes, Tables
<1>2. ASSUME NEW q \in Processes PROVE Carries(call[q])'
  <2>1. PICK v : v = call'[q]
    OBVIOUS
  <2>2. CASE q = p
    <3>1. v = u
      BY <1>1, <2>1, <2>2
    <3> QED
      BY <2>1, <3>1 DEF Carries
  <2>3. CASE q # p
    <3>1. v = call[q]
      BY <1>1, <2>1, <2>3
    <3>2. Carries(v)'
      BY <3>1, CarriedOver DEF CallsHold
    <3> QED
      BY <2>1, <3>2 DEF Carries
  <2> QED
    BY <2>2, <2>3
<1> QED
  BY <1>1, <1>2 DEF CallsHold

\* A step of process p, which then carries u: the tables are left to show.
LEMMA StepOf ==
  ASSUME IInv, Onward, Tables', OnFile', RunsHold', NEW p \in Processes, NEW u, Carries(u)',
         call' = [call EXCEPT ![p] = u]
  PROVE  IInv'
BY CallsCarriedOver DEF IInv, Shapes

\* A step that touches no table.
LEMMA CallMoves ==
  ASSUME IInv, UNCHANGED <<row, revisions, runs, sessions, used>>,
         NEW p \in Processes, NEW u, Carries(u), call' = [call EXCEPT ![p] = u]
  PROVE  IInv'
<1>1. Shapes /\ OnFile /\ RunsHold
  BY DEF IInv
<1>2. Onward /\ Saved' = Saved
  BY <1>1, NothingChanges
<1>3. Tables'
  BY <1>1 DEF Shapes, Tables
<1>4. OnFile' /\ RunsHold'
  BY <1>1, <1>2 DEF OnFile, RunsHold, Numbered, Count, Holds, RunFits
<1> QED
  BY <1>2, <1>3, <1>4, CarriedOver, StepOf

LEMMA ReturnMoves ==
  ASSUME IInv, NEW p \in Processes, Refused(p)
  PROVE  IInv'
<1>1. PICK u : u = Idle
  OBVIOUS
<1>2. Carries(u) /\ call' = [call EXCEPT ![p] = u]
  BY <1>1, IdleCarries DEF Refused, Return
<1> QED
  BY <1>2, CallMoves DEF Refused

\* What carries over to a run, and to a scenario that a step leaves alone.
LEMMA RunsCarriedOver ==
  ASSUME Onward, OnFile
  PROVE  \A a : RunFits(a) /\ a.id \in Saved' => RunFits(a)'
BY DEF Onward, OnFile, Stays, RunFits, Holds

LEMMA LeftAlone ==
  ASSUME NEW s \in Saved, Numbered(s), row'[s] = row[s], revisions'[s] = revisions[s]
  PROVE  Stays(s) /\ Numbered(s)'
<1>1. Count(s) \in Nat /\ Count(s)' = Count(s)
  BY CountInNat DEF Count
<1> QED
  BY <1>1 DEF Stays, Numbered, Count, Holds, Current

-----------------------------------------------------------------------------
(***************************************************************************)
(* Reads: what a process takes with it.                                    *)
(***************************************************************************)
LEMMA CopyReadKeeps ==
  ASSUME ScenarioStoreAssumption, IInv, NEW p \in Processes, NEW s \in Ids, CopyRead(p, s)
  PROVE  IInv'
<1>1. PICK u : u = [op |-> "copy", content |-> row[s].content]
  OBVIOUS
<1>2. row[s].content \in Contents
  BY SavedRow DEF IInv, CopyRead, Rows
<1>3. Carries(u) /\ call' = [call EXCEPT ![p] = u]
  BY <1>1, <1>2 DEF CopyRead, Carries
<1> QED
  BY <1>3, CallMoves DEF CopyRead

LEMMA UpdateReadKeeps ==
  ASSUME ScenarioStoreAssumption, IInv, NEW p \in Processes, NEW s \in Ids, NEW c \in Contents,
         NEW t \in Titles, UpdateRead(p, s, c, t)
  PROVE  IInv'
<1>1. s \in Saved /\ s \in used /\ Numbered(s)
  BY DEF IInv, OnFile, UpdateRead
<1>2. Latest(s) = Count(s) /\ Count(s) \in Nat /\ Count(s) < MaxRevision
  BY <1>1, LatestIsTheCount, CountInNat DEF UpdateRead
<1>3. PICK n \in Nat : n = Latest(s) + 1
  BY <1>2
<1>4. n = Count(s) + 1 /\ n \in 1 .. MaxRevision
  BY <1>2, <1>3 DEF ScenarioStoreAssumption
<1>5. PICK u : u = [op |-> "update", id |-> s, content |-> c, title |-> t,
                    current |-> Current(s), next |-> n]
  OBVIOUS
<1>6. /\ u.op = "update" /\ u.id = s /\ u.content = c /\ u.title = t /\ u.current = Current(s)
      /\ u.next = n /\ call' = [call EXCEPT ![p] = u]
  BY <1>3, <1>5 DEF UpdateRead
<1>7. Carries(u)
  BY <1>1, <1>4, <1>6 DEF Carries
<1> QED
  BY <1>6, <1>7, CallMoves DEF UpdateRead

LEMMA RowReadKeeps ==
  ASSUME ScenarioStoreAssumption, IInv, NEW p \in Processes, NEW s \in Ids,
         NEW op \in {"favorite", "delete", "teach"}, RowRead(p, s, op)
  PROVE  IInv'
<1>1. PICK u : u = [op |-> op, id |-> s]
  OBVIOUS
<1>2. s \in used
  BY DEF IInv, OnFile, RowRead
<1>3. Carries(u) /\ call' = [call EXCEPT ![p] = u]
  BY <1>1, <1>2 DEF RowRead, Carries
<1> QED
  BY <1>3, CallMoves DEF RowRead

LEMMA AnalyzeReadKeeps ==
  ASSUME ScenarioStoreAssumption, IInv, NEW p \in Processes, NEW s \in Ids, NEW at \in 0 .. MaxRevision,
         AnalyzeRead(p, s, at)
  PROVE  IInv'
<1>1. s \in Saved /\ s \in used /\ Numbered(s) /\ Shapes
  BY DEF IInv, OnFile, AnalyzeRead
<1>2. PICK c : c = IF at = 0 THEN row[s].content ELSE ContentOf(s, at)
  OBVIOUS
<1>3. at # 0 => Holds(s, at, c) /\ c \in Contents
  BY <1>1, <1>2, HeldContent DEF AnalyzeRead
<1>4. at = 0 => c \in Contents /\ Holds(s, Count(s), c)
  BY <1>1, <1>2, SavedRow DEF Rows, Numbered
<1>8. \E n \in 1 .. MaxRevision : Holds(s, n, c)
  <2>1. s \in Ids
    BY <1>1, SavedRow
  <2>2. PICK n : Holds(s, n, c)
    BY <1>3, <1>4
  <2> QED
    BY <1>1, <2>1, <2>2, HeldIsThere
<1>5. PICK u : u = [op |-> "analyze", id |-> s, at |-> at, analysed |-> c]
  OBVIOUS
<1>6. /\ u.op = "analyze" /\ u.id = s /\ u.at = at /\ u.analysed = c
      /\ call' = [call EXCEPT ![p] = u]
  BY <1>2, <1>5 DEF AnalyzeRead
<1>7. Carries(u)
  BY <1>1, <1>3, <1>4, <1>6, <1>8 DEF Carries
<1> QED
  BY <1>6, <1>7, CallMoves DEF AnalyzeRead

\* save_analysis takes the row as it is by then, or the revision it was asked for.
LEMMA SaveReadKeeps ==
  ASSUME ScenarioStoreAssumption, IInv, NEW p \in Processes, SaveRead(p)
  PROVE  IInv'
<1>1. PICK a : a = call[p]
  OBVIOUS
<1>2. a.op = "analyze" /\ a.id \in Saved /\ Carries(a) /\ Shapes
  BY <1>1 DEF IInv, CallsHold, SaveRead
<1>3. PICK s \in Saved : s = a.id
  BY <1>2
<1>4. s \in Ids /\ s \in used /\ Numbered(s)
  BY <1>2, SavedRow DEF IInv, OnFile
<1>5. /\ a.at \in 0 .. MaxRevision /\ a.analysed \in Contents
      /\ a.at # 0 => Holds(s, a.at, a.analysed)
      /\ \E k \in 1 .. MaxRevision : Holds(s, k, a.analysed)
  BY <1>2, <1>3 DEF Carries
<1>6. PICK n, c : n = (IF a.at = 0 THEN Latest(s) ELSE a.at)
                  /\ c = IF a.at = 0 THEN row[s].content ELSE ContentOf(s, a.at)
  OBVIOUS
<1>7. Holds(s, n, c) /\ (a.at # 0 => n = a.at /\ c = a.analysed)
  <2>1. a.at = 0 => Holds(s, n, c)
    BY <1>4, <1>6, LatestIsTheCount DEF Numbered
  <2>2. a.at # 0 => n = a.at /\ c = a.analysed
    BY <1>4, <1>5, <1>6, ContentOfHeld
  <2> QED
    BY <1>5, <2>1, <2>2
<1>8. n \in 1 .. MaxRevision /\ c \in Contents
  BY <1>2, <1>4, <1>7, HeldIsThere
<1>12. \E k \in 1 .. n : Holds(s, k, a.analysed)
  <2>1. CASE a.at # 0
    BY <1>5, <1>7, <1>8, <2>1 DEF ScenarioStoreAssumption
  <2>2. CASE a.at = 0
    <3>1. PICK k \in 1 .. MaxRevision : Holds(s, k, a.analysed)
      BY <1>5
    <3>2. n = Count(s) /\ {r.no : r \in revisions[s]} = 1 .. Count(s)
      BY <1>4, <1>6, <2>2, LatestIsTheCount DEF Numbered
    <3>3. PICK r \in revisions[s] : r = [no |-> k, content |-> a.analysed]
      BY <3>1 DEF Holds
    <3>4. k \in 1 .. n
      BY <3>2, <3>3
    <3> QED
      BY <3>1, <3>4
  <2> QED
    BY <2>1, <2>2
<1>9. PICK u : u = [op |-> "save", id |-> s, at |-> a.at, analysed |-> a.analysed,
                     revision |-> n, content |-> c]
  OBVIOUS
<1>10. /\ u.op = "save" /\ u.id = s /\ u.at = a.at /\ u.analysed = a.analysed
       /\ u.revision = n /\ u.content = c /\ call' = [call EXCEPT ![p] = u]
  BY <1>1, <1>3, <1>6, <1>9 DEF SaveRead
<1>11. Carries(u)
  BY <1>4, <1>5, <1>7, <1>8, <1>10, <1>12 DEF Carries
<1> QED
  BY <1>10, <1>11, CallMoves DEF SaveRead

-----------------------------------------------------------------------------
(***************************************************************************)
(* Writes: one transaction each.                                           *)
(***************************************************************************)
LEMMA InsertKeeps ==
  ASSUME ScenarioStoreAssumption, IInv, NEW s \in Ids, NEW c \in Contents, NEW t \in Titles,
         Insert(s, c, t)
  PROVE  Onward /\ Tables' /\ OnFile' /\ RunsHold'
<1> DEFINE new == [content |-> c, title |-> t, favorite |-> FALSE]
           first == [no |-> 1, content |-> c]
<1>1. /\ Tables /\ OnFile /\ RunsHold /\ s \notin used /\ used' = used \cup {s}
      /\ row' = [row EXCEPT ![s] = new] /\ revisions' = [revisions EXCEPT ![s] = {first}]
      /\ runs' = runs /\ sessions' = sessions
  BY DEF IInv, Shapes, Insert
<1>2. new \in Rows /\ new # NoRow /\ first \in Revisions /\ first.no = 1
  <2>1. new \in Rows /\ first \in Revisions /\ first.no = 1
    BY DEF Rows, Revisions, ScenarioStoreAssumption
  <2> QED
    BY <2>1, RowsOnFile
<1>3. /\ row' \in [Ids -> Rows \cup {NoRow}] /\ row'[s] = new
      /\ revisions' \in [Ids -> SUBSET Revisions] /\ revisions'[s] = {first}
      /\ \A k \in Ids \ {s} : row'[k] = row[k] /\ revisions'[k] = revisions[k]
  BY <1>1, <1>2 DEF Tables
<1>4. Tables'
  BY <1>1, <1>3 DEF Tables
<1>5. s \notin Saved /\ Saved' = Saved \cup {s}
  BY <1>1, <1>2, <1>3 DEF OnFile, Saved
<1>6. \A k \in Saved : Stays(k) /\ Numbered(k)'
  <2> SUFFICES ASSUME NEW k \in Saved PROVE Stays(k) /\ Numbered(k)'
    OBVIOUS
  <2>1. k \in Ids \ {s} /\ Numbered(k)
    BY <1>1, <1>5 DEF OnFile, Saved
  <2> QED
    BY <1>3, <2>1, LeftAlone
<1>7. Numbered(s)'
  <2>1. IsFiniteSet({first}) /\ Cardinality({first}) = 1
    BY FS_Singleton
  <2>2. {r.no : r \in {first}} = {1} /\ 1 .. 1 = {1}
    BY <1>2
  <2>3. Count(s)' = 1 /\ row'[s].content = c
    BY <1>3, <2>1 DEF Count
  <2> HIDE DEF first
  <2>4. first = [no |-> 1, content |-> c]
    BY DEF first
  <2> QED
    BY <1>3, <2>1, <2>2, <2>3, <2>4 DEF Numbered, Holds
<1>8. OnFile'
  BY <1>1, <1>3, <1>5, <1>6, <1>7 DEF OnFile
<1>9. Onward
  BY <1>1, <1>5, <1>6 DEF Onward
<1>10. RunsHold'
  BY <1>1, <1>5, <1>9, RunsCarriedOver DEF RunsHold, RunFits
<1> QED
  BY <1>4, <1>8, <1>9, <1>10

LEMMA CreateKeeps ==
  ASSUME ScenarioStoreAssumption, IInv, NEW p \in Processes, NEW s \in Ids, NEW c \in Contents,
         NEW t \in Titles, Create(p, s, c, t)
  PROVE  IInv'
<1>1. Onward /\ Tables' /\ OnFile' /\ RunsHold'
  BY InsertKeeps DEF Create
<1>2. PICK u : u = call[p]
  OBVIOUS
<1>3. Carries(u) /\ call' = [call EXCEPT ![p] = u]
  BY <1>2 DEF IInv, CallsHold, Create, Shapes
<1> QED
  BY <1>1, <1>3, CarriedOver, StepOf

\* A write that returns.
LEMMA WriteReturns ==
  ASSUME IInv, NEW p \in Processes, Return(p), Onward, Tables', OnFile', RunsHold'
  PROVE  IInv'
<1>1. PICK u : u = Idle
  OBVIOUS
<1>2. Carries(u)' /\ call' = [call EXCEPT ![p] = u]
  BY <1>1, IdleCarries DEF Return
<1> QED
  BY <1>2, StepOf

LEMMA CopyWriteKeeps ==
  ASSUME ScenarioStoreAssumption, IInv, NEW p \in Processes, NEW s \in Ids, NEW t \in Titles,
         CopyWrite(p, s, t)
  PROVE  IInv'
<1>1. PICK c \in Contents : c = call[p].content
  BY DEF IInv, CallsHold, Carries, CopyWrite
<1>2. Onward /\ Tables' /\ OnFile' /\ RunsHold'
  BY <1>1, InsertKeeps DEF CopyWrite
<1> QED
  BY <1>2, WriteReturns DEF CopyWrite

\* An update that is let through appends the next revision: the number it
\* carries is at most the next one, and not taken.
LEMMA UpdateIsNext ==
  ASSUME ScenarioStoreAssumption, IInv, NEW p \in Processes, NEW u, u = call[p], UpdateWrite(p)
  PROVE  /\ u.id \in Saved /\ u.content \in Contents /\ u.title \in Titles
         /\ u.next = Count(u.id) + 1 /\ u.next \in 1 .. MaxRevision
         /\ u.current = Current(u.id)
<1>1. Carries(u) /\ u.op = "update" /\ u.id \in Saved /\ ~HasRevision(u.id, u.next)
  BY DEF IInv, CallsHold, UpdateWrite, RevisionTaken
<1>2. /\ u.content \in Contents /\ u.title \in Titles
      /\ u.next \in 1 .. MaxRevision /\ u.next <= Count(u.id) + 1
      /\ u.next = Count(u.id) + 1 => u.current = Current(u.id)
  BY <1>1 DEF Carries
<1>3. Numbered(u.id) /\ Count(u.id) \in Nat
  BY <1>1, CountInNat DEF IInv, OnFile
<1>4. PICK n \in Nat, m \in 1 .. MaxRevision : n = Count(u.id) /\ m = u.next
  BY <1>2, <1>3
<1>5. m \notin 1 .. n
  BY <1>1, <1>3, <1>4 DEF Numbered, HasRevision
<1>6. m = n + 1
  BY <1>2, <1>4, <1>5 DEF ScenarioStoreAssumption
<1> QED
  BY <1>1, <1>2, <1>4, <1>6

LEMMA UpdateWriteKeeps ==
  ASSUME ScenarioStoreAssumption, IInv, NEW p \in Processes, UpdateWrite(p)
  PROVE  IInv'
<1>1. PICK u : u = call[p]
  OBVIOUS
<1>2. PICK s \in Saved, n \in Nat : s = u.id /\ n = Count(s)
  BY <1>1, UpdateIsNext, CountInNat DEF IInv, OnFile
<1>3. /\ s \in Ids /\ row[s] \in Rows /\ Numbered(s) /\ Tables /\ OnFile /\ RunsHold
      /\ u.content \in Contents /\ u.title \in Titles
      /\ u.next = n + 1 /\ n + 1 \in 1 .. MaxRevision
  BY <1>1, <1>2, UpdateIsNext, SavedRow DEF IInv, OnFile, Shapes
<1>4. PICK r : r = [row[s] EXCEPT !.content = u.content, !.title = u.title]
  OBVIOUS
<1>5. PICK rev : rev = [no |-> n + 1, content |-> u.content]
  OBVIOUS
<1>6. /\ r \in Rows /\ r # NoRow /\ r.content = u.content /\ r.title = u.title
      /\ rev \in Revisions /\ rev.no = n + 1
  <2>1. /\ r \in Rows /\ r.content = u.content /\ r.title = u.title
        /\ rev \in Revisions /\ rev.no = n + 1
    BY <1>3, <1>4, <1>5 DEF Rows, Revisions
  <2> QED
    BY <2>1, RowsOnFile
<1>7. /\ used' = used /\ runs' = runs /\ sessions' = sessions /\ Return(p)
      /\ row' = [row EXCEPT ![s] = r]
      /\ revisions' = [revisions EXCEPT ![s] = revisions[s] \cup {rev}]
  <2>1. row' = [row EXCEPT ![s].content = u.content, ![s].title = u.title]
    BY <1>1, <1>2 DEF UpdateWrite
  <2>2. row' = [row EXCEPT ![s] = r]
    BY <1>3, <1>4, <2>1 DEF Tables, Rows
  <2> QED
    BY <1>1, <1>2, <1>3, <1>5, <2>2 DEF UpdateWrite
<1>8. /\ row' \in [Ids -> Rows \cup {NoRow}] /\ row'[s] = r
      /\ revisions' \in [Ids -> SUBSET Revisions] /\ revisions'[s] = revisions[s] \cup {rev}
      /\ \A k \in Ids \ {s} : row'[k] = row[k] /\ revisions'[k] = revisions[k]
  BY <1>3, <1>6, <1>7 DEF Tables
<1>9. Tables'
  BY <1>3, <1>7, <1>8 DEF Tables
<1>10. Saved' = Saved
  BY <1>6, <1>8 DEF Saved
<1>11. /\ IsFiniteSet(revisions'[s]) /\ Count(s)' = n + 1
  <2>1. rev \notin revisions[s]
    <3>1. n + 1 \notin 1 .. n
      OBVIOUS
    <3> QED
      BY <1>2, <1>3, <1>6, <3>1 DEF Numbered
  <2>2. PICK R : R = revisions[s]
    OBVIOUS
  <2>3. IsFiniteSet(R) /\ Cardinality(R) = n /\ rev \notin R
    BY <1>2, <1>3, <2>1, <2>2 DEF Numbered, Count
  <2>4. IsFiniteSet(R \cup {rev}) /\ Cardinality(R \cup {rev}) = n + 1
    BY <2>3, FS_AddElement
  <2> QED
    BY <1>8, <2>2, <2>4 DEF Count
<1>12. Numbered(s)'
  <2>1. {q.no : q \in revisions'[s]} = 1 .. n + 1
    <3>1. {q.no : q \in revisions'[s]} = {q.no : q \in revisions[s]} \cup {n + 1}
      BY <1>6, <1>8
    <3>2. (1 .. n) \cup {n + 1} = 1 .. n + 1
      OBVIOUS
    <3> QED
      BY <1>2, <1>3, <3>1, <3>2 DEF Numbered
  <2>2. \A q, w \in revisions'[s] : q.no = w.no => q = w
    <3>1. \A q \in revisions[s] : q.no \in 1 .. n
      BY <1>2, <1>3 DEF Numbered
    <3>2. \A q \in revisions[s] : q.no # n + 1
      BY <3>1
    <3> QED
      BY <1>3, <1>6, <1>8, <3>2 DEF Numbered
  <2>3. [no |-> n + 1, content |-> row'[s].content] \in revisions'[s]
    BY <1>5, <1>6, <1>8
  <2> QED
    BY <1>11, <2>1, <2>2, <2>3 DEF Numbered, Holds
<1>13. Stays(s)
  BY <1>2, <1>8, <1>11 DEF Stays
<1>14. \A k \in Saved \ {s} : Stays(k) /\ Numbered(k)'
  <2> SUFFICES ASSUME NEW k \in Saved \ {s} PROVE Stays(k) /\ Numbered(k)'
    OBVIOUS
  <2>1. k \in Ids \ {s} /\ Numbered(k)
    BY <1>3 DEF OnFile, Saved
  <2> QED
    BY <1>8, <2>1, LeftAlone
<1>15. OnFile'
  BY <1>3, <1>7, <1>8, <1>10, <1>12, <1>14 DEF OnFile
<1>16. Onward
  BY <1>7, <1>10, <1>13, <1>14 DEF Onward
<1>17. RunsHold'
  BY <1>3, <1>7, <1>10, <1>16, RunsCarriedOver DEF RunsHold, RunFits
<1> QED
  BY <1>7, <1>9, <1>15, <1>16, <1>17, WriteReturns

LEMMA FavoriteWriteKeeps ==
  ASSUME ScenarioStoreAssumption, IInv, NEW p \in Processes, NEW favorite \in BOOLEAN,
         FavoriteWrite(p, favorite)
  PROVE  IInv'
<1>1. /\ Tables /\ OnFile /\ RunsHold /\ Return(p)
      /\ UNCHANGED <<revisions, runs, sessions, used>>
  BY DEF IInv, Shapes, FavoriteWrite
<1>2. PICK s : s = call[p].id
  OBVIOUS
<1>3. row' = IF s \in Saved THEN [row EXCEPT ![s].favorite = favorite] ELSE row
  BY <1>2 DEF FavoriteWrite
<1>4. /\ row' \in [Ids -> Rows \cup {NoRow}]
      /\ \A k \in Ids : /\ row'[k] # NoRow <=> row[k] # NoRow
                        /\ k \in Saved => row'[k].content = row[k].content /\ row'[k].title = row[k].title
  <2>1. CASE s \in Saved
    <3>1. s \in Ids /\ row[s] \in Rows
      BY <2>1, SavedRow DEF IInv
    <3>2. PICK r : r = [row[s] EXCEPT !.favorite = favorite]
      OBVIOUS
    <3>3. r \in Rows /\ r.content = row[s].content /\ r.title = row[s].title
      BY <3>1, <3>2 DEF Rows
    <3>4. row' = [row EXCEPT ![s] = r]
      BY <1>3, <2>1, <3>2
    <3> QED
      BY <1>1, <2>1, <3>1, <3>3, <3>4, RowsOnFile DEF Tables, Saved
  <2>2. CASE s \notin Saved
    BY <1>1, <1>3, <2>2 DEF Tables
  <2> QED
    BY <2>1, <2>2
<1>5. Tables' /\ Saved' = Saved
  BY <1>1, <1>4 DEF Tables, Saved
<1>6. \A k \in Saved : Stays(k) /\ Numbered(k)'
  <2> SUFFICES ASSUME NEW k \in Saved PROVE Stays(k) /\ Numbered(k)'
    OBVIOUS
  <2>1. /\ k \in Ids /\ Numbered(k) /\ Count(k) \in Nat /\ Count(k)' = Count(k)
        /\ row'[k].content = row[k].content /\ row'[k].title = row[k].title
        /\ revisions'[k] = revisions[k]
    BY <1>1, <1>4, CountInNat DEF OnFile, Saved, Count
  <2> QED
    BY <2>1 DEF Stays, Numbered, Holds, Current
<1>7. OnFile' /\ Onward
  BY <1>1, <1>5, <1>6 DEF OnFile, Onward
<1>8. RunsHold'
  BY <1>1, <1>5, <1>7, RunsCarriedOver DEF RunsHold, RunFits
<1> QED
  BY <1>1, <1>5, <1>7, <1>8, WriteReturns

LEMMA DeleteWriteKeeps ==
  ASSUME ScenarioStoreAssumption, IInv, NEW p \in Processes, DeleteWrite(p)
  PROVE  IInv'
<1>1. PICK s : s = call[p].id
  OBVIOUS
<1>2. /\ Tables /\ OnFile /\ RunsHold /\ Return(p) /\ used' = used
      /\ row' = [row EXCEPT ![s] = NoRow] /\ revisions' = [revisions EXCEPT ![s] = {}]
      /\ runs' = {a \in runs : a.id # s} /\ sessions' = sessions \ {s}
  BY <1>1 DEF IInv, Shapes, DeleteWrite
<1>3. s \in Ids
  BY <1>1, <1>2 DEF IInv, CallsHold, Carries, DeleteWrite, Tables
<1>4. /\ row' \in [Ids -> Rows \cup {NoRow}] /\ row'[s] = NoRow
      /\ revisions' \in [Ids -> SUBSET Revisions] /\ revisions'[s] = {}
      /\ \A k \in Ids \ {s} : row'[k] = row[k] /\ revisions'[k] = revisions[k]
  BY <1>2, <1>3 DEF Tables
<1>5. Tables' /\ Saved' = Saved \ {s}
  BY <1>2, <1>4 DEF Tables, Saved
<1>6. \A k \in Saved \ {s} : Stays(k) /\ Numbered(k)'
  <2> SUFFICES ASSUME NEW k \in Saved \ {s} PROVE Stays(k) /\ Numbered(k)'
    OBVIOUS
  <2>1. k \in Ids \ {s} /\ Numbered(k)
    BY <1>2 DEF OnFile, Saved
  <2> QED
    BY <1>4, <2>1, LeftAlone
<1>7. OnFile' /\ Onward
  BY <1>2, <1>4, <1>5, <1>6 DEF OnFile, Onward
<1>8. RunsHold'
  BY <1>2, <1>5, <1>7, RunsCarriedOver DEF RunsHold, RunFits
<1> QED
  BY <1>2, <1>5, <1>7, <1>8, WriteReturns

LEMMA SaveWriteKeeps ==
  ASSUME ScenarioStoreAssumption, IInv, NEW p \in Processes, SaveWrite(p)
  PROVE  IInv'
<1>1. PICK u : u = call[p]
  OBVIOUS
<1>2. /\ Tables /\ OnFile /\ RunsHold /\ Return(p) /\ u.op = "save" /\ u.id \in Saved
      /\ runs' = runs \cup {RunOf(u)} /\ UNCHANGED <<row, revisions, sessions, used>> /\ Carries(u)
  BY <1>1 DEF IInv, Shapes, CallsHold, SaveWrite
<1>3. /\ u.at \in 0 .. MaxRevision /\ u.analysed \in Contents /\ u.revision \in 1 .. MaxRevision
      /\ u.content \in Contents /\ u.id \in Ids /\ Holds(u.id, u.revision, u.content)
      /\ u.at # 0 => u.revision = u.at /\ u.analysed = u.content
      /\ \E n \in 1 .. u.revision : Holds(u.id, n, u.analysed)
  BY <1>2 DEF Carries, Saved
<1>4. PICK a : a = RunOf(u)
  OBVIOUS
<1>5. a \in RunRows /\ RunFits(a)
  <2>1. /\ a.id = u.id /\ a.at = u.at /\ a.analysed = u.analysed /\ a.revision = u.revision
        /\ a.content = u.content /\ a \in RunRows
    BY <1>3, <1>4 DEF RunOf, RunRows
  <2> QED
    BY <1>2, <1>3, <2>1 DEF RunFits
<1>6. Onward /\ Saved' = Saved
  BY <1>2, NothingChanges
<1>7. Tables' /\ OnFile'
  BY <1>2, <1>4, <1>5, <1>6 DEF Tables, OnFile, Numbered, Count, Holds
<1>8. RunsHold'
  BY <1>2, <1>4, <1>5, <1>6, RunsCarriedOver DEF RunsHold, RunFits
<1> QED
  BY <1>2, <1>6, <1>7, <1>8, WriteReturns

LEMMA TeachWriteKeeps ==
  ASSUME ScenarioStoreAssumption, IInv, NEW p \in Processes, TeachWrite(p)
  PROVE  IInv'
<1>1. /\ Tables /\ OnFile /\ RunsHold /\ Return(p) /\ call[p].id \in Saved
      /\ sessions' = sessions \cup {call[p].id} /\ UNCHANGED <<row, revisions, runs, used>>
  BY DEF IInv, Shapes, TeachWrite
<1>2. Onward /\ Saved' = Saved
  BY <1>1, NothingChanges
<1>3. Tables' /\ OnFile'
  BY <1>1, <1>2 DEF Tables, OnFile, Numbered, Count, Holds, Saved
<1>4. RunsHold'
  BY <1>1, <1>2, RunsCarriedOver DEF RunsHold, RunFits
<1> QED
  BY <1>1, <1>2, <1>3, <1>4, WriteReturns

-----------------------------------------------------------------------------
(***************************************************************************)
(* The invariant holds, and with it what the run checks.                   *)
(***************************************************************************)
LEMMA InitHolds == ASSUME ScenarioStoreAssumption, Init PROVE IInv
<1>1. Saved = {}
  BY DEF Init, Saved
<1>2. Shapes
  BY DEF Init, Shapes, Tables
<1>3. OnFile /\ RunsHold
  BY <1>1 DEF Init, OnFile, RunsHold
<1>4. CallsHold
  <2> SUFFICES ASSUME NEW p \in Processes PROVE Carries(call[p])
    BY DEF CallsHold
  <2> QED
    BY IdleCarries DEF Init
<1> QED
  BY <1>2, <1>3, <1>4 DEF IInv

LEMMA StepKeeps == ASSUME ScenarioStoreAssumption, IInv, [Next]_vars PROVE IInv'
<1>1. CASE UNCHANGED vars
  BY <1>1 DEF vars, IInv, Shapes, Tables, OnFile, CallsHold, Carries, RunsHold, RunFits,
              Saved, Numbered, Count, Holds, Current
<1>2. CASE Next
  <2>1. PICK p \in Processes :
           \/ \E s \in Ids :
               \/ \E c \in Contents, t \in Titles :
                   \/ Create(p, s, c, t)
                   \/ UpdateRead(p, s, c, t)
               \/ CopyRead(p, s)
               \/ \E t \in Titles : CopyWrite(p, s, t)
               \/ \E op \in {"favorite", "delete", "teach"} : RowRead(p, s, op)
               \/ \E at \in 0 .. MaxRevision : AnalyzeRead(p, s, at)
           \/ UpdateWrite(p)
           \/ UpdateFails(p)
           \/ \E favorite \in BOOLEAN : FavoriteWrite(p, favorite)
           \/ DeleteWrite(p)
           \/ SaveRead(p)
           \/ SaveWrite(p)
           \/ TeachWrite(p)
           \/ ScenarioGone(p)
    BY <1>2 DEF Next
  <2>2. ASSUME NEW s \in Ids, NEW c \in Contents, NEW t \in Titles,
               Create(p, s, c, t) \/ UpdateRead(p, s, c, t)
        PROVE  IInv'
    BY <2>2, CreateKeeps, UpdateReadKeeps
  <2>3. ASSUME NEW s \in Ids,
               \/ CopyRead(p, s)
               \/ \E t \in Titles : CopyWrite(p, s, t)
               \/ \E op \in {"favorite", "delete", "teach"} : RowRead(p, s, op)
               \/ \E at \in 0 .. MaxRevision : AnalyzeRead(p, s, at)
        PROVE  IInv'
    BY <2>3, CopyReadKeeps, CopyWriteKeeps, RowReadKeeps, AnalyzeReadKeeps
  <2>4. CASE UpdateFails(p) \/ ScenarioGone(p)
    BY <2>4, ReturnMoves DEF UpdateFails, ScenarioGone
  <2>5. CASE UpdateWrite(p) \/ (\E favorite \in BOOLEAN : FavoriteWrite(p, favorite))
    BY <2>5, UpdateWriteKeeps, FavoriteWriteKeeps
  <2>6. CASE DeleteWrite(p) \/ SaveRead(p) \/ SaveWrite(p) \/ TeachWrite(p)
    BY <2>6, DeleteWriteKeeps, SaveReadKeeps, SaveWriteKeeps, TeachWriteKeeps
  <2> QED
    BY <2>1, <2>2, <2>3, <2>4, <2>5, <2>6
<1> QED
  BY <1>1, <1>2

LEMMA InvariantSuffices == ASSUME ScenarioStoreAssumption, IInv PROVE StoreSound
<1>1. Shapes /\ Tables /\ OnFile /\ RunsHold
  BY DEF IInv, Shapes
<1>2. TypeOK
  BY <1>1 DEF Tables, Rows, Revisions, RunRows, TypeOK
<1>3. \A s \in Saved : s \in Ids /\ Numbered(s)
  BY <1>1 DEF OnFile, Saved
<1>4. RowIsLatestRevision
  <2> SUFFICES ASSUME NEW s \in Saved
               PROVE  /\ {r.no : r \in revisions[s]} = 1 .. Cardinality(revisions[s])
                      /\ row[s].content = ContentOf(s, Latest(s))
    BY DEF RowIsLatestRevision
  <2>1. PICK n, c : n = Count(s) /\ c = row[s].content
    OBVIOUS
  <2>2. Latest(s) = n /\ Holds(s, n, c)
    BY <1>3, <2>1, LatestIsTheCount DEF Numbered
  <2>3. ContentOf(s, n) = c
    BY <1>3, <2>2, ContentOfHeld
  <2> QED
    BY <1>3, <2>1, <2>2, <2>3 DEF Numbered, Count
<1>5. NothingOutlivesItsScenario
  BY <1>1 DEF OnFile, RunsHold, RunFits, NothingOutlivesItsScenario
<1>6. RunsMatchTheirRevision
  <2> SUFFICES ASSUME NEW a \in runs
               PROVE  /\ HasRevision(a.id, a.revision)
                      /\ a.content = ContentOf(a.id, a.revision)
                      /\ a.at # 0 => a.revision = a.at /\ a.analysed = a.content
                      /\ \E r \in revisions[a.id] : r.no <= a.revision /\ r.content = a.analysed
    BY DEF RunsMatchTheirRevision
  <2>1. PICK s, n, c : s \in Saved /\ s = a.id /\ n = a.revision /\ c = a.content
    BY <1>1 DEF RunsHold, RunFits
  <2>2. Holds(s, n, c) /\ (a.at # 0 => a.revision = a.at /\ a.analysed = a.content)
    BY <1>1, <2>1 DEF RunsHold, RunFits
  <2>3. HasRevision(s, n) /\ ContentOf(s, n) = c
    BY <1>3, <2>1, <2>2, ContentOfHeld
  <2>4. \E r \in revisions[s] : r.no <= n /\ r.content = a.analysed
    <3>1. n \in 1 .. MaxRevision
      BY <1>1, <1>3, <2>1, <2>2, HeldIsThere
    <3>2. PICK k \in 1 .. n : Holds(s, k, a.analysed)
      BY <1>1, <2>1 DEF RunsHold, RunFits
    <3>3. PICK r \in revisions[s] : r = [no |-> k, content |-> a.analysed]
      BY <3>2 DEF Holds
    <3> QED
      BY <3>1, <3>3
  <2> QED
    BY <2>1, <2>2, <2>3, <2>4
<1> QED
  BY <1>2, <1>4, <1>5, <1>6 DEF StoreSound

\* However saves, updates, deletions, analyses and lessons interleave, the rows,
\* revisions, runs and sessions of the store fit together.
THEOREM StoreStaysSound == ASSUME ScenarioStoreAssumption PROVE Spec => []StoreSound
<1>1. Init => IInv
  BY InitHolds
<1>2. IInv /\ [Next]_vars => IInv'
  BY StepKeeps
<1>3. IInv => StoreSound
  BY InvariantSuffices
<1> QED
  BY <1>1, <1>2, <1>3, PTL DEF Spec

-----------------------------------------------------------------------------
(***************************************************************************)
(* What a step may do to what is on file.                                  *)
(***************************************************************************)
\* What a step does to a scenario that it leaves on file.
Kept(s) ==
    \/ Current(s)' = Current(s) /\ revisions'[s] = revisions[s]
    \/ UpdateReplacesWhatItRead(s)

LEMMA StepReplaces ==
  ASSUME ScenarioStoreAssumption, IInv, [Next]_vars
  PROVE  \A s \in Saved : row'[s] # NoRow => Kept(s)
<1>1. Tables /\ OnFile /\ \A s \in Saved : s \in Ids /\ row[s] \in Rows
  BY SavedRow DEF IInv, Shapes
<1>2. SUFFICES ASSUME NEW s \in Saved, row'[s] # NoRow PROVE Kept(s)
  OBVIOUS
<1>3. ASSUME row'[s] = row[s], revisions'[s] = revisions[s] PROVE Kept(s)
  BY <1>3 DEF Kept, Current
<1>4. ASSUME NEW k \in Ids, NEW c, NEW t, Insert(k, c, t) PROVE Kept(s)
  <2>1. s # k
    BY <1>1, <1>4 DEF OnFile, Insert
  <2> QED
    BY <1>1, <1>3, <1>4, <2>1 DEF Tables, Insert
<1>5. ASSUME NEW p \in Processes, UpdateWrite(p) PROVE Kept(s)
  <2>1. PICK u : u = call[p]
    OBVIOUS
  <2>2. PICK k, n : k = u.id /\ n = u.next
    OBVIOUS
  <2>3. /\ k \in Saved /\ k \in Ids /\ n = Count(k) + 1 /\ u.current = Current(k) /\ u.op = "update"
    BY <1>1, <1>5, <2>1, <2>2, UpdateIsNext DEF UpdateWrite
  <2>4. /\ row' = [row EXCEPT ![k].content = u.content, ![k].title = u.title]
        /\ revisions' = [revisions EXCEPT ![k] = @ \cup {[no |-> n, content |-> u.content]}]
        /\ call'[p] = Idle
    BY <1>5, <2>1, <2>2 DEF UpdateWrite, Return, IInv, Shapes
  <2>5. CASE s # k
    BY <1>1, <1>3, <2>4, <2>5 DEF Tables
  <2>6. CASE s = k
    <3>1. n = Latest(s) + 1
      BY <1>1, <2>3, <2>6, LatestIsTheCount DEF OnFile
    <3>2. revisions'[s] = revisions[s] \cup {[no |-> Latest(s) + 1, content |-> u.content]}
      BY <1>1, <2>3, <2>4, <2>6, <3>1 DEF Tables
    <3>3. row'[s].content = u.content /\ row'[s].title = u.title
      BY <1>1, <2>3, <2>4, <2>6 DEF Tables, Rows
    <3>4. Current(s)' = [content |-> u.content, title |-> u.title]
      BY <3>3 DEF Current
    <3>5. UpdateReplacesWhatItRead(s)
      BY <2>1, <2>2, <2>3, <2>4, <2>6, <3>2, <3>4 DEF UpdateReplacesWhatItRead
    <3> QED
      BY <3>5 DEF Kept
  <2> QED
    BY <2>5, <2>6
<1>6. ASSUME NEW p \in Processes, NEW favorite \in BOOLEAN, FavoriteWrite(p, favorite)
      PROVE  Kept(s)
  <2>1. row'[s].content = row[s].content /\ row'[s].title = row[s].title
    BY <1>1, <1>6 DEF FavoriteWrite, Tables, Rows
  <2> QED
    BY <1>6, <2>1 DEF FavoriteWrite, Kept, Current
<1>7. ASSUME NEW p \in Processes, DeleteWrite(p) PROVE Kept(s)
  <2>1. PICK k : k = call[p].id
    OBVIOUS
  <2>2. row' = [row EXCEPT ![k] = NoRow] /\ revisions' = [revisions EXCEPT ![k] = {}]
    BY <1>7, <2>1 DEF DeleteWrite
  <2>3. s # k
    BY <1>1, <1>2, <2>2 DEF Tables
  <2> QED
    BY <1>1, <1>3, <2>2, <2>3 DEF Tables
<1>8. CASE UNCHANGED vars
  BY <1>3, <1>8 DEF vars
<1>9. CASE Next
  <2>1. PICK p \in Processes :
           \/ \E k \in Ids : \E c, t : Insert(k, c, t)
           \/ UpdateWrite(p)
           \/ \E favorite \in BOOLEAN : FavoriteWrite(p, favorite)
           \/ DeleteWrite(p)
           \/ UNCHANGED <<row, revisions>>
    BY <1>9 DEF Next, Create, CopyWrite, UpdateRead, CopyRead, RowRead, AnalyzeRead, UpdateFails,
                Refused, SaveRead, SaveWrite, TeachWrite, ScenarioGone
  <2> QED
    BY <1>3, <1>4, <1>5, <1>6, <1>7, <2>1
<1> QED
  BY <1>8, <1>9

\* A scenario on file changes only by an update that replaces what it read and
\* adds the next revision, whatever other processes wrote since that read: no
\* save is written over unseen, and no revision changes (update_scenario of
\* sqlite_store.py, with the UNIQUE number of its revision).
THEOREM NoSaveGetsLost == ASSUME ScenarioStoreAssumption PROVE Spec => NoSaveIsLost
<1>1. Init => IInv
  BY InitHolds
<1>2. IInv /\ [Next]_vars => IInv'
  BY StepKeeps
<1>3. IInv /\ [Next]_vars => [\A s \in Saved : row'[s] # NoRow => Kept(s)]_vars
  BY StepReplaces
<1> QED
  BY <1>1, <1>2, <1>3, PTL DEF Spec, NoSaveIsLost, Kept
-----------------------------------------------------------------------------
(***************************************************************************)
(* ApiGate: the limiter has every admission of the last minute, so what a  *)
(* window holds when its last request is admitted is less than the limit;  *)
(* and an answer given for a key is in the cache from then on.             *)
(***************************************************************************)
StampsOf(t) == [no : Nat \ {0}, at : 1 .. t]
Entries == [scenario : Scenarios, result : 1 .. computed]
Replies == [key : Keys \cup {NoKey}, scenario : Scenarios, result : 1 .. computed]
InWindow(c, start) == {s \in admitted[c] : start < s.at /\ s.at <= start + Window}

LimiterInv ==
    /\ now \in Nat /\ Window <= now
    /\ stamps \in [Clients -> SUBSET StampsOf(now)]
    /\ admitted \in [Clients -> SUBSET StampsOf(now)]
    /\ \A c \in Clients :
        /\ IsFiniteSet(admitted[c]) /\ stamps[c] \subseteq admitted[c]
        /\ \A s \in admitted[c] : s.no <= Cardinality(admitted[c])
        /\ \A s \in admitted[c] : s.at > now - Window => s \in stamps[c]
        /\ Cardinality(stamps[c]) <= Limit
        /\ \A start \in Nat : Limit # 0 => Cardinality(InWindow(c, start)) <= Limit

CacheInv ==
    /\ computed \in Nat
    /\ cache \in [Keys -> Entries \cup {NoEntry}]
    /\ request \in [Requests -> Bodies \cup {NoRequest}]
    /\ answers \subseteq Replies
    /\ \A a \in answers : a.key # NoKey =>
        /\ cache[a.key] # NoEntry
        /\ a.scenario = cache[a.key].scenario /\ a.result = cache[a.key].result

\* The stamps the limiter looks at are the admissions of the last minute.
LEMMA RecentIsComplete ==
  ASSUME GateAssumption, LimiterInv, NEW c \in Clients
  PROVE  /\ Recent(c) = {s \in admitted[c] : s.at > now - Window}
         /\ IsFiniteSet(Recent(c)) /\ Cardinality(Recent(c)) \in Nat
<1>1. Recent(c) = {s \in admitted[c] : s.at > now - Window}
  BY DEF LimiterInv, Recent
<1> QED
  BY <1>1, FS_Subset, FS_CardinalityType DEF LimiterInv

\* Whoever is let through is within the limit in every minute.
LEMMA AdmissionHolds ==
  ASSUME GateAssumption, LimiterInv, NEW r \in Requests, NEW c \in Clients, NEW body,
         Admit(r, c, body)
  PROVE  LimiterInv'
<1>1. CASE Limit = 0
  BY <1>1 DEF Admit, LimiterInv, InWindow
<1>2. CASE Limit # 0
  <2> DEFINE s0 == Stamp(c)
             old == admitted[c]
  <2>1. /\ stamps' = [stamps EXCEPT ![c] = Recent(c) \cup {s0}]
        /\ admitted' = [admitted EXCEPT ![c] = old \cup {s0}]
        /\ now' = now /\ Cardinality(Recent(c)) < Limit
    BY <1>2 DEF Admit, Allowed
  <2>2. /\ IsFiniteSet(old) /\ Cardinality(old) \in Nat /\ old \subseteq StampsOf(now)
        /\ \A s \in old : s.no <= Cardinality(old)
    BY FS_CardinalityType DEF LimiterInv
  <2>3. s0 \in StampsOf(now) /\ s0.at = now /\ s0.no = Cardinality(old) + 1
    BY <2>2 DEF Stamp, StampsOf, LimiterInv, GateAssumption
  <2>4. s0 \notin old
    BY <2>2, <2>3
  <2>5. IsFiniteSet(old \cup {s0}) /\ Cardinality(old \cup {s0}) = Cardinality(old) + 1
    BY <2>2, <2>4, FS_AddElement
  <2>6. /\ Recent(c) = {s \in old : s.at > now - Window}
        /\ IsFiniteSet(Recent(c)) /\ Cardinality(Recent(c)) \in Nat
    BY RecentIsComplete
  <2>7. Cardinality(Recent(c) \cup {s0}) <= Limit
    <3>1. Cardinality(Recent(c) \cup {s0}) = Cardinality(Recent(c)) + 1
      BY <2>4, <2>6, FS_AddElement
    <3> QED
      BY <2>1, <2>6, <3>1 DEF GateAssumption
  <2>8. ASSUME NEW start \in Nat PROVE Cardinality(InWindow(c, start)') <= Limit
    <3> DEFINE was == InWindow(c, start)
               is == {s \in old \cup {s0} : start < s.at /\ s.at <= start + Window}
    <3>1. InWindow(c, start)' = is
      BY <2>1 DEF InWindow, LimiterInv
    <3>2. CASE start < now /\ now <= start + Window
      <4>1. was \subseteq Recent(c)
        <5>1. \A s \in old : s.at \in Nat
          BY <2>2 DEF StampsOf
        <5> QED
          BY <2>6, <3>2, <5>1 DEF InWindow, GateAssumption, LimiterInv
      <4>2. /\ IsFiniteSet(was) /\ Cardinality(was) <= Cardinality(Recent(c))
            /\ Cardinality(was) \in Nat
        BY <2>6, <4>1, FS_Subset, FS_CardinalityType
      <4>3. is = was \cup {s0} /\ s0 \notin was
        BY <2>3, <2>4, <3>2 DEF InWindow
      <4>4. Cardinality(is) = Cardinality(was) + 1
        BY <4>2, <4>3, FS_AddElement
      <4> QED
        BY <2>1, <2>6, <3>1, <4>2, <4>4 DEF GateAssumption
    <3>3. CASE ~(start < now /\ now <= start + Window)
      <4>1. is = was
        BY <2>3, <3>3 DEF InWindow
      <4> QED
        BY <1>2, <3>1, <4>1 DEF LimiterInv
    <3> QED
      BY <3>2, <3>3
  <2>9. ASSUME NEW d \in Clients, d # c
        PROVE  stamps'[d] = stamps[d] /\ admitted'[d] = admitted[d]
    BY <2>1, <2>9 DEF LimiterInv
  <2>10. stamps'[c] = Recent(c) \cup {s0} /\ admitted'[c] = old \cup {s0}
    BY <2>1 DEF LimiterInv
  <2>11. /\ now' \in Nat /\ Window <= now'
         /\ stamps' \in [Clients -> SUBSET StampsOf(now')]
         /\ admitted' \in [Clients -> SUBSET StampsOf(now')]
    <3>1. Recent(c) \cup {s0} \in SUBSET StampsOf(now) /\ old \cup {s0} \in SUBSET StampsOf(now)
      BY <2>2, <2>3, <2>6
    <3> HIDE DEF s0, old
    <3> QED
      BY <2>1, <3>1 DEF LimiterInv
  <2>12. /\ IsFiniteSet(admitted'[c]) /\ stamps'[c] \subseteq admitted'[c]
         /\ \A s \in admitted'[c] : s.no <= Cardinality(admitted'[c])
         /\ \A s \in admitted'[c] : s.at > now' - Window => s \in stamps'[c]
         /\ Cardinality(stamps'[c]) <= Limit
    <3>1. \A s \in old : s.no \in Nat
      BY <2>2 DEF StampsOf
    <3>2. s0.no = Cardinality(old) + 1 /\ Recent(c) \subseteq old
      BY <2>3, <2>6
    <3> HIDE DEF s0, old
    <3>3. /\ IsFiniteSet(admitted'[c]) /\ stamps'[c] \subseteq admitted'[c]
          /\ Cardinality(stamps'[c]) <= Limit
      BY <2>5, <2>7, <2>10, <3>2
    <3>4. Cardinality(admitted'[c]) = Cardinality(old) + 1
      BY <2>5, <2>10
    <3>5. \A s \in admitted'[c] : s.no <= Cardinality(old) + 1
      BY <2>2, <2>10, <3>1, <3>2
    <3>6. \A s \in admitted'[c] : s.at > now' - Window => s \in stamps'[c]
      BY <2>1, <2>6, <2>10
    <3> QED
      BY <3>3, <3>4, <3>5, <3>6
  <2>13. ASSUME NEW d \in Clients
         PROVE  /\ IsFiniteSet(admitted'[d]) /\ stamps'[d] \subseteq admitted'[d]
                /\ \A s \in admitted'[d] : s.no <= Cardinality(admitted'[d])
                /\ \A s \in admitted'[d] : s.at > now' - Window => s \in stamps'[d]
                /\ Cardinality(stamps'[d]) <= Limit
                /\ \A start \in Nat : Limit # 0 => Cardinality(InWindow(d, start)') <= Limit
    <3>1. CASE d = c
      BY <2>8, <2>12, <3>1
    <3>2. CASE d # c
      <4>1. \A start \in Nat : InWindow(d, start)' = InWindow(d, start)
        BY <2>9, <3>2 DEF InWindow
      <4> QED
        BY <2>1, <2>9, <3>2, <4>1 DEF LimiterInv
    <3> QED
      BY <3>1, <3>2
  <2> QED
    BY <2>11, <2>13 DEF LimiterInv
<1> QED
  BY <1>1, <1>2

LEMMA RefusalHolds ==
  ASSUME GateAssumption, LimiterInv, NEW r \in Requests, NEW c \in Clients, TooMany(r, c)
  PROVE  LimiterInv'
<1>1. stamps' = [stamps EXCEPT ![c] = Recent(c)] /\ UNCHANGED <<now, admitted>>
  BY DEF TooMany
<1>2. /\ Recent(c) = {s \in admitted[c] : s.at > now - Window}
      /\ Recent(c) \subseteq stamps[c] /\ Recent(c) \subseteq StampsOf(now)
  BY RecentIsComplete DEF Recent, LimiterInv
<1>3. Cardinality(Recent(c)) <= Limit
  <2>1. IsFiniteSet(stamps[c]) /\ Cardinality(stamps[c]) <= Limit
    BY FS_Subset DEF LimiterInv
  <2>2. Cardinality(Recent(c)) <= Cardinality(stamps[c])
    BY <1>2, <2>1, FS_Subset
  <2> QED
    BY <2>1, <2>2, RecentIsComplete, FS_CardinalityType DEF GateAssumption
<1>4. stamps' \in [Clients -> SUBSET StampsOf(now)]
  BY <1>1, <1>2 DEF LimiterInv
<1>5. ASSUME NEW d \in Clients
      PROVE  /\ stamps'[d] \subseteq admitted[d] /\ Cardinality(stamps'[d]) <= Limit
             /\ \A s \in admitted[d] : s.at > now - Window => s \in stamps'[d]
  <2>1. CASE d = c
    BY <1>1, <1>2, <1>3, <2>1 DEF LimiterInv
  <2>2. CASE d # c
    BY <1>1, <2>2 DEF LimiterInv
  <2> QED
    BY <2>1, <2>2
<1> QED
  BY <1>1, <1>4, <1>5 DEF LimiterInv, InWindow

LEMMA TickHolds ==
  ASSUME GateAssumption, LimiterInv, Tick
  PROVE  LimiterInv'
<1>1. now' = now + 1 /\ UNCHANGED <<stamps, admitted>>
  BY DEF Tick
<1>2. StampsOf(now) \subseteq StampsOf(now')
  BY <1>1 DEF StampsOf, LimiterInv
<1>3. \A c \in Clients : \A s \in admitted[c] : s.at \in Nat
  BY DEF LimiterInv, StampsOf
<1>4. /\ now' \in Nat /\ Window <= now'
      /\ stamps' \in [Clients -> SUBSET StampsOf(now')]
      /\ admitted' \in [Clients -> SUBSET StampsOf(now')]
  BY <1>1, <1>2 DEF LimiterInv, GateAssumption
<1>5. \A c \in Clients : \A s \in admitted[c] : s.at > now' - Window => s.at > now - Window
  BY <1>1, <1>3 DEF LimiterInv, GateAssumption
<1>6. \A c \in Clients, start \in Nat : InWindow(c, start)' = InWindow(c, start)
  BY <1>1 DEF InWindow
<1> QED
  BY <1>1, <1>4, <1>5, <1>6 DEF LimiterInv

\* A computed answer is remembered under its key, and it is the first of that key.
LEMMA AnalysisHolds ==
  ASSUME GateAssumption, CacheInv, NEW r \in Requests, Analyse(r)
  PROVE  CacheInv'
<1> DEFINE q == request[r]
           n == computed + 1
<1>1. /\ q.route = "analysis" /\ ~Known(r) /\ computed' = n
      /\ answers' = answers \cup {Reply(r, n)}
      /\ request' = [request EXCEPT ![r] = NoRequest]
  BY DEF Analyse, Answer
<1>2. q \in [route : {"analysis"}, key : Keys \cup {NoKey}, scenario : Scenarios]
  BY <1>1 DEF CacheInv, Bodies, NoRequest
<1>3. /\ n \in Nat \ {0} /\ n = computed'
      /\ Reply(r, n) = [key |-> q.key, scenario |-> q.scenario, result |-> n]
  BY <1>1 DEF CacheInv, Reply
<1>4. Entries \subseteq Entries' /\ Replies \subseteq Replies'
  BY <1>1 DEF Entries, Replies, CacheInv
<1>5. request' \in [Requests -> Bodies \cup {NoRequest}]
  BY <1>1 DEF CacheInv
<1>6. answers' \subseteq Replies'
  <2>1. Reply(r, n) \in Replies'
    BY <1>2, <1>3 DEF Replies
  <2> QED
    BY <1>1, <1>4, <2>1 DEF CacheInv
<1>7. CASE Keyed(r)
  <2> DEFINE e == [scenario |-> q.scenario, result |-> n]
  <2>1. q.key \in Keys /\ q.key # NoKey /\ cache[q.key] = NoEntry
    BY <1>1, <1>2, <1>7 DEF Keyed, Known
  <2>2. cache' = [cache EXCEPT ![q.key] = e]
    BY <1>7 DEF Analyse
  <2>3. e \in Entries' /\ e # NoEntry /\ e.scenario = q.scenario /\ e.result = n
    <3>1. NoEntry.result = 0
      BY DEF NoEntry
    <3> QED
      BY <1>2, <1>3, <3>1 DEF Entries
  <2> HIDE DEF e
  <2>4. cache' \in [Keys -> Entries' \cup {NoEntry}]
    BY <1>4, <2>2, <2>3 DEF CacheInv
  <2>5. ASSUME NEW a \in answers', a.key # NoKey
        PROVE  /\ cache'[a.key] # NoEntry
               /\ a.scenario = cache'[a.key].scenario /\ a.result = cache'[a.key].result
    <3>1. CASE a \in answers
      <4>1. a.key \in Keys /\ a.key # q.key
        BY <2>1, <2>5, <3>1 DEF CacheInv, Replies
      <4>2. cache'[a.key] = cache[a.key]
        BY <2>2, <4>1 DEF CacheInv
      <4> QED
        BY <2>5, <3>1, <4>2 DEF CacheInv
    <3>2. CASE a = Reply(r, n)
      <4>1. cache'[a.key] = e
        BY <1>3, <2>1, <2>2, <3>2 DEF CacheInv
      <4> QED
        BY <1>3, <2>3, <3>2, <4>1
    <3> QED
      BY <1>1, <3>1, <3>2
  <2> QED
    BY <1>1, <1>3, <1>5, <1>6, <2>4, <2>5 DEF CacheInv
<1>8. CASE ~Keyed(r)
  <2>1. cache' = cache /\ q.key = NoKey
    BY <1>1, <1>8 DEF Analyse, Keyed
  <2>2. Reply(r, n).key = NoKey
    BY <1>3, <2>1
  <2> QED
    BY <1>1, <1>3, <1>4, <1>5, <1>6, <2>1, <2>2 DEF CacheInv
<1> QED
  BY <1>7, <1>8

LEMMA ReplayHolds ==
  ASSUME GateAssumption, CacheInv, NEW r \in Requests, Replay(r)
  PROVE  CacheInv'
<1> DEFINE q == request[r]
           e == cache[q.key]
<1>1. /\ q.route = "analysis" /\ q.key # NoKey /\ e # NoEntry /\ e.scenario = q.scenario
      /\ answers' = answers \cup {Reply(r, e.result)}
      /\ request' = [request EXCEPT ![r] = NoRequest]
      /\ UNCHANGED <<cache, computed>>
  BY DEF Replay, Answer, Known, Keyed, Conflict
<1>2. q \in [route : {"analysis"}, key : Keys \cup {NoKey}, scenario : Scenarios]
  BY <1>1 DEF CacheInv, Bodies, NoRequest
<1>3. q.key \in Keys /\ e \in Entries
  BY <1>1, <1>2 DEF CacheInv
<1>4. Reply(r, e.result) = [key |-> q.key, scenario |-> q.scenario, result |-> e.result]
  BY DEF Reply
<1>5. Reply(r, e.result) \in Replies
  BY <1>2, <1>3, <1>4 DEF Replies, Entries
<1>6. Replies' = Replies /\ Entries' = Entries
  BY <1>1 DEF Replies, Entries
<1>7. ASSUME NEW a \in answers', a.key # NoKey
      PROVE  /\ cache[a.key] # NoEntry
             /\ a.scenario = cache[a.key].scenario /\ a.result = cache[a.key].result
  <2>1. CASE a \in answers
    BY <1>7, <2>1 DEF CacheInv
  <2>2. CASE a = Reply(r, e.result)
    BY <1>1, <1>4, <2>2
  <2> QED
    BY <1>1, <2>1, <2>2
<1>8. request' \in [Requests -> Bodies \cup {NoRequest}]
  BY <1>1 DEF CacheInv
<1> QED
  BY <1>1, <1>5, <1>6, <1>7, <1>8 DEF CacheInv

\* A step that takes a request in or ends it, and answers nothing.
LEMMA OtherStepsHold ==
  ASSUME CacheInv, UNCHANGED <<cache, computed, answers>>,
         request' \in [Requests -> Bodies \cup {NoRequest}]
  PROVE  CacheInv'
BY DEF CacheInv, Entries, Replies

LEMMA GateStep ==
  ASSUME GateAssumption, LimiterInv, CacheInv, [GateNext]_gateVars
  PROVE  LimiterInv' /\ CacheInv'
<1> DEFINE Same == UNCHANGED <<now, stamps, admitted>>
<1>1. Same => LimiterInv'
  BY DEF LimiterInv, InWindow
<1>2. request \in [Requests -> Bodies \cup {NoRequest}]
  BY DEF CacheInv
<1>3. CASE Tick
  <2>1. UNCHANGED <<cache, computed, answers, request>>
    BY <1>3 DEF Tick
  <2> QED
    BY <1>2, <1>3, <2>1, TickHolds, OtherStepsHold
<1>4. ASSUME NEW r \in Requests, TooLarge(r) PROVE LimiterInv' /\ CacheInv'
  <2>1. UNCHANGED <<cache, computed, answers, request>> /\ Same
    BY <1>4 DEF TooLarge
  <2> QED
    BY <1>1, <1>2, <2>1, OtherStepsHold
<1>5. ASSUME NEW r \in Requests, NEW c \in Clients, NEW body \in Bodies, Admit(r, c, body)
      PROVE  LimiterInv' /\ CacheInv'
  <2>1. UNCHANGED <<cache, computed, answers>> /\ request' = [request EXCEPT ![r] = body]
    BY <1>5 DEF Admit
  <2> QED
    BY <1>2, <1>5, <2>1, AdmissionHolds, OtherStepsHold
<1>6. ASSUME NEW r \in Requests, NEW c \in Clients, TooMany(r, c) PROVE LimiterInv' /\ CacheInv'
  <2>1. UNCHANGED <<cache, computed, answers, request>>
    BY <1>6 DEF TooMany
  <2> QED
    BY <1>2, <1>6, <2>1, RefusalHolds, OtherStepsHold
<1>7. ASSUME NEW r \in Requests, Reject(r) \/ AnalyseFails(r) \/ Equity(r)
      PROVE  LimiterInv' /\ CacheInv'
  <2>1. /\ UNCHANGED <<cache, computed, answers>>
        /\ request' = [request EXCEPT ![r] = NoRequest] /\ Same
    BY <1>7 DEF Reject, AnalyseFails, Equity, Answer
  <2> QED
    BY <1>1, <1>2, <2>1, OtherStepsHold
<1>8. ASSUME NEW r \in Requests, Replay(r) \/ Analyse(r) PROVE LimiterInv' /\ CacheInv'
  <2>1. Same
    BY <1>8 DEF Replay, Analyse, Answer
  <2> QED
    BY <1>1, <1>8, <2>1, ReplayHolds, AnalysisHolds
<1>9. CASE UNCHANGED gateVars
  BY <1>1, <1>2, <1>9, OtherStepsHold DEF gateVars
<1> QED
  BY <1>3, <1>4, <1>5, <1>6, <1>7, <1>8, <1>9 DEF GateNext

LEMMA GateStart ==
  ASSUME GateAssumption, GateInit
  PROVE  LimiterInv /\ CacheInv
<1>1. LimiterInv
  <2>1. /\ now = Window /\ stamps = [c \in Clients |-> {}] /\ admitted = [c \in Clients |-> {}]
        /\ Window \in Nat /\ Limit \in Nat
    BY DEF GateInit, GateAssumption
  <2>2. \A c \in Clients, start \in Nat : InWindow(c, start) = {}
    BY <2>1 DEF InWindow
  <2> QED
    BY <2>1, <2>2, FS_EmptySet DEF LimiterInv
<1>2. CacheInv
  BY DEF GateInit, CacheInv
<1> QED
  BY <1>1, <1>2

LEMMA GateSuffices ==
  ASSUME GateAssumption, LimiterInv, CacheInv
  PROVE  GateSound
<1>1. GateTyped
  <2>1. \A k \in Keys : cache[k] # NoEntry => cache[k] \in Entries
    BY DEF CacheInv
  <2>2. \A c \in Clients : stamps[c] \subseteq StampsOf(now) /\ Cardinality(stamps[c]) <= Limit
    BY DEF LimiterInv
  <2>3. \A r \in Requests : request[r] \in Bodies \cup {NoRequest}
    BY DEF CacheInv
  <2> QED
    BY <2>1, <2>2, <2>3 DEF GateTyped, Entries, StampsOf
<1>2. AtMostLimitPerMinute
  <2>1. ASSUME NEW c \in Clients, NEW start \in 0 .. MaxTime
        PROVE  {s \in Since(c, start) : s.at <= start + Window} = InWindow(c, start)
    BY DEF Since, InWindow
  <2>2. \A c \in Clients, start \in 0 .. MaxTime :
           Limit # 0 => Cardinality(InWindow(c, start)) <= Limit
    BY DEF LimiterInv
  <2> QED
    BY <2>1, <2>2 DEF AtMostLimitPerMinute
<1>3. RefusedOnlyWhenFull
  <2>1. ASSUME NEW c \in Clients, ~Allowed(c)
        PROVE  Cardinality(Since(c, now - Window)) >= Limit
    <3>1. Since(c, now - Window) = Recent(c)
      <4>1. \A s \in admitted[c] : s.at \in Nat
        BY DEF LimiterInv, StampsOf
      <4> QED
        BY <4>1, RecentIsComplete DEF Since, LimiterInv, GateAssumption
    <3> QED
      BY <2>1, <3>1, RecentIsComplete DEF Allowed, GateAssumption
  <2> QED
    BY <2>1 DEF RefusedOnlyWhenFull
<1>4. OneAnswerPerKey
  <2>1. ASSUME NEW a \in answers, NEW b \in answers, a.key = b.key, a.key # NoKey
        PROVE  a = b
    <3>1. a \in Replies /\ b \in Replies /\ a.scenario = b.scenario /\ a.result = b.result
      BY <2>1 DEF CacheInv
    <3> QED
      BY <2>1, <3>1 DEF Replies
  <2> QED
    BY <2>1 DEF OneAnswerPerKey
<1> QED
  BY <1>1, <1>2, <1>3, <1>4 DEF GateSound

\* In every behaviour no minute admits more than the limit and a key has one answer.
THEOREM GateStaysSound == ASSUME GateAssumption PROVE GateSpec => []GateSound
<1>1. GateInit => LimiterInv /\ CacheInv
  BY GateStart
<1>2. LimiterInv /\ CacheInv /\ [GateNext]_gateVars => (LimiterInv /\ CacheInv)'
  BY GateStep
<1>3. LimiterInv /\ CacheInv => GateSound
  BY GateSuffices
<1> QED
  BY <1>1, <1>2, <1>3, PTL DEF GateSpec
-----------------------------------------------------------------------------
(***************************************************************************)
(* PracticeLedger: a question is gone for good with its profile, so what   *)
(* was read for an answer to a question still on file is of the profile    *)
(* that is there, and the numbers it read are no more than the answers.    *)
(***************************************************************************)
Progresses == [attempts : [Concepts -> Nat], correct : [Concepts -> Nat]]
Learner == {d \in [attempts : [Concepts -> Nat], correct : [Concepts -> Nat],
                   mistakes : Nat, recent : Seq(Questions)] : Len(d.recent) <= RecentKept}
Texts == [owner : Profiles, concepts : (SUBSET Concepts) \ {{}}, tagged : BOOLEAN]
Answers == [no : Nat \ {0}, question : Questions, correct : BOOLEAN]
LookUp == {"read", "insert", "again", "continue"}
Creates == [at : {"create"} \X LookUp, profile : Profiles, read : Learner]
Generates == [at : {"generate"} \X LookUp, profile : Profiles, question : Questions,
              read : Learner, text : Texts]
Attempts == [at : {"attempt"} \X (LookUp \cup {"save", "recreate"}), profile : Profiles,
             question : Questions, read : Learner, text : Texts]
Deletes == [at : {<<"delete", "write">>}, profile : Profiles]
Calls == {NoCall} \cup Creates \cup Generates \cup Attempts \cup Deletes

PracticeShapes ==
    /\ profile \in [Profiles -> Learner \cup {NoProfile}]
    /\ progress \in [Profiles -> Progresses]
    /\ question \in [Questions -> Texts \cup {NoQuestion}]
    /\ graded \subseteq Answers /\ IsFiniteSet(graded)
    /\ mistakes \in [Profiles -> Nat]
    /\ Asked \subseteq asked /\ asked \subseteq Questions
    /\ serving \in [Servers -> Calls]

Below(m) == \A a \in graded : a.no <= m
AnswersKept ==
    /\ \E m \in Nat : Below(m)
    /\ \A a \in graded, b \in graded : a.no = b.no => a = b

\* what a read document has to do with the answers to the profile's questions
ReadBacked(i, d) ==
    /\ \A c \in Concepts : /\ d.attempts[c] <= Tried(i, c) /\ d.correct[c] <= Right(i, c)
                           /\ d.correct[c] <= d.attempts[c]
    /\ d.mistakes <= Wrong(i)
Backed(i) ==
    /\ ReadBacked(i, profile[i])
    /\ \A c \in Concepts : /\ progress[i].attempts[c] <= Tried(i, c)
                           /\ progress[i].correct[c] <= progress[i].attempts[c]
    /\ mistakes[i] = Wrong(i)
Recents(i, d) ==
    /\ \A a \in AnswersOf(i) : Later(i, a) < RecentKept =>
        Later(i, a) < Len(d.recent) /\ d.recent[Later(i, a) + 1] = a.question
    /\ Len(d.recent) <= Cardinality(AnswersOf(i))
SumsUp(i, d) ==
    /\ \A c \in Concepts : d.attempts[c] = Tried(i, c) /\ d.correct[c] = Right(i, c)
    /\ d.mistakes = Wrong(i)
    /\ Recents(i, d)
Sums(i) == /\ SumsUp(i, profile[i])
           /\ progress[i] = [attempts |-> profile[i].attempts, correct |-> profile[i].correct]

\* what a call may still rely on
AttemptFits(s) ==
    /\ s.question \in asked /\ s.text.owner = s.profile
    /\ s.question \in Asked =>
        /\ s.text = question[s.question]
        /\ s.at[2] \in {"read", "continue", "save"}
        /\ s.at[2] # "read" => /\ ReadBacked(s.profile, s.read)
                               /\ s.profile \notin raced => s.read = profile[s.profile]
CallFits(s) ==
    /\ s \in Generates => s.question \in asked \ Asked /\ s.text.owner = s.profile
    /\ s \in Attempts => AttemptFits(s)
NewQuestion(p, o) == serving[p].question # serving[o].question
CallsFit ==
    /\ \A p \in Servers : CallFits(serving[p])
    /\ \A p, o \in Servers :
        p # o /\ serving[p] \in Generates /\ serving[o] \in Generates \cup Attempts
        => NewQuestion(p, o)

LedgerInv ==
    /\ NothingOutlivesItsProfile
    /\ \A i \in Stored : Backed(i) /\ (i \notin raced => Sums(i))
PracticeInv == PracticeShapes /\ AnswersKept /\ LedgerInv /\ CallsFit
-----------------------------------------------------------------------------
LEMMA NaturalsAreOrdered == IsWellFoundedOn(OpToRel(<, Nat), Nat)
BY NatLessThanWellFounded

\* The newest answer's number.
LEMMA NewestIsNewest ==
  ASSUME PracticeShapes, AnswersKept
  PROVE  Newest \in Nat /\ Below(Newest)
<1> DEFINE U == {m \in Nat : Below(m)}
           S == {a.no : a \in graded} \cup {0}
<1>1. \A a \in graded : a.no \in Nat /\ a.no > 0
  BY DEF PracticeShapes, Answers
<1>2. U \subseteq Nat /\ U # {}
  BY DEF AnswersKept
<1>3. PICK m \in U : \A k \in U : ~(<<k, m>> \in OpToRel(<, Nat))
  BY <1>2, NaturalsAreOrdered, WFMin, Zenon
<1>4. m \in Nat /\ Below(m)
  OBVIOUS
<1>5. \A k \in Nat : Below(k) => ~(k < m)
  BY <1>3, <1>4 DEF OpToRel
<1>6. m \in S
  <2>1. CASE m = 0
    BY <2>1
  <2>2. CASE m # 0
    <3>1. m - 1 \in Nat /\ ~Below(m - 1)
      BY <1>4, <1>5, <2>2
    <3>2. PICK a \in graded : ~(a.no <= m - 1)
      BY <3>1 DEF Below
    <3>3. a.no = m
      BY <1>1, <1>4, <3>2 DEF Below
    <3> QED
      BY <3>3
  <2> QED
    BY <2>1, <2>2
<1>7. \A y \in S : m >= y
  BY <1>1, <1>4 DEF Below
<1>8. Newest = CHOOSE x \in S : \A y \in S : x >= y
  BY DEF Newest, Max
<1>9. Newest \in S /\ \A y \in S : Newest >= y
  BY <1>6, <1>7, <1>8
<1> QED
  BY <1>1, <1>9 DEF Below

-----------------------------------------------------------------------------
(* Counting.                                                               *)

LEMMA CountMore ==
  ASSUME NEW A, IsFiniteSet(A), NEW n, n \notin A, NEW S, S \subseteq A
  PROVE  /\ Cardinality(S) \in Nat
         /\ Cardinality(S \cup {n}) = Cardinality(S) + 1
<1>1. IsFiniteSet(S) /\ Cardinality(S) \in Nat
  BY FS_Subset, FS_CardinalityType
<1> QED
  BY <1>1, FS_AddElement

LEMMA CountsAreNumbers ==
  ASSUME PracticeShapes, NEW i
  PROVE  /\ IsFiniteSet(AnswersOf(i)) /\ Cardinality(AnswersOf(i)) \in Nat
         /\ \A c : Tried(i, c) \in Nat /\ Right(i, c) \in Nat
         /\ Wrong(i) \in Nat
         /\ \A a : Later(i, a) \in Nat
<1>1. AnswersOf(i) \subseteq graded
  BY DEF AnswersOf
<1>2. \A S : S \subseteq AnswersOf(i) => IsFiniteSet(S) /\ Cardinality(S) \in Nat
  BY <1>1, FS_Subset, FS_CardinalityType DEF PracticeShapes
<1> QED
  BY <1>2 DEF Tried, Right, Wrong, Later

\* A profile nobody answered for counts nothing.
LEMMA NothingAnswered ==
  ASSUME NEW i, AnswersOf(i) = {}
  PROVE  /\ \A c : Tried(i, c) = 0 /\ Right(i, c) = 0
         /\ Wrong(i) = 0 /\ Cardinality(AnswersOf(i)) = 0
<1>1. /\ \A c : {a \in AnswersOf(i) : c \in question[a.question].concepts} = {}
      /\ \A c : {a \in AnswersOf(i) : a.correct /\ c \in question[a.question].concepts} = {}
      /\ {a \in AnswersOf(i) : ~a.correct /\ question[a.question].tagged} = {}
  OBVIOUS
<1> QED
  BY <1>1, FS_EmptySet DEF Tried, Right, Wrong

\* The counts of a profile are of its answers and their questions.
LEMMA SameCounts ==
  ASSUME NEW i, AnswersOf(i)' = AnswersOf(i),
         \A a \in AnswersOf(i) : question'[a.question] = question[a.question]
  PROVE  /\ \A c : Tried(i, c)' = Tried(i, c) /\ Right(i, c)' = Right(i, c)
         /\ Wrong(i)' = Wrong(i)
         /\ \A a : Later(i, a)' = Later(i, a)
<1>1. /\ \A c : {a \in AnswersOf(i)' : c \in question'[a.question].concepts}
                = {a \in AnswersOf(i) : c \in question[a.question].concepts}
      /\ \A c : {a \in AnswersOf(i)' : a.correct /\ c \in question'[a.question].concepts}
                = {a \in AnswersOf(i) : a.correct /\ c \in question[a.question].concepts}
      /\ {a \in AnswersOf(i)' : ~a.correct /\ question'[a.question].tagged}
                = {a \in AnswersOf(i) : ~a.correct /\ question[a.question].tagged}
  OBVIOUS
<1> QED
  BY <1>1 DEF Tried, Right, Wrong, Later

\* A profile whose rows and answers stay is as sound as before.
LEMMA ProfileUntouched ==
  ASSUME NEW i \in Profiles, AnswersOf(i)' = AnswersOf(i),
         \A a \in AnswersOf(i) : question'[a.question] = question[a.question],
         profile'[i] = profile[i], progress'[i] = progress[i], mistakes'[i] = mistakes[i]
  PROVE  /\ Backed(i) => Backed(i)'
         /\ Sums(i) => Sums(i)'
         /\ \A d : ReadBacked(i, d) => ReadBacked(i, d)'
<1>1. /\ \A c : Tried(i, c)' = Tried(i, c) /\ Right(i, c)' = Right(i, c)
      /\ Wrong(i)' = Wrong(i)
      /\ \A a : Later(i, a)' = Later(i, a)
  BY SameCounts
<1>2. \A d : ReadBacked(i, d) => ReadBacked(i, d)'
  BY <1>1 DEF ReadBacked
<1>3. ASSUME Backed(i) PROVE Backed(i)'
  BY <1>1, <1>3 DEF Backed, ReadBacked
<1>4. ASSUME Sums(i) PROVE Sums(i)'
  BY <1>1, <1>4 DEF Sums, SumsUp, Recents
<1> QED
  BY <1>2, <1>3, <1>4
-----------------------------------------------------------------------------
(* The documents.                                                          *)

LEMMA EmptyIsLearner ==
  ASSUME PracticeAssumption
  PROVE  Empty \in Learner /\ Empty # NoProfile /\ Zero \in [Concepts -> Nat]
<1>1. Empty # NoProfile
  <2>1. Empty.recent = <<>> /\ NoProfile.recent = <<"none">>
    BY DEF Empty, NoProfile
  <2>2. Len(Empty.recent) = 0 /\ Len(NoProfile.recent) = 1
    BY <2>1
  <2> QED
    BY <2>2
<1>2. Zero \in [Concepts -> Nat]
  BY DEF Zero
<1>3. <<>> \in Seq(Questions) /\ Len(<<>>) = 0
  OBVIOUS
<1> QED
  BY <1>1, <1>2, <1>3 DEF Empty, Learner, PracticeAssumption

LEMMA RecentTraining ==
  ASSUME PracticeAssumption, NEW q \in Questions, NEW old \in Seq(Questions), Len(old) <= RecentKept
  PROVE  LET new == FirstOf(<<q>> \o old) IN
         /\ new \in Seq(Questions) /\ Len(new) \in 1 .. RecentKept
         /\ Len(new) = IF Len(old) + 1 < RecentKept THEN Len(old) + 1 ELSE RecentKept
         /\ new[1] = q
         /\ \A k \in 1 .. Len(new) - 1 : new[k + 1] = old[k]
<1> DEFINE all == <<q>> \o old
           m == IF Len(all) < RecentKept THEN Len(all) ELSE RecentKept
           new == FirstOf(all)
<1>1. /\ <<q>> \in Seq(Questions) /\ Len(<<q>>) = 1 /\ <<q>>[1] = q
      /\ Len(old) \in Nat /\ RecentKept \in Nat \ {0}
  BY DEF PracticeAssumption
<1>2. /\ all \in Seq(Questions) /\ Len(all) = Len(old) + 1
      /\ \A i \in 1 .. Len(old) + 1 : all[i] = IF i <= 1 THEN <<q>>[i] ELSE old[i - 1]
  BY <1>1, ConcatProperties
<1>3. m \in Int /\ 1 <= m /\ m <= Len(all) /\ m <= RecentKept /\ new = SubSeq(all, 1, m)
  BY <1>1, <1>2 DEF FirstOf
<1> HIDE DEF m, new, all
<1>4. \A i \in 1 .. m : all[i] \in Questions
  BY <1>2, <1>3
<1>5. /\ new \in Seq(Questions) /\ Len(new) = m
      /\ \A i \in 1 .. m : new[i] = all[i]
  <2>1. /\ SubSeq(all, 1, m) \in Seq(Questions)
        /\ Len(SubSeq(all, 1, m)) = IF 1 <= m THEN m - 1 + 1 ELSE 0
        /\ \A i \in 1 .. m - 1 + 1 : SubSeq(all, 1, m)[i] = all[1 + i - 1]
    BY <1>3, <1>4, SubSeqProperties
  <2> QED
    BY <1>3, <2>1
<1>6. m = IF Len(old) + 1 < RecentKept THEN Len(old) + 1 ELSE RecentKept
  BY <1>2 DEF m
<1>7. new[1] = q
  BY <1>1, <1>2, <1>3, <1>5
<1>8. \A k \in 1 .. m - 1 : new[k + 1] = old[k]
  BY <1>1, <1>2, <1>3, <1>5
<1>9. m \in 1 .. RecentKept
  BY <1>1, <1>3
<1> QED
  BY <1>5, <1>6, <1>7, <1>8, <1>9 DEF all, new

\* What an answer makes of a document.
LEMMA UpdateCounts ==
  ASSUME PracticeAssumption, NEW d \in Learner, NEW q \in Questions, NEW text \in Texts,
         NEW correct \in BOOLEAN
  PROVE  LET u == UpdateProfile(d, q, text, correct) IN
         /\ u \in Learner
         /\ \A c \in Concepts :
            /\ u.attempts[c] = d.attempts[c] + IF c \in text.concepts THEN 1 ELSE 0
            /\ u.correct[c] = d.correct[c] + IF correct /\ c \in text.concepts THEN 1 ELSE 0
         /\ u.mistakes = d.mistakes + IF text.tagged /\ ~correct THEN 1 ELSE 0
         /\ u.recent = FirstOf(<<q>> \o d.recent)
<1> DEFINE u == UpdateProfile(d, q, text, correct)
           attempted == [c \in Concepts |-> d.attempts[c] + IF c \in text.concepts THEN 1 ELSE 0]
           right == [c \in Concepts |->
                       d.correct[c] + IF correct /\ c \in text.concepts THEN 1 ELSE 0]
           wrong == d.mistakes + IF text.tagged /\ ~correct THEN 1 ELSE 0
           new == FirstOf(<<q>> \o d.recent)
<1>1. u = [attempts |-> attempted, correct |-> right, mistakes |-> wrong, recent |-> new]
  BY DEF UpdateProfile
<1>2. /\ d.attempts \in [Concepts -> Nat] /\ d.correct \in [Concepts -> Nat] /\ d.mistakes \in Nat
      /\ d.recent \in Seq(Questions) /\ Len(d.recent) <= RecentKept
  BY DEF Learner
<1>3. /\ attempted \in [Concepts -> Nat] /\ right \in [Concepts -> Nat] /\ wrong \in Nat
  BY <1>2
<1>4. new \in Seq(Questions) /\ Len(new) <= RecentKept
  <2>1. Len(new) \in 1 .. RecentKept /\ new \in Seq(Questions)
    BY <1>2, RecentTraining
  <2> QED
    BY <2>1
<1>5. /\ \A c \in Concepts :
         /\ attempted[c] = d.attempts[c] + IF c \in text.concepts THEN 1 ELSE 0
         /\ right[c] = d.correct[c] + IF correct /\ c \in text.concepts THEN 1 ELSE 0
  OBVIOUS
<1>6. u \in Learner
  <2> HIDE DEF attempted, right, wrong, new, u
  <2> QED
    BY <1>1, <1>3, <1>4 DEF Learner
<1>7. u.attempts = attempted /\ u.correct = right /\ u.mistakes = wrong /\ u.recent = new
  <2> HIDE DEF attempted, right, wrong, new, u
  <2> QED
    BY <1>1
<1> QED
  BY <1>5, <1>6, <1>7
-----------------------------------------------------------------------------
(* The calls.                                                              *)

LEMMA KindsOfCalls ==
  ASSUME NEW s \in Calls
  PROVE  /\ s.at[1] \in {"none", "create", "generate", "attempt", "delete"}
         /\ s.at[1] = "create" <=> s \in Creates
         /\ s.at[1] = "generate" <=> s \in Generates
         /\ s.at[1] = "attempt" <=> s \in Attempts
         /\ s.at[1] = "delete" <=> s \in Deletes
<1>1. NoCall.at[1] = "none"
  BY DEF NoCall
<1>2. /\ \A r \in Creates : r.at[1] = "create"
      /\ \A r \in Generates : r.at[1] = "generate"
      /\ \A r \in Attempts : r.at[1] = "attempt"
      /\ \A r \in Deletes : r.at[1] = "delete"
  BY DEF Creates, Generates, Attempts, Deletes
<1> QED
  BY <1>1, <1>2 DEF Calls

LEMMA CallAt ==
  ASSUME PracticeShapes, NEW p \in Servers, NEW op, NEW step, At(p, op, step)
  PROVE  /\ serving[p] \in Calls /\ serving[p].at[1] = op /\ serving[p].at[2] = step
         /\ op = "attempt" => serving[p] \in Attempts
         /\ op = "generate" => serving[p] \in Generates
         /\ op = "create" => serving[p] \in Creates
         /\ op = "delete" => serving[p] \in Deletes
<1>1. serving[p] \in Calls
  BY DEF PracticeShapes
<1>2. serving[p].at[1] = op /\ serving[p].at[2] = step
  BY DEF At, Step
<1> QED
  BY <1>1, <1>2, KindsOfCalls

\* An attempt on a question that is on file is an attempt of a stored profile.
LEMMA AskedIsOfStored ==
  ASSUME PracticeInv, NEW q \in Asked
  PROVE  question[q] \in Texts /\ question[q].owner \in Stored
BY DEF PracticeInv, PracticeShapes, LedgerInv, NothingOutlivesItsProfile, Asked

LEMMA CallStays ==
  ASSUME PracticeShapes, NEW s \in Calls, CallFits(s), asked \subseteq asked',
         s \in Generates => s.question \notin Asked',
         s \in Attempts /\ s.question \in Asked' =>
            /\ s.question \in Asked /\ question'[s.question] = question[s.question]
            /\ s.at[2] # "read" =>
                /\ ReadBacked(s.profile, s.read) => ReadBacked(s.profile, s.read)'
                /\ s.profile \notin raced' =>
                    s.profile \notin raced /\ profile'[s.profile] = profile[s.profile]
  PROVE  CallFits(s)'
<1>1. s \in Generates => s.question \in asked' \ Asked' /\ s.text.owner = s.profile
  BY DEF CallFits
<1>2. ASSUME s \in Attempts PROVE AttemptFits(s)'
  BY <1>2 DEF CallFits, AttemptFits
<1> QED
  BY <1>1, <1>2 DEF CallFits

\* When p alone goes on, with a call of its own question or one on file, questions in
\* the making stay apart.
LEMMA QuestionsStayApart ==
  ASSUME PracticeShapes, CallsFit, NEW p \in Servers, NEW s \in Calls,
         serving' = [serving EXCEPT ![p] = s],
         s \in Generates => serving[p] \in Generates /\ s.question = serving[p].question,
         s \in Attempts => \/ s.question \in Asked
                           \/ serving[p] \in Attempts /\ s.question = serving[p].question
  PROVE  \A o, r \in Servers :
           o # r /\ serving'[o] \in Generates /\ serving'[r] \in Generates \cup Attempts
           => serving'[o].question # serving'[r].question
<1>1. \A o \in Servers : serving'[o] = IF o = p THEN s ELSE serving[o]
  BY DEF PracticeShapes
<1>2. \A o \in Servers : serving[o] \in Generates => serving[o].question \notin Asked
  BY DEF CallsFit, CallFits
<1>3. \A o, r \in Servers :
           o # r /\ serving[o] \in Generates /\ serving[r] \in Generates \cup Attempts
           => serving[o].question # serving[r].question
  BY DEF CallsFit, NewQuestion
<1>4. s \in Calls /\ ~(s \in Generates /\ s \in Attempts)
  BY KindsOfCalls
<1> QED
  BY <1>1, <1>2, <1>3, <1>4

LEMMA SameLedger ==
  ASSUME PracticeInv, UNCHANGED tables
  PROVE  AnswersKept' /\ LedgerInv' /\ Asked' = Asked /\ Stored' = Stored
<1>1. UNCHANGED <<profile, progress, question, graded, mistakes, asked, raced>>
  BY DEF tables
<1>2. Asked' = Asked /\ Stored' = Stored
  BY <1>1 DEF Asked, Stored
<1>3. AnswersKept'
  BY <1>1 DEF PracticeInv, AnswersKept, Below
<1>4. NothingOutlivesItsProfile'
  BY <1>1, <1>2 DEF PracticeInv, LedgerInv, NothingOutlivesItsProfile
<1>5. ASSUME NEW i \in Stored PROVE Backed(i)' /\ (i \notin raced => Sums(i)')
  <2>1. i \in Profiles /\ AnswersOf(i)' = AnswersOf(i)
    BY <1>1 DEF Stored, AnswersOf
  <2> QED
    BY <1>1, <2>1, ProfileUntouched DEF PracticeInv, LedgerInv
<1> QED
  BY <1>1, <1>2, <1>3, <1>4, <1>5 DEF LedgerInv

\* A step of p that leaves the tables alone.
LEMMA CallMovesOn ==
  ASSUME PracticeInv, NEW p \in Servers, NEW s \in Calls, Goto(p, s), UNCHANGED tables,
         CallFits(s),
         s \in Generates => serving[p] \in Generates /\ s.question = serving[p].question,
         s \in Attempts => \/ s.question \in Asked
                           \/ serving[p] \in Attempts /\ s.question = serving[p].question
  PROVE  PracticeInv'
<1>1. serving' = [serving EXCEPT ![p] = s]
  BY DEF Goto
<1>2. PracticeShapes /\ CallsFit
  BY DEF PracticeInv
<1>3. AnswersKept' /\ LedgerInv' /\ Asked' = Asked
  BY SameLedger
<1>4. UNCHANGED <<profile, progress, question, graded, mistakes, asked, raced>>
  BY DEF tables
<1>5. PracticeShapes'
  BY <1>1, <1>2, <1>3, <1>4 DEF PracticeShapes
<1>6. ASSUME NEW r \in Calls, CallFits(r) PROVE CallFits(r)'
  <2>1. \A i : AnswersOf(i)' = AnswersOf(i)
    BY <1>4 DEF AnswersOf
  <2>2. \A i \in Profiles : \A d : ReadBacked(i, d) => ReadBacked(i, d)'
    BY <1>4, <2>1, ProfileUntouched
  <2>3. r \in Attempts => r.profile \in Profiles
    BY DEF Attempts
  <2>4. r \in Generates => r.question \notin Asked'
    BY <1>3, <1>6 DEF CallFits
  <2> QED
    BY <1>2, <1>3, <1>4, <1>6, <2>2, <2>3, <2>4, CallStays
<1>7. ASSUME NEW o \in Servers PROVE CallFits(serving[o])'
  <2>1. PICK r \in Calls : r = serving'[o] /\ CallFits(r)
    BY <1>1, <1>2 DEF PracticeShapes, CallsFit
  <2>2. CallFits(r)'
    BY <1>6, <2>1
  <2> QED
    BY <2>1, <2>2 DEF CallFits, AttemptFits
<1>8. CallsFit'
  <2>1. \A o, r \in Servers :
           o # r /\ serving'[o] \in Generates /\ serving'[r] \in Generates \cup Attempts
           => serving'[o].question # serving'[r].question
    BY <1>1, <1>2, QuestionsStayApart
  <2> QED
    BY <1>7, <2>1 DEF CallsFit, NewQuestion
<1> QED
  BY <1>3, <1>5, <1>8 DEF PracticeInv
-----------------------------------------------------------------------------
(* The steps that change no table.                                         *)

LEMMA NoCallFits ==
  /\ NoCall \in Calls /\ NoCall \notin Generates \cup Attempts
  /\ CallFits(NoCall) /\ CallFits(NoCall)'
<1>1. NoCall \in Calls /\ NoCall.at[1] = "none"
  BY DEF Calls, NoCall
<1>2. NoCall \notin Generates \cup Attempts
  BY <1>1, KindsOfCalls
<1> QED
  BY <1>1, <1>2 DEF CallFits

LEMMA CallEnds ==
  ASSUME PracticeInv, NEW p \in Servers, Done(p), UNCHANGED tables
  PROVE  PracticeInv'
BY NoCallFits, CallMovesOn DEF Done

GoesOn(s, op, step, d) == [s EXCEPT !.at = Step(op, step), !.read = d]

LEMMA CallRewritten ==
  ASSUME NEW s \in Calls, NEW op \in {"create", "generate", "attempt"}, s.at[1] = op,
         NEW step, step \in LookUp \/ (op = "attempt" /\ step \in {"save", "recreate"}),
         NEW d \in Learner, NEW r, r = GoesOn(s, op, step, d)
  PROVE  /\ r \in Calls /\ r.at[1] = op /\ r.at[2] = step /\ r.read = d
         /\ op = "attempt" => /\ r \in Attempts /\ r \notin Generates /\ s \in Attempts
                              /\ r.question = s.question /\ r.text = s.text /\ r.profile = s.profile
         /\ op = "generate" => /\ r \in Generates /\ r \notin Attempts /\ s \in Generates
                               /\ r.question = s.question /\ r.text = s.text /\ r.profile = s.profile
         /\ op = "create" => r \in Creates /\ r \notin Attempts /\ r \notin Generates
<1>1. Step(op, step) = <<op, step>>
  BY DEF Step
<1>2. CASE op = "create"
  <2>1. s \in Creates
    BY <1>2, KindsOfCalls
  <2>3. s = [at |-> s.at, profile |-> s.profile, read |-> s.read] /\ s.profile \in Profiles
    BY <2>1 DEF Creates
  <2>4. r = [at |-> <<op, step>>, profile |-> s.profile, read |-> d]
    BY <1>1, <2>3 DEF GoesOn
  <2>5. <<op, step>> \in {"create"} \X LookUp
    BY <1>2
  <2>2. r \in Creates /\ r.at = <<op, step>> /\ r.read = d
    BY <2>3, <2>4, <2>5 DEF Creates
  <2> QED
    BY <1>2, <2>2, KindsOfCalls DEF Calls
<1>3. CASE op = "generate"
  <2>1. s \in Generates
    BY <1>3, KindsOfCalls
  <2>3. /\ s = [at |-> s.at, profile |-> s.profile, question |-> s.question, read |-> s.read,
                text |-> s.text]
        /\ s.profile \in Profiles /\ s.question \in Questions /\ s.text \in Texts
    BY <2>1 DEF Generates
  <2>4. r = [at |-> <<op, step>>, profile |-> s.profile, question |-> s.question, read |-> d,
             text |-> s.text]
    BY <1>1, <2>3 DEF GoesOn
  <2>5. <<op, step>> \in {"generate"} \X LookUp
    BY <1>3
  <2>2. /\ r \in Generates /\ r.at = <<op, step>> /\ r.read = d
        /\ r.question = s.question /\ r.text = s.text /\ r.profile = s.profile
    BY <2>3, <2>4, <2>5 DEF Generates
  <2> QED
    BY <1>3, <2>1, <2>2, KindsOfCalls DEF Calls
<1>4. CASE op = "attempt"
  <2>1. s \in Attempts
    BY <1>4, KindsOfCalls
  <2>3. /\ s = [at |-> s.at, profile |-> s.profile, question |-> s.question, read |-> s.read,
                text |-> s.text]
        /\ s.profile \in Profiles /\ s.question \in Questions /\ s.text \in Texts
    BY <2>1 DEF Attempts
  <2>4. r = [at |-> <<op, step>>, profile |-> s.profile, question |-> s.question, read |-> d,
             text |-> s.text]
    BY <1>1, <2>3 DEF GoesOn
  <2>5. <<op, step>> \in {"attempt"} \X (LookUp \cup {"save", "recreate"})
    BY <1>4
  <2>2. /\ r \in Attempts /\ r.at = <<op, step>> /\ r.read = d
        /\ r.question = s.question /\ r.text = s.text /\ r.profile = s.profile
    BY <2>3, <2>4, <2>5 DEF Attempts
  <2> QED
    BY <1>4, <2>1, <2>2, KindsOfCalls DEF Calls
<1> QED
  BY <1>2, <1>3, <1>4

\* A call goes on, having read d.
LEMMA GoingOnFits ==
  ASSUME PracticeInv, NEW p \in Servers, NEW op \in {"create", "generate", "attempt"},
         NEW was, At(p, op, was), NEW step,
         step \in LookUp \/ (op = "attempt" /\ step \in {"save", "recreate"}),
         NEW d \in Learner,
         op = "attempt" /\ serving[p].question \in Asked =>
            /\ step \in {"read", "continue", "save"}
            /\ step # "read" => /\ ReadBacked(serving[p].profile, d)
                                /\ serving[p].profile \notin raced => d = profile[serving[p].profile]
  PROVE  LET r == GoesOn(serving[p], op, step, d) IN
         /\ r \in Calls /\ CallFits(r)
         /\ r \in Generates => serving[p] \in Generates /\ r.question = serving[p].question
         /\ r \in Attempts => serving[p] \in Attempts /\ r.question = serving[p].question
<1>1. PracticeShapes /\ CallFits(serving[p])
  BY DEF PracticeInv, CallsFit
<1>2. PICK s : s = serving[p]
  OBVIOUS
<1>3. s \in Calls /\ s.at[1] = op
  BY <1>1, <1>2, CallAt
<1>4. PICK r : r = GoesOn(s, op, step, d)
  OBVIOUS
<1>5. /\ r \in Calls /\ r.at[1] = op /\ r.at[2] = step /\ r.read = d
      /\ op = "attempt" => /\ r \in Attempts /\ r \notin Generates /\ s \in Attempts
                           /\ r.question = s.question /\ r.text = s.text /\ r.profile = s.profile
      /\ op = "generate" => /\ r \in Generates /\ r \notin Attempts /\ s \in Generates
                            /\ r.question = s.question /\ r.text = s.text /\ r.profile = s.profile
      /\ op = "create" => r \in Creates /\ r \notin Attempts /\ r \notin Generates
  BY <1>3, <1>4, CallRewritten
<1>6. CallFits(r)
  <2>1. CASE op = "attempt"
    <3>1. AttemptFits(s)
      BY <1>1, <1>2, <1>5, <2>1 DEF CallFits
    <3>2. /\ r.question = s.question /\ r.text = s.text /\ r.profile = s.profile
          /\ r.read = d /\ r.at[2] = step
      BY <1>5, <2>1
    <3>3. r.question \in asked /\ r.text.owner = r.profile
      BY <3>1, <3>2 DEF AttemptFits
    <3>4. ASSUME r.question \in Asked
          PROVE  /\ r.text = question[r.question]
                 /\ r.at[2] \in {"read", "continue", "save"}
                 /\ r.at[2] # "read" => /\ ReadBacked(r.profile, r.read)
                                        /\ r.profile \notin raced => r.read = profile[r.profile]
      BY <1>2, <2>1, <3>1, <3>2, <3>4 DEF AttemptFits
    <3>5. AttemptFits(r)
      BY <3>2, <3>3, <3>4 DEF AttemptFits
    <3> QED
      BY <1>5, <2>1, <3>5 DEF CallFits
  <2>2. CASE op = "generate"
    BY <1>1, <1>2, <1>5, <2>2 DEF CallFits
  <2>3. CASE op = "create"
    BY <1>5, <2>3 DEF CallFits
  <2> QED
    BY <2>1, <2>2, <2>3
<1> QED
  BY <1>2, <1>4, <1>5, <1>6

\* p goes on with its call, having read d.
LEMMA CallGoesOn ==
  ASSUME PracticeInv, NEW p \in Servers, NEW op \in {"create", "generate", "attempt"},
         NEW was, At(p, op, was), NEW step,
         step \in LookUp \/ (op = "attempt" /\ step \in {"save", "recreate"}),
         NEW d \in Learner,
         Goto(p, GoesOn(serving[p], op, step, d)), UNCHANGED tables,
         op = "attempt" /\ serving[p].question \in Asked =>
            /\ step \in {"read", "continue", "save"}
            /\ step # "read" => /\ ReadBacked(serving[p].profile, d)
                                /\ serving[p].profile \notin raced => d = profile[serving[p].profile]
  PROVE  PracticeInv'
<1>1. PICK r : r = GoesOn(serving[p], op, step, d)
  OBVIOUS
<1>2. /\ r \in Calls /\ CallFits(r)
      /\ r \in Generates => serving[p] \in Generates /\ r.question = serving[p].question
      /\ r \in Attempts => serving[p] \in Attempts /\ r.question = serving[p].question
  BY <1>1, GoingOnFits
<1> QED
  BY <1>1, <1>2, CallMovesOn

\* The same, without having read.
LEMMA CallStepsOn ==
  ASSUME PracticeInv, NEW p \in Servers, NEW op \in {"create", "generate", "attempt"},
         NEW was, At(p, op, was), NEW step,
         step \in LookUp \/ (op = "attempt" /\ step \in {"save", "recreate"}),
         Goto(p, [serving[p] EXCEPT !.at = Step(op, step)]), UNCHANGED tables,
         op = "attempt" /\ serving[p].question \in Asked => was = "continue" /\ step = "save"
  PROVE  PracticeInv'
<1>1. PracticeShapes /\ CallFits(serving[p])
  BY DEF PracticeInv, CallsFit
<1>2. PICK s : s = serving[p]
  OBVIOUS
<1>3. /\ s \in Calls /\ s.at[1] = op /\ s.at[2] = was
      /\ s \in Creates \cup Generates \cup Attempts
      /\ op = "attempt" => s \in Attempts
  BY <1>1, <1>2, CallAt
<1>4. s.read \in Learner
  BY <1>3 DEF Creates, Generates, Attempts
<1>5. [s EXCEPT !.at = Step(op, step)] = GoesOn(s, op, step, s.read)
  BY <1>3 DEF GoesOn, Creates, Generates, Attempts
<1>6. op = "attempt" /\ s.question \in Asked =>
            /\ step \in {"read", "continue", "save"}
            /\ step # "read" => /\ ReadBacked(s.profile, s.read)
                                /\ s.profile \notin raced => s.read = profile[s.profile]
  BY <1>1, <1>2, <1>3 DEF CallFits, AttemptFits
<1> QED
  BY <1>2, <1>4, <1>5, <1>6, CallGoesOn

\* What an attempt under way knows of its question and its profile.
LEMMA AttemptsProfile ==
  ASSUME PracticeInv, NEW p \in Servers, NEW was, At(p, "attempt", was),
         serving[p].question \in Asked
  PROVE  /\ serving[p].profile \in Stored /\ was \in {"read", "continue", "save"}
         /\ serving[p].text = question[serving[p].question]
         /\ serving[p].text.owner = serving[p].profile
<1>1. serving[p] \in Attempts /\ serving[p].at[2] = was
  BY CallAt DEF PracticeInv
<1>2. AttemptFits(serving[p])
  BY <1>1 DEF PracticeInv, CallsFit, CallFits
<1> QED
  BY <1>1, <1>2, AskedIsOfStored DEF AttemptFits

LEMMA StoredIsLearner ==
  ASSUME PracticeInv, NEW i \in Stored
  PROVE  i \in Profiles /\ profile[i] \in Learner /\ ReadBacked(i, profile[i])
BY DEF PracticeInv, PracticeShapes, LedgerInv, Stored, Backed

LEMMA ProfileReads ==
  ASSUME PracticeAssumption, PracticeInv, NEW p \in Servers,
         NEW op \in {"create", "generate", "attempt"}, ProfileRead(p, op) \/ ProfileReread(p, op)
  PROVE  PracticeInv'
<1> DEFINE i == serving[p].profile
<1>1. UNCHANGED tables
  BY DEF ProfileRead, ProfileReread
<1>2. CASE ProfileRead(p, op)
  <2>1. At(p, op, "read")
    BY <1>2 DEF ProfileRead
  <2>2. CASE i \in Stored
    <3>1. Goto(p, GoesOn(serving[p], op, "continue", profile[i]))
      BY <1>2, <2>2 DEF ProfileRead, Continue, GoesOn
    <3>2. "continue" \in LookUp /\ "continue" \in {"read", "continue", "save"}
      BY DEF LookUp
    <3>3. profile[i] \in Learner /\ ReadBacked(i, profile[i])
      BY <2>2, StoredIsLearner
    <3> QED
      BY <1>1, <2>1, <3>1, <3>2, <3>3, CallGoesOn
  <2>3. CASE i \notin Stored
    <3>1. Goto(p, [serving[p] EXCEPT !.at = Step(op, "insert")])
      BY <1>2, <2>3 DEF ProfileRead
    <3>2. op = "attempt" => serving[p].question \notin Asked
      BY <2>1, <2>3, AttemptsProfile
    <3>3. "insert" \in LookUp
      BY DEF LookUp
    <3> QED
      BY <1>1, <2>1, <3>1, <3>2, <3>3, CallStepsOn
  <2> QED
    BY <2>2, <2>3
<1>3. CASE ProfileReread(p, op)
  <2> DEFINE d == IF i \in Stored THEN profile[i] ELSE Empty
  <2>1. At(p, op, "again") /\ Goto(p, GoesOn(serving[p], op, "continue", d))
    BY <1>3 DEF ProfileReread, Continue, GoesOn
  <2>2. d \in Learner
    BY StoredIsLearner, EmptyIsLearner
  <2>3. op = "attempt" => serving[p].question \notin Asked
    BY <2>1, AttemptsProfile
  <2>4. "continue" \in LookUp
    BY DEF LookUp
  <2> HIDE DEF d
  <2> QED
    BY <1>1, <2>1, <2>2, <2>3, <2>4, CallGoesOn
<1> QED
  BY <1>2, <1>3

LEMMA ProfileChecked ==
  ASSUME PracticeInv, NEW p \in Servers, CheckProfile(p)
  PROVE  PracticeInv'
<1> DEFINE i == serving[p].profile
<1>1. At(p, "attempt", "continue") /\ UNCHANGED tables
  BY DEF CheckProfile
<1>2. CASE i \in Stored
  <2>1. Goto(p, [serving[p] EXCEPT !.at = Step("attempt", "save")])
    BY <1>2 DEF CheckProfile
  <2> QED
    BY <1>1, <2>1, CallStepsOn
<1>3. CASE i \notin Stored
  <2>1. serving[p].question \notin Asked
    BY <1>1, <1>3, AttemptsProfile
  <2>2. Done(p) \/ Goto(p, [serving[p] EXCEPT !.at = Step("attempt", "recreate")])
    BY <1>3 DEF CheckProfile
  <2> QED
    BY <1>1, <2>1, <2>2, CallStepsOn, CallEnds
<1> QED
  BY <1>2, <1>3

\* A call begins: a profile is created or deleted, or a question on file is tried.
LEMMA CallBegins ==
  ASSUME PracticeAssumption, PracticeInv, NEW p \in Servers,
         \/ \E i \in Profiles : CreateProfile(p, i) \/ DeleteProfileRead(p, i)
         \/ \E q \in Questions : Attempt(p, q)
  PROVE  PracticeInv'
<1>1. CASE \E i \in Profiles : CreateProfile(p, i)
  <2>1. PICK i \in Profiles : CreateProfile(p, i)
    BY <1>1
  <2>2. PICK s : s = [at |-> Step("create", "read"), profile |-> i, read |-> Empty]
    OBVIOUS
  <2>3. s \in Calls /\ s \notin Generates /\ s \notin Attempts
    <3>1. s \in Creates
      BY <2>2, EmptyIsLearner DEF Creates, Step, LookUp
    <3>2. s.at[1] = "create" /\ s \in Calls
      BY <2>2, <3>1 DEF Step, Calls
    <3> QED
      BY <3>2, KindsOfCalls
  <2> QED
    BY <2>1, <2>2, <2>3, CallMovesOn DEF CreateProfile, CallFits
<1>2. CASE \E i \in Profiles : DeleteProfileRead(p, i)
  <2>1. PICK i \in Profiles : DeleteProfileRead(p, i)
    BY <1>2
  <2>2. PICK s : s = [at |-> Step("delete", "write"), profile |-> i]
    OBVIOUS
  <2>3. s \in Calls /\ s \notin Generates /\ s \notin Attempts
    <3>1. s \in Deletes
      BY <2>2 DEF Deletes, Step
    <3>2. s.at[1] = "delete" /\ s \in Calls
      BY <2>2, <3>1 DEF Step, Calls
    <3> QED
      BY <3>2, KindsOfCalls
  <2> QED
    BY <2>1, <2>2, <2>3, CallMovesOn DEF DeleteProfileRead, CallFits
<1>3. CASE \E q \in Questions : Attempt(p, q)
  <2>1. PICK q \in Questions : Attempt(p, q)
    BY <1>3
  <2>2. /\ q \in Asked /\ UNCHANGED tables
        /\ Goto(p, [at |-> Step("attempt", "read"), profile |-> question[q].owner, question |-> q,
                    read |-> Empty, text |-> question[q]])
    BY <2>1 DEF Attempt
  <2>3. PICK s : s = [at |-> Step("attempt", "read"), profile |-> question[q].owner, question |-> q,
                      read |-> Empty, text |-> question[q]]
    OBVIOUS
  <2>4. question[q] \in Texts /\ question[q].owner \in Profiles
    BY <2>2, AskedIsOfStored DEF Texts
  <2>5. s \in Attempts
    BY <2>3, <2>4, EmptyIsLearner DEF Attempts, Step, LookUp
  <2>6. s.at[1] = "attempt" /\ s.at[2] = "read" /\ s \in Calls
    BY <2>3, <2>5 DEF Step, Calls
  <2>7. s \notin Generates
    BY <2>6, KindsOfCalls
  <2>8. CallFits(s)
    <3>1. q \in asked
      BY <2>2 DEF PracticeInv, PracticeShapes
    <3>2. s.question = q /\ s.text = question[q] /\ s.text.owner = s.profile
      BY <2>3
    <3> QED
      BY <2>6, <2>7, <3>1, <3>2 DEF CallFits, AttemptFits
  <2>9. s.question \in Asked
    BY <2>2, <2>3
  <2> QED
    BY <2>2, <2>3, <2>6, <2>7, <2>8, <2>9, CallMovesOn
<1> QED
  BY <1>1, <1>2, <1>3
-----------------------------------------------------------------------------
(* The steps that change the tables.                                       *)

LEMMA StepOnIsGoesOn ==
  ASSUME PracticeShapes, NEW p \in Servers, NEW op \in {"create", "generate", "attempt"}, NEW was,
         At(p, op, was), NEW step
  PROVE  /\ serving[p].read \in Learner
         /\ [serving[p] EXCEPT !.at = Step(op, step)]
              = GoesOn(serving[p], op, step, serving[p].read)
<1>1. PICK s : s = serving[p]
  OBVIOUS
<1>2. s \in Creates \cup Generates \cup Attempts
  BY <1>1, CallAt
<1>3. s.read \in Learner
  BY <1>2 DEF Creates, Generates, Attempts
<1>4. [s EXCEPT !.at = Step(op, step)] = GoesOn(s, op, step, s.read)
  BY <1>2 DEF GoesOn, Creates, Generates, Attempts
<1> QED
  BY <1>1, <1>3, <1>4

\* A step of p that changes tables and leaves what the other calls rely on.
LEMMA LedgerMovesOn ==
  ASSUME PracticeInv, NEW p \in Servers, NEW s \in Calls, Goto(p, s),
         PracticeShapes', AnswersKept', LedgerInv', CallFits(s)',
         s \in Generates => serving[p] \in Generates /\ s.question = serving[p].question,
         s \in Attempts => \/ s.question \in Asked
                           \/ serving[p] \in Attempts /\ s.question = serving[p].question,
         \A r \in Calls : CallFits(r) /\ (\E o \in Servers \ {p} : r = serving[o]) => CallFits(r)'
  PROVE  PracticeInv'
<1>1. serving' = [serving EXCEPT ![p] = s]
  BY DEF Goto
<1>2. PracticeShapes /\ CallsFit
  BY DEF PracticeInv
<1>3. ASSUME NEW o \in Servers PROVE CallFits(serving[o])'
  <2>1. PICK r \in Calls : r = serving'[o] /\ CallFits(r)'
    <3>1. CASE o = p
      BY <1>1, <1>2, <3>1 DEF PracticeShapes
    <3>2. CASE o # p
      BY <1>1, <1>2, <3>2 DEF PracticeShapes, CallsFit
    <3> QED
      BY <3>1, <3>2
  <2> QED
    BY <2>1 DEF CallFits, AttemptFits
<1>4. CallsFit'
  <2>1. \A o, r \in Servers :
           o # r /\ serving'[o] \in Generates /\ serving'[r] \in Generates \cup Attempts
           => serving'[o].question # serving'[r].question
    BY <1>1, <1>2, QuestionsStayApart
  <2> QED
    BY <1>3, <2>1 DEF CallsFit, NewQuestion
<1> QED
  BY <1>4 DEF PracticeInv

\* A profile that is not there has no question on file, and no answer.
LEMMA NobodyAnsweredFor ==
  ASSUME PracticeInv, NEW i \in Profiles, i \notin Stored
  PROVE  /\ AnswersOf(i) = {}
         /\ progress[i] = NoProgress /\ mistakes[i] = 0
         /\ \A q \in Asked : question[q].owner # i
<1>1. NothingOutlivesItsProfile
  BY DEF PracticeInv, LedgerInv
<1> QED
  BY <1>1 DEF NothingOutlivesItsProfile, AnswersOf

LEMMA ProfileAppears ==
  ASSUME PracticeAssumption, PracticeInv, NEW p \in Servers, NEW s \in Calls, Goto(p, s),
         NEW i \in Profiles, i \notin Stored, profile' = [profile EXCEPT ![i] = Empty],
         UNCHANGED <<progress, question, graded, mistakes, asked, raced>>,
         CallFits(s),
         s \in Generates => serving[p] \in Generates /\ s.question = serving[p].question,
         s \in Attempts => serving[p] \in Attempts /\ s.question = serving[p].question
  PROVE  PracticeInv'
<1>1. PracticeShapes /\ LedgerInv /\ AnswersKept
  BY DEF PracticeInv
<1>2. /\ profile'[i] = Empty /\ \A j \in Profiles : j # i => profile'[j] = profile[j]
      /\ profile' \in [Profiles -> Learner \cup {NoProfile}]
  BY <1>1, EmptyIsLearner DEF PracticeShapes
<1>3. Asked' = Asked /\ Stored' = Stored \cup {i}
  BY <1>2, EmptyIsLearner DEF Asked, Stored
<1>4. \A j : AnswersOf(j)' = AnswersOf(j)
  BY DEF AnswersOf
<1>5. PracticeShapes'
  <2>1. serving' = [serving EXCEPT ![p] = s]
    BY DEF Goto
  <2> QED
    BY <1>1, <1>2, <1>3, <2>1 DEF PracticeShapes
<1>6. AnswersKept'
  BY <1>1 DEF AnswersKept, Below
<1>7. NothingOutlivesItsProfile'
  BY <1>1, <1>3 DEF LedgerInv, NothingOutlivesItsProfile
<1>8. Backed(i)' /\ Sums(i)'
  <2>1. AnswersOf(i)' = {} /\ progress'[i] = NoProgress /\ mistakes'[i] = 0
    BY <1>4, NobodyAnsweredFor
  <2>2. /\ \A c : Tried(i, c)' = 0 /\ Right(i, c)' = 0
        /\ Wrong(i)' = 0 /\ Cardinality(AnswersOf(i)') = 0
    <3>1. /\ \A c : {a \in AnswersOf(i)' : c \in question'[a.question].concepts} = {}
          /\ \A c : {a \in AnswersOf(i)' : a.correct /\ c \in question'[a.question].concepts} = {}
          /\ {a \in AnswersOf(i)' : ~a.correct /\ question'[a.question].tagged} = {}
      BY <2>1
    <3> QED
      BY <2>1, <3>1, FS_EmptySet DEF Tried, Right, Wrong
  <2>3. /\ \A c \in Concepts : Empty.attempts[c] = 0 /\ Empty.correct[c] = 0
        /\ Empty.mistakes = 0 /\ Len(Empty.recent) = 0
        /\ NoProgress = [attempts |-> Empty.attempts, correct |-> Empty.correct]
    BY DEF Empty, Zero, NoProgress
  <2>4. Backed(i)'
    BY <1>2, <2>1, <2>2, <2>3 DEF Backed, ReadBacked
  <2>5. Sums(i)'
    BY <1>2, <2>1, <2>2, <2>3 DEF Sums, SumsUp, Recents
  <2> QED
    BY <2>4, <2>5
<1>9. ASSUME NEW j \in Stored PROVE Backed(j)' /\ (j \notin raced => Sums(j)')
  <2>1. j \in Profiles /\ j # i
    BY DEF Stored
  <2>2. profile'[j] = profile[j] /\ progress'[j] = progress[j] /\ mistakes'[j] = mistakes[j]
    BY <1>2, <2>1
  <2>3. (Backed(j) => Backed(j)') /\ (Sums(j) => Sums(j)')
    BY <1>4, <2>1, <2>2, ProfileUntouched
  <2> QED
    BY <1>1, <2>3 DEF LedgerInv
<1>10. LedgerInv'
  BY <1>3, <1>7, <1>8, <1>9 DEF LedgerInv
<1>11. ASSUME NEW r \in Calls, CallFits(r) PROVE CallFits(r)'
  <2>1. r \in Generates => r.question \notin Asked'
    BY <1>3, <1>11 DEF CallFits
  <2>2. ASSUME r \in Attempts, r.question \in Asked'
        PROVE  /\ r.question \in Asked /\ question'[r.question] = question[r.question]
               /\ ReadBacked(r.profile, r.read) => ReadBacked(r.profile, r.read)'
               /\ profile'[r.profile] = profile[r.profile]
    <3>1. r.question \in Asked /\ r.profile \in Profiles
      BY <1>3, <2>2 DEF Attempts
    <3>2. r.profile = question[r.question].owner
      BY <1>11, <2>2, <3>1 DEF CallFits, AttemptFits
    <3>3. r.profile # i
      BY <3>1, <3>2, NobodyAnsweredFor
    <3>4. profile'[r.profile] = profile[r.profile]
      BY <1>2, <3>1, <3>3
    <3>5. ReadBacked(r.profile, r.read) => ReadBacked(r.profile, r.read)'
      BY <1>4, <3>1, <3>4, ProfileUntouched
    <3> QED
      BY <3>1, <3>4, <3>5
  <2> QED
    BY <1>1, <1>11, <2>1, <2>2, CallStays
<1> QED
  BY <1>5, <1>6, <1>10, <1>11, LedgerMovesOn

LEMMA ProfileInserts ==
  ASSUME PracticeAssumption, PracticeInv, NEW p \in Servers,
         NEW op \in {"create", "generate", "attempt"}, ProfileInsert(p, op)
  PROVE  PracticeInv'
<1> DEFINE i == serving[p].profile
           s == IF Postgres THEN GoesOn(serving[p], op, "again", serving[p].read)
                ELSE GoesOn(serving[p], op, "continue", Empty)
<1>1. At(p, op, "insert")
  BY DEF ProfileInsert
<1>2. i \in Profiles
  <2>1. PICK r : r = serving[p]
    OBVIOUS
  <2>2. r \in Creates \cup Generates \cup Attempts
    BY <1>1, <2>1, CallAt DEF PracticeInv
  <2>3. r.profile \in Profiles
    BY <2>2 DEF Creates, Generates, Attempts
  <2> QED
    BY <2>1, <2>3
<1>3. op = "attempt" => serving[p].question \notin Asked
  BY <1>1, AttemptsProfile
<1>4. /\ serving[p].read \in Learner
      /\ [serving[p] EXCEPT !.at = Step(op, "again")]
           = GoesOn(serving[p], op, "again", serving[p].read)
  BY <1>1, StepOnIsGoesOn DEF PracticeInv
<1>5. "again" \in LookUp /\ "continue" \in LookUp
  BY DEF LookUp
<1>6. CASE i \in Stored
  <2>1. UNCHANGED tables
    BY <1>6 DEF ProfileInsert, tables
  <2>2. Done(p) \/ Goto(p, [serving[p] EXCEPT !.at = Step(op, "again")])
    BY <1>6 DEF ProfileInsert
  <2> QED
    BY <1>1, <1>3, <1>5, <2>1, <2>2, CallEnds, CallStepsOn
<1>7. CASE i \notin Stored
  <2>1. /\ profile' = [profile EXCEPT ![i] = Empty]
        /\ UNCHANGED <<progress, question, graded, mistakes, asked, raced>>
    BY <1>7 DEF ProfileInsert
  <2>2. Goto(p, s)
    BY <1>4, <1>7 DEF ProfileInsert, Continue, GoesOn
  <2>3. /\ s \in Calls /\ CallFits(s)
        /\ s \in Generates => serving[p] \in Generates /\ s.question = serving[p].question
        /\ s \in Attempts => serving[p] \in Attempts /\ s.question = serving[p].question
    <3>1. CASE Postgres
      BY <1>1, <1>3, <1>4, <1>5, <3>1, GoingOnFits
    <3>2. CASE ~Postgres
      BY <1>1, <1>3, <1>5, <3>2, EmptyIsLearner, GoingOnFits
    <3> QED
      BY <3>1, <3>2
  <2> HIDE DEF i, s
  <2> QED
    BY <1>2, <1>7, <2>1, <2>2, <2>3, ProfileAppears
<1> QED
  BY <1>6, <1>7

LEMMA Recreates ==
  ASSUME PracticeAssumption, PracticeInv, NEW p \in Servers, Recreate(p)
  PROVE  PracticeInv'
<1> DEFINE i == serving[p].profile
           s == GoesOn(serving[p], "attempt", "save", serving[p].read)
<1>1. At(p, "attempt", "recreate")
  BY DEF Recreate
<1>2. serving[p] \in Attempts /\ i \in Profiles
  <2>1. PICK r : r = serving[p]
    OBVIOUS
  <2>2. r \in Attempts
    BY <1>1, <2>1, CallAt DEF PracticeInv
  <2>3. r.profile \in Profiles
    BY <2>2 DEF Attempts
  <2> QED
    BY <2>1, <2>2, <2>3
<1>3. serving[p].question \notin Asked
  BY <1>1, AttemptsProfile
<1>4. /\ serving[p].read \in Learner
      /\ [serving[p] EXCEPT !.at = Step("attempt", "save")] = s
  BY <1>1, StepOnIsGoesOn DEF PracticeInv
<1>5. CASE i \in Stored
  <2>1. UNCHANGED tables /\ Done(p)
    BY <1>5 DEF Recreate, tables
  <2> QED
    BY <2>1, CallEnds
<1>6. CASE i \notin Stored
  <2>1. /\ profile' = [profile EXCEPT ![i] = Empty]
        /\ UNCHANGED <<progress, question, graded, mistakes, asked, raced>>
        /\ Goto(p, [serving[p] EXCEPT !.at = Step("attempt", "save")])
    BY <1>6 DEF Recreate
  <2>2. /\ s \in Calls /\ CallFits(s)
        /\ s \in Generates => serving[p] \in Generates /\ s.question = serving[p].question
        /\ s \in Attempts => serving[p] \in Attempts /\ s.question = serving[p].question
    BY <1>1, <1>3, <1>4, GoingOnFits
  <2> HIDE DEF i, s
  <2> QED
    BY <1>2, <1>4, <1>6, <2>1, <2>2, ProfileAppears
<1> QED
  BY <1>5, <1>6

LEMMA QuestionSaved ==
  ASSUME PracticeAssumption, PracticeInv, NEW p \in Servers, SaveQuestion(p)
  PROVE  PracticeInv'
<1>1. At(p, "generate", "continue") /\ Done(p) /\ Goto(p, NoCall)
  BY DEF SaveQuestion, Done
<1>2. PracticeShapes /\ LedgerInv /\ AnswersKept /\ CallsFit
  BY DEF PracticeInv
<1>3. CASE serving[p].profile \notin Stored
  <2>1. UNCHANGED tables
    BY <1>3 DEF SaveQuestion, tables
  <2> QED
    BY <1>1, <2>1, CallEnds
<1>4. CASE serving[p].profile \in Stored
  <2>1. PICK s \in Generates : s = serving[p]
    BY <1>1, <1>2, CallAt
  <2>2. PICK q \in Questions : q = s.question
    BY DEF Generates
  <2>3. /\ question' = [question EXCEPT ![q] = s.text]
        /\ UNCHANGED <<profile, progress, graded, mistakes, asked, raced>>
    BY <1>4, <2>1, <2>2 DEF SaveQuestion
  <2>4. /\ s.text \in Texts /\ s.text.owner \in Stored
        /\ q \in asked /\ q \notin Asked
    BY <1>2, <1>4, <2>1, <2>2 DEF CallsFit, CallFits, Generates
  <2>5. s.text # NoQuestion
    <3>1. s.text.concepts # {} /\ NoQuestion.concepts = {}
      BY <2>4 DEF Texts, NoQuestion
    <3> QED
      BY <3>1
  <2>6. /\ question'[q] = s.text /\ \A k \in Questions : k # q => question'[k] = question[k]
        /\ question' \in [Questions -> Texts \cup {NoQuestion}]
    BY <1>2, <2>3, <2>4 DEF PracticeShapes
  <2>7. Asked' = Asked \cup {q} /\ Stored' = Stored
    BY <2>3, <2>5, <2>6 DEF Asked, Stored
  <2>8. PracticeShapes'
    <3>1. serving' = [serving EXCEPT ![p] = NoCall] /\ NoCall \in Calls
      BY <1>1, NoCallFits DEF Goto
    <3> QED
      BY <1>2, <2>3, <2>4, <2>6, <2>7, <3>1 DEF PracticeShapes
  <2>9. AnswersKept'
    BY <1>2, <2>3 DEF AnswersKept, Below
  <2>10. \A a \in graded : a.question \in Asked /\ a.question \in Questions
                           /\ question'[a.question] = question[a.question]
    BY <1>2, <2>4, <2>6 DEF LedgerInv, NothingOutlivesItsProfile, Asked
  <2>11. NothingOutlivesItsProfile'
    BY <1>2, <2>3, <2>4, <2>6, <2>7 DEF LedgerInv, NothingOutlivesItsProfile, Asked
  <2>12. \A j : /\ AnswersOf(j)' = AnswersOf(j)
                /\ \A a \in AnswersOf(j) : question'[a.question] = question[a.question]
    BY <2>3, <2>10 DEF AnswersOf
  <2>13. LedgerInv'
    <3>1. ASSUME NEW j \in Stored PROVE Backed(j)' /\ (j \notin raced => Sums(j)')
      <4>1. j \in Profiles
        BY DEF Stored
      <4> QED
        BY <1>2, <2>3, <2>12, <4>1, ProfileUntouched DEF LedgerInv
    <3> QED
      BY <2>3, <2>7, <2>11, <3>1 DEF LedgerInv
  <2>14. ASSUME NEW r \in Calls, CallFits(r), NEW o \in Servers \ {p}, r = serving[o]
         PROVE  CallFits(r)'
    <3>1. r \in Generates \cup Attempts => r.question # q
      BY <1>2, <2>1, <2>2, <2>14 DEF CallsFit, NewQuestion
    <3>2. r \in Generates => r.question \notin Asked'
      BY <2>7, <2>14, <3>1 DEF CallFits
    <3>3. ASSUME r \in Attempts, r.question \in Asked'
          PROVE  /\ r.question \in Asked /\ question'[r.question] = question[r.question]
                 /\ ReadBacked(r.profile, r.read) => ReadBacked(r.profile, r.read)'
                 /\ r.profile \notin raced => profile'[r.profile] = profile[r.profile]
      <4>1. r.question \in Asked /\ r.question \in Questions /\ r.profile \in Profiles
        BY <2>7, <3>1, <3>3 DEF Attempts
      <4> QED
        BY <2>3, <2>6, <2>12, <3>1, <3>3, <4>1, ProfileUntouched
    <3> QED
      BY <1>2, <2>3, <2>14, <3>2, <3>3, CallStays
  <2> QED
    BY <1>1, <2>8, <2>9, <2>13, <2>14, NoCallFits, LedgerMovesOn
<1> QED
  BY <1>3, <1>4

LEMMA QuestionGenerated ==
  ASSUME PracticeAssumption, PracticeInv, NEW p \in Servers, NEW i \in Profiles,
         NEW q \in Questions,
         NEW concepts \in (SUBSET Concepts) \ {{}}, NEW tagged \in BOOLEAN,
         Generate(p, i, q, concepts, tagged)
  PROVE  PracticeInv'
<1> DEFINE text == [owner |-> i, concepts |-> concepts, tagged |-> tagged]
<1>1. PICK s : s = [at |-> Step("generate", "read"), profile |-> i, question |-> q, read |-> Empty,
                    text |-> text]
  OBVIOUS
<1>2. /\ serving' = [serving EXCEPT ![p] = s] /\ q \notin asked /\ asked' = asked \cup {q}
      /\ UNCHANGED <<profile, progress, question, graded, mistakes, raced>>
  BY <1>1 DEF Generate, Goto
<1>3. PracticeShapes /\ LedgerInv /\ AnswersKept /\ CallsFit
  BY DEF PracticeInv
<1>4. Asked' = Asked /\ Stored' = Stored /\ q \notin Asked
  BY <1>2, <1>3 DEF Asked, Stored, PracticeShapes
<1>5. s \in Generates /\ s \in Calls /\ s \notin Attempts
  <2>1. text \in Texts
    BY DEF Texts
  <2>2. s \in Generates
    BY <1>1, <2>1, EmptyIsLearner DEF Generates, Step, LookUp
  <2>3. s.at[1] = "generate" /\ s \in Calls
    BY <1>1, <2>2 DEF Step, Calls
  <2> QED
    BY <2>2, <2>3, KindsOfCalls
<1>6. s.question = q /\ s.text.owner = s.profile
  BY <1>1
<1>7. PracticeShapes'
  BY <1>2, <1>3, <1>4, <1>5 DEF PracticeShapes
<1>8. AnswersKept' /\ NothingOutlivesItsProfile'
  BY <1>2, <1>3, <1>4 DEF AnswersKept, Below, LedgerInv, NothingOutlivesItsProfile
<1>9. \A j : AnswersOf(j)' = AnswersOf(j)
  BY <1>2 DEF AnswersOf
<1>10. ASSUME NEW j \in Stored PROVE Backed(j)' /\ (j \notin raced => Sums(j)')
  <2>1. j \in Profiles
    BY DEF Stored
  <2> QED
    BY <1>2, <1>3, <1>9, <2>1, ProfileUntouched DEF LedgerInv
<1>11. ASSUME NEW r \in Calls, CallFits(r) PROVE CallFits(r)'
  <2>1. r \in Generates => r.question \notin Asked'
    BY <1>4, <1>11 DEF CallFits
  <2>2. ASSUME r \in Attempts, r.question \in Asked'
        PROVE  /\ r.question \in Asked /\ question'[r.question] = question[r.question]
               /\ ReadBacked(r.profile, r.read) => ReadBacked(r.profile, r.read)'
               /\ profile'[r.profile] = profile[r.profile]
    <3>1. r.profile \in Profiles
      BY <2>2 DEF Attempts
    <3> QED
      BY <1>2, <1>4, <1>9, <2>2, <3>1, ProfileUntouched
  <2> QED
    BY <1>2, <1>3, <1>11, <2>1, <2>2, CallStays
<1>12. CallFits(s)'
  BY <1>2, <1>4, <1>5, <1>6 DEF CallFits
<1>13. ASSUME NEW o \in Servers PROVE CallFits(serving[o])'
  <2>1. PICK r \in Calls : r = serving'[o] /\ CallFits(r)'
    <3>1. CASE o = p
      BY <1>2, <1>3, <1>5, <1>12, <3>1 DEF PracticeShapes
    <3>2. CASE o # p
      BY <1>2, <1>3, <1>11, <3>2 DEF PracticeShapes, CallsFit
    <3> QED
      BY <3>1, <3>2
  <2> QED
    BY <2>1 DEF CallFits, AttemptFits
<1>14. ASSUME NEW o \in Servers, NEW r \in Servers, o # r, serving'[o] \in Generates,
              serving'[r] \in Generates \cup Attempts
       PROVE  serving'[o].question # serving'[r].question
  <2>1. \A k \in Servers : serving'[k] = IF k = p THEN s ELSE serving[k]
    BY <1>2, <1>3 DEF PracticeShapes
  <2>2. \A k \in Servers : serving[k] \in Generates \cup Attempts => serving[k].question \in asked
    BY <1>3 DEF CallsFit, CallFits, AttemptFits
  <2>3. \A k, l \in Servers :
           k # l /\ serving[k] \in Generates /\ serving[l] \in Generates \cup Attempts
           => serving[k].question # serving[l].question
    BY <1>3 DEF CallsFit, NewQuestion
  <2> QED
    BY <1>2, <1>6, <1>14, <2>1, <2>2, <2>3
<1>15. LedgerInv'
  BY <1>2, <1>4, <1>8, <1>10 DEF LedgerInv
<1>16. CallsFit'
  BY <1>13, <1>14 DEF CallsFit, NewQuestion
<1> QED
  BY <1>7, <1>8, <1>15, <1>16 DEF PracticeInv

LEMMA ProfileDeleted ==
  ASSUME PracticeAssumption, PracticeInv, NEW p \in Servers, DeleteProfile(p)
  PROVE  PracticeInv'
<1>1. At(p, "delete", "write") /\ Goto(p, NoCall)
  BY DEF DeleteProfile, Done
<1>2. PracticeShapes /\ LedgerInv /\ AnswersKept /\ NothingOutlivesItsProfile
  BY DEF PracticeInv, LedgerInv
<1>3. PICK s \in Deletes : s = serving[p]
  BY <1>1, <1>2, CallAt
<1>4. PICK i \in Profiles : i = s.profile
  BY DEF Deletes
<1> DEFINE gone == {q \in Asked : question[q].owner = i}
<1>5. /\ profile' = [profile EXCEPT ![i] = NoProfile]
      /\ progress' = [progress EXCEPT ![i] = NoProgress]
      /\ question' = [q \in Questions |-> IF q \in gone THEN NoQuestion ELSE question[q]]
      /\ graded' = {a \in graded : a.question \notin gone}
      /\ mistakes' = [mistakes EXCEPT ![i] = 0] /\ raced' = raced \ {i} /\ asked' = asked
  BY <1>3, <1>4 DEF DeleteProfile
<1>6. /\ \A j \in Profiles : j # i => /\ profile'[j] = profile[j] /\ progress'[j] = progress[j]
                                      /\ mistakes'[j] = mistakes[j]
      /\ profile'[i] = NoProfile /\ progress'[i] = NoProgress /\ mistakes'[i] = 0
  BY <1>2, <1>5 DEF PracticeShapes
<1>7. Stored' = Stored \ {i}
  BY <1>6 DEF Stored
<1>8. /\ Asked' = Asked \ gone
      /\ \A q \in Asked' : question'[q] = question[q] /\ q \in Asked /\ question[q].owner # i
  BY <1>5 DEF Asked
<1>9. NoProgress \in Progresses
  BY DEF NoProgress, Progresses, Zero
<1>10. PracticeShapes'
  <2>1. serving' = [serving EXCEPT ![p] = NoCall] /\ NoCall \in Calls
    BY <1>1, NoCallFits DEF Goto
  <2>2. question' \in [Questions -> Texts \cup {NoQuestion}]
    BY <1>2, <1>5 DEF PracticeShapes
  <2>3. graded' \subseteq graded /\ IsFiniteSet(graded')
    BY <1>2, <1>5, FS_Subset DEF PracticeShapes
  <2>4. Asked' \subseteq asked'
    BY <1>2, <1>5, <1>8 DEF PracticeShapes
  <2> HIDE DEF gone
  <2> QED
    BY <1>2, <1>5, <1>9, <2>1, <2>2, <2>3, <2>4 DEF PracticeShapes
<1>11. AnswersKept'
  <2>1. graded' \subseteq graded
    BY <1>5
  <2> QED
    BY <1>2, <2>1 DEF AnswersKept, Below
<1>12. NothingOutlivesItsProfile'
  <2>1. \A a \in graded' : a.question \in Asked'
    BY <1>2, <1>5, <1>8 DEF NothingOutlivesItsProfile
  <2>2. \A q \in Asked' : question'[q].owner \in Stored'
    BY <1>2, <1>7, <1>8 DEF NothingOutlivesItsProfile
  <2>3. \A j \in Profiles \ Stored' : progress'[j] = NoProgress /\ mistakes'[j] = 0
    BY <1>2, <1>6, <1>7 DEF NothingOutlivesItsProfile
  <2> QED
    BY <2>1, <2>2, <2>3 DEF NothingOutlivesItsProfile
<1>13. ASSUME NEW j, j # i
       PROVE  /\ AnswersOf(j)' = AnswersOf(j)
              /\ \A a \in AnswersOf(j) : question'[a.question] = question[a.question]
  <2>1. \A a \in graded : a.question \in Asked /\ a.question \in Questions
    BY <1>2 DEF NothingOutlivesItsProfile, Asked
  <2>2. \A a \in graded : a.question \notin gone => question'[a.question] = question[a.question]
    BY <1>5, <2>1
  <2>3. \A a \in graded : question[a.question].owner = j => a.question \notin gone
    BY <1>13
  <2> HIDE DEF gone
  <2> QED
    BY <1>5, <2>2, <2>3 DEF AnswersOf
<1>14. LedgerInv'
  <2>1. ASSUME NEW j \in Stored' PROVE Backed(j)' /\ (j \notin raced' => Sums(j)')
    <3>1. j \in Profiles /\ j \in Stored /\ j # i
      BY <1>7 DEF Stored
    <3>2. (Backed(j) => Backed(j)') /\ (Sums(j) => Sums(j)')
      BY <1>6, <1>13, <3>1, ProfileUntouched
    <3> QED
      BY <1>2, <1>5, <3>1, <3>2 DEF LedgerInv
  <2> QED
    BY <1>12, <2>1 DEF LedgerInv
<1>15. ASSUME NEW r \in Calls, CallFits(r) PROVE CallFits(r)'
  <2>1. r \in Generates => r.question \notin Asked'
    BY <1>8, <1>15 DEF CallFits
  <2>2. ASSUME r \in Attempts, r.question \in Asked'
        PROVE  /\ r.question \in Asked /\ question'[r.question] = question[r.question]
               /\ ReadBacked(r.profile, r.read) => ReadBacked(r.profile, r.read)'
               /\ r.profile \notin raced' =>
                    r.profile \notin raced /\ profile'[r.profile] = profile[r.profile]
    <3>1. /\ r.question \in Asked /\ question'[r.question] = question[r.question]
          /\ question[r.question].owner # i /\ r.profile \in Profiles
      BY <1>8, <2>2 DEF Attempts
    <3>2. r.profile # i
      BY <1>15, <2>2, <3>1 DEF CallFits, AttemptFits
    <3>3. ReadBacked(r.profile, r.read) => ReadBacked(r.profile, r.read)'
      BY <1>6, <1>13, <3>1, <3>2, ProfileUntouched
    <3> QED
      BY <1>5, <1>6, <3>1, <3>2, <3>3
  <2> QED
    BY <1>2, <1>5, <1>15, <2>1, <2>2, CallStays
<1> QED
  BY <1>1, <1>10, <1>11, <1>14, <1>15, NoCallFits, LedgerMovesOn
-----------------------------------------------------------------------------
(* An answer is saved.                                                     *)

\* The row of an answer is new, and the newest.
LEMMA RowAdded ==
  ASSUME PracticeInv, NEW q \in Asked, NEW correct \in BOOLEAN, NEW n,
         n = [no |-> Newest + 1, question |-> q, correct |-> correct],
         graded' = graded \cup {n}
  PROVE  /\ n \in Answers /\ n \notin graded /\ AnswersKept'
         /\ graded' \subseteq Answers /\ IsFiniteSet(graded')
         /\ \A a \in graded : a.no < n.no
<1>1. PracticeShapes /\ AnswersKept
  BY DEF PracticeInv
<1>2. Newest \in Nat /\ Below(Newest)
  BY <1>1, NewestIsNewest
<1>3. n.no = Newest + 1 /\ n \in Answers
  BY <1>2 DEF Answers, Asked
<1>4. \A a \in graded : a.no \in Nat /\ a.no <= Newest
  BY <1>1, <1>2 DEF PracticeShapes, Answers, Below
<1>5. \A a \in graded : a.no < n.no
  BY <1>2, <1>3, <1>4
<1>6. n \notin graded
  BY <1>2, <1>3, <1>4
<1>7. graded' \subseteq Answers /\ IsFiniteSet(graded')
  BY <1>1, <1>3, FS_AddElement DEF PracticeShapes
<1>8. Newest + 1 \in Nat /\ \A a \in graded' : a.no <= Newest + 1
  BY <1>2, <1>3, <1>4
<1>9. \A a \in graded', b \in graded' : a.no = b.no => a = b
  BY <1>1, <1>2, <1>3, <1>4 DEF AnswersKept
<1>10. AnswersKept'
  <2>1. PICK m \in Nat : m = Newest + 1
    BY <1>8
  <2>2. Below(m)'
    BY <1>8, <2>1 DEF Below
  <2> QED
    BY <1>9, <2>1, <2>2 DEF AnswersKept
<1> QED
  BY <1>3, <1>5, <1>6, <1>7, <1>10

\* What the counts of the profiles become.
LEMMA CountsGrow ==
  ASSUME PracticeInv, NEW q \in Asked, NEW correct \in BOOLEAN, NEW n,
         n = [no |-> Newest + 1, question |-> q, correct |-> correct],
         graded' = graded \cup {n}, question' = question, NEW i, i = question[q].owner
  PROVE  /\ \A j : j # i => AnswersOf(j)' = AnswersOf(j)
         /\ AnswersOf(i)' = AnswersOf(i) \cup {n}
         /\ \A c : /\ Tried(i, c)' = Tried(i, c) + IF c \in question[q].concepts THEN 1 ELSE 0
                   /\ Right(i, c)' = Right(i, c)
                        + IF correct /\ c \in question[q].concepts THEN 1 ELSE 0
         /\ Wrong(i)' = Wrong(i) + IF question[q].tagged /\ ~correct THEN 1 ELSE 0
         /\ Cardinality(AnswersOf(i)') = Cardinality(AnswersOf(i)) + 1
         /\ \A a \in AnswersOf(i) : Later(i, a)' = Later(i, a) + 1
         /\ Later(i, n)' = 0
<1>0. PICK A : A = AnswersOf(i)
  OBVIOUS
<1>1. /\ n \notin graded /\ \A a \in graded : a.no < n.no
      /\ n.no \in Nat /\ \A a \in graded : a.no \in Nat
  BY RowAdded DEF PracticeInv, PracticeShapes, Answers
<1>2. n.question = q /\ n.correct = correct
  OBVIOUS
<1>3. /\ \A j : j # i => AnswersOf(j)' = AnswersOf(j)
      /\ AnswersOf(i)' = A \cup {n}
  BY <1>0, <1>2 DEF AnswersOf
<1>4. IsFiniteSet(A) /\ n \notin A /\ A \subseteq graded
  BY <1>0, <1>1, CountsAreNumbers DEF PracticeInv, AnswersOf
<1>5. ASSUME NEW c
      PROVE  Tried(i, c)' = Tried(i, c) + IF c \in question[q].concepts THEN 1 ELSE 0
  <2> DEFINE S == {a \in A : c \in question[a.question].concepts}
             T == {a \in A \cup {n} : c \in question[a.question].concepts}
  <2>1. T = IF c \in question[q].concepts THEN S \cup {n} ELSE S
    BY <1>2
  <2>2. S \subseteq A
    OBVIOUS
  <2>3. Tried(i, c) = Cardinality(S) /\ Tried(i, c)' = Cardinality(T)
    BY <1>0, <1>3 DEF Tried
  <2> HIDE DEF S, T
  <2>4. Cardinality(S) \in Nat /\ Cardinality(S \cup {n}) = Cardinality(S) + 1
    BY <1>4, <2>2, CountMore
  <2> QED
    BY <2>1, <2>3, <2>4
<1>6. ASSUME NEW c
      PROVE  Right(i, c)' = Right(i, c) + IF correct /\ c \in question[q].concepts THEN 1 ELSE 0
  <2> DEFINE S == {a \in A : a.correct /\ c \in question[a.question].concepts}
             T == {a \in A \cup {n} : a.correct /\ c \in question[a.question].concepts}
  <2>1. T = IF correct /\ c \in question[q].concepts THEN S \cup {n} ELSE S
    BY <1>2
  <2>2. S \subseteq A
    OBVIOUS
  <2>3. Right(i, c) = Cardinality(S) /\ Right(i, c)' = Cardinality(T)
    BY <1>0, <1>3 DEF Right
  <2> HIDE DEF S, T
  <2>4. Cardinality(S) \in Nat /\ Cardinality(S \cup {n}) = Cardinality(S) + 1
    BY <1>4, <2>2, CountMore
  <2> QED
    BY <2>1, <2>3, <2>4
<1>7. Wrong(i)' = Wrong(i) + IF question[q].tagged /\ ~correct THEN 1 ELSE 0
  <2> DEFINE S == {a \in A : ~a.correct /\ question[a.question].tagged}
             T == {a \in A \cup {n} : ~a.correct /\ question[a.question].tagged}
             b == question[q].tagged /\ ~correct
  <2>1. T = IF b THEN S \cup {n} ELSE S
    BY <1>2
  <2>2. S \subseteq A
    OBVIOUS
  <2>3. Wrong(i) = Cardinality(S) /\ Wrong(i)' = Cardinality(T)
    BY <1>0, <1>3 DEF Wrong
  <2> HIDE DEF S, T, b
  <2>4. Cardinality(S) \in Nat /\ Cardinality(S \cup {n}) = Cardinality(S) + 1
    BY <1>4, <2>2, CountMore
  <2> QED
    BY <2>1, <2>3, <2>4 DEF b
<1>8. Cardinality(AnswersOf(i)') = Cardinality(AnswersOf(i)) + 1
  <2>1. Cardinality(A \cup {n}) = Cardinality(A) + 1
    BY <1>4, CountMore
  <2> QED
    BY <1>0, <1>3, <2>1
<1>9. ASSUME NEW a \in A PROVE Later(i, a)' = Later(i, a) + 1
  <2> DEFINE S == {b \in A : b.no > a.no}
             T == {b \in A \cup {n} : b.no > a.no}
  <2>1. T = S \cup {n}
    <3>1. n.no > a.no
      BY <1>1, <1>4
    <3> QED
      BY <3>1
  <2>2. S \subseteq A
    OBVIOUS
  <2>3. Later(i, a) = Cardinality(S) /\ Later(i, a)' = Cardinality(T)
    BY <1>0, <1>3 DEF Later
  <2> HIDE DEF S, T
  <2>4. Cardinality(S \cup {n}) = Cardinality(S) + 1
    BY <1>4, <2>2, CountMore
  <2> QED
    BY <2>1, <2>3, <2>4
<1>10. Later(i, n)' = 0
  <2>1. {b \in A \cup {n} : b.no > n.no} = {}
    <3>1. \A b \in A : ~(b.no > n.no)
      BY <1>1, <1>4
    <3>2. ~(n.no > n.no)
      BY <1>1
    <3> QED
      BY <3>1, <3>2
  <2>2. Later(i, n)' = Cardinality({b \in A \cup {n} : b.no > n.no})
    BY <1>3 DEF Later
  <2> QED
    BY <2>1, <2>2, FS_EmptySet
<1> QED
  BY <1>0, <1>3, <1>5, <1>6, <1>7, <1>8, <1>9, <1>10

\* recent_training names the latest answers, when the document extended did.
LEMMA RecentsExtended ==
  ASSUME PracticeAssumption, PracticeInv, NEW q \in Asked, NEW correct \in BOOLEAN, NEW n,
         n = [no |-> Newest + 1, question |-> q, correct |-> correct],
         graded' = graded \cup {n}, question' = question, NEW i, i = question[q].owner,
         NEW d \in Learner, Recents(i, d), NEW u, u.recent = FirstOf(<<q>> \o d.recent)
  PROVE  Recents(i, u)'
<1> DEFINE old == d.recent
           new == u.recent
<1>1. old \in Seq(Questions) /\ Len(old) <= RecentKept /\ Len(old) \in Nat /\ q \in Questions
  BY DEF Learner, Asked
<1>2. /\ Len(new) \in 1 .. RecentKept /\ RecentKept \in Nat \ {0}
      /\ Len(new) = IF Len(old) + 1 < RecentKept THEN Len(old) + 1 ELSE RecentKept
      /\ new[1] = q
      /\ \A k \in 1 .. Len(new) - 1 : new[k + 1] = old[k]
  BY <1>1, RecentTraining DEF PracticeAssumption
<1>3. /\ AnswersOf(i)' = AnswersOf(i) \cup {n}
      /\ Cardinality(AnswersOf(i)') = Cardinality(AnswersOf(i)) + 1
      /\ \A a \in AnswersOf(i) : Later(i, a)' = Later(i, a) + 1
      /\ Later(i, n)' = 0
  BY CountsGrow
<1>4. Cardinality(AnswersOf(i)) \in Nat /\ \A a : Later(i, a) \in Nat
  BY CountsAreNumbers DEF PracticeInv
<1>5. /\ \A a \in AnswersOf(i) : Later(i, a) < RecentKept =>
            Later(i, a) < Len(old) /\ old[Later(i, a) + 1] = a.question
      /\ Len(old) <= Cardinality(AnswersOf(i))
  BY DEF Recents
<1> HIDE DEF old, new
<1>6. ASSUME NEW a \in AnswersOf(i), Later(i, a) + 1 < RecentKept
      PROVE  Later(i, a) + 1 < Len(new) /\ new[(Later(i, a) + 1) + 1] = a.question
  <2>1. PICK k \in Nat : k = Later(i, a)
    BY <1>4
  <2>2. k < Len(old) /\ old[k + 1] = a.question
    BY <1>2, <1>5, <1>6, <2>1
  <2>3. k + 1 < Len(new)
    BY <1>1, <1>2, <1>6, <2>1, <2>2
  <2>4. k + 1 \in 1 .. Len(new) - 1
    BY <1>2, <2>3
  <2> QED
    BY <1>2, <2>1, <2>2, <2>3, <2>4
<1>7. 0 < Len(new) /\ new[0 + 1] = n.question
  BY <1>2
<1>8. Len(new) <= Cardinality(AnswersOf(i)) + 1
  BY <1>1, <1>2, <1>4, <1>5
<1>9. ASSUME NEW a \in AnswersOf(i)', Later(i, a)' < RecentKept
      PROVE  Later(i, a)' < Len(new) /\ new[Later(i, a)' + 1] = a.question
  BY <1>3, <1>6, <1>7, <1>9
<1> QED
  BY <1>3, <1>8, <1>9 DEF Recents, new

\* What an answer does to the profile's rows.
LEMMA RowsOfAnswer ==
  ASSUME PracticeAssumption, PracticeInv, NEW p \in Servers, NEW correct \in BOOLEAN,
         NEW q \in Asked, NEW i \in Stored, NEW text \in Texts, NEW d \in Learner, NEW u,
         q = serving[p].question, i = serving[p].profile, text = serving[p].text,
         d = serving[p].read, u = UpdateProfile(d, q, text, correct),
         SaveOutcome(p, correct)
  PROVE  /\ profile' \in [Profiles -> Learner \cup {NoProfile}] /\ profile'[i] = u
         /\ progress' \in [Profiles -> Progresses] /\ mistakes' \in [Profiles -> Nat]
         /\ \A c \in Concepts :
              /\ progress'[i].attempts[c] = IF c \in text.concepts THEN u.attempts[c]
                                            ELSE progress[i].attempts[c]
              /\ progress'[i].correct[c] = IF c \in text.concepts THEN u.correct[c]
                                           ELSE progress[i].correct[c]
         /\ mistakes'[i] = mistakes[i] + IF text.tagged /\ ~correct THEN 1 ELSE 0
         /\ \A j \in Profiles : j # i =>
              profile'[j] = profile[j] /\ progress'[j] = progress[j] /\ mistakes'[j] = mistakes[j]
         /\ Stored' = Stored
<1>1. /\ profile' = [profile EXCEPT ![i] = u]
      /\ progress' = [progress EXCEPT ![i].attempts =
                        [c \in Concepts |-> IF c \in text.concepts THEN u.attempts[c] ELSE @[c]],
                      ![i].correct =
                        [c \in Concepts |-> IF c \in text.concepts THEN u.correct[c] ELSE @[c]]]
      /\ mistakes' = [mistakes EXCEPT ![i] = @ + IF text.tagged /\ ~correct THEN 1 ELSE 0]
  BY DEF SaveOutcome
<1>2. u \in Learner /\ u # NoProfile
  <2>1. q \in Questions
    BY DEF Asked
  <2>2. UpdateProfile(d, q, text, correct) \in Learner
    BY <2>1, UpdateCounts
  <2>3. PICK c \in text.concepts : c \in Concepts
    BY DEF Texts
  <2>4. u.attempts[c] = d.attempts[c] + 1 /\ d.attempts[c] \in Nat
    <3>1. u = UpdateProfile(d, q, text, correct)
      OBVIOUS
    <3>2. /\ u \in Learner
          /\ \A k \in Concepts :
              /\ u.attempts[k] = d.attempts[k] + IF k \in text.concepts THEN 1 ELSE 0
              /\ u.correct[k] = d.correct[k] + IF correct /\ k \in text.concepts THEN 1 ELSE 0
          /\ u.mistakes = d.mistakes + IF text.tagged /\ ~correct THEN 1 ELSE 0
          /\ u.recent = FirstOf(<<q>> \o d.recent)
      BY <2>1, <3>1, UpdateCounts
    <3> QED
      BY <2>3, <3>2 DEF Learner
  <2>5. NoProfile.attempts[c] = 0
    BY <2>3 DEF NoProfile, Zero
  <2>6. u # NoProfile
    BY <2>4, <2>5
  <2> QED
    BY <2>2, <2>6
<1>3. /\ PracticeShapes /\ i \in Profiles
  BY DEF PracticeInv, Stored
<1>4. /\ profile' \in [Profiles -> Learner \cup {NoProfile}] /\ profile'[i] = u
      /\ \A j \in Profiles : j # i => profile'[j] = profile[j]
  BY <1>1, <1>2, <1>3 DEF PracticeShapes
<1>5. Stored' = Stored
  BY <1>2, <1>3, <1>4 DEF Stored
<1>6. /\ mistakes'[i] = mistakes[i] + IF text.tagged /\ ~correct THEN 1 ELSE 0
      /\ mistakes' \in [Profiles -> Nat]
      /\ \A j \in Profiles : j # i => mistakes'[j] = mistakes[j]
  BY <1>1, <1>3 DEF PracticeShapes
<1>7. PICK g \in Progresses : g = progress[i]
  BY <1>3 DEF PracticeShapes
<1> DEFINE x == [c \in Concepts |-> IF c \in text.concepts THEN u.attempts[c] ELSE g.attempts[c]]
           y == [c \in Concepts |-> IF c \in text.concepts THEN u.correct[c] ELSE g.correct[c]]
           h == [attempts |-> x, correct |-> y]
<1>8. /\ x \in [Concepts -> Nat] /\ y \in [Concepts -> Nat]
      /\ \A c \in Concepts :
           /\ x[c] = IF c \in text.concepts THEN u.attempts[c] ELSE progress[i].attempts[c]
           /\ y[c] = IF c \in text.concepts THEN u.correct[c] ELSE progress[i].correct[c]
  BY <1>2, <1>7 DEF Learner, Progresses
<1>9. progress' = [progress EXCEPT ![i] = h]
  <2>1. progress \in [Profiles -> Progresses]
    BY <1>3 DEF PracticeShapes
  <2>2. g = [attempts |-> g.attempts, correct |-> g.correct]
    BY DEF Progresses
  <2>3. PICK f : f = [progress EXCEPT ![i].attempts = x]
    OBVIOUS
  <2>4. progress' = [f EXCEPT ![i].correct = [c \in Concepts |->
                       IF c \in text.concepts THEN u.correct[c] ELSE @[c]]]
    BY <1>1, <1>7, <2>3
  <2> HIDE DEF x
  <2>5. f = [progress EXCEPT ![i] = [attempts |-> x, correct |-> g.correct]]
    <3>1. [g EXCEPT !.attempts = x] = [attempts |-> x, correct |-> g.correct]
      BY <2>2
    <3> QED
      BY <1>7, <2>3, <3>1
  <2>6. f[i] = [attempts |-> x, correct |-> g.correct] /\ f[i].correct = g.correct
    BY <1>3, <2>1, <2>5
  <2>7. progress' = [f EXCEPT ![i].correct = y]
    BY <2>4, <2>6
  <2> HIDE DEF y
  <2>8. [f[i] EXCEPT !.correct = y] = h
    BY <2>6
  <2>9. progress' = [f EXCEPT ![i] = h]
    BY <2>7, <2>8
  <2> QED
    BY <1>3, <2>1, <2>5, <2>9
<1> HIDE DEF x, y
<1>10. /\ progress'[i] = h /\ progress' \in [Profiles -> Progresses]
       /\ \A j \in Profiles : j # i => progress'[j] = progress[j]
  <2>1. h \in Progresses
    BY <1>8 DEF Progresses
  <2> QED
    BY <1>3, <1>9, <2>1 DEF PracticeShapes
<1>11. progress'[i].attempts = x /\ progress'[i].correct = y
  BY <1>10
<1> QED
  BY <1>4, <1>5, <1>6, <1>8, <1>10, <1>11

LEMMA OutcomeSaved ==
  ASSUME PracticeAssumption, PracticeInv, NEW p \in Servers, NEW correct \in BOOLEAN,
         SaveOutcome(p, correct)
  PROVE  PracticeInv'
<1>1. /\ At(p, "attempt", "save") /\ serving[p].question \in Asked /\ Goto(p, NoCall)
      /\ question' = question /\ asked' = asked
  BY DEF SaveOutcome, Done
<1>2. /\ PracticeShapes /\ LedgerInv /\ AnswersKept /\ NothingOutlivesItsProfile
      /\ \A o \in Servers : CallFits(serving[o])
  BY DEF PracticeInv, LedgerInv, CallsFit
<1>3. PICK s \in Attempts : s = serving[p]
  BY <1>1, <1>2, CallAt
<1>4. PICK q \in Asked : q = s.question
  BY <1>1, <1>3
<1>5. PICK text \in Texts : text = s.text /\ text = question[q]
  BY <1>1, <1>3, <1>4, AttemptsProfile, AskedIsOfStored
<1>6. PICK i \in Stored : i = s.profile /\ i = question[q].owner
  BY <1>1, <1>3, <1>4, <1>5, AttemptsProfile
<1>7. PICK d \in Learner : d = s.read
  BY DEF Attempts
<1>8. ReadBacked(i, d) /\ (i \notin raced => d = profile[i])
  <2>1. AttemptFits(s) /\ s.at[2] = "save"
    BY <1>1, <1>2, <1>3, CallAt DEF CallFits
  <2> QED
    BY <1>4, <1>6, <1>7, <2>1 DEF AttemptFits
<1>9. PICK u : u = UpdateProfile(d, q, text, correct)
  OBVIOUS
<1>10. PICK n : n = [no |-> Newest + 1, question |-> q, correct |-> correct]
  OBVIOUS
<1>11. /\ graded' = graded \cup {n}
       /\ raced' = IF \E o \in Servers \ {p} : Grades(o, i) THEN raced \cup {i} ELSE raced
  BY <1>3, <1>4, <1>6, <1>10 DEF SaveOutcome
<1>12. /\ q \in Questions /\ i \in Profiles
  BY DEF Asked, Stored
<1>13. /\ u \in Learner /\ u.recent = FirstOf(<<q>> \o d.recent)
       /\ \A c \in Concepts :
            /\ u.attempts[c] = d.attempts[c] + IF c \in text.concepts THEN 1 ELSE 0
            /\ u.correct[c] = d.correct[c] + IF correct /\ c \in text.concepts THEN 1 ELSE 0
       /\ u.mistakes = d.mistakes + IF text.tagged /\ ~correct THEN 1 ELSE 0
  BY <1>9, <1>12, UpdateCounts
<1>14. /\ profile' \in [Profiles -> Learner \cup {NoProfile}] /\ profile'[i] = u
       /\ progress' \in [Profiles -> Progresses] /\ mistakes' \in [Profiles -> Nat]
       /\ \A c \in Concepts :
            /\ progress'[i].attempts[c] = IF c \in text.concepts THEN u.attempts[c]
                                          ELSE progress[i].attempts[c]
            /\ progress'[i].correct[c] = IF c \in text.concepts THEN u.correct[c]
                                         ELSE progress[i].correct[c]
       /\ mistakes'[i] = mistakes[i] + IF text.tagged /\ ~correct THEN 1 ELSE 0
       /\ \A j \in Profiles : j # i =>
            profile'[j] = profile[j] /\ progress'[j] = progress[j] /\ mistakes'[j] = mistakes[j]
       /\ Stored' = Stored
  <2>1. /\ q = serving[p].question /\ i = serving[p].profile /\ text = serving[p].text
        /\ d = serving[p].read
    BY <1>3, <1>4, <1>5, <1>6, <1>7
  <2> QED
    BY <1>9, <2>1, RowsOfAnswer
<1>15. /\ n \in Answers /\ AnswersKept' /\ graded' \subseteq Answers /\ IsFiniteSet(graded')
  BY <1>10, <1>11, RowAdded
<1>16. /\ \A j : j # i => AnswersOf(j)' = AnswersOf(j)
       /\ AnswersOf(i)' = AnswersOf(i) \cup {n}
       /\ \A c : /\ Tried(i, c)' = Tried(i, c) + IF c \in text.concepts THEN 1 ELSE 0
                 /\ Right(i, c)' = Right(i, c) + IF correct /\ c \in text.concepts THEN 1 ELSE 0
       /\ Wrong(i)' = Wrong(i) + IF text.tagged /\ ~correct THEN 1 ELSE 0
  BY <1>1, <1>5, <1>6, <1>10, <1>11, CountsGrow
<1>17. /\ \A c : Tried(i, c) \in Nat /\ Right(i, c) \in Nat
       /\ Wrong(i) \in Nat
  BY <1>2, CountsAreNumbers
<1>18. /\ \A c \in Concepts : /\ d.attempts[c] \in Nat /\ d.correct[c] \in Nat
                              /\ progress[i].attempts[c] \in Nat /\ progress[i].correct[c] \in Nat
       /\ d.mistakes \in Nat
  BY <1>2, <1>12 DEF Learner, PracticeShapes, Progresses
<1>19. Asked' = Asked
  BY <1>1 DEF Asked
<1>20. PracticeShapes'
  <2>1. serving' = [serving EXCEPT ![p] = NoCall] /\ NoCall \in Calls
    BY <1>1, NoCallFits DEF Goto
  <2> QED
    BY <1>1, <1>2, <1>14, <1>15, <1>19, <2>1 DEF PracticeShapes
<1>21. NothingOutlivesItsProfile'
  <2>1. n.question \in Asked
    BY <1>10
  <2>2. \A j \in Profiles \ Stored : progress'[j] = NoProgress /\ mistakes'[j] = 0
    BY <1>2, <1>14 DEF NothingOutlivesItsProfile
  <2> QED
    BY <1>1, <1>2, <1>11, <1>14, <1>19, <2>1, <2>2 DEF NothingOutlivesItsProfile
<1>22. Backed(i)'
  <2>1. ASSUME NEW c \in Concepts
        PROVE  /\ u.attempts[c] <= Tried(i, c)' /\ u.correct[c] <= Right(i, c)'
               /\ u.correct[c] <= u.attempts[c]
    <3>1. /\ d.attempts[c] <= Tried(i, c) /\ d.correct[c] <= Right(i, c)
          /\ d.correct[c] <= d.attempts[c]
      BY <1>8 DEF ReadBacked
    <3> QED
      BY <1>13, <1>16, <1>17, <1>18, <3>1
  <2>2. u.mistakes <= Wrong(i)'
    BY <1>8, <1>13, <1>16, <1>17, <1>18 DEF ReadBacked
  <2>3. ReadBacked(i, u)'
    BY <2>1, <2>2 DEF ReadBacked
  <2>4. Backed(i)
    BY <1>2 DEF LedgerInv
  <2>5. mistakes'[i] = Wrong(i)'
    BY <1>14, <1>16, <2>4 DEF Backed
  <2>6. ASSUME NEW c \in Concepts
        PROVE  /\ progress'[i].attempts[c] <= Tried(i, c)'
               /\ progress'[i].correct[c] <= progress'[i].attempts[c]
    <3>1. /\ progress[i].attempts[c] <= Tried(i, c)
          /\ progress[i].correct[c] <= progress[i].attempts[c]
      BY <2>4 DEF Backed
    <3> QED
      BY <1>14, <1>16, <1>17, <1>18, <2>1, <3>1
  <2>7. ReadBacked(i, profile[i])'
    BY <1>14, <2>3 DEF ReadBacked
  <2> QED
    BY <2>5, <2>6, <2>7 DEF Backed
<1>23. ASSUME i \notin raced' PROVE Sums(i)'
  <2>1. i \notin raced
    BY <1>11, <1>23
  <2>2. Sums(i) /\ d = profile[i]
    BY <1>2, <1>8, <2>1 DEF LedgerInv
  <2>3. SumsUp(i, d) /\ Recents(i, d)
    BY <2>2 DEF Sums, SumsUp
  <2>4. Recents(i, u)'
    BY <1>1, <1>6, <1>10, <1>11, <1>13, <2>3, RecentsExtended
  <2>5. \A c \in Concepts : u.attempts[c] = Tried(i, c)' /\ u.correct[c] = Right(i, c)'
    BY <1>13, <1>16, <2>3 DEF SumsUp
  <2>6. u.mistakes = Wrong(i)'
    BY <1>13, <1>16, <2>3 DEF SumsUp
  <2>7. SumsUp(i, profile[i])'
    <3>1. SumsUp(i, u)'
      BY <2>4, <2>5, <2>6 DEF SumsUp
    <3> QED
      BY <1>14, <3>1 DEF SumsUp, Recents
  <2>8. progress'[i] = [attempts |-> u.attempts, correct |-> u.correct]
    <3>1. \A c \in Concepts :
            progress[i].attempts[c] = d.attempts[c] /\ progress[i].correct[c] = d.correct[c]
      BY <2>2 DEF Sums
    <3>2. \A c \in Concepts : /\ progress'[i].attempts[c] = u.attempts[c]
                              /\ progress'[i].correct[c] = u.correct[c]
      BY <1>13, <1>14, <1>18, <3>1
    <3>3. PICK g \in Progresses : g = progress'[i]
      BY <1>12, <1>14
    <3>4. /\ g.attempts \in [Concepts -> Nat] /\ g.correct \in [Concepts -> Nat]
          /\ g = [attempts |-> g.attempts, correct |-> g.correct]
      BY DEF Progresses
    <3>5. u.attempts \in [Concepts -> Nat] /\ u.correct \in [Concepts -> Nat]
      BY <1>13 DEF Learner
    <3>6. g.attempts = u.attempts /\ g.correct = u.correct
      BY <3>2, <3>3, <3>4, <3>5
    <3> QED
      BY <3>3, <3>4, <3>6
  <2> QED
    BY <1>14, <2>7, <2>8 DEF Sums
<1>24. LedgerInv'
  <2>1. ASSUME NEW j \in Stored, j # i PROVE Backed(j)' /\ (j \notin raced' => Sums(j)')
    <3>1. j \in Profiles /\ raced \subseteq raced'
      BY <1>11 DEF Stored
    <3>2. (Backed(j) => Backed(j)') /\ (Sums(j) => Sums(j)')
      BY <1>1, <1>14, <1>16, <2>1, <3>1, ProfileUntouched
    <3> QED
      BY <1>2, <3>1, <3>2 DEF LedgerInv
  <2>2. \A j \in Stored' : Backed(j)' /\ (j \notin raced' => Sums(j)')
    BY <1>14, <1>22, <1>23, <2>1
  <2> QED
    BY <1>21, <2>2 DEF LedgerInv
<1>25. ASSUME NEW j \in Profiles, NEW b, ReadBacked(j, b), b.mistakes \in Nat,
              \A c \in Concepts : b.attempts[c] \in Nat /\ b.correct[c] \in Nat
       PROVE  ReadBacked(j, b)'
  <2>1. CASE j # i
    BY <1>1, <1>14, <1>16, <1>25, <2>1, ProfileUntouched
  <2>2. CASE j = i
    BY <1>16, <1>17, <1>25, <2>2 DEF ReadBacked
  <2> QED
    BY <2>1, <2>2
<1>26. ASSUME NEW r \in Calls, CallFits(r), NEW o \in Servers \ {p}, r = serving[o]
       PROVE  CallFits(r)'
  <2>1. r \in Generates => r.question \notin Asked'
    BY <1>19, <1>26 DEF CallFits
  <2>2. ASSUME r \in Attempts, r.question \in Asked'
        PROVE  /\ r.question \in Asked /\ question'[r.question] = question[r.question]
               /\ r.at[2] # "read" =>
                   /\ ReadBacked(r.profile, r.read) => ReadBacked(r.profile, r.read)'
                   /\ r.profile \notin raced' =>
                        r.profile \notin raced /\ profile'[r.profile] = profile[r.profile]
    <3>1. r.question \in Asked /\ r.profile \in Profiles /\ r.read \in Learner
      BY <1>19, <2>2 DEF Attempts
    <3>2. ReadBacked(r.profile, r.read) => ReadBacked(r.profile, r.read)'
      BY <1>25, <3>1 DEF Learner
    <3>3. ASSUME r.at[2] # "read", r.profile \notin raced'
          PROVE  r.profile \notin raced /\ profile'[r.profile] = profile[r.profile]
      <4>1. r.at[2] \in {"continue", "save"}
        BY <1>26, <2>2, <3>1, <3>3 DEF CallFits, AttemptFits
      <4>2. r.at = <<"attempt", r.at[2]>>
        BY <2>2 DEF Attempts
      <4>3. Grades(o, r.profile)
        BY <1>26, <4>1, <4>2 DEF Grades, At, Step
      <4>4. r.profile # i
        BY <1>11, <3>3, <4>3
      <4> QED
        BY <1>11, <1>14, <3>1, <3>3, <4>4
    <3> QED
      BY <1>1, <3>1, <3>2, <3>3
  <2> QED
    BY <1>1, <1>2, <1>26, <2>1, <2>2, CallStays
<1> QED
  BY <1>1, <1>15, <1>20, <1>24, <1>26, NoCallFits, LedgerMovesOn
-----------------------------------------------------------------------------
(* The whole ledger.                                                       *)

LEMMA PracticeSteps ==
  ASSUME PracticeAssumption, PracticeInv, [PracticeNext]_practiceVars
  PROVE  PracticeInv'
<1>1. CASE PracticeNext
  <2>1. PICK p \in Servers :
          \/ \E i \in Profiles, q \in Questions, tagged \in BOOLEAN :
                \E concepts \in (SUBSET Concepts) \ {{}} : Generate(p, i, q, concepts, tagged)
          \/ SaveQuestion(p)
          \/ \E q \in Questions : Attempt(p, q)
          \/ \E op \in {"create", "generate", "attempt"} : GetOrCreate(p, op)
          \/ \E i \in Profiles : CreateProfile(p, i)
          \/ Created(p)
          \/ CheckProfile(p)
          \/ Recreate(p)
          \/ \E correct \in BOOLEAN : SaveOutcome(p, correct)
          \/ SaveFails(p)
          \/ \E i \in Profiles : DeleteProfileRead(p, i)
          \/ DeleteProfile(p)
    BY <1>1 DEF PracticeNext
  <2>2. CASE \E i \in Profiles, q \in Questions, tagged \in BOOLEAN :
               \E concepts \in (SUBSET Concepts) \ {{}} : Generate(p, i, q, concepts, tagged)
    BY <2>2, QuestionGenerated
  <2>3. CASE SaveQuestion(p)
    BY <2>3, QuestionSaved
  <2>4. CASE \E q \in Questions : Attempt(p, q)
    BY <2>4, CallBegins
  <2>5. CASE \E op \in {"create", "generate", "attempt"} : GetOrCreate(p, op)
    <3>1. PICK op \in {"create", "generate", "attempt"} : GetOrCreate(p, op)
      BY <2>5
    <3>2. CASE ProfileRead(p, op) \/ ProfileReread(p, op)
      BY <3>2, ProfileReads
    <3>3. CASE ProfileInsert(p, op)
      BY <3>3, ProfileInserts
    <3> QED
      BY <3>1, <3>2, <3>3 DEF GetOrCreate
  <2>6. CASE \E i \in Profiles : CreateProfile(p, i)
    BY <2>6, CallBegins
  <2>7. CASE Created(p)
    BY <2>7, CallEnds DEF Created
  <2>8. CASE CheckProfile(p)
    BY <2>8, ProfileChecked
  <2>9. CASE Recreate(p)
    BY <2>9, Recreates
  <2>10. CASE \E correct \in BOOLEAN : SaveOutcome(p, correct)
    BY <2>10, OutcomeSaved
  <2>11. CASE SaveFails(p)
    BY <2>11, CallEnds DEF SaveFails
  <2>12. CASE \E i \in Profiles : DeleteProfileRead(p, i)
    BY <2>12, CallBegins
  <2>13. CASE DeleteProfile(p)
    BY <2>13, ProfileDeleted
  <2> QED
    BY <2>1, <2>2, <2>3, <2>4, <2>5, <2>6, <2>7, <2>8, <2>9, <2>10, <2>11, <2>12, <2>13
<1>2. CASE UNCHANGED practiceVars
  <2>1. UNCHANGED tables /\ serving' = serving
    BY <1>2 DEF practiceVars, tables
  <2>2. AnswersKept' /\ LedgerInv' /\ Asked' = Asked
    BY <2>1, SameLedger
  <2>3. UNCHANGED <<profile, progress, question, graded, mistakes, asked, raced>>
    BY <2>1 DEF tables
  <2>4. PracticeShapes'
    BY <2>1, <2>2, <2>3 DEF PracticeInv, PracticeShapes
  <2>5. \A i, d : ReadBacked(i, d) => ReadBacked(i, d)'
    <3>1. \A i : AnswersOf(i)' = AnswersOf(i)
      BY <2>3 DEF AnswersOf
    <3>2. \A i : /\ \A c : Tried(i, c)' = Tried(i, c) /\ Right(i, c)' = Right(i, c)
                 /\ Wrong(i)' = Wrong(i)
      BY <2>3, <3>1, SameCounts
    <3> QED
      BY <3>2 DEF ReadBacked
  <2>6. ASSUME NEW o \in Servers PROVE CallFits(serving[o])'
    <3>1. PICK r : r = serving[o] /\ r = serving'[o]
      BY <2>1
    <3>2. CallFits(r)'
      BY <2>2, <2>3, <2>5, <3>1 DEF PracticeInv, CallsFit, CallFits, AttemptFits
    <3> QED
      BY <3>1, <3>2 DEF CallFits, AttemptFits
  <2>7. CallsFit'
    BY <2>1, <2>6 DEF PracticeInv, CallsFit, NewQuestion
  <2> QED
    BY <2>2, <2>4, <2>7 DEF PracticeInv
<1> QED
  BY <1>1, <1>2

LEMMA PracticeStarts ==
  ASSUME PracticeAssumption, PracticeInit
  PROVE  PracticeInv
<1>1. Asked = {} /\ Stored = {}
  BY DEF PracticeInit, Asked, Stored
<1>2. PracticeShapes
  <2>1. NoProgress \in Progresses
    BY DEF NoProgress, Progresses, Zero
  <2> QED
    BY <1>1, <2>1, NoCallFits, FS_EmptySet DEF PracticeInit, PracticeShapes
<1>3. AnswersKept
  <2>1. graded = {} /\ 0 \in Nat
    BY DEF PracticeInit
  <2> QED
    BY <2>1 DEF AnswersKept, Below
<1>4. LedgerInv
  BY <1>1 DEF PracticeInit, LedgerInv, NothingOutlivesItsProfile
<1>5. CallsFit
  <2>1. \A o \in Servers : serving[o] = NoCall
    BY DEF PracticeInit
  <2> QED
    BY <2>1, NoCallFits DEF CallsFit
<1> QED
  BY <1>2, <1>3, <1>4, <1>5 DEF PracticeInv

LEMMA PracticeSuffices ==
  ASSUME PracticeAssumption, PracticeInv
  PROVE  PracticeSound
<1>1. PracticeShapes /\ LedgerInv
  BY DEF PracticeInv
<1>2. \A i \in Stored : i \in Profiles /\ profile[i] \in Learner
  BY <1>1 DEF PracticeShapes, Stored
<1>3. PracticeTyped
  BY <1>1, <1>2 DEF PracticeTyped, PracticeShapes, Learner, Texts, Answers, Asked
<1>4. NothingOutlivesItsProfile
  BY <1>1 DEF LedgerInv
<1>5. CountsAreBacked
  BY <1>1 DEF LedgerInv, Backed, ReadBacked, CountsAreBacked
<1>6. ProfileSumsUpTheAnswers
  BY <1>1 DEF LedgerInv, Sums, SumsUp, Recents, ProfileSumsUpTheAnswers
<1> QED
  BY <1>3, <1>4, <1>5, <1>6 DEF PracticeSound

(* However the calls of any number of API processes interleave, for any    *)
(* profiles and questions: nothing of a deleted profile stays or comes     *)
(* back, every number a profile shows is backed by answers on file, and a  *)
(* profile no two answers of which were graded at the same time counts     *)
(* them all and names the latest.                                          *)
THEOREM PracticeStaysSound ==
  ASSUME PracticeAssumption
  PROVE  PracticeSpec => []PracticeSound
<1>1. PracticeInit => PracticeInv
  BY PracticeStarts
<1>2. PracticeInv /\ [PracticeNext]_practiceVars => PracticeInv'
  BY PracticeSteps
<1>3. PracticeInv => PracticeSound
  BY PracticeSuffices
<1> QED
  BY <1>1, <1>2, <1>3, PTL DEF PracticeSpec
=============================================================================
