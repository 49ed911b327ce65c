---------------------------- MODULE PracticeLedger ----------------------------
(***************************************************************************)
(* Learning profiles, practice questions and the answers to them: the      *)
(* endpoints of api/app.py, the grading of learning/service.py and the     *)
(* tables of persistence/.  A profile is one JSON document that an answer  *)
(* reads, extends and writes back whole; concept_progress repeats part of  *)
(* it.  API processes share the database and each serves one request at a  *)
(* time; every statement or transaction of it is a step.                   *)
(***************************************************************************)
EXTENDS Integers, Sequences, FiniteSets, FiniteSetsExt

CONSTANTS
    Profiles,    \* the profile ids callers use
    Questions,   \* the question ids uuid4 hands out
    Concepts,    \* what a question trains: concepts, and likewise streets and textures
    Servers,     \* the API processes
    Postgres,    \* TRUE for PostgresStore, FALSE for SQLiteStore
    RecentKept,  \* answers kept in recent_training (20)
    MaxAnswers   \* bound on the answers kept

\* What an instance assumes of its constants.
PracticeAssumption ==
    Postgres \in BOOLEAN /\ RecentKept \in Nat \ {0} /\ MaxAnswers \in Nat

VARIABLES
    profile,   \* learning_profiles: the document of an id, or NoProfile
    progress,  \* concept_progress: attempts and correct of a concept
    question,  \* practice_questions, or NoQuestion
    graded,    \* practice_attempts, numbered in the order they were saved
    mistakes,  \* mistake_records: how many a profile has
    asked,     \* the question ids handed out
    serving,   \* what a process is in the middle of
    raced      \* history: the profiles an answer to which was saved while another's was graded

practiceVars == <<profile, progress, question, graded, mistakes, asked, serving, raced>>
tables == <<profile, progress, question, graded, mistakes, asked, raced>>

Zero == [c \in Concepts |-> 0]
Empty == [attempts |-> Zero, correct |-> Zero, mistakes |-> 0, recent |-> <<>>]
NoProfile == [attempts |-> Zero, correct |-> Zero, mistakes |-> 0, recent |-> <<"none">>]
NoProgress == [attempts |-> Zero, correct |-> Zero]
NoQuestion == [owner |-> "none", concepts |-> {}, tagged |-> FALSE]
NoCall == [at |-> <<"none", "idle">>]
Stored == {i \in Profiles : profile[i] # NoProfile}
Asked == {q \in Questions : question[q] # NoQuestion}

PracticeInit ==
    /\ profile = [i \in Profiles |-> NoProfile]
    /\ progress = [i \in Profiles |-> NoProgress]
    /\ question = [q \in Questions |-> NoQuestion]
    /\ graded = {}
    /\ mistakes = [i \in Profiles |-> 0]
    /\ asked = {}
    /\ serving = [p \in Servers |-> NoCall]
    /\ raced = {}

Goto(p, c) == serving' = [serving EXCEPT ![p] = c]
Done(p) == Goto(p, NoCall)
-----------------------------------------------------------------------------
(* get_or_create_profile for the call named op: it reads, may insert, and  *)
(* with PostgreSQL reads again; the call goes on with the profile read.    *)

Step(op, step) == <<op, step>>
At(p, op, step) == serving[p].at = Step(op, step)
Continue(p, op, document) ==
    Goto(p, [serving[p] EXCEPT !.at = Step(op, "continue"), !.read = document])

ProfileRead(p, op) ==
    LET i == serving[p].profile IN
    /\ At(p, op, "read")
    /\ IF i \in Stored THEN Continue(p, op, profile[i])
       ELSE Goto(p, [serving[p] EXCEPT !.at = Step(op, "insert")])
    /\ UNCHANGED tables

\* A row another process inserted first stays: ON CONFLICT DO NOTHING with
\* PostgreSQL, an IntegrityError that ends the call with SQLite.
ProfileInsert(p, op) ==
    LET i == serving[p].profile IN
    /\ At(p, op, "insert")
    /\ profile' = IF i \in Stored THEN profile ELSE [profile EXCEPT ![i] = Empty]
    /\ IF Postgres THEN Goto(p, [serving[p] EXCEPT !.at = Step(op, "again")])
       ELSE IF i \in Stored THEN Done(p)
       ELSE Continue(p, op, Empty)
    /\ UNCHANGED <<progress, question, graded, mistakes, asked, raced>>

ProfileReread(p, op) ==
    LET i == serving[p].profile IN
    /\ At(p, op, "again")
    /\ Continue(p, op, IF i \in Stored THEN profile[i] ELSE Empty)
    /\ UNCHANGED tables

GetOrCreate(p, op) == ProfileRead(p, op) \/ ProfileInsert(p, op) \/ ProfileReread(p, op)

\* create_learning_profile does nothing else.
CreateProfile(p, i) ==
    /\ serving[p] = NoCall
    /\ Goto(p, [at |-> Step("create", "read"), profile |-> i, read |-> Empty])
    /\ UNCHANGED tables

Created(p) ==
    /\ At(p, "create", "continue")
    /\ Done(p)
    /\ UNCHANGED tables
-----------------------------------------------------------------------------
(* generate_practice: the profile is looked up or created, the question is *)
(* generated and saved.                                                    *)

Generate(p, i, q, concepts, tagged) ==
    /\ serving[p] = NoCall
    /\ q \notin asked
    /\ asked' = asked \cup {q}
    /\ Goto(p, [at |-> Step("generate", "read"), profile |-> i, question |-> q, read |-> Empty,
                text |-> [owner |-> i, concepts |-> concepts, tagged |-> tagged]])
    /\ UNCHANGED <<profile, progress, question, graded, mistakes, raced>>

\* The question refers to its profile: REFERENCES learning_profiles.
SaveQuestion(p) ==
    /\ At(p, "generate", "continue")
    /\ question' = IF serving[p].profile \in Stored
                   THEN [question EXCEPT ![serving[p].question] = serving[p].text]
                   ELSE question
    /\ Done(p)
    /\ UNCHANGED <<profile, progress, graded, mistakes, asked, raced>>
-----------------------------------------------------------------------------
(* attempt_practice: read the question, then the profile, grade, save.     *)

Attempt(p, q) ==
    /\ serving[p] = NoCall
    /\ q \in Asked
    /\ Goto(p, [at |-> Step("attempt", "read"), profile |-> question[q].owner, question |-> q,
                read |-> Empty, text |-> question[q]])
    /\ UNCHANGED tables

FirstOf(s) == SubSeq(s, 1, IF Len(s) < RecentKept THEN Len(s) ELSE RecentKept)

UpdateProfile(d, q, text, correct) ==
    [attempts |-> [c \in Concepts |-> d.attempts[c] + IF c \in text.concepts THEN 1 ELSE 0],
     correct |-> [c \in Concepts |->
                    d.correct[c] + IF correct /\ c \in text.concepts THEN 1 ELSE 0],
     mistakes |-> d.mistakes + IF text.tagged /\ ~correct THEN 1 ELSE 0,
     recent |-> FirstOf(<<q>> \o d.recent)]

\* save_practice_outcome looks the profile up again, not to read it: SQLite
\* creates one that is gone, PostgreSQL raises StoreNotFound.
CheckProfile(p) ==
    LET i == serving[p].profile IN
    /\ At(p, "attempt", "continue")
    /\ IF i \in Stored THEN Goto(p, [serving[p] EXCEPT !.at = Step("attempt", "save")])
       ELSE IF Postgres THEN Done(p)
       ELSE Goto(p, [serving[p] EXCEPT !.at = Step("attempt", "recreate")])
    /\ UNCHANGED tables

Recreate(p) ==
    LET i == serving[p].profile IN
    /\ At(p, "attempt", "recreate")
    /\ profile' = IF i \in Stored THEN profile ELSE [profile EXCEPT ![i] = Empty]
    /\ IF i \in Stored THEN Done(p) ELSE Goto(p, [serving[p] EXCEPT !.at = Step("attempt", "save")])
    /\ UNCHANGED <<progress, question, graded, mistakes, asked, raced>>

Newest == Max({a.no : a \in graded} \cup {0})
Grades(o, i) == (At(o, "attempt", "continue") \/ At(o, "attempt", "save")) /\ serving[o].profile = i

\* The transaction of save_practice_outcome.  An attempt refers to its question:
\* when that is gone the whole transaction is rolled back.
SaveOutcome(p, correct) ==
    LET s == serving[p] i == s.profile
        d == UpdateProfile(s.read, s.question, s.text, correct) IN
    /\ At(p, "attempt", "save")
    /\ s.question \in Asked
    /\ Cardinality(graded) < MaxAnswers
    /\ graded' = graded \cup {[no |-> Newest + 1, question |-> s.question, correct |-> correct]}
    /\ raced' = IF \E o \in Servers \ {p} : Grades(o, i) THEN raced \cup {i} ELSE raced
    /\ profile' = [profile EXCEPT ![i] = d]
    /\ progress' = [progress EXCEPT ![i].attempts =
                      [c \in Concepts |-> IF c \in s.text.concepts THEN d.attempts[c] ELSE @[c]],
                    ![i].correct =
                      [c \in Concepts |-> IF c \in s.text.concepts THEN d.correct[c] ELSE @[c]]]
    /\ mistakes' = [mistakes EXCEPT ![i] = @ + IF s.text.tagged /\ ~correct THEN 1 ELSE 0]
    /\ Done(p)
    /\ UNCHANGED <<question, asked>>

\* mutant: the profile is not part of the transaction
SaveFails_HalfDone(p) ==
    LET s == serving[p] IN
    /\ At(p, "attempt", "save")
    /\ s.question \notin Asked /\ s.profile \in Stored
    /\ profile' = [profile EXCEPT ![s.profile] = UpdateProfile(s.read, s.question, s.text, TRUE)]
    /\ Done(p)
    /\ UNCHANGED <<progress, question, graded, mistakes, asked, raced>>

SaveFails(p) ==
    /\ At(p, "attempt", "save")
    /\ serving[p].question \notin Asked
    /\ Done(p)
    /\ UNCHANGED tables
-----------------------------------------------------------------------------
(* delete_learning_profile: what refers to the profile goes with it.       *)

DeleteProfileRead(p, i) ==
    /\ serving[p] = NoCall
    /\ i \in Stored
    /\ Goto(p, [at |-> Step("delete", "write"), profile |-> i])
    /\ UNCHANGED tables

DeleteProfile(p) ==
    LET i == serving[p].profile
        gone == {q \in Asked : question[q].owner = i} IN
    /\ At(p, "delete", "write")
    /\ profile' = [profile EXCEPT ![i] = NoProfile]
    /\ progress' = [progress EXCEPT ![i] = NoProgress]
    /\ question' = [q \in Questions |-> IF q \in gone THEN NoQuestion ELSE question[q]]
    /\ graded' = {a \in graded : a.question \notin gone}
    /\ mistakes' = [mistakes EXCEPT ![i] = 0]
    /\ Done(p)
    /\ raced' = raced \ {i}
    /\ UNCHANGED asked

PracticeNext == \E p \in Servers :
    \/ \E i \in Profiles, q \in Questions, tagged \in BOOLEAN :
        \E concepts \in (SUBSET Concepts) \ {{}} : Generate(p, i, q, concepts, tagged)
    \/ SaveQuestion(p)
    \/ \E q \in Questions : Attempt(p, q)
    \/ \E op \in {"create", "generate", "attempt"} : GetOrCreate(p, op)
    \/ \E i \in Profiles : CreateProfile(p, i)
    \/ Created(p)
    \/ CheckProfile(p)
    \/ Recreate(p)
    \/ \E correct \in BOOLEAN : SaveOutcome(p, correct)
    \/ SaveFails(p)
    \/ \E i \in Profiles : DeleteProfileRead(p, i)
    \/ DeleteProfile(p)

PracticeSpec == PracticeInit /\ [][PracticeNext]_practiceVars
-----------------------------------------------------------------------------
AnswersOf(i) == {a \in graded : question[a.question].owner = i}
Tried(i, c) == Cardinality({a \in AnswersOf(i) : c \in question[a.question].concepts})
Right(i, c) == Cardinality({a \in AnswersOf(i) : a.correct /\ c \in question[a.question].concepts})
Wrong(i) == Cardinality({a \in AnswersOf(i) : ~a.correct /\ question[a.question].tagged})
Later(i, a) == Cardinality({b \in AnswersOf(i) : b.no > a.no})

(* Every table has the shape the schema gives it, and recent_training its  *)
(* bound.                                                                  *)
PracticeTyped ==
    /\ \A i \in Stored :
        /\ profile[i].attempts \in [Concepts -> Nat] /\ profile[i].correct \in [Concepts -> Nat]
        /\ profile[i].mistakes \in Nat
        /\ profile[i].recent \in Seq(Questions) /\ Len(profile[i].recent) <= RecentKept
    /\ \A q \in Asked : question[q] \in
        [owner : Profiles, concepts : SUBSET Concepts, tagged : BOOLEAN]
    /\ \A a \in graded : a \in [no : Nat \ {0}, question : Questions, correct : BOOLEAN]
    /\ mistakes \in [Profiles -> Nat]

(* Deleting a profile leaves nothing of it, and nothing comes back, however*)
(* a late question or answer interleaves with the deletion.                *)
NothingOutlivesItsProfile ==
    /\ \A i \in Profiles \ Stored : progress[i] = NoProgress /\ mistakes[i] = 0
    /\ \A q \in Asked : question[q].owner \in Stored
    /\ \A a \in graded : a.question \in Asked

(* What a profile counts is backed by answers that are stored: answers     *)
(* graded at the same time may be left out, none is counted twice, and     *)
(* none that was deleted.                                                  *)
CountsAreBacked == \A i \in Stored :
    /\ \A c \in Concepts :
        /\ profile[i].attempts[c] <= Tried(i, c)
        /\ profile[i].correct[c] <= Right(i, c)
        /\ profile[i].correct[c] <= profile[i].attempts[c]
        /\ progress[i].attempts[c] <= Tried(i, c)
        /\ progress[i].correct[c] <= progress[i].attempts[c]
    /\ profile[i].mistakes <= Wrong(i) /\ mistakes[i] = Wrong(i)

(* A profile none of whose answers were graded at the same time counts     *)
(* every one, names the latest, and concept_progress agrees with it.       *)
ProfileSumsUpTheAnswers == \A i \in Stored \ raced :
    /\ \A c \in Concepts :
        /\ profile[i].attempts[c] = Tried(i, c)
        /\ profile[i].correct[c] = Right(i, c)
    /\ progress[i] = [attempts |-> profile[i].attempts, correct |-> profile[i].correct]
    /\ profile[i].mistakes = Wrong(i)
    /\ \A a \in AnswersOf(i) : Later(i, a) < RecentKept =>
        Later(i, a) < Len(profile[i].recent) /\ profile[i].recent[Later(i, a) + 1] = a.question
    /\ Len(profile[i].recent) <= Cardinality(AnswersOf(i))

(* The documents, the counters and the answers tell one story, and a       *)
(* complete one where the answers came one at a time.                      *)
PracticeSound ==
    /\ PracticeTyped /\ NothingOutlivesItsProfile /\ CountsAreBacked
    /\ ProfileSumsUpTheAnswers
=============================================================================
